SPECIFICATION Spec
CONSTANTS
    MODULES = MODULES
    ModulesSym = ModulesSym
    A = A
    B = B
    S = S
    C = C
    X = X
    Y = Y
    Sub = Sub
    Root = Root
    NoPrompt = NoPrompt
    Nobody = Nobody
    NoFile = NoFile
    ConfigName = dotconfig
    Depth = 1
    Names = {dotconfig, other}
    MaxSteps = 3
    NeedOfY <- YesA
    Bools <- BoolSyms
    Tris <- TriSyms
    Prompt <- PromptOf
    Defaults <- DefaultsOf
    RevDep <- RevDepOf
    Members <- MembersOf
    ChoiceOf <- ChoiceOfThem
    Menus <- AllMenus
    MenuDep <- MenuDeps
    Kids <- KidsOf
    HashOrder <- Hashed
    FirstFiles <- Files
INVARIANTS
    Coherent
    ChoiceOne
    WithinDependencies
    TakesEffect
    Retrievable
    NothingLost
