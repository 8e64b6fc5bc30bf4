SPECIFICATION ConfSpec
CONSTANTS
    MODULES = MODULES
    ModulesSym = ModulesSym
    A = A
    B = B
    S = S
    C = C
    X = X
    Y = Y
    N = N
    Sub = Sub
    Root = Root
    NoPrompt = NoPrompt
    Nobody = Nobody
    NoFile = NoFile
    NotANumber = NotANumber
    Width = 4
    Depth = 1
    MaxLines = 5
    NeedOfY <- AnyA
    Bools <- BoolSyms
    Tris <- TriSyms
    Prompt <- PromptOf
    Defaults <- DefaultsOf
    RevDep <- RevDepOf
    Members <- MembersOf
    ChoiceOf <- ChoiceOfThem
    Menus <- AllMenus
    MenuDep <- MenuDeps
    Kids <- KidsHere
    HashOrder <- Hashed
    Numbers = {N}
    NumMenu <- MenuOfN
    NumPrompt <- NumPrompts
    NumDefaults <- DefaultTexts
    Ranges <- RangesOfN
    Options <- AllOptions
    FirstConfigs <- Files
    DefaultFile <- Default
    AllFiles <- AllOf
    Texts <- SomeTexts
    Randoms <- Dice
INVARIANTS
    NoVainPass
