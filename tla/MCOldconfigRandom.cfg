SPECIFICATION ConfSpec
CONSTANTS
    MODULES = MODULES
    ModulesSym = ModulesSym
    A = A
    B = B
    S = S
    C = C
    X = X
    Y = Y
    N = N
    Sub = Sub
    Root = Root
    NoPrompt = NoPrompt
    Nobody = Nobody
    NoFile = NoFile
    NotANumber = NotANumber
    Width = 4
    Depth = 1
    MaxLines = 5
    NeedOfY <- YesA
    Bools <- BoolSyms
    Tris <- TriSyms
    Prompt <- TwoPrompts
    Defaults <- OnlyModules
    RevDep <- TwoRevDeps
    Members <- TwoMembers
    ChoiceOf <- TwoChoiceOf
    Menus <- OnlyRoot
    MenuDep <- RootDep
    Kids <- TwoKids
    HashOrder <- Hashed
    Numbers = {}
    NumMenu <- NoNumbers
    NumPrompt <- NoNumbers
    NumDefaults <- NoNumbers
    Ranges <- NoNumbers
    Options = {"set_random"}
    FirstConfigs <- NoneOf
    DefaultFile = NoFile
    AllFiles <- NoneOf
    Texts <- SomeTexts
    Randoms <- Dice
INVARIANTS
    OneOfChoice
