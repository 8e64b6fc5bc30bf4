SPECIFICATION Spec
CONSTANTS
    B = B
    T = T
    Bools <- BoolSyms
    Tris <- TriSyms
    ParentDeps <- MenuDeps
    EntryDeps <- Deps
    Depth = 8
    FrontDeps <- OtherDeps
INVARIANTS
    TransformKeepsValue
    ReduceKeepsValue
    PromptKeepsVisibility
    NestedFollows
CHECK_DEADLOCK FALSE
