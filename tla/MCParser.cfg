CONSTANTS
    A = A
    B = B
    D = D
    MODULES = MODULES
    ModulesSym = ModulesSym
    Nobody = Nobody
    main = main
    f = f
    g = g
    Names = {A, B, D, MODULES}
    MaxEntries = 8
    MainFile = main
    Scripts <- AllScripts
    Unended = {g}
    HashOrder <- InHashOrder
SPECIFICATION Spec
INVARIANTS
    ReadRight
    TreeSound
    Inherited
    CyclesRejected
CHECK_DEADLOCK FALSE
