SPECIFICATION Spec
CONSTANTS
    A = A
    B = B
    f = f
    h = h
    p = p
    q = q
    Unset = n
    Values = {n, y}
    Syms = {A, B}
    Sources = {f, h}
    Objects = {p, q}
    Files <- FilesOf
    ArgSyms <- ArgsOf
    MaxEdits = 2
    MaxFails = 2
INVARIANT
    UsersRebuilt
