-------------------------------- MODULE MCBuild --------------------------------
EXTENDS Build, TLC

CONSTANTS A, B,     \* symbols
          f, h,     \* a source of its own for p, and a header of both objects
          p, q

FilesOf == p :> {f, h} @@ q :> {h}
ArgsOf  == p :> {} @@ q :> {A}
================================================================================
