---------------------------- MODULE MCMenuconfig ------------------------------
EXTENDS Menuconfig, MCSample

\* No file, an empty one, one from before Y was there, and two with modules, where the
\* choice is y or m.
Modular == MODULES :> yes @@ A :> yes @@ B :> mod @@ S :> mod
Files == {NoFile, <<>>, MODULES :> yes @@ A :> yes @@ X :> yes, Modular @@ X :> no @@ Y :> yes, Modular @@ X :> mod @@ Y :> mod}
=============================================================================
