----------------------------- MODULE MCOldconfig ------------------------------
EXTENDS Oldconfig, MCSample

CONSTANT N          \* an int symbol below the menu Sub

\* The choice comes before what its values depend on.
KidsHere == [KidsOf EXCEPT ![Root] = <<MODULES, C, A, Sub>>]
MenuOfN == N :> Sub
NumPrompts == N :> SymE(A)
\* default 5; range 1 4 if B; range 2 7
DefaultTexts == N :> <<[text |-> 5, cond |-> Y1]>>
RangesOfN == N :> <<[lo |-> 1, hi |-> 4, cond |-> SymE(B)], [lo |-> 2, hi |-> 7, cond |-> Y1]>>
AllOptions == {"ask_all", "ask_silent", "sync", "set_default", "set_no", "set_mod", "set_yes", "set_random"}

Modular == MODULES :> yes @@ A :> yes @@ B :> mod @@ S :> mod
Old(t, n) == [tri |-> t, num |-> n]
Files == {NoFile, Old(<<>>, <<>>), Old(MODULES :> yes @@ X :> yes, <<>>),
          Old(Modular @@ X :> no @@ Y :> yes, N :> 6),
          Old(Modular @@ X :> mod @@ Y :> mod, N :> NotANumber),
          Old(MODULES :> mod @@ A :> yes @@ X :> yes, N :> 3)}
Default == Old(MODULES :> yes @@ A :> mod, N :> 7)
AllOf == {NoFile, Old(MODULES :> yes @@ X :> yes, <<>>)}
SomeTexts == {1, 6, 9, 18, NotANumber}
\* With MODULES at n the choice is y, and one of its values is picked.
Dice == {r \in [Syms -> Tristate] : r[MODULES] \in {no, yes} /\ r[S] = mod /\ r[X] = yes /\ r[ModulesSym] = no}

(***************************************************************************)
(* Two choices, and nothing else: C of X and Y, and, if X, S of A and B.   *)
(* for_all_symbols meets S first (Hashed).                                 *)
(***************************************************************************)
TwoMembers   == [s \in Syms |-> CASE s = C -> <<X, Y>> [] s = S -> <<A, B>> [] OTHER -> <<>>]
TwoChoiceOf  == X :> C @@ Y :> C @@ A :> S @@ B :> S
TwoPrompts   == [s \in Syms |-> CASE s = ModulesSym -> NoPrompt
                                  [] s = S          -> SymE(X)
                                  [] s \in {A, B}   -> SymE(S)
                                  [] s \in {X, Y}   -> SymE(C)
                                  [] OTHER          -> Y1]
OnlyModules  == [s \in Syms |-> IF s = ModulesSym THEN DefaultsOf[s] ELSE <<>>]
TwoRevDeps   == [s \in Syms |-> IF TwoMembers[s] # <<>> THEN Two("and", TwoPrompts[s], SymE("m")) ELSE SymE("n")]
OnlyRoot     == {Root}
RootDep      == Root :> Y1
TwoKids      == [e \in Syms \union OnlyRoot |-> IF e = Root THEN <<MODULES, C, S>> ELSE TwoMembers[e]]
NoNumbers    == <<>>
NoneOf       == {NoFile}
===============================================================================
