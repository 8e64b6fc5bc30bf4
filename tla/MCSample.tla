------------------------------- MODULE MCSample -------------------------------
(* A Kconfig with a select, a tristate choice, a menu and dependencies on m. *)
EXTENDS ConfData

CONSTANTS MODULES,     \* option modules
          A, B, S,     \* tristates: B depends on A and selects S
          C, X, Y,     \* a tristate choice and its values
          NeedOfY,     \* what Y depends on: A, or A being y
          Sub          \* a menu that depends on A and holds S

BoolSyms == {MODULES, ModulesSym}
TriSyms  == {A, B, S, C, X, Y}

\* What menu_finalize makes of
\*   config A; config B: depends on A, select S
\*   choice C: default Y if B; config X; config Y: depends on NeedOfY
\*   menu Sub: depends on A; config S: default m if X
Y1 == SymE("y")
AnyA == SymE(A)
YesA == Cmp("eq", A, "y")
PromptOf == [s \in Syms |-> CASE s = ModulesSym -> NoPrompt
                              [] s \in {B, S}   -> SymE(A)
                              [] s = X          -> SymE(C)
                              [] s = Y          -> Two("and", SymE(C), NeedOfY)
                              [] OTHER          -> Y1]
DefaultsOf == [s \in Syms |-> CASE s = ModulesSym -> <<[value |-> SymE(MODULES), cond |-> Y1]>>
                                [] s = S          -> <<[value |-> SymE("m"), cond |-> Two("and", SymE(A), SymE(X))]>>
                                [] s = C          -> <<[value |-> SymE(Y), cond |-> SymE(B)]>>
                                [] OTHER          -> <<>>]
RevDepOf == [s \in Syms |-> CASE s = S -> Two("and", SymE(B), SymE(A))
                              [] s = C -> Two("and", Y1, SymE("m"))
                              [] OTHER -> SymE("n")]
MembersOf == [s \in Syms |-> IF s = C THEN <<X, Y>> ELSE <<>>]
ChoiceOfThem == X :> C @@ Y :> C

AllMenus == {Root, Sub}
MenuDeps == Root :> Y1 @@ Sub :> SymE(A)
KidsOf == [e \in Syms \union AllMenus |-> CASE e = Root -> <<MODULES, A, C, Sub>>
                                            [] e = A    -> <<B>>
                                            [] e = C    -> <<X, Y>>
                                            [] e = Sub  -> <<S>>
                                            [] OTHER    -> <<>>]
Hashed == <<S, B, A, Y, X, MODULES, C, ModulesSym>>
=============================================================================
