------------------------------ MODULE MCScreens ------------------------------
(***************************************************************************)
(* A main menu of six items and one submenu, at sizes of the terminal    *)
(* that show three rows or all of them, or nothing.                    *)
(***************************************************************************)
EXTENDS Screens, TLC

CONSTANTS Main, Sub, C, D, E, S, X, Y, a

It1(d, t, l) == [data |-> d, tag |-> t, letter |-> l]
RootItems == <<It1(D, "t", "d"), It1(C, "t", "c"), It1(Sub, "m", " "), It1(S, "s", "d"),
               It1(NoData, "L", "l"), It1(NoData, "S", "s")>>
SubItems  == <<It1(E, "t", "e"), It1(D, "t", "d"), It1(NoData, ":", "c")>>

\* All there is; or an item of the main menu and all of the submenu gone.
MCListings == {Main :> RootItems @@ Sub :> SubItems, Main :> Tail(RootItems) @@ Sub :> <<>>}

MCValues == C :> <<[sym |-> X, letter |-> "x"], [sym |-> NoData, letter |-> "*"], [sym |-> Y, letter |-> "x"]>>
MCStrings   == {<<a>>, <<a, a, a>>}
MCHelpTexts == {[lines |-> 11, ended |-> TRUE, rows |-> 0]}
MCBoxTexts  == {[lines |-> 2, ended |-> FALSE, rows |-> 6]}
=============================================================================
