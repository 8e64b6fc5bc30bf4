------------------------------- MODULE Dialog -------------------------------
(***************************************************************************)
(* What the dialogs of lxdialog share: the screen, the list of items of    *)
(* util.c, and the window menubox.c and checklist.c scroll it in.  One     *)
(* dialog is open at a time; its locals are zero while none is.            *)
(*                                                                         *)
(* The window is kept as it was drawn, row by row: scrolling moves what is *)
(* on it, and it shows the items only if every step prints the right one.  *)
(* An item is [data, tag, letter]: what it stands for, what its caller     *)
(* does with it, and the key that jumps to it.  Items count from 0.        *)
(***************************************************************************)
EXTENDS Integers, Sequences

CONSTANTS Heights,   \* numbers of lines the terminal may have
          NoData     \* a null item_data()

ASSUME HeightsAssumption == Heights \subseteq Nat

VARIABLES open,      \* the dialog on the screen, "none" or "killed"
          height,    \* lines of the terminal
          button,    \* the button Enter is for
          drawn,     \* the button drawn highlighted
          resized,   \* resized since the dialog was opened (history)
          result,    \* what the last dialog returned
          items,     \* the list the dialog is about
          picked,    \* the item set selected, -1 without one
          s_scroll,  \* the scroll position the innermost conf() keeps
          scroll, choice, first_item,
          win,       \* row -> [item, lit]: what the window shows
          arrows     \* [up, down]: the scroll indicators it shows

listVars   == <<items, picked, s_scroll, scroll, choice, first_item, win, arrows>>
dialogVars == <<open, height, button, drawn, resized, result>>

Least(a, b) == IF a < b THEN a ELSE b
Most(a, b)  == IF a > b THEN a ELSE b

item_count == Len(items)
item(n)    == items[n + 1]

\* do_print_item, print_item
Cell(n, lit) == [item |-> n, lit |-> lit]
PrintItem(w, row, n, lit) == [w EXCEPT ![row] = Cell(n, lit)]

\* wscrl by n lines, line by line, each time printing the row that comes in.
Scrolled(w, n, from) ==
    [i \in DOMAIN w |-> IF i + n \in DOMAIN w THEN w[i + n] ELSE Cell(from + n + i, FALSE)]

\* print_buttons
Push(b, d) == button' = b /\ drawn' = d

\* LEFT, and RIGHT or TAB, over the buttons 0 to last.
Buttons(last) == \E b \in {(button + 1) % (last + 1), (button + last) % (last + 1)} : Push(b, b)

NoWindow == /\ scroll' = 0 /\ choice' = 0 /\ first_item' = 0
            /\ win' = <<>> /\ arrows' = [up |-> FALSE, down |-> FALSE]

Ended == button' = 0 /\ drawn' = 0 /\ resized' = FALSE

\* A dialog returns r; item_set_selected has been called for item n, or for none.
Return(r, n) == /\ open' = "none" /\ result' = r /\ picked' = n
                /\ Ended /\ NoWindow
                /\ UNCHANGED <<height, items>>

Stay == UNCHANGED <<open, height, resized, result, items, picked, s_scroll, first_item>>
Moved == Stay /\ UNCHANGED <<button, drawn>>

\* A new size: too few lines end the dialog.  Else it is laid out again, with the
\* first button drawn highlighted whichever Enter is for.
TooLow(h)  == height' = h /\ open' = "none" /\ result' = "small" /\ Ended
Resized(h) == height' = h /\ resized' = TRUE /\ drawn' = 0 /\ UNCHANGED <<button, result>>
=============================================================================
