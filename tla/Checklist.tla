------------------------------ MODULE Checklist ------------------------------
(***************************************************************************)
(* dialog_checklist of lxdialog/checklist.c, a list of which one item is   *)
(* taken.  The tag "X" marks the item that has been.                       *)
(***************************************************************************)
EXTENDS Dialog

CONSTANT ListHeight   \* list_height, 6 in conf_choice; the dialog takes 21 lines

ASSUME ListAssumption == ListHeight \in Nat \ {0, 1}

ListRows == Least(ListHeight, item_count)

\* print_arrows: drawn when the list scrolls, not when the highlight moves.
ListArrows(from, at) ==
    [up |-> from > 0, down |-> ListHeight < item_count /\ from + at < item_count - 1]

\* The item to start at: the selected one, or else the last one marked.
Marked == {n \in 0..(item_count - 1) : item(n).tag = "X"}
Start(selected) == IF selected # -1 THEN selected
                   ELSE IF Marked = {} THEN 0 ELSE CHOOSE n \in Marked : \A k \in Marked : k <= n

\* From do_resize: to the first key.
ListShow(from, at) ==
    LET top == IF at >= ListHeight THEN from + at - ListHeight + 1 ELSE from
        row == from + at - top
    IN  /\ scroll' = top /\ choice' = row
        /\ win' = [i \in 0..(ListRows - 1) |-> Cell(top + i, i = row)]
        /\ arrows' = ListArrows(top, row)

\* picked is what item_set_selected was called for before.
ListOpen ==
    /\ open = "none"
    /\ IF height < 21 THEN result' = "small" /\ UNCHANGED <<open, scroll, choice, win, arrows>>
       ELSE open' = "list" /\ result' = "none" /\ ListShow(0, Start(picked))
    /\ UNCHANGED <<height, button, drawn, resized, items, picked, s_scroll, first_item>>

Relight(i) == /\ choice' = i
              /\ win' = PrintItem(PrintItem(win, choice, scroll + choice, FALSE), i, scroll + i, TRUE)
              /\ UNCHANGED <<scroll, arrows>>
              /\ Moved

\* A row at the edge is printed without the highlight before the list scrolls.
ListScroll(row, n) ==
    /\ scroll' = scroll + n
    /\ win' = PrintItem(Scrolled(PrintItem(win, row, scroll + row, FALSE), n, scroll), row, scroll + n + row, TRUE)
    /\ arrows' = ListArrows(scroll + n, choice)
    /\ UNCHANGED choice
    /\ Moved

ListUp == /\ open = "list"
          /\ \/ choice > 0 /\ Relight(choice - 1)
             \/ choice = 0 /\ scroll > 0 /\ ListScroll(0, -1)

ListDown == /\ open = "list"
            /\ \/ choice < ListRows - 1 /\ Relight(choice + 1)
               \/ /\ choice = ListRows - 1 /\ scroll + choice < item_count - 1
                  /\ ListScroll(ListRows - 1, 1)

\* A letter, whatever else the key may do: the first row that begins with it.
ListLettered(c) == {i \in 0..(ListRows - 1) : item(scroll + i).letter = c}
ListJump == /\ open = "list"
            /\ \E c \in {item(scroll + i).letter : i \in 0..(ListRows - 1)} :
                 Relight(CHOOSE i \in ListLettered(c) : \A k \in ListLettered(c) : i <= k)

ListButton == /\ open = "list" /\ Buttons(1)
              /\ Stay /\ UNCHANGED <<scroll, choice, win, arrows>>

\* s, space or Enter; h or ?.  The highlighted item is selected, no other.
ListSelect == /\ open = "list"
              /\ Return(<<"select", "help">>[button + 1], scroll + choice) /\ UNCHANGED s_scroll
ListHelp   == /\ open = "list" /\ Return("help", scroll + choice) /\ UNCHANGED s_scroll
\* x or ESC
ListLeave  == /\ open = "list" /\ Return("esc", -1) /\ UNCHANGED s_scroll

ListResize ==
    /\ open = "list"
    /\ \E h \in Heights \ {height} :
         IF h < 21 THEN TooLow(h) /\ NoWindow
         ELSE Resized(h) /\ ListShow(scroll, choice) /\ UNCHANGED <<open, first_item>>
    /\ UNCHANGED <<items, picked, s_scroll>>

ListNext == \/ ListUp \/ ListDown \/ ListJump \/ ListButton
            \/ ListSelect \/ ListHelp \/ ListLeave \/ ListResize
=============================================================================
