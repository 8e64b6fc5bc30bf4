------------------------------- MODULE Menubox -------------------------------
(***************************************************************************)
(* dialog_menu of lxdialog/menubox.c.                                      *)
(***************************************************************************)
EXTENDS Dialog

\* The frame around the items takes 14 lines.
MenuRows(h) == Least(h - 14, item_count)
max_choice  == MenuRows(height)

\* print_arrows
MenuArrows(from, h) == [up |-> from > 0, down |-> from + (h - 14) < item_count]

\* From do_resize: to the first key.  at and first are choice and first_item so
\* far, and selected the data of the item to start at.
Layout(h, selected, at, first) ==
    LET rows == MenuRows(h)
        named == {n \in 0..(item_count - 1) : selected # NoData /\ item(n).data = selected}
        want == IF named = {} THEN at ELSE CHOOSE n \in named : \A k \in named : k <= n
        fits == s_scroll <= want /\ want < s_scroll + rows /\ s_scroll + rows <= item_count
        far  == ~fits /\ want >= rows
        from == IF fits THEN s_scroll
                ELSE IF ~far THEN 0
                ELSE IF want >= item_count - rows \div 2 THEN item_count - rows
                ELSE want - rows \div 2
    IN  [scroll |-> from, choice |-> want - from, first |-> IF fits \/ far THEN from ELSE first]

Show(l, h) == /\ open' = "menu"
              /\ scroll' = l.scroll /\ choice' = l.choice /\ first_item' = l.first
              /\ win' = [i \in 0..(MenuRows(h) - 1) |-> Cell(l.first + i, i = l.choice)]
              /\ arrows' = MenuArrows(l.scroll, h)

\* item_set past the last item leaves item_cur null: printing that ends the program.
Killed == open' = "killed" /\ NoWindow

ShowOrDie(l, h) == IF l.first + MenuRows(h) <= item_count THEN Show(l, h) ELSE Killed

MenuOpen(selected) ==
    /\ open = "none"
    /\ IF height < 15 THEN result' = "small" /\ UNCHANGED <<open, scroll, choice, first_item, win, arrows>>
       ELSE result' = "none" /\ ShowOrDie(Layout(height, selected, 0, 0), height)
    /\ UNCHANGED <<height, button, drawn, resized, items, picked, s_scroll>>

(***************************************************************************)
(* Keys that move the highlight.  The row it was on is printed without it, *)
(* and the row it is on then with it.                                      *)
(***************************************************************************)
Unlit == PrintItem(win, choice, scroll + choice, FALSE)
Relit(w, from, at) == /\ scroll' = from /\ choice' = at
                      /\ win' = PrintItem(w, at, from + at, TRUE)
                      /\ arrows' = MenuArrows(from, height)
                      /\ Moved

\* UP or -
MenuUp == /\ open = "menu"
          /\ IF choice < 2 /\ scroll > 0
             THEN Relit(Scrolled(Unlit, -1, scroll), scroll - 1, choice)
             ELSE Relit(Unlit, scroll, Most(choice - 1, 0))

\* Slip: the row that comes in shows the item that was there.
MenuDownStale == /\ open = "menu"
                 /\ IF choice > max_choice - 3 /\ scroll + max_choice < item_count
                    THEN Relit(Scrolled(Unlit, 1, scroll - 1), scroll + 1, choice)
                    ELSE Relit(Unlit, scroll, Least(choice + 1, max_choice - 1))

\* DOWN or +
MenuDown == /\ open = "menu"
            /\ IF choice > max_choice - 3 /\ scroll + max_choice < item_count
               THEN Relit(Scrolled(Unlit, 1, scroll), scroll + 1, choice)
               ELSE Relit(Unlit, scroll, Least(choice + 1, max_choice - 1))

\* max_choice times: a line further up, or if there is none, the highlight.
MenuPageUp == /\ open = "menu"
              /\ LET n == Least(scroll, max_choice)
                 IN  Relit(Scrolled(Unlit, -n, scroll), scroll - n, Most(choice - (max_choice - n), 0))

MenuPageDown == /\ open = "menu"
                /\ LET n == Least(item_count - max_choice - scroll, max_choice)
                   IN  Relit(Scrolled(Unlit, n, scroll), scroll + n,
                             Least(choice + (max_choice - n), max_choice - 1))

\* A letter: the next row below with it, or the first one; y, n, m and h never.
Lettered(c) == {i \in 0..(max_choice - 1) : item(scroll + i).letter = c}
Jumps(c)    == Lettered(c) # {}
First(rows) == CHOOSE i \in rows : \A k \in rows : i <= k
MenuJump == /\ open = "menu"
            /\ \E c \in {item(scroll + i).letter : i \in 0..(max_choice - 1)} :
                 LET below == {i \in Lettered(c) : i > choice}
                 IN  Relit(Unlit, scroll, First(IF below # {} THEN below ELSE Lettered(c)))

MenuButton == /\ open = "menu" /\ Buttons(2)
              /\ Stay /\ UNCHANGED <<scroll, choice, win, arrows>>

(***************************************************************************)
(* Keys that end the dialog, unless they are the letter of an item shown.  *)
(***************************************************************************)
\* The position is kept and the highlighted item selected.
MenuSelect(r) == s_scroll' = scroll /\ Return(r, scroll + choice)

\* s or y, n, m, space and /
MenuKey == /\ open = "menu"
           /\ \/ \E r \in {"yes", "no", "mod"} : MenuSelect(r)
              \/ ~Jumps(" ") /\ MenuSelect("toggle")
              \/ MenuSelect("search")

\* Enter, and h or ? for Help
MenuEnter == /\ open = "menu" /\ MenuSelect(<<"select", "exit", "help">>[button + 1])
MenuHelp  == /\ open = "menu" /\ MenuSelect("help")

\* e, x or ESC; on_key_esc ignores an ESC that begins another key.
MenuLeave == /\ open = "menu" /\ Return("esc", -1) /\ UNCHANGED s_scroll

\* The dialog is laid out again with the item it was opened at; without one,
\* choice counts rows here but is taken for an item.
MenuResize(selected) ==
    /\ open = "menu"
    /\ \E h \in Heights \ {height} :
         IF h < 15 THEN TooLow(h) /\ NoWindow
         ELSE Resized(h) /\ ShowOrDie(Layout(h, selected, choice, first_item), h)
    /\ UNCHANGED <<items, picked, s_scroll>>

MenuNext(selected) == \/ MenuUp \/ MenuDown \/ MenuPageUp \/ MenuPageDown \/ MenuJump \/ MenuButton
                      \/ MenuKey \/ MenuEnter \/ MenuHelp \/ MenuLeave \/ MenuResize(selected)
=============================================================================
