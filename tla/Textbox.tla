------------------------------- MODULE Textbox -------------------------------
(***************************************************************************)
(* dialog_textbox of lxdialog/textbox.c: a text shown a page at a time.    *)
(* page points behind what is shown: to a line, counted from 0, or to the  *)
(* end of the text, which counts as the line after the last.               *)
(***************************************************************************)
EXTENDS Dialog

CONSTANT MaxHscroll   \* bound on hscroll, MAX_LEN

ASSUME HscrollAssumption == MaxHscroll \in Nat

VARIABLES text,   \* [lines, ended, rows]: its lines, whether the last one ends
                  \* with a newline, and the dialog's height if that is fixed
          page, begin_reached, end_reached, page_length, hscroll,
          lines   \* what each row of the box shows, -1 for nothing

textVars == <<text, page, begin_reached, end_reached, page_length, hscroll, lines>>
OnlyText == UNCHANGED listVars

\* boxh
BoxRows(t, h) == (IF t.rows # 0 THEN t.rows ELSE h - 4) - 4
boxh == BoxRows(text, height)

\* get_line from line p on, row by row: the row that reaches the end, and what is read.
EndRow(t, p) == IF t.ended \/ p = t.lines THEN t.lines - p ELSE t.lines - p - 1
LineAt(t, n) == IF n < t.lines THEN n ELSE -1

\* print_page from line p
PrintPage(t, p, rows) ==
    /\ lines' = [i \in 0..(rows - 1) |-> LineAt(t, p + i)]
    /\ page' = Least(p + rows, t.lines)
    /\ page_length' = Least(rows, EndRow(t, p) + 1)
    /\ end_reached' = (EndRow(t, p) < rows)

\* Slip: the end of the text is no line of the page.
BackNoEnd(n) == [line |-> Most(page - n, 0), first |-> page <= n]

\* back_lines: the end of the text, when it has been shown, counts as a line.
Back(n) == LET k == IF page = text.lines /\ end_reached THEN n - 1 ELSE n
           IN  [line |-> Most(page - k, 0), first |-> k > 0 /\ page <= k]

TextOpen(t) ==
    /\ open = "none"
    /\ text' = t
    /\ hscroll' = 0
    /\ IF height < 8
       THEN result' = "small" /\ UNCHANGED <<open, page, begin_reached, end_reached, page_length, lines>>
       ELSE /\ open' = "text" /\ result' = "none"
            /\ begin_reached' = TRUE /\ PrintPage(t, 0, BoxRows(t, height))
    /\ UNCHANGED <<height, button, drawn, resized>> /\ OnlyText

TextStays == UNCHANGED <<open, height, button, drawn, resized, result, text>> /\ OnlyText

Reprint(b) == begin_reached' = b.first /\ PrintPage(text, b.line, boxh)

\* g or HOME; G or END
FirstPage == /\ open = "text" /\ ~begin_reached
             /\ begin_reached' = TRUE
             /\ PrintPage(text, 0, boxh)
             /\ TextStays /\ UNCHANGED hscroll
LastPage  == /\ open = "text"
             /\ LET p == text.lines - (boxh - 1)
                IN  begin_reached' = (boxh > 1 /\ p <= 0) /\ PrintPage(text, Most(p, 0), boxh)
             /\ TextStays /\ UNCHANGED hscroll

\* k or UP: the box scrolls and only its first row is printed.
PreviousLine ==
    /\ open = "text" /\ ~begin_reached
    /\ LET b == Back(page_length + 1)
       IN  /\ begin_reached' = b.first
           /\ lines' = [i \in 0..(boxh - 1) |-> IF i = 0 THEN LineAt(text, b.line) ELSE lines[i - 1]]
           /\ page' = Least(b.line + boxh, text.lines)
           /\ page_length' = Least(boxh, EndRow(text, b.line) + 1)
           /\ end_reached' = (EndRow(text, b.line) < boxh)
    /\ TextStays /\ UNCHANGED hscroll

\* j or DOWN
NextLine ==
    /\ open = "text" /\ ~end_reached
    /\ begin_reached' = FALSE
    /\ lines' = [i \in 0..(boxh - 1) |-> IF i = boxh - 1 THEN LineAt(text, page) ELSE lines[i + 1]]
    /\ end_reached' = (EndRow(text, page) = 0)
    /\ page' = Least(page + 1, text.lines)
    /\ TextStays /\ UNCHANGED <<page_length, hscroll>>

PreviousPage == /\ open = "text" /\ ~begin_reached
                /\ Reprint(Back(page_length + boxh))
                /\ TextStays /\ UNCHANGED hscroll
NextPage     == /\ open = "text" /\ ~end_reached
                /\ begin_reached' = FALSE
                /\ PrintPage(text, page, boxh)
                /\ TextStays /\ UNCHANGED hscroll

\* 0, h or LEFT; l or RIGHT
Sideways == /\ open = "text"
            /\ \/ hscroll > 0 /\ hscroll' \in {0, hscroll - 1}
               \/ hscroll < MaxHscroll /\ hscroll' = hscroll + 1
            /\ Reprint(Back(page_length))
            /\ TextStays

TextIdle == page' = 0 /\ page_length' = 0 /\ hscroll' = 0 /\ lines' = <<>>
            /\ begin_reached' = FALSE /\ end_reached' = FALSE

\* e, x, Enter or ESC
TextLeave == /\ open = "text"
             /\ open' = "none" /\ result' = "esc" /\ Ended /\ TextIdle
             /\ UNCHANGED <<height, text>> /\ OnlyText

\* Back by as many lines as the dialog is high, the frame included.
TextResize ==
    /\ open = "text"
    /\ \E h \in Heights \ {height} :
         IF h < 8 THEN TooLow(h) /\ TextIdle
         ELSE /\ Resized(h)
              /\ LET b == Back(boxh + 4)
                 IN  begin_reached' = b.first /\ PrintPage(text, b.line, BoxRows(text, h))
              /\ UNCHANGED <<open, hscroll>>
    /\ UNCHANGED text /\ OnlyText

TextNext == \/ FirstPage \/ LastPage \/ PreviousLine \/ NextLine \/ PreviousPage \/ NextPage
            \/ Sideways \/ TextLeave \/ TextResize
=============================================================================
