------------------------------ MODULE Inputbox ------------------------------
(***************************************************************************)
(* dialog_inputbox of lxdialog/inputbox.c: a string longer than its field. *)
(* instr is dialog_input_result up to its first null; button is -1 in the  *)
(* field.  The dialog takes 10 or 11 lines but only asks for 9.            *)
(***************************************************************************)
EXTENDS Dialog

CONSTANTS Chars,     \* what can be typed
          BoxWidth,  \* box_width, 69 or 49
          MAX_LEN    \* 2048

ASSUME InputAssumption == BoxWidth \in Nat \ {0, 1} /\ MAX_LEN \in Nat /\ "blank" \notin Chars

VARIABLES instr, input_x, left_x, field
\* left_x is the local scroll; field is what the cells of the box show, "blank" for an empty one.

inputVars == <<instr, input_x, left_x, field>>
\* The list a caller has made is not what these dialogs are about.
OnlyInput == UNCHANGED listVars

Columns == 0..(BoxWidth - 1)
\* The n cells from column 0 on show the string from position from on.
Shown(s, from, n) == [i \in Columns |-> IF i < n /\ from + i < Len(s) THEN s[from + i + 1] ELSE "blank"]

Put(f, at, c) == [i \in Columns |-> IF i = at THEN c ELSE f[i]]

\* Writing c and a null at position p: past the null of the string it is not seen.
Poke(s, p, c) == IF p <= Len(s) THEN Append(SubSeq(s, 1, p), c) ELSE s

\* From do_resize: to the first key; l is scroll so far.
InputShow(s, l) ==
    LET over == Len(s) >= BoxWidth
        from == IF over THEN Len(s) - BoxWidth + 1 ELSE l
    IN  /\ left_x' = from
        /\ input_x' = IF over THEN BoxWidth - 1 ELSE Len(s)
        /\ field' = Shown(s, IF over THEN from ELSE 0, BoxWidth)

InputOpen(init) ==
    /\ open = "none"
    /\ instr' = init
    /\ IF height <= 8 THEN result' = "small" /\ UNCHANGED <<open, button, input_x, left_x, field>>
       ELSE open' = "input" /\ result' = "none" /\ button' = -1 /\ InputShow(init, 0)
    /\ UNCHANGED <<height, drawn, resized>> /\ OnlyInput

InputStays == UNCHANGED <<open, height, resized, result>> /\ OnlyInput
Typing == open = "input" /\ button = -1 /\ InputStays /\ UNCHANGED <<button, drawn>>

\* Slip: the field is not printed again when it scrolls.
TypeOver == /\ Typing
            /\ left_x + input_x < MAX_LEN
            /\ \E c \in Chars :
                 /\ instr' = Poke(instr, left_x + input_x, c)
                 /\ field' = Put(field, input_x, c)
                 /\ IF input_x = BoxWidth - 1 THEN left_x' = left_x + 1 /\ UNCHANGED input_x
                    ELSE input_x' = input_x + 1 /\ UNCHANGED left_x

Type == /\ Typing
        /\ left_x + input_x < MAX_LEN
        /\ \E c \in Chars :
             /\ instr' = Poke(instr, left_x + input_x, c)
             /\ IF input_x = BoxWidth - 1
                THEN /\ left_x' = left_x + 1
                     /\ field' = Put(Shown(instr', left_x', BoxWidth - 1), BoxWidth - 1, field[BoxWidth - 1])
                     /\ UNCHANGED input_x
                ELSE /\ input_x' = input_x + 1
                     /\ field' = Put(field, input_x, c)
                     /\ UNCHANGED left_x

\* At the left edge the field moves back by almost its width and nothing is
\* erased; elsewhere the last character is.
Backspace ==
    /\ Typing
    /\ \/ /\ input_x = 0 /\ left_x > 0
          /\ left_x' = Most(left_x - (BoxWidth - 1), 0)
          /\ input_x' = Len(instr) - left_x'
          /\ field' = Put(Shown(instr, left_x', BoxWidth), input_x', "blank")
          /\ UNCHANGED instr
       \/ /\ input_x > 0
          /\ input_x' = input_x - 1
          /\ instr' = SubSeq(instr, 1, Least(left_x + input_x', Len(instr)))
          /\ field' = Put(field, input_x', "blank")
          /\ UNCHANGED left_x

\* UP, or LEFT on a button; TAB or DOWN, or RIGHT on a button.
InputButton == /\ open = "input"
               /\ \E b \in {-1, 0, 1} \ {button} : Push(b, Most(b, 0))
               /\ InputStays /\ UNCHANGED inputVars

\* instr is the global dialog_input_result and outlives the dialog.
InputReturn(r) == /\ open' = "none" /\ result' = r /\ Ended
                  /\ input_x' = 0 /\ left_x' = 0 /\ field' = <<>>
                  /\ UNCHANGED <<instr, height>> /\ OnlyInput

\* Enter; o, h and x are keys only on the buttons.
InputEnter == /\ open = "input"
              /\ InputReturn(IF button = 1 THEN "help" ELSE "ok")
InputKey   == /\ open = "input" /\ button # -1
              /\ \E r \in {"ok", "help", "esc"} : InputReturn(r)
InputLeave == open = "input" /\ InputReturn("esc")

InputResize ==
    /\ open = "input"
    /\ \E h \in Heights \ {height} :
         IF h <= 8 THEN TooLow(h) /\ input_x' = 0 /\ left_x' = 0 /\ field' = <<>>
         ELSE Resized(h) /\ InputShow(instr, left_x) /\ UNCHANGED open
    /\ UNCHANGED instr /\ OnlyInput

InputNext == \/ Type \/ Backspace \/ InputButton
             \/ InputEnter \/ InputKey \/ InputLeave \/ InputResize
=============================================================================
