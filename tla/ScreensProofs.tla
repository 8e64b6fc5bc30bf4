---------------------------- MODULE ScreensProofs ----------------------------
(***************************************************************************)
(* Proofs about the screens of menuconfig: what a dialog shows is what its *)
(* variables say, however long it is used and however often the terminal   *)
(* is resized, for any menus, texts, strings and sizes.                    *)
(*                                                                         *)
(* Each property has an invariant of its own, for its own dialog.  They    *)
(* rest on Phase, which says whose dialog may be open: it makes every      *)
(* other step leave the dialog's variables alone.                          *)
(***************************************************************************)
EXTENDS Screens, SequenceTheorems, WellFoundedInduction, TLAPS

Texts == HelpTexts \union BoxTexts

\* The dialog that is open belongs to what the program is doing.
Phase ==
    /\ height \in Heights
    /\ open \in {"none", "menu", "killed", "list", "input", "text", "yesno"}
    /\ open \in {"menu", "killed"} => at = "in" /\ In("conf")
    /\ open = "list"  => at = "in" /\ In("choice")
    /\ open = "input" => at = "in" /\ ~In("conf") /\ ~In("choice")
    /\ open = "text"  => at = "text"
    /\ open = "yesno" => at = "answer"

\* A step with no dialog on the screen, before it or after it.
NoneOpen == open = "none" /\ UNCHANGED <<dialogVars, left_x, input_x, field>>

\* A text or a message box is opened.
TextShown == \E t \in Texts : TextOpen(t) /\ at' = "text" /\ UNCHANGED inputVars

-----------------------------------------------------------------------------
(***************************************************************************)
(* What a step does to the dialogs.                                        *)
(***************************************************************************)
LEMMA KeySteps ==
    ASSUME Phase, KeyPressed
    PROVE  /\ Phase'
           /\ UNCHANGED mainVars
           /\ open' \in {open, "none", "killed"}
           /\ \/ open = "menu"  /\ MenuNext(Top.active) /\ UNCHANGED <<inputVars, textVars>>
              \/ open = "list"  /\ ListNext  /\ UNCHANGED <<inputVars, textVars>>
              \/ open = "input" /\ InputNext /\ UNCHANGED textVars
              \/ open = "text"  /\ TextNext  /\ UNCHANGED inputVars
              \/ open = "yesno" /\ YesnoNext /\ UNCHANGED <<inputVars, textVars>>
<1>1. CASE MenuNext(Top.active) /\ UNCHANGED <<inputVars, textVars, mainVars>>
  <2>1. open = "menu" /\ open' \in {"none", "menu", "killed"} /\ height' \in {height} \union Heights
    BY <1>1 DEF MenuNext, MenuUp, MenuDown, MenuPageUp, MenuPageDown, MenuJump, MenuButton, MenuKey,
                MenuEnter, MenuHelp, MenuLeave, MenuResize, Relit, Moved, Stay, MenuSelect, Return,
                TooLow, Resized, ShowOrDie, Show, Killed
  <2> QED BY <1>1, <2>1 DEF Phase, mainVars, In, Top
<1>2. CASE ListNext /\ UNCHANGED <<inputVars, textVars, mainVars>>
  <2>1. open = "list" /\ open' \in {"none", "list"} /\ height' \in {height} \union Heights
    BY <1>2 DEF ListNext, ListUp, ListDown, ListJump, ListButton, ListSelect, ListHelp, ListLeave,
                ListResize, Relight, ListScroll, Moved, Stay, Return, TooLow, Resized
  <2> QED BY <1>2, <2>1 DEF Phase, mainVars, In, Top
<1>3. CASE InputNext /\ UNCHANGED <<textVars, mainVars>>
  <2>1. open = "input" /\ open' \in {"none", "input"} /\ height' \in {height} \union Heights
    BY <1>3 DEF InputNext, Type, Backspace, InputButton, InputEnter, InputKey, InputLeave,
                InputResize, Typing, InputStays, InputReturn, TooLow, Resized
  <2> QED BY <1>3, <2>1 DEF Phase, mainVars, In, Top
<1>4. CASE TextNext /\ UNCHANGED <<inputVars, mainVars>>
  <2>1. open = "text" /\ open' \in {"none", "text"} /\ height' \in {height} \union Heights
    BY <1>4 DEF TextNext, FirstPage, LastPage, PreviousLine, NextLine, PreviousPage, NextPage,
                Sideways, TextLeave, TextResize, TextStays, TooLow, Resized
  <2> QED BY <1>4, <2>1 DEF Phase, mainVars, In, Top
<1>5. CASE YesnoNext /\ UNCHANGED <<inputVars, textVars, mainVars>>
  <2>1. open = "yesno" /\ open' \in {"none", "yesno"} /\ height' \in {height} \union Heights
    BY <1>5 DEF YesnoNext, YesnoButton, YesnoEnter, YesnoKey, YesnoResize, YesnoReturn, TooLow, Resized
  <2> QED BY <1>5, <2>1 DEF Phase, mainVars, In, Top
<1> QED BY <1>1, <1>2, <1>3, <1>4, <1>5 DEF KeyPressed
LEMMA PhaseStart == Init => Phase
BY DEF Init, Phase

LEMMA OtherSteps ==
    ASSUME Phase, Next, ~KeyPressed
    PROVE  Phase' /\ (NoneOpen \/ ConfOpen \/ ChoiceOpen \/ InputStart \/ TextShown \/ Ask)
<1> USE DEF Returned
<1>1. ASSUME Leave, open = "none"
      PROVE  Phase' /\ NoneOpen
  BY <1>1 DEF Leave, Phase, NoneOpen, NoDialog, dialogVars, inputVars
<1>2. ASSUME NEW fs, Loop(fs), open = "none"
      PROVE  Phase' /\ NoneOpen
  BY <1>2 DEF Loop, Phase, NoneOpen, NoDialog, dialogVars, inputVars
<1>3. ASSUME NEW fs, NEW f, NEW m, NEW a, Call(fs, f, m, a), open = "none"
      PROVE  Phase' /\ NoneOpen
  BY <1>3 DEF Call, Phase, NoneOpen, NoDialog, dialogVars, inputVars
<1>4. ASSUME NEW fs, NEW t \in Texts, ShowText(fs, t)
      PROVE  Phase' /\ TextShown
  <2>1. open' \in {"none", "text"} /\ at' = "text" /\ height' = height
    BY <1>4 DEF ShowText, TextOpen
  <2> QED BY <1>4, <2>1 DEF ShowText, Phase, TextShown
<1>5. ASSUME NEW l, NEW n, Made(l, n), at \in {"loop", "made"}
      PROVE  UNCHANGED <<dialogVars, left_x, input_x, field>> /\ open = "none"
  BY <1>5 DEF Made, Phase, dialogVars
<1>6. CASE ConfMake
  BY <1>6, <1>1, <1>5 DEF ConfMake, NoneOpen, Phase, dialogVars
<1>7. CASE ChoiceMake
  BY <1>7, <1>5 DEF ChoiceMake, NoneOpen, Phase, dialogVars
<1>8. CASE ConfOpen
  <2>1. open' \in {"none", "menu", "killed"} /\ at' = "in" /\ frames' = frames /\ height' = height
    BY <1>8 DEF ConfOpen, Opened, MenuOpen, ShowOrDie, Show, Killed
  <2> QED BY <1>8, <2>1 DEF ConfOpen, Phase, In, Top
<1>9. CASE ChoiceOpen
  <2>1. open' \in {"none", "list"} /\ at' = "in" /\ frames' = frames /\ height' = height
    BY <1>9 DEF ChoiceOpen, Opened, ListOpen
  <2> QED BY <1>9, <2>1 DEF ChoiceOpen, Phase, In, Top
<1>10. CASE InputStart
  <2>1. open' \in {"none", "input"} /\ at' = "in" /\ height' = height
    BY <1>10 DEF InputStart, Opened, InputOpen
  <2>2. ~In("conf")' /\ ~In("choice")'
    BY <1>10 DEF InputStart, Opened, In, Top
  <2> QED BY <1>10, <2>1, <2>2 DEF Phase
<1>11. CASE Ask
  <2>1. (open' = "none" /\ open = "none") \/ (open' = "yesno" /\ at' = "answer") \/ open' = open
    BY <1>11 DEF Ask, YesnoOpen, Finish, NoDialog, dialogVars, Phase
  <2>2. open = "none" /\ height' = height
    BY <1>11 DEF Ask, YesnoOpen, Finish, NoDialog, dialogVars, Phase
  <2> QED BY <1>11, <2>1, <2>2 DEF Phase
<1>12. CASE Answered
  BY <1>12, <1>3 DEF Answered, Finish, NoDialog, NoneOpen, Phase, dialogVars, inputVars
<1>13. CASE TextClosed
  BY <1>13, <1>2 DEF TextClosed
<1>14. CASE ConfLeft \/ ChoiceLeft \/ InputLeft \/ SearchTooLow
  BY <1>14, <1>1 DEF ConfLeft, ChoiceLeft, InputLeft, SearchTooLow
<1>15. CASE Submenu \/ ConfSearch
  BY <1>15, <1>3 DEF Submenu, ConfSearch
<1>16. CASE ConfSelected
  BY <1>16, <1>2, <1>3 DEF ConfSelected
<1>17. CASE ConfHelp \/ ChoiceHelp \/ InputHelp \/ SearchEntered
  BY <1>17, <1>4 DEF ConfHelp, ChoiceHelp, InputHelp, SearchEntered, HelpShown, Texts
<1>18. CASE ConfValue
  BY <1>18, <1>2, <1>4 DEF ConfValue, Texts
<1>19. CASE ChoiceSelected
  BY <1>19, <1>1, <1>2 DEF ChoiceSelected
<1>20. CASE StringEntered \/ LoadEntered \/ SaveEntered
  BY <1>20, <1>1, <1>4 DEF StringEntered, LoadEntered, SaveEntered, Refused, Texts
<1>21. CASE InputTooLow
  BY <1>21, <1>2 DEF InputTooLow
<1> QED BY <1>6, <1>7, <1>8, <1>9, <1>10, <1>11, <1>12, <1>13, <1>14, <1>15, <1>16, <1>17, <1>18,
           <1>19, <1>20, <1>21 DEF Next

LEMMA PhaseStep ==
    ASSUME Phase, [Next]_vars
    PROVE  Phase'
<1>1. CASE UNCHANGED vars
  BY <1>1 DEF vars, Phase, dialogVars, mainVars, In, Top
<1> QED BY <1>1, KeySteps, OtherSteps

\* Every dialog on the screen belongs to the function that opened it: nothing else
\* goes on while a dialog waits for a key.
THEOREM PhaseCorrect == Spec => []Phase
BY PhaseStart, PhaseStep, PTL DEF Spec

-----------------------------------------------------------------------------
(***************************************************************************)
(* The input box.  Since it was opened, the cursor stands behind the last  *)
(* character, and the field is drawn anew whenever it scrolls.             *)
(***************************************************************************)
FieldInv ==
    open = "input" /\ ~resized =>
        /\ instr \in Seq(Chars) /\ left_x \in Nat /\ input_x \in Columns
        /\ left_x + input_x = Len(instr) /\ Len(instr) <= MAX_LEN
        /\ field = Shown(instr, left_x, BoxWidth)

LEMMA InputShowField ==
    ASSUME NEW s \in Seq(Chars), InputShow(s, 0)
    PROVE  /\ left_x' \in Nat /\ input_x' \in Columns
           /\ left_x' + input_x' = Len(s)
           /\ field' = Shown(s, left_x', BoxWidth)
<1>1. Len(s) \in Nat /\ BoxWidth \in Nat /\ BoxWidth > 1
  BY InputAssumption, LenProperties
<1>2. CASE Len(s) >= BoxWidth
  BY <1>1, <1>2 DEF InputShow, Columns
<1>3. CASE ~(Len(s) >= BoxWidth)
  BY <1>1, <1>3 DEF InputShow, Columns
<1> QED BY <1>2, <1>3

LEMMA TypeField ==
    ASSUME FieldInv, Type, ~resized
    PROVE  FieldInv'
<1>0. open = "input" /\ ~resized' /\ left_x + input_x < MAX_LEN
  BY DEF Type, Typing, InputStays
<1>1. instr \in Seq(Chars) /\ left_x \in Nat /\ input_x \in 0..(BoxWidth - 1)
      /\ left_x + input_x = Len(instr) /\ field = Shown(instr, left_x, BoxWidth)
  BY <1>0 DEF FieldInv, Columns
<1>2. Len(instr) \in Nat /\ BoxWidth \in Nat /\ BoxWidth > 1 /\ MAX_LEN \in Nat
  BY <1>1, InputAssumption, LenProperties
<1>3. PICK c \in Chars :
        /\ instr' = Poke(instr, left_x + input_x, c)
        /\ IF input_x = BoxWidth - 1
           THEN /\ left_x' = left_x + 1
                /\ field' = Put(Shown(instr', left_x', BoxWidth - 1), BoxWidth - 1, field[BoxWidth - 1])
                /\ UNCHANGED input_x
           ELSE /\ input_x' = input_x + 1
                /\ field' = Put(field, input_x, c)
                /\ UNCHANGED left_x
  BY DEF Type
<1>4. instr' = Append(instr, c)
  BY <1>1, <1>2, <1>3, SubSeqFull DEF Poke
<1>5. /\ instr' \in Seq(Chars) /\ Len(instr') = Len(instr) + 1
      /\ \A i \in 1..Len(instr) : instr'[i] = instr[i]
      /\ instr'[Len(instr) + 1] = c
  BY <1>1, <1>4
<1>6. CASE input_x = BoxWidth - 1
  <2>1. left_x' = left_x + 1 /\ input_x' = input_x
    BY <1>3, <1>6
  <2>2. field[BoxWidth - 1] = "blank"
    BY <1>1, <1>2, <1>6 DEF Shown, Columns
  <2>3. field' = Shown(instr', left_x', BoxWidth)
    <3>1. field' = Put(Shown(instr', left_x', BoxWidth - 1), BoxWidth - 1, "blank")
      BY <1>3, <1>6, <2>2
    <3>2. \A i \in Columns : field'[i] = Shown(instr', left_x', BoxWidth)[i]
      BY <3>1, <2>1, <1>1, <1>2, <1>5, <1>6 DEF Put, Shown, Columns
    <3> QED BY <3>1, <3>2 DEF Put, Shown
  <2> QED BY <1>0, <1>1, <1>2, <1>5, <1>6, <2>1, <2>3 DEF FieldInv, Columns
<1>7. CASE input_x # BoxWidth - 1
  <2>1. left_x' = left_x /\ input_x' = input_x + 1 /\ field' = Put(field, input_x, c)
    BY <1>3, <1>7
  <2>2. field' = Shown(instr', left_x', BoxWidth)
    <3>1. ASSUME NEW i \in Columns
          PROVE  field'[i] = Shown(instr', left_x', BoxWidth)[i]
      <4>1. i \in Nat /\ i < BoxWidth /\ field'[i] = (IF i = input_x THEN c ELSE field[i])
        BY <2>1, <1>2 DEF Put, Columns
      <4>2. field[i] = IF left_x + i < Len(instr) THEN instr[left_x + i + 1] ELSE "blank"
        BY <1>1, <4>1 DEF Shown
      <4>3. Shown(instr', left_x', BoxWidth)[i]
               = IF left_x + i < Len(instr) + 1 THEN instr'[left_x + i + 1] ELSE "blank"
        BY <1>5, <2>1, <4>1 DEF Shown
      <4>4. CASE i < input_x
        <5>1. left_x + i + 1 \in 1..Len(instr) /\ left_x + i < Len(instr)
          BY <1>1, <1>2, <4>1, <4>4
        <5> QED BY <5>1, <1>1, <1>2, <1>5, <4>1, <4>2, <4>3, <4>4
      <4>5. CASE i = input_x
        BY <1>1, <1>2, <1>5, <4>1, <4>3, <4>5
      <4>6. CASE i > input_x
        BY <1>1, <1>2, <4>1, <4>2, <4>3, <4>6
      <4> QED BY <1>1, <4>1, <4>4, <4>5, <4>6
    <3> QED BY <2>1, <3>1 DEF Put, Shown
  <2> QED BY <1>0, <1>1, <1>2, <1>5, <1>7, <2>1, <2>2 DEF FieldInv, Columns
<1> QED BY <1>6, <1>7

LEMMA BackspaceField ==
    ASSUME FieldInv, Backspace, ~resized
    PROVE  FieldInv'
<1>0. open = "input" /\ ~resized'
  BY DEF Backspace, Typing, InputStays
<1>1. instr \in Seq(Chars) /\ left_x \in Nat /\ input_x \in 0..(BoxWidth - 1)
      /\ left_x + input_x = Len(instr) /\ field = Shown(instr, left_x, BoxWidth)
      /\ Len(instr) <= MAX_LEN
  BY <1>0 DEF FieldInv, Columns
<1>2. Len(instr) \in Nat /\ BoxWidth \in Nat /\ BoxWidth > 1 /\ MAX_LEN \in Nat
  BY <1>1, InputAssumption, LenProperties
<1>3. CASE input_x = 0 /\ left_x > 0
  <2>1. /\ left_x' = Most(left_x - (BoxWidth - 1), 0) /\ input_x' = Len(instr) - left_x'
        /\ field' = Put(Shown(instr, left_x', BoxWidth), input_x', "blank") /\ instr' = instr
    BY <1>3, <1>1 DEF Backspace
  <2>2. left_x' \in Nat /\ input_x' \in 0..(BoxWidth - 1) /\ left_x' + input_x' = Len(instr)
    BY <2>1, <1>1, <1>2, <1>3 DEF Most
  <2>3. ASSUME NEW i \in Columns
        PROVE  field'[i] = Shown(instr, left_x', BoxWidth)[i]
    <3>1. field'[i] = IF i = input_x' THEN "blank" ELSE Shown(instr, left_x', BoxWidth)[i]
      BY <2>1 DEF Put
    <3>2. Shown(instr, left_x', BoxWidth)[input_x'] = "blank"
      <4>1. ASSUME NEW j \in Columns, left_x' + j = Len(instr)
            PROVE  Shown(instr, left_x', BoxWidth)[j] = "blank"
        BY <4>1, <1>2 DEF Shown
      <4> QED BY <4>1, <2>2 DEF Columns
    <3> QED BY <3>1, <3>2
  <2>4. field' = Shown(instr', left_x', BoxWidth)
    BY <2>1, <2>3 DEF Put, Shown
  <2> QED BY <1>1, <2>1, <2>2, <2>4 DEF FieldInv, Columns
<1>4. CASE input_x > 0
  <2>1. /\ input_x' = input_x - 1 /\ left_x' = left_x /\ field' = Put(field, input_x', "blank")
        /\ instr' = SubSeq(instr, 1, Least(left_x + input_x', Len(instr)))
    BY <1>4, <1>1 DEF Backspace
  <2>2. instr' = SubSeq(instr, 1, Len(instr) - 1) /\ Len(instr) >= 1
    BY <2>1, <1>1, <1>2, <1>4 DEF Least
  <2>3. /\ instr' \in Seq(Chars) /\ Len(instr') = Len(instr) - 1
        /\ \A i \in 1..(Len(instr) - 1) : instr'[i] = instr[i]
    <3>1. \A i \in 1..(Len(instr) - 1) : instr[i] \in Chars
      BY <1>1, <1>2
    <3> QED BY <2>2, <3>1, <1>1, <1>2
  <2>4. ASSUME NEW i \in Columns
        PROVE  field'[i] = Shown(instr', left_x', BoxWidth)[i]
    <3>1. i \in Nat /\ i < BoxWidth /\ field'[i] = (IF i = input_x - 1 THEN "blank" ELSE field[i])
      BY <2>1, <1>2 DEF Put, Columns
    <3>2. field[i] = IF left_x + i < Len(instr) THEN instr[left_x + i + 1] ELSE "blank"
      BY <1>1, <3>1 DEF Shown
    <3>3. Shown(instr', left_x', BoxWidth)[i]
             = IF left_x + i < Len(instr) - 1 THEN instr'[left_x + i + 1] ELSE "blank"
      BY <2>1, <2>3, <3>1 DEF Shown
    <3>4. CASE i < input_x - 1
      <4>1. left_x + i + 1 \in 1..(Len(instr) - 1) /\ left_x + i < Len(instr) - 1
        BY <1>1, <1>2, <3>1, <3>4
      <4>2. instr'[left_x + i + 1] = instr[left_x + i + 1]
        BY <2>3, <4>1
      <4>3. i # input_x - 1 /\ left_x + i < Len(instr)
        BY <1>1, <1>2, <3>1, <3>4
      <4> QED BY <4>1, <4>2, <4>3, <3>1, <3>2, <3>3
    <3>5. CASE i >= input_x - 1
      BY <1>1, <1>2, <3>1, <3>2, <3>3, <3>5
    <3> QED BY <1>1, <3>1, <3>4, <3>5
  <2>5. field' = Shown(instr', left_x', BoxWidth)
    BY <2>1, <2>4 DEF Put, Shown
  <2>6. input_x' \in 0..(BoxWidth - 1) /\ left_x' + input_x' = Len(instr') /\ Len(instr') <= MAX_LEN
    BY SMTT(30), <1>1, <1>2, <1>4, <2>1, <2>3
  <2> QED BY <1>1, <2>1, <2>3, <2>5, <2>6 DEF FieldInv, Columns
<1> QED BY <1>3, <1>4 DEF Backspace

LEMMA FieldStep ==
    ASSUME Phase, FieldInv, [Next]_vars
    PROVE  FieldInv'
<1>1. CASE UNCHANGED vars
  BY <1>1 DEF vars, dialogVars, inputVars, FieldInv, Columns, Shown
<1>2. CASE KeyPressed
  <2>1. CASE open # "input"
    <3>1. open' # "input"
      BY <1>2, <2>1, KeySteps
    <3> QED BY <3>1 DEF FieldInv
  <2>2. CASE open = "input"
    <3>1. InputNext
      BY <1>2, <2>2, KeySteps
    <3>2. CASE InputEnter \/ InputKey \/ InputLeave
      BY <3>2 DEF InputEnter, InputKey, InputLeave, InputReturn, FieldInv
    <3>3. CASE InputResize
      BY <3>3 DEF InputResize, TooLow, Resized, FieldInv
    <3>4. CASE InputButton
      BY <3>4 DEF InputButton, InputStays, inputVars, FieldInv, Columns, Shown
    <3>5. CASE (Type \/ Backspace) /\ resized
      BY <3>5 DEF Type, Backspace, Typing, InputStays, FieldInv
    <3> QED BY <3>1, <3>2, <3>3, <3>4, <3>5, TypeField, BackspaceField DEF InputNext
  <2> QED BY <2>1, <2>2
<1>3. CASE Next /\ ~KeyPressed
  <2>1. CASE NoneOpen
    BY <2>1 DEF NoneOpen, dialogVars, FieldInv
  <2>2. CASE ConfOpen \/ ChoiceOpen \/ TextShown
    BY <2>2 DEF ConfOpen, MenuOpen, ShowOrDie, Show, Killed, ChoiceOpen, ListOpen, TextShown, TextOpen, FieldInv
  <2>3. CASE InputStart
    <3>1. PICK s : (s = <<>> \/ s \in Strings) /\ InputOpen(s)
      BY <2>3 DEF InputStart
    <3>2. s \in Seq(Chars) /\ Len(s) <= MAX_LEN
      <4>1. Len(<<>>) <= MAX_LEN /\ <<>> \in Seq(Chars)
        BY InputAssumption
      <4> QED BY <3>1, <4>1, ValuesAssumption
    <3>3. instr' = s /\ (open' = "input" => InputShow(s, 0))
      BY <3>1 DEF InputOpen
    <3> QED BY <3>2, <3>3, InputShowField DEF FieldInv, Columns
  <2>4. CASE Ask
    BY <2>4 DEF Ask, Phase, YesnoOpen, Finish, NoDialog, dialogVars, FieldInv
  <2> QED BY <1>3, <2>1, <2>2, <2>3, <2>4, OtherSteps
<1> QED BY <1>1, <1>2, <1>3

\* The field of an input box shows the end of the string up to the cursor, for any
\* string and any width of the field, and the string fits its buffer.
THEOREM FieldCorrect == Spec => []FieldTrue
<1>1. Init => FieldInv
  BY DEF Init, FieldInv
<1>2. FieldInv => FieldTrue
  BY InputAssumption DEF FieldInv, FieldTrue, Columns
<1> QED BY <1>1, <1>2, FieldStep, PhaseCorrect, PTL DEF Spec

-----------------------------------------------------------------------------
(***************************************************************************)
(* The text box.  What it shows begins at some line, top, and page,        *)
(* page_length and the two marks all follow from that line.                *)
(***************************************************************************)
PageAt(top) ==
    /\ page = Least(top + boxh, text.lines)
    /\ page_length = Least(boxh, text.lines - top + 1)
    /\ lines = [i \in 0..(boxh - 1) |-> LineAt(text, top + i)]
    /\ begin_reached = (top = 0)
    /\ end_reached = (top + boxh > text.lines)

\* A box without a row keeps nothing but a position, for a size that has rows.
PageInv ==
    open = "text" =>
        /\ height >= 8 /\ text \in Texts
        /\ text.ended =>
             /\ page \in 0..text.lines /\ page_length \in Nat
             /\ boxh = 0 => page_length = 0
             /\ boxh > 0 => \E top \in 0..text.lines : PageAt(top)

LEMMA BoxNat ==
    ASSUME NEW t \in Texts, NEW h \in Heights, h >= 8
    PROVE  t.lines \in Nat /\ t.lines > 0 /\ BoxRows(t, h) \in Nat
BY ScreensAssumption, HeightsAssumption DEF Texts, BoxRows

LEMMA Printed ==
    ASSUME NEW t, t.lines \in Nat, t.ended, NEW b \in Nat, NEW p \in 0..(t.lines + 1), PrintPage(t, p, b)
    PROVE  /\ page' \in 0..t.lines /\ page_length' \in Nat
           /\ b = 0 => page_length' = 0
           /\ page' = Least(p + b, t.lines)
           /\ page_length' = Least(b, t.lines - p + 1)
           /\ lines' = [i \in 0..(b - 1) |-> LineAt(t, p + i)]
           /\ end_reached' = (p + b > t.lines)
<1>1. EndRow(t, p) = t.lines - p
  BY DEF EndRow
<1>2. (t.lines - p < b) = (p + b > t.lines)
  OBVIOUS
<1> QED BY SMTT(30), <1>1, <1>2 DEF PrintPage, Least

LEMMA BackRange ==
    ASSUME text.lines \in Nat, page \in 0..text.lines, NEW n \in Nat
    PROVE  /\ Back(n).line \in 0..(text.lines + 1)
           /\ n >= 2 => Back(n).line \in 0..text.lines /\ Back(n).first = (Back(n).line = 0)
<1>1. PICK k \in Int : k = IF page = text.lines /\ end_reached THEN n - 1 ELSE n
  OBVIOUS
<1>2. Back(n) = [line |-> Most(page - k, 0), first |-> k > 0 /\ page <= k]
  BY <1>1 DEF Back
<1>3. Back(n).line = Most(page - k, 0) /\ Back(n).first = (k > 0 /\ page <= k)
  BY <1>2
<1>4. k >= n - 1 /\ (k = n \/ k = n - 1)
  BY <1>1
<1> QED BY <1>3, <1>4 DEF Most

LEMMA BackFromPage ==
    ASSUME text.lines \in Nat, text.lines > 0, boxh \in Nat, boxh > 0,
           NEW top \in 0..text.lines, PageAt(top), NEW m \in Nat
    PROVE  /\ Back(page_length + m).line = Most(top - m, 0)
           /\ Back(page_length + m).first = (top <= m)
<1> DEFINE n == page_length + m
           k == IF page = text.lines /\ end_reached THEN n - 1 ELSE n
<1>1. Back(n).line = Most(page - k, 0) /\ Back(n).first = (k > 0 /\ page <= k)
  BY DEF Back
<1>2. CASE top + boxh > text.lines
  <2>1. page = text.lines /\ end_reached /\ page_length = text.lines - top + 1
    <3>1. /\ page = Least(top + boxh, text.lines) /\ page_length = Least(boxh, text.lines - top + 1)
          /\ end_reached = TRUE
      BY <1>2 DEF PageAt
    <3> QED BY <3>1, <1>2 DEF Least
  <2>2. k = text.lines - top + m
    BY <2>1
  <2> HIDE DEF k, n
  <2>3. Back(n).line = Most(top - m, 0)
    BY <1>1, <2>1, <2>2 DEF Most
  <2>4. (k > 0 /\ page <= k) = (top <= m)
    BY <2>1, <2>2
  <2> QED BY <1>1, <2>3, <2>4 DEF n
<1>3. CASE ~(top + boxh > text.lines)
  <2>1. page = top + boxh /\ ~end_reached /\ page_length = boxh
    <3>1. /\ page = Least(top + boxh, text.lines) /\ page_length = Least(boxh, text.lines - top + 1)
          /\ end_reached = (top + boxh > text.lines)
      BY DEF PageAt
    <3>2. ~end_reached
      BY <3>1, <1>3
    <3> QED BY <3>1, <3>2, <1>3 DEF Least
  <2>2. k = boxh + m
    BY <2>1
  <2> HIDE DEF k, n
  <2>3. Back(n).line = Most(top - m, 0)
    BY <1>1, <2>1, <2>2 DEF Most
  <2>4. (k > 0 /\ page <= k) = (top <= m)
    BY <2>1, <2>2
  <2> QED BY <1>1, <2>3, <2>4 DEF n
<1> QED BY <1>2, <1>3

\* A page printed from some line is shown from that line.
LEMMA Reprinted ==
    ASSUME text \in Texts, text.ended, text' = text, height' \in Heights, height' >= 8,
           NEW p \in 0..(text.lines + 1), PrintPage(text, p, BoxRows(text, height')),
           BoxRows(text, height') > 0 => p <= text.lines /\ begin_reached' = (p = 0)
    PROVE  PageInv'
<1> DEFINE b == BoxRows(text, height')
<1>1. text.lines \in Nat /\ text.lines > 0 /\ b \in Nat /\ boxh' = b
  BY BoxNat DEF boxh
<1> HIDE DEF b
<1>2. /\ page' \in 0..text.lines /\ page_length' \in Nat
      /\ b = 0 => page_length' = 0
      /\ page' = Least(p + b, text.lines)
      /\ page_length' = Least(b, text.lines - p + 1)
      /\ lines' = [i \in 0..(b - 1) |-> LineAt(text, p + i)]
      /\ end_reached' = (p + b > text.lines)
  BY <1>1, Printed DEF b
<1>3. b > 0 => p \in 0..text.lines /\ begin_reached' = (p = 0)
  BY <1>1 DEF b
<1>4. b > 0 => PageAt(p)'
  BY <1>1, <1>2, <1>3 DEF PageAt
<1> QED BY <1>1, <1>2, <1>3, <1>4 DEF PageInv

LEMMA PageKeys ==
    ASSUME Phase, PageInv, open = "text", text.ended, TextNext
    PROVE  PageInv'
<1>1. /\ height \in Heights /\ height >= 8 /\ text \in Texts
      /\ page \in 0..text.lines /\ page_length \in Nat
      /\ boxh = 0 => page_length = 0
  BY DEF Phase, PageInv
<1>2. text.lines \in Nat /\ text.lines > 0 /\ boxh \in Nat
  BY <1>1, BoxNat DEF boxh
<1>3. boxh > 0 => \E top \in 0..text.lines : PageAt(top)
  BY DEF PageInv
<1>4. ASSUME TextStays
      PROVE  text' = text /\ height' \in Heights /\ height' >= 8 /\ BoxRows(text, height') = boxh
  BY <1>1, <1>4 DEF TextStays, boxh
<1>5. CASE FirstPage
  <2>1. begin_reached' = (0 = 0) /\ PrintPage(text, 0, boxh) /\ TextStays
    BY <1>5 DEF FirstPage
  <2>2. 0 \in 0..(text.lines + 1) /\ 0 <= text.lines
    BY <1>2
  <2> QED BY <1>1, <1>4, <2>1, <2>2, Reprinted
<1>6. CASE LastPage
  <2> DEFINE q == text.lines - (boxh - 1)
  <2>1. /\ begin_reached' = (boxh > 1 /\ q <= 0) /\ PrintPage(text, Most(q, 0), boxh) /\ TextStays
    BY <1>6 DEF LastPage
  <2>2. Most(q, 0) \in 0..(text.lines + 1)
    BY <1>2 DEF Most
  <2>3. boxh > 0 => Most(q, 0) <= text.lines /\ (boxh > 1 /\ q <= 0) = (Most(q, 0) = 0)
    BY <1>2 DEF Most
  <2> QED BY <2>1, <2>2, <2>3, <1>1, <1>4, Reprinted
<1>7. ASSUME NEW n \in Nat, NEW m \in Nat, n = page_length + m, Reprint(Back(n)), TextStays
      PROVE  PageInv'
  <2>1. begin_reached' = Back(n).first /\ PrintPage(text, Back(n).line, boxh)
    BY <1>7 DEF Reprint
  <2>2. Back(n).line \in 0..(text.lines + 1)
    BY <1>1, <1>2, BackRange
  <2>3. ASSUME boxh > 0
        PROVE  Back(n).line <= text.lines /\ Back(n).first = (Back(n).line = 0)
    <3>1. PICK top \in 0..text.lines : PageAt(top)
      BY <1>3, <2>3
    <3>2. Back(n).line = Most(top - m, 0) /\ Back(n).first = (top <= m)
      BY <1>2, <1>7, <2>3, <3>1, BackFromPage
    <3>3. Most(top - m, 0) <= text.lines /\ (top <= m) = (Most(top - m, 0) = 0)
      BY <1>2, <1>7 DEF Most
    <3> QED BY <3>2, <3>3
  <2> QED BY <1>1, <1>4, <1>7, <2>1, <2>2, <2>3, Reprinted
<1>8. CASE PreviousPage
  BY <1>2, <1>1, <1>7, <1>8 DEF PreviousPage
<1>9. CASE Sideways
  <2>1. Reprint(Back(page_length)) /\ TextStays /\ page_length = page_length + 0
    BY <1>1, <1>9 DEF Sideways
  <2> QED BY <1>1, <1>7, <2>1
<1>10. CASE NextPage
  <2>1. begin_reached' = FALSE /\ PrintPage(text, page, boxh) /\ TextStays /\ ~end_reached
    BY <1>10 DEF NextPage
  <2>2. ASSUME boxh > 0
        PROVE  begin_reached' = (page = 0) /\ page <= text.lines
    <3>1. PICK top \in 0..text.lines : PageAt(top)
      BY <1>3, <2>2
    <3>2. page = Least(top + boxh, text.lines)
      BY <3>1 DEF PageAt
    <3>3. page > 0
      BY <1>2, <2>2, <3>2 DEF Least
    <3>4. (page = 0) = FALSE /\ page <= text.lines
      BY <1>1, <1>2, <3>3
    <3> QED BY <2>1, <3>4
  <2>3. page \in 0..(text.lines + 1)
    BY <1>1, <1>2
  <2> QED BY <1>1, <1>4, <2>1, <2>2, <2>3, Reprinted
<1>11. CASE PreviousLine
  <2> DEFINE l == Back(page_length + 1).line
  <2>1. /\ begin_reached' = Back(page_length + 1).first /\ ~begin_reached /\ TextStays
        /\ lines' = [i \in 0..(boxh - 1) |-> IF i = 0 THEN LineAt(text, l) ELSE lines[i - 1]]
        /\ page' = Least(l + boxh, text.lines)
        /\ page_length' = Least(boxh, EndRow(text, l) + 1)
        /\ end_reached' = (EndRow(text, l) < boxh)
    BY <1>11 DEF PreviousLine
  <2>2. l \in 0..(text.lines + 1) /\ EndRow(text, l) = text.lines - l
    BY <1>1, <1>2, BackRange DEF EndRow
  <2>3. CASE boxh = 0
    <3>1. page' \in 0..text.lines /\ page_length' = 0
      BY <1>2, <2>1, <2>2, <2>3 DEF Least
    <3> QED BY <1>1, <1>4, <2>1, <2>3, <3>1 DEF PageInv, boxh
  <2>4. CASE boxh > 0
    <3>1. PICK top \in 0..text.lines : PageAt(top)
      BY <1>3, <2>4
    <3>2. top > 0
      <4>1. ~(top = 0)
        BY <2>1, <3>1 DEF PageAt
      <4> QED BY <4>1
    <3>3. l = top - 1 /\ begin_reached' = (top - 1 = 0)
      <4>1. l = Most(top - 1, 0) /\ begin_reached' = (top <= 1)
        BY <1>2, <2>1, <2>4, <3>1, BackFromPage
      <4> QED BY <3>2, <4>1 DEF Most
    <3> HIDE DEF l
    <3>4. lines' = [i \in 0..(boxh - 1) |-> LineAt(text, top - 1 + i)]
      <4>1. lines = [i \in 0..(boxh - 1) |-> LineAt(text, top + i)]
        BY <3>1 DEF PageAt
      <4>2. ASSUME NEW i \in 0..(boxh - 1)
            PROVE  (IF i = 0 THEN LineAt(text, l) ELSE lines[i - 1]) = LineAt(text, top - 1 + i)
        <5>1. CASE i = 0
          BY <3>3, <5>1
        <5>2. CASE i # 0
          <6>1. i - 1 \in 0..(boxh - 1) /\ top + (i - 1) = top - 1 + i
            BY <1>2, <5>2
          <6> QED BY <4>1, <5>2, <6>1
        <5> QED BY <5>1, <5>2
      <4> QED BY <2>1, <4>2
    <3>5. /\ page' = Least(top - 1 + boxh, text.lines)
          /\ page_length' = Least(boxh, text.lines - (top - 1) + 1)
          /\ end_reached' = (top - 1 + boxh > text.lines)
      <4>1. (text.lines - (top - 1) < boxh) = (top - 1 + boxh > text.lines)
        BY <1>2
      <4> QED BY <2>1, <2>2, <3>3, <4>1
    <3>6. page' \in 0..text.lines /\ page_length' \in Nat /\ top - 1 \in 0..text.lines
      BY <1>2, <3>2, <3>5 DEF Least
    <3>7. text' = text /\ boxh' = boxh
      BY <2>1 DEF TextStays, boxh
    <3>8. PageAt(top - 1)'
      BY <3>3, <3>4, <3>5, <3>7 DEF PageAt
    <3> QED BY <1>1, <1>4, <2>1, <2>4, <3>6, <3>7, <3>8 DEF PageInv
  <2> QED BY <1>2, <2>3, <2>4
<1>12. CASE NextLine
  <2>1. /\ begin_reached' = FALSE /\ ~end_reached /\ TextStays
        /\ lines' = [i \in 0..(boxh - 1) |-> IF i = boxh - 1 THEN LineAt(text, page) ELSE lines[i + 1]]
        /\ page' = Least(page + 1, text.lines)
        /\ page_length' = page_length
        /\ end_reached' = (text.lines - page = 0)
    BY <1>12, <1>1 DEF NextLine, EndRow
  <2>2. page' \in 0..text.lines
    BY <1>1, <1>2, <2>1 DEF Least
  <2>3. text' = text /\ boxh' = boxh
    BY <2>1 DEF TextStays, boxh
  <2>4. CASE boxh = 0
    BY <1>1, <1>4, <2>1, <2>2, <2>3, <2>4 DEF PageInv
  <2>5. CASE boxh > 0
    <3>1. PICK top \in 0..text.lines : PageAt(top)
      BY <1>3, <2>5
    <3>2. /\ page = Least(top + boxh, text.lines)
          /\ page_length = Least(boxh, text.lines - top + 1)
          /\ end_reached = (top + boxh > text.lines)
          /\ lines = [i \in 0..(boxh - 1) |-> LineAt(text, top + i)]
      BY <3>1 DEF PageAt
    <3>3. top + boxh <= text.lines
      <4>1. ~(top + boxh > text.lines)
        BY <2>1, <3>2
      <4> QED BY <1>2, <4>1
    <3>4. page = top + boxh /\ page_length = boxh
      BY <1>2, <3>2, <3>3 DEF Least
    <3>5. lines' = [i \in 0..(boxh - 1) |-> LineAt(text, top + 1 + i)]
      <4>1. ASSUME NEW i \in 0..(boxh - 1)
            PROVE  (IF i = boxh - 1 THEN LineAt(text, page) ELSE lines[i + 1]) = LineAt(text, top + 1 + i)
        <5>1. CASE i = boxh - 1
          BY <1>2, <3>4, <5>1
        <5>2. CASE i # boxh - 1
          <6>1. i + 1 \in 0..(boxh - 1) /\ top + (i + 1) = top + 1 + i
            BY <1>2, <5>2
          <6> QED BY <3>2, <5>2, <6>1
        <5> QED BY <5>1, <5>2
      <4> QED BY <2>1, <4>1
    <3>6. /\ page' = Least(top + 1 + boxh, text.lines)
          /\ page_length' = Least(boxh, text.lines - (top + 1) + 1)
          /\ end_reached' = (top + 1 + boxh > text.lines)
          /\ begin_reached' = (top + 1 = 0)
      <4>1. (text.lines - page = 0) = (top + 1 + boxh > text.lines)
        BY <1>2, <3>3, <3>4
      <4>2. Least(top + 1 + boxh, text.lines) = Least(page + 1, text.lines)
        <5>1. top + 1 + boxh = page + 1
          BY <1>2, <3>4
        <5> QED BY <5>1
      <4>3. Least(boxh, text.lines - (top + 1) + 1) = boxh
        BY <1>2, <3>3 DEF Least
      <4>4. (top + 1 = 0) = FALSE
        OBVIOUS
      <4> QED BY <2>1, <3>4, <4>1, <4>2, <4>3, <4>4
    <3>7. top + 1 \in 0..text.lines
      BY <1>2, <2>5, <3>3
    <3>8. PageAt(top + 1)'
      BY <2>3, <3>5, <3>6 DEF PageAt
    <3> QED BY <1>1, <1>4, <2>1, <2>2, <2>3, <2>5, <3>7, <3>8 DEF PageInv
  <2> QED BY <1>2, <2>4, <2>5
<1>13. CASE TextLeave
  BY <1>13 DEF TextLeave, PageInv
<1>14. CASE TextResize
  <2>1. PICK h \in Heights : IF h < 8 THEN TooLow(h)
                             ELSE /\ Resized(h) /\ begin_reached' = Back(boxh + 4).first
                                  /\ PrintPage(text, Back(boxh + 4).line, BoxRows(text, h))
    BY <1>14 DEF TextResize
  <2>2. CASE h < 8
    BY <2>1, <2>2 DEF TooLow, PageInv
  <2>3. CASE ~(h < 8)
    <3>1. /\ height' = h /\ text' = text /\ begin_reached' = Back(boxh + 4).first
          /\ PrintPage(text, Back(boxh + 4).line, BoxRows(text, h))
      BY <1>14, <2>1, <2>3 DEF TextResize, Resized
    <3>2. Back(boxh + 4).line \in 0..text.lines /\ Back(boxh + 4).first = (Back(boxh + 4).line = 0)
      BY <1>1, <1>2, BackRange
    <3>3. height' \in Heights /\ height' >= 8
      BY <2>3, <3>1, HeightsAssumption
    <3> QED BY <1>1, <1>2, <3>1, <3>2, <3>3, Reprinted
  <2> QED BY <2>2, <2>3
<1> QED BY <1>5, <1>6, <1>8, <1>9, <1>10, <1>11, <1>12, <1>13, <1>14 DEF TextNext

LEMMA PageStep ==
    ASSUME Phase, PageInv, [Next]_vars
    PROVE  PageInv'
<1>1. ASSUME UNCHANGED <<open, height, textVars>>
      PROVE  PageInv'
  BY <1>1 DEF textVars, PageInv, PageAt, boxh
<1>2. CASE KeyPressed
  <2>1. CASE open # "text"
    BY <1>2, <2>1, KeySteps DEF PageInv
  <2>2. CASE open = "text"
    <3>1. TextNext
      BY <1>2, <2>2, KeySteps
    <3>2. text' = text /\ (open' = "text" => height' >= 8)
      <4>1. CASE TextResize
        BY <2>2, <4>1, HeightsAssumption DEF TextResize, TooLow, Resized
      <4>2. CASE ~TextResize
        <5>1. text' = text /\ (open' = "text" => height' = height)
          BY <2>2, <3>1, <4>2 DEF TextNext, FirstPage, LastPage, PreviousLine, NextLine, PreviousPage,
                                  NextPage, Sideways, TextLeave, TextStays
        <5> QED BY <2>2, <5>1 DEF PageInv
      <4> QED BY <4>1, <4>2
    <3>3. CASE ~text.ended
      BY <2>2, <3>2, <3>3 DEF PageInv
    <3> QED BY <2>2, <3>1, <3>3, PageKeys
  <2> QED BY <2>1, <2>2
<1>3. CASE Next /\ ~KeyPressed
  <2>1. CASE NoneOpen
    BY <2>1 DEF NoneOpen, dialogVars, PageInv
  <2>2. CASE ConfOpen \/ ChoiceOpen \/ InputStart
    BY <2>2 DEF ConfOpen, MenuOpen, ShowOrDie, Show, Killed, ChoiceOpen, ListOpen, InputStart, InputOpen, PageInv
  <2>3. CASE TextShown
    <3>1. PICK t \in Texts : TextOpen(t)
      BY <2>3 DEF TextShown
    <3>2. CASE height < 8
      BY <3>1, <3>2 DEF TextOpen, PageInv
    <3>3. CASE ~(height < 8)
      <4>1. /\ text' = t /\ height' = height /\ begin_reached' = TRUE
            /\ PrintPage(t, 0, BoxRows(t, height))
        BY <3>1, <3>3 DEF TextOpen
      <4>2. height \in Heights /\ height >= 8
        BY <3>3, HeightsAssumption DEF Phase
      <4>3. CASE ~t.ended
        BY <3>1, <4>1, <4>2, <4>3 DEF PageInv
      <4>4. CASE t.ended
        <5> DEFINE b == BoxRows(t, height)
        <5>1. t.lines \in Nat /\ t.lines > 0 /\ b \in Nat /\ boxh' = b
          BY <3>1, <4>1, <4>2, BoxNat DEF boxh
        <5>2. 0 \in 0..(t.lines + 1) /\ PrintPage(t, 0, b)
          BY <4>1, <5>1
        <5> HIDE DEF b
        <5>3. /\ page' \in 0..t.lines /\ page_length' \in Nat
              /\ b = 0 => page_length' = 0
              /\ page' = Least(0 + b, t.lines)
              /\ page_length' = Least(b, t.lines - 0 + 1)
              /\ lines' = [i \in 0..(b - 1) |-> LineAt(t, 0 + i)]
              /\ end_reached' = (0 + b > t.lines)
          BY <4>4, <5>1, <5>2, Printed
        <5>4. PageAt(0)' /\ 0 \in 0..t.lines
          <6>1. begin_reached' = (0 = 0)
            BY <4>1
          <6>2. 0 \in 0..t.lines
            BY <5>1
          <6> QED BY <4>1, <5>1, <5>3, <6>1, <6>2 DEF PageAt
        <5> QED BY <3>1, <4>1, <4>2, <5>1, <5>3, <5>4 DEF PageInv
      <4> QED BY <4>3, <4>4
    <3> QED BY <3>2, <3>3
  <2>4. CASE Ask
    BY <2>4 DEF Ask, Phase, YesnoOpen, Finish, NoDialog, dialogVars, PageInv
  <2> QED BY <1>3, <2>1, <2>2, <2>3, <2>4, OtherSteps
<1> QED BY <1>1, <1>2, <1>3 DEF vars, dialogVars

\* A text is shown in one run of its lines, with the marks for its beginning and its
\* end right, for any text that ends with a newline, any size of the terminal and
\* any keys, however the box is resized.
THEOREM PageCorrect == Spec => []PageTrue
<1>1. Init => PageInv
  BY DEF Init, PageInv
<1>2. ASSUME Phase, PageInv
      PROVE  PageTrue
  <2> SUFFICES ASSUME open = "text", text.ended, boxh > 0
               PROVE  \E top \in 0..text.lines :
                        /\ \A i \in DOMAIN lines : lines[i] = LineAt(text, top + i)
                        /\ begin_reached = (top = 0)
                        /\ end_reached = (top + boxh > text.lines)
    BY DEF PageTrue
  <2>1. PICK top \in 0..text.lines : PageAt(top)
    BY <1>2 DEF PageInv
  <2> QED BY <2>1 DEF PageAt
<1> QED BY <1>1, <1>2, PageStep, PhaseCorrect, PTL DEF Spec

-----------------------------------------------------------------------------
(***************************************************************************)
(* Sequences.                                                              *)
(***************************************************************************)
IsSeq(s) == s \in Seq(Range(s))

LEMMA SeqShape ==
    ASSUME NEW s, IsSeq(s)
    PROVE  /\ Len(s) \in Nat /\ DOMAIN s = 1..Len(s)
           /\ s = <<>> <=> Len(s) = 0
BY LenProperties, EmptySeq DEF IsSeq

LEMMA SeqFromAny ==
    ASSUME NEW S, NEW s \in Seq(S)
    PROVE  IsSeq(s)
<1>1. s \in [1..Len(s) -> S] /\ Len(s) \in Nat
  BY LenProperties
<1>2. s \in [1..Len(s) -> Range(s)]
  BY <1>1 DEF Range
<1> QED BY <1>1, <1>2, SeqDef DEF IsSeq

LEMMA Pushed ==
    ASSUME NEW s, IsSeq(s), NEW e
    PROVE  /\ IsSeq(Append(s, e)) /\ Len(Append(s, e)) = Len(s) + 1
           /\ \A i \in 1..Len(s) : Append(s, e)[i] = s[i]
           /\ Append(s, e)[Len(s) + 1] = e
<1>1. PICK S : S = Range(s) \union {e}
  OBVIOUS
<1>2. s \in Seq(S) /\ e \in S
  BY <1>1, SeqMonotonic DEF IsSeq
<1>3. Append(s, e) \in Seq(S)
  BY <1>2
<1>4. IsSeq(Append(s, e))
  BY <1>3, SeqFromAny
<1>5. /\ Len(Append(s, e)) = Len(s) + 1
      /\ \A i \in 1..Len(s) : Append(s, e)[i] = s[i]
      /\ Append(s, e)[Len(s) + 1] = e
  BY <1>2
<1> QED BY <1>4, <1>5

LEMMA Popped ==
    ASSUME NEW s, IsSeq(s), s # <<>>
    PROVE  /\ IsSeq(SubSeq(s, 1, Len(s) - 1)) /\ Len(SubSeq(s, 1, Len(s) - 1)) = Len(s) - 1
           /\ \A i \in 1..(Len(s) - 1) : SubSeq(s, 1, Len(s) - 1)[i] = s[i]
<1>1. Len(s) \in Nat /\ Len(s) > 0 /\ s \in Seq(Range(s))
  BY SeqShape DEF IsSeq
<1>2. \A i \in 1..(Len(s) - 1) : s[i] \in Range(s)
  BY <1>1
<1>3. SubSeq(s, 1, Len(s) - 1) \in Seq(Range(s))
  BY <1>1, <1>2, SubSeqProperties
<1>4. IsSeq(SubSeq(s, 1, Len(s) - 1))
  BY <1>3, SeqFromAny
<1>5. /\ Len(SubSeq(s, 1, Len(s) - 1)) = Len(s) - 1
      /\ \A i \in 1..(Len(s) - 1) : SubSeq(s, 1, Len(s) - 1)[i] = s[i]
  <2> DEFINE n == Len(s) - 1
  <2>1. n \in Nat /\ \A i \in 1..n : s[i] \in Range(s)
    BY <1>1, <1>2
  <2> HIDE DEF n
  <2>2. /\ Len(SubSeq(s, 1, n)) = IF 1 <= n THEN n - 1 + 1 ELSE 0
        /\ \A i \in 1..(n - 1 + 1) : SubSeq(s, 1, n)[i] = s[1 + i - 1]
    BY <2>1, SubSeqProperties
  <2>3. \A i \in 1..n : SubSeq(s, 1, n)[i] = s[i]
    <3>1. ASSUME NEW i \in 1..n
          PROVE  i \in 1..(n - 1 + 1) /\ 1 + i - 1 = i
      BY <2>1
    <3> QED BY <2>2, <3>1
  <2>4. Len(SubSeq(s, 1, n)) = n
    BY <2>1, <2>2
  <2> QED BY <2>3, <2>4 DEF n
<1> QED BY <1>4, <1>5

LEMMA Replaced ==
    ASSUME NEW s, IsSeq(s), s # <<>>, NEW e
    PROVE  /\ IsSeq([s EXCEPT ![Len(s)] = e]) /\ Len([s EXCEPT ![Len(s)] = e]) = Len(s)
           /\ \A i \in 1..Len(s) : [s EXCEPT ![Len(s)] = e][i] = IF i = Len(s) THEN e ELSE s[i]
<1>1. PICK S : S = Range(s) \union {e}
  OBVIOUS
<1>2. s \in Seq(S) /\ e \in S /\ Len(s) \in 1..Len(s)
  BY <1>1, SeqMonotonic, SeqShape DEF IsSeq
<1>3. /\ [s EXCEPT ![Len(s)] = e] \in Seq(S) /\ Len([s EXCEPT ![Len(s)] = e]) = Len(s)
      /\ \A i \in 1..Len(s) : [s EXCEPT ![Len(s)] = e][i] = IF i = Len(s) THEN e ELSE s[i]
  BY <1>2, ExceptSeq
<1> QED BY <1>3, SeqFromAny

\* A set of numbers has a least one: CHOOSE finds it.
LEMMA LeastOne ==
    ASSUME NEW T \in SUBSET Nat, T # {}
    PROVE  \E x \in T : \A y \in T : x <= y
<1> DEFINE R == {ss \in Nat \X Nat : ss[1] < ss[2]}
<1>1. IsWellFoundedOn(R, Nat)
  BY NatLessThanWellFounded DEF OpToRel
<1>2. PICK x \in T : \A y \in T : ~(<<y, x>> \in R)
  BY <1>1, WFMin
<1>3. \A y \in T : ~(y < x)
  BY <1>2
<1> QED BY <1>3

LEMMA FirstFound ==
    ASSUME NEW T \in SUBSET Nat, T # {}
    PROVE  (CHOOSE i \in T : \A k \in T : i <= k) \in T
BY LeastOne

LEMMA LastFound ==
    ASSUME NEW n \in Nat, NEW T \in SUBSET (0..n), T # {}
    PROVE  (CHOOSE i \in T : \A k \in T : k <= i) \in T
<1> DEFINE U == {n - k : k \in T}
<1>1. U \in SUBSET Nat /\ U # {}
  <2>1. \A k \in T : n - k \in Nat
    OBVIOUS
  <2>2. PICK k \in T : TRUE
    OBVIOUS
  <2> QED BY <2>1, <2>2
<1>2. PICK u \in U : \A v \in U : u <= v
  BY <1>1, LeastOne
<1>3. PICK i \in T : u = n - i
  OBVIOUS
<1>4. ASSUME NEW k \in T
      PROVE  k <= i
  <2>1. n - i <= n - k
    BY <1>2, <1>3
  <2> QED BY <2>1
<1> QED BY <1>4

-----------------------------------------------------------------------------
(***************************************************************************)
(* The invariant of the menus and lists.                                   *)
(***************************************************************************)
IsList(s) == \E l \in Listings : \E m \in DOMAIN l : s = l[m]

RowsOf(p) == Least(p.height - 14, Len(p.items))

\* The place a conf() keeps is one of its active_menu, on the screen it had.
PlaceOK(f) ==
    f.fn = "conf" /\ f.active # NoData =>
        /\ f.place.choice \in 0..(RowsOf(f.place) - 1)
        /\ f.place.scroll + RowsOf(f.place) <= Len(f.place.items)
        /\ f.place.items[f.place.scroll + f.place.choice + 1].data = f.active

FrameOK(f) ==
    /\ f = [fn |-> f.fn, menu |-> f.menu, active |-> f.active, kept |-> f.kept, place |-> f.place]
    /\ f.kept \in Nat /\ f.place.scroll \in Nat
    /\ f.fn = "conf" => \A l \in Listings : f.menu \in DOMAIN l
    /\ f.fn = "choice" => f.menu \in DOMAIN Values
    /\ PlaceOK(f)

\* Only conf() calls another, which keeps the scroll position the caller had.
StackOK(fs) ==
    /\ IsSeq(fs)
    /\ \A i \in 1..Len(fs) : FrameOK(fs[i])
    /\ \A i \in 1..(Len(fs) - 1) : fs[i].fn = "conf" /\ fs[i].place.scroll = fs[i + 1].kept

Stack == StackOK(frames) /\ listing \in Listings

\* s_scroll is the position of the innermost conf(), but for what its menu returns.
Position ==
    /\ s_scroll \in Nat
    /\ In("conf") /\ at \in {"loop", "made", "text"} => s_scroll = Top.place.scroll
    /\ frames # <<>> /\ ~In("conf") => s_scroll = Top.kept

ListMade ==
    /\ at \in {"made", "in"} /\ In("conf") => IsList(items) /\ items # <<>>
    /\ at \in {"made", "in"} /\ In("choice") => IsSeq(items) /\ items # <<>>
    /\ at = "made" /\ In("choice") => picked \in -1..(item_count - 1)

\* A menu has returned an item it showed.
Selected ==
    at = "in" /\ In("conf") /\ open = "none" /\ result \notin {"esc", "small"} =>
        /\ picked \in Nat /\ s_scroll <= picked /\ picked < s_scroll + max_choice
        /\ s_scroll + max_choice <= item_count

MenuInv ==
    open = "menu" =>
        /\ height >= 15
        /\ scroll \in 0..(item_count - max_choice) /\ choice \in 0..(max_choice - 1)
        /\ first_item \in Nat
        /\ ~resized =>
             /\ win = [i \in 0..(max_choice - 1) |-> Cell(scroll + i, i = choice)]
             /\ arrows = MenuArrows(scroll, height) /\ drawn = button

ListInv ==
    open = "list" =>
        /\ scroll \in 0..(item_count - ListRows) /\ choice \in 0..(ListRows - 1)
        /\ ~resized =>
             /\ win = [i \in 0..(ListRows - 1) |-> Cell(scroll + i, i = choice)]
             /\ arrows = [up |-> scroll > 0, down |-> scroll + ListRows < item_count]
             /\ drawn = button

Idle == open = "none" => drawn = button

ScreenInv ==
    Phase /\ Stack /\ Position /\ ListMade /\ Selected /\ MenuInv /\ ListInv /\ Idle

-----------------------------------------------------------------------------
(***************************************************************************)
(* The functions that are running.                                         *)
(***************************************************************************)
LastOf(fs) == fs[Len(fs)]

LEMMA FramePushed ==
    ASSUME NEW fs, StackOK(fs), NEW f, FrameOK(f),
           fs # <<>> => LastOf(fs).fn = "conf" /\ LastOf(fs).place.scroll = f.kept
    PROVE  StackOK(Append(fs, f)) /\ Append(fs, f) # <<>> /\ LastOf(Append(fs, f)) = f
<1> DEFINE gs == Append(fs, f)
<1>1. IsSeq(fs) /\ Len(fs) \in Nat /\ (fs # <<>> <=> Len(fs) > 0)
  BY SeqShape DEF StackOK
<1>2. /\ IsSeq(gs) /\ Len(gs) = Len(fs) + 1
      /\ \A i \in 1..Len(fs) : gs[i] = fs[i]
      /\ gs[Len(fs) + 1] = f
  BY <1>1, Pushed
<1>3. gs # <<>> /\ LastOf(gs) = f
  <2>1. Len(gs) > 0
    BY <1>1, <1>2
  <2> QED BY <1>2, <2>1, SeqShape DEF LastOf
<1> HIDE DEF gs
<1>4. ASSUME NEW i \in 1..Len(gs)
      PROVE  FrameOK(gs[i])
  <2>1. i \in 1..Len(fs) \/ i = Len(fs) + 1
    BY <1>1, <1>2
  <2> QED BY <1>2, <2>1 DEF StackOK
<1>5. ASSUME NEW i \in 1..(Len(gs) - 1)
      PROVE  gs[i].fn = "conf" /\ gs[i].place.scroll = gs[i + 1].kept
  <2>1. i \in 1..Len(fs) /\ fs # <<>>
    BY <1>1, <1>2
  <2>2. CASE i = Len(fs)
    BY <1>2, <2>1, <2>2 DEF LastOf
  <2>3. CASE i # Len(fs)
    <3>1. i \in 1..(Len(fs) - 1) /\ i + 1 \in 1..Len(fs)
      BY <1>1, <2>1, <2>3
    <3> QED BY <1>2, <2>1, <3>1 DEF StackOK
  <2> QED BY <2>2, <2>3
<1> QED BY <1>2, <1>3, <1>4, <1>5 DEF StackOK, gs

LEMMA FramePopped ==
    ASSUME NEW fs, StackOK(fs), fs # <<>>, NEW gs, gs = SubSeq(fs, 1, Len(fs) - 1)
    PROVE  /\ StackOK(gs)
           /\ gs # <<>> <=> Len(fs) # 1
           /\ gs # <<>> => LastOf(gs).fn = "conf" /\ LastOf(gs).place.scroll = LastOf(fs).kept
<1>1. IsSeq(fs) /\ Len(fs) \in Nat /\ Len(fs) > 0
  BY SeqShape DEF StackOK
<1>2. IsSeq(gs) /\ Len(gs) = Len(fs) - 1 /\ \A i \in 1..(Len(fs) - 1) : gs[i] = fs[i]
  BY <1>1, Popped
<1>3. gs # <<>> <=> Len(fs) # 1
  <2>1. gs = <<>> <=> Len(gs) = 0
    BY <1>2, SeqShape
  <2> QED BY <1>1, <1>2, <2>1
<1>4. ASSUME NEW i \in 1..Len(gs)
      PROVE  FrameOK(gs[i])
  BY <1>1, <1>2 DEF StackOK
<1>5. ASSUME NEW i \in 1..(Len(gs) - 1)
      PROVE  gs[i].fn = "conf" /\ gs[i].place.scroll = gs[i + 1].kept
  <2>1. i \in 1..(Len(fs) - 1) /\ i + 1 \in 1..(Len(fs) - 1)
    BY <1>1, <1>2
  <2> QED BY <1>2, <2>1 DEF StackOK
<1>6. ASSUME gs # <<>>
      PROVE  LastOf(gs).fn = "conf" /\ LastOf(gs).place.scroll = LastOf(fs).kept
  <2>1. Len(fs) - 1 \in 1..(Len(fs) - 1) /\ (Len(fs) - 1) + 1 = Len(fs)
    BY <1>1, <1>3, <1>6
  <2>2. fs[Len(fs) - 1].fn = "conf" /\ fs[Len(fs) - 1].place.scroll = fs[Len(fs)].kept
    BY <2>1 DEF StackOK
  <2> QED BY <1>2, <2>1, <2>2 DEF LastOf
<1> QED BY <1>2, <1>3, <1>4, <1>5, <1>6 DEF StackOK

LEMMA FrameChanged ==
    ASSUME NEW fs, StackOK(fs), fs # <<>>, NEW f, FrameOK(f), f.kept = LastOf(fs).kept
    PROVE  /\ StackOK([fs EXCEPT ![Len(fs)] = f]) /\ [fs EXCEPT ![Len(fs)] = f] # <<>>
           /\ LastOf([fs EXCEPT ![Len(fs)] = f]) = f
<1> DEFINE gs == [fs EXCEPT ![Len(fs)] = f]
<1>1. IsSeq(fs) /\ Len(fs) \in Nat /\ Len(fs) > 0
  BY SeqShape DEF StackOK
<1>2. /\ IsSeq(gs) /\ Len(gs) = Len(fs)
      /\ \A i \in 1..Len(fs) : gs[i] = IF i = Len(fs) THEN f ELSE fs[i]
  BY <1>1, Replaced
<1> HIDE DEF gs
<1>3. gs # <<>> /\ LastOf(gs) = f
  BY <1>1, <1>2, SeqShape DEF LastOf
<1>4. ASSUME NEW i \in 1..Len(gs)
      PROVE  FrameOK(gs[i])
  BY <1>2 DEF StackOK
<1>5. ASSUME NEW i \in 1..(Len(gs) - 1)
      PROVE  gs[i].fn = "conf" /\ gs[i].place.scroll = gs[i + 1].kept
  <2>1. i \in 1..(Len(fs) - 1) /\ i + 1 \in 1..Len(fs) /\ i \in 1..Len(fs) /\ i # Len(fs)
    BY <1>1, <1>2
  <2>2. fs[i].fn = "conf" /\ fs[i].place.scroll = fs[i + 1].kept
    BY <2>1 DEF StackOK
  <2>3. gs[i] = fs[i] /\ gs[i + 1].kept = fs[i + 1].kept
    BY <1>2, <2>1 DEF LastOf
  <2> QED BY <2>2, <2>3
<1> QED BY <1>2, <1>3, <1>4, <1>5 DEF StackOK, gs

\* A function that is called starts with no active item and nothing shown.
LEMMA NewFrame ==
    ASSUME s_scroll \in Nat, NEW f, NEW m, NEW a,
           f = "conf" => a = NoData /\ \A l \in Listings : m \in DOMAIN l,
           f = "choice" => m \in DOMAIN Values
    PROVE  FrameOK(Frame(f, m, a)) /\ Frame(f, m, a).fn = f /\ Frame(f, m, a).kept = s_scroll
           /\ Frame(f, m, a).place.scroll = 0
BY DEF Frame, FrameOK, PlaceOK, NoPlace

-----------------------------------------------------------------------------
(***************************************************************************)
(* The shapes of the steps outside the dialogs.                            *)
(***************************************************************************)
\* Everything the invariant says of the dialogs holds while none is open.
LEMMA Elsewhere ==
    ASSUME Idle, open' # "menu", open' # "list", open' = "none" => open = "none",
           UNCHANGED <<button, drawn>>, at' \notin {"made", "in"}
    PROVE  ListMade' /\ Selected' /\ MenuInv' /\ ListInv' /\ Idle'
BY DEF ListMade, Selected, MenuInv, ListInv, Idle

LEMMA LoopInv ==
    ASSUME Stack, Position, Idle, open = "none", NEW fs, Loop(fs), StackOK(fs), fs # <<>>,
           IF LastOf(fs).fn = "conf" THEN LastOf(fs).place.scroll = s_scroll ELSE LastOf(fs).kept = s_scroll,
           listing' \in Listings
    PROVE  Stack' /\ Position' /\ ListMade' /\ Selected' /\ MenuInv' /\ ListInv' /\ Idle'
<1>1. frames' = fs /\ at' = "loop" /\ UNCHANGED <<open, button, drawn, s_scroll>>
  BY DEF Loop, NoDialog, dialogVars, listVars
<1>2. Top' = LastOf(fs)
  BY <1>1 DEF Top, LastOf
<1>3. Stack' /\ Position'
  BY <1>1, <1>2 DEF Stack, Position, In
<1> QED BY <1>1, <1>3, Elsewhere

LEMMA LeaveInv ==
    ASSUME Stack, Position, Idle, open = "none", Leave, frames # <<>>, listing' \in Listings
    PROVE  Stack' /\ Position' /\ ListMade' /\ Selected' /\ MenuInv' /\ ListInv' /\ Idle'
<1> DEFINE gs == SubSeq(frames, 1, Len(frames) - 1)
<1>1. /\ frames' = gs /\ at' = IF Len(frames) = 1 THEN "asking" ELSE "loop"
      /\ s_scroll' = IF Top.fn = "conf" THEN Top.kept ELSE s_scroll
      /\ UNCHANGED <<open, button, drawn>>
  BY DEF Leave, NoDialog, dialogVars
<1>2. /\ StackOK(gs)
      /\ gs # <<>> <=> Len(frames) # 1
      /\ gs # <<>> => LastOf(gs).fn = "conf" /\ LastOf(gs).place.scroll = LastOf(frames).kept
  BY FramePopped DEF Stack
<1> HIDE DEF gs
<1>3. Top = LastOf(frames) /\ Top' = LastOf(gs)
  BY <1>1 DEF Top, LastOf
<1>4. s_scroll' = Top.kept /\ Top.kept \in Nat
  <2>1. Len(frames) \in 1..Len(frames)
    BY SeqShape DEF Stack, StackOK
  <2>2. FrameOK(Top)
    BY <2>1 DEF Stack, StackOK, Top
  <2> QED BY <1>1, <2>2 DEF Position, In, FrameOK
<1>5. Stack' /\ Position'
  BY <1>1, <1>2, <1>3, <1>4 DEF Stack, Position, In
<1> QED BY <1>1, <1>5, Elsewhere

LEMMA CallInv ==
    ASSUME Position, Idle, open = "none", NEW fs, StackOK(fs), NEW f, NEW m, NEW a, Call(fs, f, m, a),
           f = "conf" => a = NoData /\ \A l \in Listings : m \in DOMAIN l,
           f = "choice" => m \in DOMAIN Values,
           fs # <<>> => LastOf(fs).fn = "conf" /\ LastOf(fs).place.scroll = s_scroll,
           listing' \in Listings
    PROVE  Stack' /\ Position' /\ ListMade' /\ Selected' /\ MenuInv' /\ ListInv' /\ Idle'
<1> DEFINE e == Frame(f, m, a)
<1>1. /\ frames' = Append(fs, e) /\ at' = "loop" /\ UNCHANGED <<open, button, drawn>>
      /\ s_scroll' = IF f = "conf" THEN 0 ELSE s_scroll
  BY DEF Call, NoDialog, dialogVars
<1>2. FrameOK(e) /\ e.fn = f /\ e.kept = s_scroll /\ e.place.scroll = 0 /\ s_scroll \in Nat
  BY NewFrame DEF Position
<1> HIDE DEF e
<1>3. StackOK(Append(fs, e)) /\ Append(fs, e) # <<>> /\ LastOf(Append(fs, e)) = e
  BY <1>2, FramePushed
<1>4. Top' = e
  BY <1>1, <1>3 DEF Top, LastOf
<1>5. Stack' /\ Position'
  BY <1>1, <1>2, <1>3, <1>4 DEF Stack, Position, In
<1> QED BY <1>1, <1>5, Elsewhere

LEMMA TextInv ==
    ASSUME Position, Idle, NEW fs, StackOK(fs), fs # <<>>, NEW t, ShowText(fs, t),
           IF LastOf(fs).fn = "conf" THEN LastOf(fs).place.scroll = s_scroll ELSE LastOf(fs).kept = s_scroll,
           listing' \in Listings
    PROVE  Stack' /\ Position' /\ ListMade' /\ Selected' /\ MenuInv' /\ ListInv' /\ Idle'
<1>1. /\ frames' = fs /\ at' = "text" /\ open = "none" /\ open' \in {"none", "text"}
      /\ UNCHANGED <<button, drawn, s_scroll>>
  BY DEF ShowText, TextOpen, OnlyText, listVars
<1>2. Top' = LastOf(fs)
  BY <1>1 DEF Top, LastOf
<1>3. Stack' /\ Position'
  BY <1>1, <1>2 DEF Stack, Position, In
<1> QED BY <1>1, <1>3, Elsewhere

-----------------------------------------------------------------------------
(***************************************************************************)
(* The menu.                                                               *)
(***************************************************************************)
LEMMA ListFacts ==
    ASSUME IsList(items)
    PROVE  /\ IsSeq(items)
           /\ \A i \in 1..Len(items), l \in Listings : items[i].tag = "m" => items[i].data \in DOMAIN l
           /\ \A i, j \in 1..Len(items) :
                i # j /\ items[i].data = items[j].data => items[i].data = NoData
<1>1. PICK l \in Listings : \E m \in DOMAIN l : items = l[m]
  BY DEF IsList
<1>2. PICK m \in DOMAIN l : items = l[m]
  BY <1>1
<1>3. /\ IsSeq(items)
      /\ \A it \in Range(items) : it.tag = "m" => it.data \in DOMAIN l
      /\ \A j, k \in DOMAIN items : j # k /\ items[j].data = items[k].data => items[j].data = NoData
  <2>1. /\ l[m] \in Seq(Range(l[m]))
        /\ \A it \in Range(l[m]) : it.tag = "m" => it.data \in DOMAIN l
        /\ \A j, k \in DOMAIN l[m] : j # k /\ l[m][j].data = l[m][k].data => l[m][j].data = NoData
    BY ListsAssumption
  <2> QED BY <1>2, <2>1 DEF IsSeq
<1>4. DOMAIN items = 1..Len(items)
  BY <1>3, SeqShape
<1>5. ASSUME NEW i \in 1..Len(items), NEW k \in Listings, items[i].tag = "m"
      PROVE  items[i].data \in DOMAIN k
  <2>1. items[i] \in Range(items)
    BY <1>4 DEF Range
  <2>2. DOMAIN k = DOMAIN l
    BY ListsAssumption
  <2> QED BY <1>3, <1>5, <2>1, <2>2
<1> QED BY <1>3, <1>4, <1>5

LEMMA MenuSizes ==
    ASSUME IsList(items), items # <<>>, NEW h \in Heights, h >= 15
    PROVE  /\ h \in Nat /\ item_count \in Nat /\ item_count > 0
           /\ MenuRows(h) \in Nat /\ MenuRows(h) > 0 /\ MenuRows(h) <= item_count
           /\ MenuRows(h) = Least(h - 14, item_count)
<1>1. item_count \in Nat /\ item_count > 0
  BY ListFacts, SeqShape DEF item_count
<1>2. h \in Nat
  BY HeightsAssumption
<1> QED BY <1>1, <1>2 DEF MenuRows, Least

\* Where the items named by active_menu are: nowhere, or at one row.
LEMMA Named ==
    ASSUME IsList(items), NEW selected, NEW n \in 0..(item_count - 1),
           selected # NoData, item(n).data = selected
    PROVE  {k \in 0..(item_count - 1) : selected # NoData /\ item(k).data = selected} = {n}
<1>1. item_count \in Nat
  BY ListFacts, SeqShape DEF item_count
<1>2. ASSUME NEW k \in 0..(item_count - 1), item(k).data = selected
      PROVE  k = n
  <2>1. k + 1 \in 1..Len(items) /\ n + 1 \in 1..Len(items)
    BY <1>1 DEF item_count
  <2>2. items[k + 1].data = items[n + 1].data /\ items[k + 1].data # NoData
    BY <1>2 DEF item
  <2>3. k + 1 = n + 1
    BY <2>1, <2>2, ListFacts
  <2> QED BY <1>1, <2>3
<1> QED BY <1>2

LEMMA LayoutOK ==
    ASSUME IsList(items), items # <<>>, s_scroll \in Nat, NEW h \in Heights, h >= 15, NEW selected,
           NEW from \in 0..(item_count - 1), NEW first \in Nat,
           NEW l, l = Layout(h, selected, from, first)
    PROVE  /\ l.scroll \in 0..(item_count - MenuRows(h)) /\ l.choice \in 0..(MenuRows(h) - 1)
           /\ l.first \in Nat
           /\ from = 0 /\ first = 0 => l.first = l.scroll
<1> DEFINE rows == MenuRows(h)
           named == {n \in 0..(item_count - 1) : selected # NoData /\ item(n).data = selected}
           want == IF named = {} THEN from ELSE CHOOSE n \in named : \A k \in named : k <= n
           fits == s_scroll <= want /\ want < s_scroll + rows /\ s_scroll + rows <= item_count
           far  == ~fits /\ want >= rows
           top == IF fits THEN s_scroll
                  ELSE IF ~far THEN 0
                  ELSE IF want >= item_count - rows \div 2 THEN item_count - rows
                  ELSE want - rows \div 2
<1>1. /\ item_count \in Nat /\ item_count > 0
      /\ rows \in Nat /\ rows > 0 /\ rows <= item_count
  BY MenuSizes
<1>2. l = [scroll |-> top, choice |-> want - top, first |-> IF fits \/ far THEN top ELSE first]
  BY DEF Layout
<1> HIDE DEF rows, named, want, fits, far, top
<1>3. l.scroll = top /\ l.choice = want - top /\ l.first = IF fits \/ far THEN top ELSE first
  BY <1>2
<1> USE DEF rows, named, want, fits, far, top
<1>4. want \in 0..(item_count - 1) /\ (~fits /\ ~far => want < rows)
  <2>1. CASE named = {}
    BY <1>1, <2>1
  <2>2. CASE named # {}
    <3>1. PICK n \in named : TRUE
      BY <2>2
    <3>2. named = {n} /\ n \in 0..(item_count - 1)
      BY <3>1, Named
    <3>3. want = n
      BY <1>1, <3>2
    <3> HIDE DEF named
    <3> QED BY <1>1, <3>2, <3>3
  <2> QED BY <2>1, <2>2
<1> HIDE DEF rows, named, want
<1>5. rows \div 2 \in Nat /\ 2 * (rows \div 2) <= rows /\ rows <= 2 * (rows \div 2) + 1
  BY <1>1
<1>6. CASE fits
  BY <1>1, <1>3, <1>4, <1>6 DEF rows
<1>7. CASE ~fits /\ ~far
  BY <1>1, <1>3, <1>4, <1>7 DEF rows
<1>8. CASE far
  <2>1. ~fits /\ want >= rows
    BY <1>8
  <2> HIDE DEF fits, far
  <2>2. CASE want >= item_count - rows \div 2
    <3>1. top = item_count - rows
      BY <1>8, <2>1, <2>2
    <3> HIDE DEF top
    <3>2. l.scroll = item_count - rows /\ l.choice = want - (item_count - rows) /\ l.first = l.scroll
      BY <1>3, <1>8, <3>1
    <3>3. /\ l.scroll \in 0..(item_count - rows) /\ l.choice \in 0..(rows - 1)
          /\ l.first \in Nat /\ l.first = l.scroll
      BY <1>1, <1>4, <1>5, <2>1, <2>2, <3>2
    <3> QED BY <3>3 DEF rows
  <2>3. CASE ~(want >= item_count - rows \div 2)
    <3>1. top = want - rows \div 2
      BY <1>8, <2>1, <2>3
    <3> HIDE DEF top
    <3>2. l.scroll = want - rows \div 2 /\ l.choice = want - (want - rows \div 2) /\ l.first = l.scroll
      BY <1>3, <1>8, <3>1
    <3>3. /\ l.scroll \in 0..(item_count - rows) /\ l.choice \in 0..(rows - 1)
          /\ l.first \in Nat /\ l.first = l.scroll
      BY <1>1, <1>4, <1>5, <2>1, <2>3, <3>2
    <3> QED BY <3>3 DEF rows
  <2> QED BY <2>2, <2>3
<1> QED BY <1>6, <1>7, <1>8

\* n rows of a window that shows the items from item top on, without a highlight.
Plain(top, n) == [i \in 0..(n - 1) |-> Cell(top + i, FALSE)]
Lit(top, n, at1) == [i \in 0..(n - 1) |-> Cell(top + i, i = at1)]

LEMMA PlainLit ==
    ASSUME NEW top \in Int, NEW n \in Nat, NEW at1 \in 0..(n - 1)
    PROVE  /\ PrintItem(Lit(top, n, at1), at1, top + at1, FALSE) = Plain(top, n)
           /\ PrintItem(Plain(top, n), at1, top + at1, TRUE) = Lit(top, n, at1)
BY DEF PrintItem, Plain, Lit, Cell

LEMMA PlainScrolled ==
    ASSUME NEW top \in Int, NEW n \in Nat, NEW d \in Int
    PROVE  Scrolled(Plain(top, n), d, top) = Plain(top + d, n)
<1>1. ASSUME NEW i \in 0..(n - 1)
      PROVE  (IF i + d \in 0..(n - 1) THEN Plain(top, n)[i + d] ELSE Cell(top + d + i, FALSE))
                = Cell((top + d) + i, FALSE)
  <2>1. top + (i + d) = (top + d) + i
    OBVIOUS
  <2> QED BY <2>1 DEF Plain
<1>2. DOMAIN Plain(top, n) = 0..(n - 1)
  BY DEF Plain
<1> QED BY <1>1, <1>2 DEF Scrolled, Plain

LEMMA RelitOK ==
    ASSUME height \in Heights, height >= 15, IsList(items), items # <<>>, first_item \in Nat,
           resized \/ drawn = button,
           NEW w, NEW top \in 0..(item_count - max_choice), NEW at1 \in 0..(max_choice - 1),
           ~resized => w = Plain(top, max_choice), Relit(w, top, at1)
    PROVE  MenuInv' /\ UNCHANGED <<items, picked, s_scroll, height, result>> /\ open' = open
<1>1. /\ scroll' = top /\ choice' = at1 /\ win' = PrintItem(w, at1, top + at1, TRUE)
      /\ arrows' = MenuArrows(top, height)
      /\ UNCHANGED <<open, height, resized, result, items, picked, s_scroll, first_item, button, drawn>>
  BY DEF Relit, Moved, Stay
<1>2. item_count' = item_count /\ max_choice' = max_choice
  BY <1>1 DEF item_count, max_choice, MenuRows
<1>3. max_choice \in Nat /\ item_count \in Nat
  BY MenuSizes DEF max_choice
<1>4. MenuArrows(scroll, height)' = MenuArrows(top, height)
  BY <1>1, <1>2 DEF MenuArrows
<1>5. ~resized => win' = [i \in 0..(max_choice - 1) |-> Cell(top + i, i = at1)]
  <2>1. ASSUME ~resized
        PROVE  win' = Lit(top, max_choice, at1)
    <3>1. win' = PrintItem(Plain(top, max_choice), at1, top + at1, TRUE)
      BY <1>1, <2>1
    <3>2. top \in Int
      BY <1>3
    <3> HIDE DEF max_choice, item_count
    <3> QED BY <1>3, <3>1, <3>2, PlainLit
  <2> QED BY <2>1 DEF Lit
<1> HIDE DEF item_count, max_choice
<1> QED BY <1>1, <1>2, <1>4, <1>5 DEF MenuInv

LEMMA MenuShown ==
    ASSUME IsList(items), items # <<>>, s_scroll \in Nat, NEW h \in Heights, h >= 15, NEW selected,
           NEW from \in 0..(item_count - 1), NEW first \in Nat,
           items' = items, height' = h, resized' \/ (from = 0 /\ first = 0 /\ drawn' = button'),
           ShowOrDie(Layout(h, selected, from, first), h)
    PROVE  MenuInv' /\ open' \in {"menu", "killed"}
<1>1. PICK l : l = Layout(h, selected, from, first)
  OBVIOUS
<1>2. /\ l.scroll \in 0..(item_count - MenuRows(h)) /\ l.choice \in 0..(MenuRows(h) - 1)
      /\ l.first \in Nat
      /\ from = 0 /\ first = 0 => l.first = l.scroll
  BY <1>1, LayoutOK
<1>3. CASE l.first + MenuRows(h) <= item_count
  <2>1. Show(l, h)
    BY <1>1, <1>3 DEF ShowOrDie
  <2>2. item_count' = item_count /\ max_choice' = MenuRows(h)
    BY DEF item_count, max_choice, MenuRows
  <2>3. MenuArrows(scroll, height)' = MenuArrows(l.scroll, h)
    BY <2>1, <2>2 DEF MenuArrows, Show
  <2> HIDE DEF item_count, max_choice
  <2> QED BY <1>2, <2>1, <2>2, <2>3 DEF Show, MenuInv
<1>4. CASE ~(l.first + MenuRows(h) <= item_count)
  BY <1>1, <1>4 DEF ShowOrDie, Killed, MenuInv
<1> QED BY <1>3, <1>4

\* Keys that move the highlight, or the menu under it, or the button.
LEMMA MenuMoves ==
    ASSUME height \in Heights, IsList(items), items # <<>>, MenuInv,
           MenuUp \/ MenuDown \/ MenuPageUp \/ MenuPageDown \/ MenuJump \/ MenuButton
    PROVE  MenuInv' /\ UNCHANGED <<items, picked, s_scroll, height, result>> /\ open' = open
<1>1. open = "menu"
  BY DEF MenuUp, MenuDown, MenuPageUp, MenuPageDown, MenuJump, MenuButton
<1>2. /\ height >= 15 /\ first_item \in Nat
      /\ scroll \in 0..(item_count - max_choice) /\ choice \in 0..(max_choice - 1)
      /\ ~resized => win = Lit(scroll, max_choice, choice) /\ drawn = button
  BY <1>1 DEF MenuInv, Lit
<1>3. /\ item_count \in Nat /\ max_choice \in Nat /\ max_choice > 0 /\ max_choice <= item_count
      /\ scroll \in Nat /\ choice \in Nat
  BY <1>2, MenuSizes DEF max_choice
<1>4. ASSUME ~resized
      PROVE  Unlit = Plain(scroll, max_choice)
  <2>1. Unlit = PrintItem(Lit(scroll, max_choice, choice), choice, scroll + choice, FALSE)
    BY <1>2, <1>4 DEF Unlit
  <2>2. scroll \in Int /\ choice \in 0..(max_choice - 1) /\ max_choice \in Nat
    BY <1>2, <1>3
  <2> HIDE DEF max_choice
  <2> QED BY <2>1, <2>2, PlainLit
<1>5. ASSUME NEW top \in 0..(item_count - max_choice), NEW at1 \in 0..(max_choice - 1),
             Relit(Unlit, top, at1), top = scroll
      PROVE  MenuInv' /\ UNCHANGED <<items, picked, s_scroll, height, result>> /\ open' = open
  BY <1>2, <1>4, <1>5, RelitOK
<1>6. ASSUME NEW d \in Int, NEW top \in 0..(item_count - max_choice), NEW at1 \in 0..(max_choice - 1),
             Relit(Scrolled(Unlit, d, scroll), top, at1), top = scroll + d
      PROVE  MenuInv' /\ UNCHANGED <<items, picked, s_scroll, height, result>> /\ open' = open
  <2>1. ASSUME ~resized
        PROVE  Scrolled(Unlit, d, scroll) = Plain(top, max_choice)
    BY <1>3, <1>4, <1>6, <2>1, PlainScrolled
  <2> QED BY <1>2, <1>6, <2>1, RelitOK
<1> HIDE DEF item_count, max_choice
<1>7. CASE MenuUp
  <2>1. CASE choice < 2 /\ scroll > 0
    <3>1. Relit(Scrolled(Unlit, -1, scroll), scroll - 1, choice)
      BY <1>7, <2>1 DEF MenuUp
    <3>2. scroll - 1 \in 0..(item_count - max_choice) /\ scroll - 1 = scroll + (-1) /\ -1 \in Int
      BY <1>2, <1>3, <2>1
    <3> QED BY <1>2, <1>6, <3>1, <3>2
  <2>2. CASE ~(choice < 2 /\ scroll > 0)
    <3>1. Relit(Unlit, scroll, Most(choice - 1, 0))
      BY <1>7, <2>2 DEF MenuUp
    <3>2. Most(choice - 1, 0) \in 0..(max_choice - 1)
      BY <1>2, <1>3 DEF Most
    <3> QED BY <1>2, <1>5, <3>1, <3>2
  <2> QED BY <2>1, <2>2
<1>8. CASE MenuDown
  <2>1. CASE choice > max_choice - 3 /\ scroll + max_choice < item_count
    <3>1. Relit(Scrolled(Unlit, 1, scroll), scroll + 1, choice)
      BY <1>8, <2>1 DEF MenuDown
    <3>2. scroll + 1 \in 0..(item_count - max_choice)
      BY <1>2, <1>3, <2>1
    <3> QED BY <1>2, <1>6, <3>1, <3>2
  <2>2. CASE ~(choice > max_choice - 3 /\ scroll + max_choice < item_count)
    <3>1. Relit(Unlit, scroll, Least(choice + 1, max_choice - 1))
      BY <1>8, <2>2 DEF MenuDown
    <3>2. Least(choice + 1, max_choice - 1) \in 0..(max_choice - 1)
      BY <1>2, <1>3 DEF Least
    <3> QED BY <1>2, <1>5, <3>1, <3>2
  <2> QED BY <2>1, <2>2
<1>9. CASE MenuPageUp
  <2>1. PICK n \in Int : /\ n = Least(scroll, max_choice)
                         /\ Relit(Scrolled(Unlit, -n, scroll), scroll - n, Most(choice - (max_choice - n), 0))
    <3>1. Least(scroll, max_choice) \in Int
      BY <1>3 DEF Least
    <3> QED BY <1>9, <3>1 DEF MenuPageUp
  <2>2. /\ scroll - n \in 0..(item_count - max_choice) /\ scroll - n = scroll + (-n) /\ -n \in Int
        /\ Most(choice - (max_choice - n), 0) \in 0..(max_choice - 1)
    BY <1>2, <1>3, <2>1 DEF Least, Most
  <2> QED BY <1>6, <2>1, <2>2
<1>10. CASE MenuPageDown
  <2>1. PICK n \in Int : /\ n = Least(item_count - max_choice - scroll, max_choice)
                         /\ Relit(Scrolled(Unlit, n, scroll), scroll + n,
                                  Least(choice + (max_choice - n), max_choice - 1))
    <3>1. Least(item_count - max_choice - scroll, max_choice) \in Int
      BY <1>3 DEF Least
    <3> QED BY <1>10, <3>1 DEF MenuPageDown
  <2>2. n >= 0 /\ n <= max_choice /\ n <= item_count - max_choice - scroll
    BY <1>2, <1>3, <2>1 DEF Least
  <2>3. /\ scroll + n \in 0..(item_count - max_choice)
        /\ Least(choice + (max_choice - n), max_choice - 1) \in 0..(max_choice - 1)
    BY <1>2, <1>3, <2>2 DEF Least
  <2> QED BY <1>6, <2>1, <2>3
<1>11. CASE MenuJump
  <2>1. PICK c \in {item(scroll + i).letter : i \in 0..(max_choice - 1)} :
          Relit(Unlit, scroll, First(IF {i \in Lettered(c) : i > choice} # {}
                                     THEN {i \in Lettered(c) : i > choice} ELSE Lettered(c)))
    BY <1>11 DEF MenuJump
  <2>2. Lettered(c) # {} /\ Lettered(c) \in SUBSET (0..(max_choice - 1))
    BY <2>1 DEF Lettered
  <2>3. PICK T : T = IF {i \in Lettered(c) : i > choice} # {}
                     THEN {i \in Lettered(c) : i > choice} ELSE Lettered(c)
    OBVIOUS
  <2>4. T # {} /\ T \in SUBSET (0..(max_choice - 1))
    BY <2>2, <2>3
  <2>5. T \in SUBSET Nat
    BY <2>4
  <2>6. First(T) \in 0..(max_choice - 1)
    BY <2>4, <2>5, FirstFound DEF First
  <2>7. Relit(Unlit, scroll, First(T))
    BY <2>1, <2>3
  <2> QED BY <1>2, <1>5, <2>6, <2>7
<1>12. CASE MenuButton
  <2>1. PICK b : button' = b /\ drawn' = b
    BY <1>12 DEF MenuButton, Buttons, Push
  <2>2. UNCHANGED <<open, height, resized, result, items, picked, s_scroll, first_item, scroll, choice, win, arrows>>
    BY <1>12 DEF MenuButton, Stay
  <2>3. item_count' = item_count /\ max_choice' = max_choice /\ MenuArrows(scroll, height)' = MenuArrows(scroll, height)
    BY <2>2 DEF item_count, max_choice, MenuRows, MenuArrows
  <2> QED BY <2>1, <2>2, <2>3 DEF MenuInv
<1> QED BY <1>7, <1>8, <1>9, <1>10, <1>11, <1>12

LEMMA MenuKeys ==
    ASSUME ScreenInv, open = "menu", NEW selected, MenuNext(selected), UNCHANGED mainVars
    PROVE  Position' /\ ListMade' /\ Selected' /\ MenuInv' /\ ListInv' /\ Idle'
<1>1. /\ at = "in" /\ In("conf") /\ height \in Heights /\ s_scroll \in Nat
      /\ IsList(items) /\ items # <<>>
  BY DEF ScreenInv, Phase, Position, ListMade
<1>2. /\ at' = "in" /\ frames' = frames /\ In("conf")' /\ ~In("choice")'
  BY <1>1 DEF mainVars, In, Top
<1>3. /\ MenuInv /\ height >= 15
      /\ scroll \in 0..(item_count - max_choice) /\ choice \in 0..(max_choice - 1)
      /\ first_item \in Nat
  BY DEF ScreenInv, MenuInv
<1>4. /\ item_count \in Nat /\ max_choice \in Nat /\ max_choice > 0 /\ max_choice <= item_count
  BY <1>1, <1>3, MenuSizes DEF max_choice
<1>5. ASSUME items' = items, s_scroll' \in Nat
      PROVE  Position' /\ ListMade'
  BY <1>1, <1>2, <1>5 DEF Position, ListMade, In
<1>6. CASE MenuUp \/ MenuDown \/ MenuPageUp \/ MenuPageDown \/ MenuJump \/ MenuButton
  <2>1. MenuInv' /\ UNCHANGED <<items, picked, s_scroll, height, result>> /\ open' = "menu"
    BY <1>1, <1>3, <1>6, MenuMoves
  <2> QED BY <1>1, <1>5, <2>1 DEF Selected, ListInv, Idle
<1>7. ASSUME NEW res, MenuSelect(res)
      PROVE  Position' /\ ListMade' /\ Selected' /\ MenuInv' /\ ListInv' /\ Idle'
  <2>1. /\ s_scroll' = scroll /\ picked' = scroll + choice /\ open' = "none"
        /\ button' = 0 /\ drawn' = 0 /\ UNCHANGED <<height, items>>
    BY <1>7 DEF MenuSelect, Return, Ended
  <2>2. item_count' = item_count /\ max_choice' = max_choice
    BY <2>1 DEF item_count, max_choice, MenuRows
  <2> HIDE DEF item_count, max_choice
  <2>3. /\ picked' \in Nat /\ s_scroll' \in Nat /\ s_scroll' <= picked' /\ picked' < s_scroll' + max_choice
        /\ s_scroll' + max_choice <= item_count
    BY <1>3, <1>4, <2>1
  <2> QED BY <1>5, <2>1, <2>2, <2>3 DEF Selected, MenuInv, ListInv, Idle
<1>8. CASE MenuKey \/ MenuEnter \/ MenuHelp
  BY <1>7, <1>8 DEF MenuKey, MenuEnter, MenuHelp
<1>9. CASE MenuLeave
  <2>1. /\ open' = "none" /\ result' = "esc" /\ button' = 0 /\ drawn' = 0 /\ UNCHANGED <<items, s_scroll>>
    BY <1>9 DEF MenuLeave, Return, Ended
  <2> QED BY <1>1, <1>5, <2>1 DEF Selected, MenuInv, ListInv, Idle
<1>10. CASE MenuResize(selected)
  <2>1. PICK h \in Heights : IF h < 15 THEN TooLow(h) /\ NoWindow
                             ELSE Resized(h) /\ ShowOrDie(Layout(h, selected, choice, first_item), h)
    BY <1>10 DEF MenuResize
  <2>2. UNCHANGED <<items, s_scroll>>
    BY <1>10 DEF MenuResize
  <2>3. CASE h < 15
    <3>1. open' = "none" /\ result' = "small" /\ button' = 0 /\ drawn' = 0
      BY <2>1, <2>3 DEF TooLow, Ended
    <3> QED BY <1>1, <1>5, <2>2, <3>1 DEF Selected, MenuInv, ListInv, Idle
  <2>4. CASE ~(h < 15)
    <3>1. height' = h /\ resized' = TRUE /\ ShowOrDie(Layout(h, selected, choice, first_item), h)
      BY <2>1, <2>4 DEF Resized
    <3>2. choice \in 0..(item_count - 1) /\ h >= 15
      BY <1>3, <1>4, <2>4, HeightsAssumption
    <3>3. MenuInv' /\ open' \in {"menu", "killed"}
      BY <1>1, <1>3, <2>2, <3>1, <3>2, MenuShown
    <3> QED BY <1>1, <1>5, <2>2, <3>3 DEF Selected, ListInv, Idle
  <2> QED BY <2>3, <2>4
<1> QED BY <1>6, <1>8, <1>9, <1>10 DEF MenuNext

-----------------------------------------------------------------------------
(***************************************************************************)
(* The list of a choice.                                                   *)
(***************************************************************************)
LEMMA ListSizes ==
    ASSUME IsSeq(items), items # <<>>
    PROVE  /\ item_count \in Nat /\ item_count > 0 /\ ListHeight \in Nat /\ ListHeight > 1
           /\ ListRows \in Nat /\ ListRows > 0
           /\ ListRows = IF ListHeight < item_count THEN ListHeight ELSE item_count
<1>1. item_count \in Nat /\ item_count > 0
  BY SeqShape DEF item_count
<1> QED BY <1>1, ListAssumption DEF ListRows, Least

LEMMA ListShown ==
    ASSUME IsSeq(items), items # <<>>, NEW from \in Nat, NEW at1 \in Nat, from + at1 < item_count,
           at1 < ListHeight => from + ListRows <= item_count,
           ListShow(from, at1), items' = items, resized' \/ (from = 0 /\ drawn' = button')
    PROVE  ListInv'
<1> DEFINE top == IF at1 >= ListHeight THEN from + at1 - ListHeight + 1 ELSE from
           row == from + at1 - top
<1>1. /\ scroll' = top /\ choice' = row
      /\ win' = [i \in 0..(ListRows - 1) |-> Cell(top + i, i = row)]
      /\ arrows' = ListArrows(top, row)
  BY DEF ListShow
<1>2. item_count' = item_count /\ ListRows' = ListRows
  BY DEF item_count, ListRows
<1>3. /\ item_count \in Nat /\ item_count > 0 /\ ListHeight \in Nat /\ ListHeight > 1
      /\ ListRows = IF ListHeight < item_count THEN ListHeight ELSE item_count
  BY ListSizes
<1> HIDE DEF item_count, ListRows
<1>4. top \in 0..(item_count - ListRows) /\ row \in 0..(ListRows - 1)
  BY <1>3
<1>5. from = 0 => (ListHeight < item_count /\ top + row < item_count - 1) = (top + ListRows < item_count)
  BY <1>3
<1> HIDE DEF top, row
<1>6. ~resized' => arrows' = [up |-> top > 0, down |-> top + ListRows < item_count]
  BY <1>1, <1>5 DEF ListArrows
<1> QED BY <1>1, <1>2, <1>4, <1>6 DEF ListInv

LEMMA ListMoves ==
    ASSUME IsSeq(items), items # <<>>, ListInv, ListUp \/ ListDown \/ ListJump \/ ListButton
    PROVE  ListInv' /\ UNCHANGED <<items, picked, s_scroll, height, result>> /\ open' = open
<1>1. open = "list"
  BY DEF ListUp, ListDown, ListJump, ListButton
<1>2. /\ scroll \in 0..(item_count - ListRows) /\ choice \in 0..(ListRows - 1)
      /\ ~resized => /\ win = Lit(scroll, ListRows, choice) /\ drawn = button
                     /\ arrows = [up |-> scroll > 0, down |-> scroll + ListRows < item_count]
  BY <1>1 DEF ListInv, Lit
<1>3. /\ item_count \in Nat /\ ListRows \in Nat /\ ListRows > 0 /\ ListHeight \in Nat /\ ListHeight > 1
      /\ ListRows = IF ListHeight < item_count THEN ListHeight ELSE item_count
  BY ListSizes
<1> HIDE DEF item_count, ListRows
<1>4. scroll \in Nat /\ choice \in Nat /\ scroll \in Int
  BY <1>2, <1>3
<1>5. ASSUME ~resized
      PROVE  PrintItem(win, choice, scroll + choice, FALSE) = Plain(scroll, ListRows)
  BY ZenonT(60), <1>2, <1>3, <1>4, <1>5, PlainLit
<1>6. ASSUME Moved
      PROVE  /\ UNCHANGED <<open, items, picked, s_scroll, height, result, resized, button, drawn>>
             /\ item_count' = item_count /\ ListRows' = ListRows
  BY <1>6 DEF Moved, Stay, item_count, ListRows
<1>7. ASSUME NEW i \in 0..(ListRows - 1), Relight(i)
      PROVE  ListInv' /\ UNCHANGED <<items, picked, s_scroll, height, result>> /\ open' = open
  <2>1. /\ choice' = i /\ scroll' = scroll /\ arrows' = arrows /\ Moved
        /\ win' = PrintItem(PrintItem(win, choice, scroll + choice, FALSE), i, scroll + i, TRUE)
    BY <1>7 DEF Relight
  <2>2. ~resized => win' = Lit(scroll, ListRows, i)
    BY <1>3, <1>4, <1>5, <2>1, PlainLit
  <2>3. UNCHANGED <<open, items, picked, s_scroll, height, result, resized, button, drawn>>
        /\ item_count' = item_count /\ ListRows' = ListRows
    BY <1>6, <2>1
  <2>4. scroll' \in 0..(item_count' - ListRows') /\ choice' \in 0..(ListRows' - 1)
    BY <1>2, <2>1, <2>3
  <2>5. ~resized' => /\ win' = [j \in 0..(ListRows' - 1) |-> Cell(scroll' + j, j = choice')]
                    /\ arrows' = [up |-> scroll' > 0, down |-> scroll' + ListRows' < item_count']
                    /\ drawn' = button'
    BY <1>2, <2>1, <2>2, <2>3 DEF Lit
  <2> QED BY <2>3, <2>4, <2>5 DEF ListInv
<1>8. ASSUME NEW n \in {-1, 1}, ListScroll(choice, n),
             scroll + n \in 0..(item_count - ListRows), ListRows < item_count,
             (scroll + n + choice < item_count - 1) = (scroll + n + ListRows < item_count)
      PROVE  ListInv' /\ UNCHANGED <<items, picked, s_scroll, height, result>> /\ open' = open
  <2>1. /\ choice' = choice /\ scroll' = scroll + n /\ arrows' = ListArrows(scroll + n, choice) /\ Moved
        /\ win' = PrintItem(Scrolled(PrintItem(win, choice, scroll + choice, FALSE), n, scroll),
                            choice, scroll + n + choice, TRUE)
    BY <1>8 DEF ListScroll
  <2>2. ASSUME ~resized
        PROVE  win' = Lit(scroll + n, ListRows, choice)
    <3>1. Scrolled(PrintItem(win, choice, scroll + choice, FALSE), n, scroll) = Plain(scroll + n, ListRows)
      <4>1. n \in Int
        BY <1>8
      <4> QED BY ZenonT(60), <1>3, <1>4, <1>5, <2>2, <4>1, PlainScrolled
    <3>2. scroll + n \in Int /\ choice \in 0..(ListRows - 1)
      BY <1>2, <1>4
    <3> QED BY <1>3, <2>1, <3>1, <3>2, PlainLit
  <2>3. ListHeight < item_count
    BY <1>3, <1>8
  <2>4. arrows' = [up |-> scroll + n > 0, down |-> scroll + n + ListRows < item_count]
    BY <1>8, <2>1, <2>3 DEF ListArrows
  <2>5. UNCHANGED <<open, items, picked, s_scroll, height, result, resized, button, drawn>>
        /\ item_count' = item_count /\ ListRows' = ListRows
    BY <1>6, <2>1
  <2>6. scroll' \in 0..(item_count' - ListRows') /\ choice' \in 0..(ListRows' - 1)
    BY <1>2, <1>8, <2>1, <2>5
  <2>7. ~resized' => /\ win' = [j \in 0..(ListRows' - 1) |-> Cell(scroll' + j, j = choice')]
                    /\ arrows' = [up |-> scroll' > 0, down |-> scroll' + ListRows' < item_count']
                    /\ drawn' = button'
    BY <1>2, <2>1, <2>2, <2>4, <2>5 DEF Lit
  <2> QED BY <2>5, <2>6, <2>7 DEF ListInv
<1>9. CASE ListUp
  <2>1. CASE choice > 0 /\ Relight(choice - 1)
    <3>1. choice - 1 \in 0..(ListRows - 1)
      BY <1>2, <1>3, <2>1
    <3> QED BY <1>7, <2>1, <3>1
  <2>2. CASE choice = 0 /\ scroll > 0 /\ ListScroll(0, -1)
    <3>1. /\ scroll + (-1) \in 0..(item_count - ListRows) /\ ListRows < item_count
          /\ scroll + (-1) + choice < item_count - 1 /\ scroll + (-1) + ListRows < item_count
      BY <1>2, <1>3, <2>2
    <3> QED BY <1>8, <2>2, <3>1
  <2> QED BY <1>9, <2>1, <2>2 DEF ListUp
<1>10. CASE ListDown
  <2>1. CASE choice < ListRows - 1 /\ Relight(choice + 1)
    <3>1. choice + 1 \in 0..(ListRows - 1)
      BY <1>2, <1>3, <2>1
    <3> QED BY <1>7, <2>1, <3>1
  <2>2. CASE choice = ListRows - 1 /\ scroll + choice < item_count - 1 /\ ListScroll(ListRows - 1, 1)
    <3>1. /\ scroll + 1 \in 0..(item_count - ListRows) /\ ListRows < item_count
          /\ (scroll + 1 + choice < item_count - 1) = (scroll + 1 + ListRows < item_count)
      BY <1>2, <1>3, <2>2
    <3> QED BY <1>8, <2>2, <3>1
  <2> QED BY <1>10, <2>1, <2>2 DEF ListDown
<1>11. CASE ListJump
  <2>1. PICK c \in {item(scroll + i).letter : i \in 0..(ListRows - 1)} :
          Relight(CHOOSE i \in ListLettered(c) : \A k \in ListLettered(c) : i <= k)
    BY <1>11 DEF ListJump
  <2>2. ListLettered(c) # {} /\ ListLettered(c) \in SUBSET (0..(ListRows - 1))
    BY <2>1 DEF ListLettered
  <2>3. ListLettered(c) \in SUBSET Nat
    BY <2>2
  <2>4. (CHOOSE i \in ListLettered(c) : \A k \in ListLettered(c) : i <= k) \in 0..(ListRows - 1)
    BY <2>2, <2>3, FirstFound
  <2> QED BY <1>7, <2>1, <2>4
<1>12. CASE ListButton
  <2>1. PICK b : button' = b /\ drawn' = b
    BY <1>12 DEF ListButton, Buttons, Push
  <2>2. UNCHANGED <<open, height, resized, result, items, picked, s_scroll, scroll, choice, win, arrows>>
    BY <1>12 DEF ListButton, Stay
  <2>3. item_count' = item_count /\ ListRows' = ListRows
    BY <2>2 DEF item_count, ListRows
  <2> QED BY <2>1, <2>2, <2>3 DEF ListInv
<1> QED BY <1>9, <1>10, <1>11, <1>12

LEMMA ListKeys ==
    ASSUME ScreenInv, open = "list", ListNext, UNCHANGED mainVars
    PROVE  Position' /\ ListMade' /\ Selected' /\ MenuInv' /\ ListInv' /\ Idle'
<1>1. /\ at = "in" /\ In("choice") /\ height \in Heights /\ s_scroll \in Nat
      /\ IsSeq(items) /\ items # <<>> /\ ListInv /\ Position
  BY DEF ScreenInv, Phase, Position, ListMade
<1>2. /\ at' = "in" /\ frames' = frames /\ ~In("conf")' /\ In("choice")' /\ Top' = Top
  BY <1>1 DEF mainVars, In, Top
<1>3. ASSUME UNCHANGED <<items, s_scroll>>
      PROVE  Position' /\ ListMade' /\ Selected'
  BY <1>1, <1>2, <1>3 DEF Position, ListMade, Selected, In
<1>4. CASE ListUp \/ ListDown \/ ListJump \/ ListButton
  <2>1. ListInv' /\ UNCHANGED <<items, s_scroll>> /\ open' = "list"
    BY <1>1, <1>4, ListMoves
  <2> QED BY <1>3, <2>1 DEF MenuInv, Idle
<1>5. CASE ListSelect \/ ListHelp \/ ListLeave
  <2>1. open' = "none" /\ button' = 0 /\ drawn' = 0 /\ UNCHANGED <<items, s_scroll>>
    BY <1>5 DEF ListSelect, ListHelp, ListLeave, Return, Ended
  <2> QED BY <1>3, <2>1 DEF MenuInv, ListInv, Idle
<1>6. CASE ListResize
  <2>1. UNCHANGED <<items, s_scroll>>
    BY <1>6 DEF ListResize
  <2>2. PICK h \in Heights : IF h < 21 THEN TooLow(h) /\ NoWindow
                             ELSE Resized(h) /\ ListShow(scroll, choice) /\ UNCHANGED <<open, first_item>>
    BY <1>6 DEF ListResize
  <2>3. CASE h < 21
    <3>1. open' = "none" /\ button' = 0 /\ drawn' = 0
      BY <2>2, <2>3 DEF TooLow, Ended
    <3> QED BY <1>3, <2>1, <3>1 DEF MenuInv, ListInv, Idle
  <2>4. CASE ~(h < 21)
    <3>1. resized' = TRUE /\ ListShow(scroll, choice) /\ open' = "list"
      BY <1>6, <2>2, <2>4 DEF Resized, ListResize
    <3>2. /\ scroll \in 0..(item_count - ListRows) /\ choice \in 0..(ListRows - 1)
      BY <1>1, <1>6 DEF ListInv, ListResize
    <3>3. /\ item_count \in Nat /\ ListRows \in Nat
      BY <1>1, ListSizes
    <3> HIDE DEF item_count, ListRows
    <3>4. /\ scroll \in Nat /\ choice \in Nat /\ scroll + choice < item_count
          /\ scroll + ListRows <= item_count
      BY <3>2, <3>3
    <3>5. ListInv'
      BY <1>1, <2>1, <3>1, <3>4, ListShown
    <3> QED BY <1>3, <2>1, <3>1, <3>5 DEF MenuInv, Idle
  <2> QED BY <2>3, <2>4
<1> QED BY <1>4, <1>5, <1>6 DEF ListNext

-----------------------------------------------------------------------------
(***************************************************************************)
(* Every step keeps the invariant.                                         *)
(***************************************************************************)
LEMMA KeysKeep ==
    ASSUME ScreenInv, KeyPressed
    PROVE  ScreenInv'
<1>1. /\ Phase' /\ UNCHANGED mainVars
      /\ \/ open = "menu"  /\ MenuNext(Top.active) /\ UNCHANGED <<inputVars, textVars>>
         \/ open = "list"  /\ ListNext  /\ UNCHANGED <<inputVars, textVars>>
         \/ open = "input" /\ InputNext /\ UNCHANGED textVars
         \/ open = "text"  /\ TextNext  /\ UNCHANGED inputVars
         \/ open = "yesno" /\ YesnoNext /\ UNCHANGED <<inputVars, textVars>>
  BY KeySteps DEF ScreenInv
<1>2. Stack'
  BY <1>1 DEF ScreenInv, Stack, mainVars
<1>3. CASE open = "menu" /\ MenuNext(Top.active)
  BY <1>1, <1>2, <1>3, MenuKeys DEF ScreenInv
<1>4. CASE open = "list" /\ ListNext
  BY <1>1, <1>2, <1>4, ListKeys DEF ScreenInv
<1>5. ASSUME UNCHANGED listVars, open' \in {open, "none"}, open \in {"input", "text", "yesno"},
             open' = "none" => button' = 0 /\ drawn' = 0
      PROVE  ScreenInv'
  <2>1. Position'
    BY <1>1, <1>5 DEF ScreenInv, Position, mainVars, listVars, In, Top
  <2>2. ListMade'
    BY <1>1, <1>5 DEF ScreenInv, ListMade, mainVars, listVars, In, Top, item_count
  <2>3. Selected'
    BY <1>1, <1>5 DEF ScreenInv, Phase, Selected, mainVars, In, Top
  <2>4. MenuInv' /\ ListInv' /\ Idle'
    BY <1>5 DEF MenuInv, ListInv, Idle
  <2> QED BY <1>1, <1>2, <2>1, <2>2, <2>3, <2>4 DEF ScreenInv
<1>6. CASE open = "input" /\ InputNext
  <2>1. UNCHANGED listVars /\ open' \in {open, "none"} /\ (open' = "none" => button' = 0 /\ drawn' = 0)
    BY <1>6 DEF InputNext, Type, Backspace, InputButton, InputEnter, InputKey, InputLeave,
                InputResize, Typing, InputStays, OnlyInput, InputReturn, Ended, TooLow, Resized
  <2> QED BY <1>5, <1>6, <2>1
<1>7. CASE open = "text" /\ TextNext
  <2>1. UNCHANGED listVars /\ open' \in {open, "none"} /\ (open' = "none" => button' = 0 /\ drawn' = 0)
    BY <1>7 DEF TextNext, FirstPage, LastPage, PreviousLine, NextLine, PreviousPage, NextPage,
                Sideways, TextLeave, TextResize, TextStays, OnlyText, Ended, TooLow, Resized
  <2> QED BY <1>5, <1>7, <2>1
<1>8. CASE open = "yesno" /\ YesnoNext
  <2>1. UNCHANGED listVars /\ open' \in {open, "none"} /\ (open' = "none" => button' = 0 /\ drawn' = 0)
    BY <1>8 DEF YesnoNext, YesnoButton, YesnoEnter, YesnoKey, YesnoResize, YesnoReturn, Ended, TooLow, Resized
  <2> QED BY <1>5, <1>8, <2>1
<1> QED BY <1>1, <1>3, <1>4, <1>6, <1>7, <1>8

LEMMA TopFrame ==
    ASSUME Stack, frames # <<>>
    PROVE  FrameOK(Top) /\ Top = LastOf(frames) /\ listing \in Listings
<1>1. Len(frames) \in 1..Len(frames)
  BY SeqShape DEF Stack, StackOK
<1> QED BY <1>1 DEF Stack, StackOK, Top, LastOf

LEMMA MakesKeep ==
    ASSUME ScreenInv, (ConfMake /\ at' = "made") \/ ChoiceMake
    PROVE  Stack' /\ Position' /\ ListMade' /\ Selected' /\ MenuInv' /\ ListInv' /\ Idle'
<1>1. /\ at = "loop" /\ open = "none" /\ frames # <<>> /\ Stack /\ Position /\ drawn = button
  BY DEF ScreenInv, ConfMake, ChoiceMake, In, Phase, Idle
<1>2. FrameOK(Top) /\ listing \in Listings
  BY <1>1, TopFrame
<1>3. ASSUME NEW list, NEW n, Made(list, n), at' = "made"
      PROVE  /\ Stack' /\ Position' /\ Selected' /\ MenuInv' /\ ListInv' /\ Idle'
             /\ items' = list /\ picked' = n /\ frames' = frames /\ Top' = Top
  <2>1. /\ UNCHANGED <<open, button, drawn, frames, listing, s_scroll>> /\ items' = list /\ picked' = n
        /\ Top' = Top
    BY <1>3 DEF Made, Keep, dialogVars, Top
  <2>2. Stack' /\ Position'
    BY <1>1, <1>3, <2>1 DEF Stack, Position, In
  <2> QED BY <1>1, <1>3, <2>1, <2>2 DEF Selected, MenuInv, ListInv, Idle
<1>4. CASE ConfMake /\ at' = "made"
  <2>1. In("conf") /\ listing[Top.menu] # <<>> /\ Made(listing[Top.menu], -1)
    BY <1>4 DEF ConfMake, Leave
  <2>2. Top.menu \in DOMAIN listing
    BY <1>2, <2>1 DEF FrameOK, In
  <2>3. IsList(listing[Top.menu])
    BY <1>2, <2>2 DEF IsList
  <2> QED BY <1>3, <1>4, <2>1, <2>3 DEF ListMade, In
<1>5. CASE ChoiceMake
  <2> DEFINE vs == Values[Top.menu]
             same == {i \in DOMAIN vs : vs[i].sym = Top.active}
             n == IF same = {} THEN -1 ELSE (CHOOSE i \in same : \A k \in same : i <= k) - 1
  <2>1. In("choice") /\ at' = "made" /\ Made(Items(vs), n)
    BY <1>5 DEF ChoiceMake
  <2>2. Top.menu \in DOMAIN Values
    BY <1>2, <2>1 DEF FrameOK, In
  <2>3. vs \in Seq(Range(vs)) /\ vs # <<>>
    BY <2>2, ValuesAssumption
  <2>4. Len(vs) \in Nat /\ Len(vs) > 0 /\ DOMAIN vs = 1..Len(vs)
    BY <2>3, SeqShape DEF IsSeq
  <2>5. IsSeq(Items(vs)) /\ Len(Items(vs)) = Len(vs) /\ Items(vs) # <<>>
    <3>1. DOMAIN Items(vs) = 1..Len(vs) /\ Items(vs) \in [1..Len(vs) -> Range(Items(vs))]
      BY <2>4 DEF Items, Range
    <3>2. Items(vs) \in Seq(Range(Items(vs)))
      BY <2>4, <3>1, SeqDef
    <3>3. IsSeq(Items(vs)) /\ DOMAIN Items(vs) = 1..Len(Items(vs)) /\ Len(Items(vs)) \in Nat
      BY <3>2, SeqShape DEF IsSeq
    <3>4. Len(Items(vs)) = Len(vs)
      BY <2>4, <3>1, <3>3
    <3> QED BY <2>4, <3>3, <3>4, SeqShape
  <2>6. n \in -1..(Len(vs) - 1)
    <3>1. CASE same = {}
      BY <2>4, <3>1
    <3>2. CASE same # {}
      <4>1. same \in SUBSET Nat /\ same \in SUBSET (1..Len(vs))
        BY <2>4
      <4>2. (CHOOSE i \in same : \A k \in same : i <= k) \in same
        BY <3>2, <4>1, FirstFound
      <4> HIDE DEF same
      <4>3. (CHOOSE i \in same : \A k \in same : i <= k) \in 1..Len(vs)
        BY <4>1, <4>2
      <4> QED BY <2>4, <3>2, <4>3
    <3> QED BY <3>1, <3>2
  <2> HIDE DEF vs, same, n
  <2>7. /\ Stack' /\ Position' /\ Selected' /\ MenuInv' /\ ListInv' /\ Idle'
        /\ items' = Items(vs) /\ picked' = n /\ frames' = frames /\ Top' = Top
    BY <1>3, <2>1
  <2>8. ListMade'
    BY <2>1, <2>5, <2>6, <2>7 DEF ListMade, In, item_count
  <2> QED BY <2>7, <2>8
<1> QED BY <1>4, <1>5

LEMMA OpensKeep ==
    ASSUME ScreenInv, ConfOpen \/ ChoiceOpen \/ InputStart
    PROVE  Stack' /\ Position' /\ ListMade' /\ Selected' /\ MenuInv' /\ ListInv' /\ Idle'
<1>1. /\ Stack /\ Position /\ ListMade /\ open = "none" /\ drawn = button /\ frames # <<>>
      /\ s_scroll \in Nat /\ height \in Heights
  BY DEF ScreenInv, ConfOpen, ChoiceOpen, InputStart, In, Phase, Idle, Position
<1>2. at' = "in" /\ UNCHANGED <<frames, listing>> /\ Top' = Top
  BY DEF ConfOpen, ChoiceOpen, InputStart, Opened, Keep, Top
<1>3. Stack'
  BY <1>1, <1>2 DEF Stack
<1>4. CASE ConfOpen
  <2>1. at = "made" /\ In("conf") /\ MenuOpen(Top.active) /\ IsList(items) /\ items # <<>>
    BY <1>1, <1>4 DEF ConfOpen, ListMade
  <2>2. UNCHANGED <<height, button, drawn, resized, items, picked, s_scroll>>
    BY <2>1 DEF MenuOpen
  <2>3. In("conf")' /\ ~In("choice")'
    BY <1>2, <2>1 DEF In
  <2>4. Position' /\ ListMade'
    BY <1>1, <1>2, <2>1, <2>2, <2>3 DEF Position, ListMade, In
  <2>5. CASE height < 15
    <3>1. open' = "none" /\ result' = "small"
      BY <1>1, <2>1, <2>5 DEF MenuOpen
    <3> QED BY <1>1, <1>3, <2>2, <2>4, <3>1 DEF Selected, MenuInv, ListInv, Idle
  <2>6. CASE ~(height < 15)
    <3>1. ShowOrDie(Layout(height, Top.active, 0, 0), height) /\ height >= 15
      BY <1>1, <2>1, <2>6, HeightsAssumption DEF MenuOpen
    <3>2. 0 \in 0..(item_count - 1)
      <4>1. item_count \in Nat /\ item_count > 0
        BY <1>1, <2>1, <3>1, MenuSizes
      <4> QED BY <4>1
    <3>3. MenuInv' /\ open' \in {"menu", "killed"}
      <4>1. height' = height /\ items' = items /\ drawn' = button' /\ 0 \in Nat
        BY <1>1, <2>2
      <4> QED BY <1>1, <2>1, <3>1, <3>2, <4>1, MenuShown
    <3> QED BY <1>3, <2>4, <3>3 DEF Selected, ListInv, Idle
  <2> QED BY <2>5, <2>6
<1>5. CASE ChoiceOpen
  <2>1. /\ at = "made" /\ In("choice") /\ ListOpen /\ IsSeq(items) /\ items # <<>>
        /\ picked \in -1..(item_count - 1)
    BY <1>1, <1>5 DEF ChoiceOpen, ListMade
  <2>2. UNCHANGED <<height, button, drawn, resized, items, picked, s_scroll>>
    BY <2>1 DEF ListOpen
  <2>3. ~In("conf")' /\ In("choice")'
    BY <1>2, <2>1 DEF In
  <2>4. Position' /\ ListMade' /\ Selected'
    BY <1>1, <1>2, <2>1, <2>2, <2>3 DEF Position, ListMade, Selected, In
  <2>5. CASE height < 21
    <3>1. open' = "none"
      BY <1>1, <2>1, <2>5 DEF ListOpen
    <3> QED BY <1>1, <1>3, <2>2, <2>4, <3>1 DEF MenuInv, ListInv, Idle
  <2>6. CASE ~(height < 21)
    <3>1. ListShow(0, Start(picked)) /\ open' = "list"
      BY <2>1, <2>6 DEF ListOpen
    <3>2. /\ item_count \in Nat /\ item_count > 0
          /\ ListRows = IF ListHeight < item_count THEN ListHeight ELSE item_count
          /\ ListHeight \in Nat
      BY <2>1, ListSizes
    <3> HIDE DEF item_count, ListRows
    <3>3. Start(picked) \in 0..(item_count - 1)
      <4>1. CASE picked # -1 \/ Marked = {}
        BY <2>1, <3>2, <4>1 DEF Start
      <4>2. CASE picked = -1 /\ Marked # {}
        <5>1. Start(picked) = CHOOSE n \in Marked : \A k \in Marked : k <= n
          BY <4>2 DEF Start
        <5>2. Marked \in SUBSET (0..(item_count - 1)) /\ item_count - 1 \in Nat
          BY <3>2 DEF Marked
        <5>3. (CHOOSE n \in Marked : \A k \in Marked : k <= n) \in Marked
          BY <4>2, <5>2, LastFound
        <5> QED BY <5>1, <5>2, <5>3
      <4> QED BY <2>1, <4>1, <4>2
    <3>4. /\ 0 \in Nat /\ Start(picked) \in Nat /\ 0 + Start(picked) < item_count
          /\ 0 + ListRows <= item_count
      BY <3>2, <3>3
    <3>5. items' = items /\ drawn' = button'
      BY <1>1, <2>2
    <3>6. ListInv'
      BY <2>1, <3>1, <3>4, <3>5, ListShown
    <3> QED BY <1>3, <2>4, <3>1, <3>6 DEF MenuInv, Idle
  <2> QED BY <2>5, <2>6
<1>6. CASE InputStart
  <2>1. ~In("conf") /\ ~In("choice") /\ UNCHANGED listVars
    BY <1>6 DEF InputStart, In, InputOpen, OnlyInput
  <2>2. open' = "input" \/ (open' = "none" /\ UNCHANGED <<button, drawn>>)
    BY <1>1, <1>6 DEF InputStart, InputOpen
  <2>3. ~In("conf")' /\ ~In("choice")'
    BY <1>2, <2>1 DEF In
  <2>4. Position' /\ ListMade' /\ Selected'
    BY <1>1, <1>2, <2>1, <2>3 DEF Position, ListMade, Selected, listVars
  <2> QED BY <1>1, <1>3, <2>2, <2>4 DEF MenuInv, ListInv, Idle
<1> QED BY <1>4, <1>5, <1>6

LEMMA MainKeeps ==
    ASSUME ScreenInv, Ask \/ Answered
    PROVE  Stack' /\ Position' /\ ListMade' /\ Selected' /\ MenuInv' /\ ListInv' /\ Idle'
<1>1. /\ Stack /\ Position /\ Idle /\ open = "none" /\ at \in {"asking", "answer"}
  BY DEF ScreenInv, Ask, Answered, Phase
<1>2. ASSUME UNCHANGED <<frames, listing, listVars, button, drawn>>, at' \in {"answer", "over"},
             open' \in {"none", "yesno"}
      PROVE  Stack' /\ Position' /\ ListMade' /\ Selected' /\ MenuInv' /\ ListInv' /\ Idle'
  <2>1. Stack' /\ Position'
    BY <1>1, <1>2 DEF Stack, Position, In, Top, listVars
  <2> QED BY <1>1, <1>2, <2>1, Elsewhere
<1>3. CASE Ask
  BY <1>1, <1>2, <1>3 DEF Ask, YesnoOpen, Finish, NoDialog, dialogVars, Keep
<1>4. CASE Answered
  <2>1. CASE Call(<<>>, "conf", Root, NoData) /\ Keep
    <3>1. StackOK(<<>>)
      <4>1. <<>> \in Seq({}) /\ Len(<<>>) = 0
        BY EmptySeq
      <4>2. IsSeq(<<>>)
        BY <4>1, SeqFromAny
      <4> QED BY <4>1, <4>2 DEF StackOK
    <3>2. \A l \in Listings : Root \in DOMAIN l
      BY ScreensAssumption
    <3>3. listing' \in Listings
      BY <1>1, <2>1 DEF Stack, Keep
    <3> QED BY <1>1, <2>1, <3>1, <3>2, <3>3, CallInv
  <2>2. CASE Finish
    BY <1>1, <1>2, <2>2 DEF Finish, NoDialog, dialogVars, Keep
  <2> QED BY <1>4, <2>1, <2>2 DEF Answered
<1> QED BY <1>3, <1>4

\* What conf() notes of the item its menu has returned.
LEMMA NotedOK ==
    ASSUME ScreenInv, Returned("conf"), result \notin {"esc", "small"}
    PROVE  /\ StackOK(Noted) /\ Noted # <<>>
           /\ LastOf(Noted).fn = "conf" /\ LastOf(Noted).place.scroll = s_scroll
           /\ It.tag = "m" => \A l \in Listings : It.data \in DOMAIN l
<1>1. /\ Stack /\ at = "in" /\ open = "none" /\ In("conf") /\ frames # <<>> /\ Top.fn = "conf"
      /\ IsList(items) /\ items # <<>> /\ s_scroll \in Nat
      /\ picked \in Nat /\ s_scroll <= picked /\ picked < s_scroll + max_choice
      /\ s_scroll + max_choice <= item_count
  BY DEF ScreenInv, Returned, In, ListMade, Position, Selected
<1>2. FrameOK(Top) /\ Top = LastOf(frames)
  BY <1>1, TopFrame
<1>3. item_count \in Nat /\ max_choice = RowsOf([items |-> items, height |-> height])
      /\ item_count = Len(items)
  BY <1>1, ListFacts, SeqShape DEF item_count, max_choice, MenuRows, RowsOf
<1>4. max_choice \in Int
  BY <1>3, HeightsAssumption DEF max_choice, MenuRows, Least, ScreenInv, Phase
<1> DEFINE p == [items |-> items, height |-> height, scroll |-> s_scroll, choice |-> picked - s_scroll]
           f == [Top EXCEPT !.active = It.data, !.place = p]
<1>5. /\ p.items = items /\ p.scroll = s_scroll /\ p.choice = picked - s_scroll /\ RowsOf(p) = max_choice
  BY <1>3 DEF RowsOf
<1>7. Noted = [frames EXCEPT ![Len(frames)] = f]
  BY DEF Noted, Top
<1> HIDE DEF p
<1>6. f = [fn |-> "conf", menu |-> Top.menu, active |-> It.data, kept |-> Top.kept, place |-> p]
  <2>1. PICK a : a = It.data
    OBVIOUS
  <2>2. PICK t : t = Top
    OBVIOUS
  <2>3. t = [fn |-> "conf", menu |-> t.menu, active |-> t.active, kept |-> t.kept, place |-> t.place]
    BY <1>1, <1>2, <2>2 DEF FrameOK
  <2>4. [t EXCEPT !.active = a, !.place = p]
          = [fn |-> "conf", menu |-> t.menu, active |-> a, kept |-> t.kept, place |-> p]
    <3>1. PICK r : r = [t EXCEPT !.active = a]
      OBVIOUS
    <3>2. r = [fn |-> "conf", menu |-> t.menu, active |-> a, kept |-> t.kept, place |-> t.place]
      BY <2>3, <3>1
    <3>3. [t EXCEPT !.active = a, !.place = p] = [r EXCEPT !.place = p]
      BY <3>1
    <3>4. r.fn = "conf" /\ r.menu = t.menu /\ r.active = a /\ r.kept = t.kept
      BY <3>2
    <3>5. [r EXCEPT !.place = p]
            = [fn |-> "conf", menu |-> r.menu, active |-> r.active, kept |-> r.kept, place |-> p]
      BY <3>2, <3>4
    <3> QED BY <3>3, <3>4, <3>5
  <2>5. f = [t EXCEPT !.active = a, !.place = p]
    BY <2>1, <2>2
  <2> HIDE DEF f
  <2> QED BY <2>1, <2>2, <2>4, <2>5
<1> HIDE DEF f
<1>8. f.fn = "conf" /\ f.menu = Top.menu /\ f.active = It.data /\ f.kept = Top.kept /\ f.place = p
  BY <1>6
<1>9. PlaceOK(f)
  <2>1. p.choice \in 0..(RowsOf(p) - 1) /\ p.scroll + RowsOf(p) <= Len(p.items)
    BY <1>1, <1>3, <1>4, <1>5
  <2>2. p.scroll + p.choice + 1 = picked + 1
    BY <1>1, <1>5
  <2>3. p.items[p.scroll + p.choice + 1].data = It.data
    BY <1>5, <2>2 DEF It, item
  <2> QED BY <1>8, <2>1, <2>3 DEF PlaceOK
<1>10. FrameOK(f)
  BY <1>1, <1>2, <1>5, <1>6, <1>8, <1>9 DEF FrameOK
<1>11. StackOK(Noted) /\ Noted # <<>> /\ LastOf(Noted) = f
  BY <1>1, <1>2, <1>7, <1>8, <1>10, FrameChanged DEF Stack
<1>12. It.tag = "m" => \A l \in Listings : It.data \in DOMAIN l
  <2>1. picked + 1 \in 1..Len(items)
    BY <1>1, <1>3, <1>4
  <2> QED BY <1>1, <2>1, ListFacts DEF It, item
<1> QED BY <1>5, <1>8, <1>11, <1>12

LEMMA ConfKeeps ==
    ASSUME ScreenInv,
           ConfLeft \/ Submenu \/ ConfSelected \/ ConfHelp \/ ConfSearch \/ ConfValue
    PROVE  Stack' /\ Position' /\ ListMade' /\ Selected' /\ MenuInv' /\ ListInv' /\ Idle'
<1>1. /\ Stack /\ Position /\ Idle /\ open = "none" /\ Returned("conf") /\ frames # <<>>
      /\ listing \in Listings
  BY DEF ScreenInv, ConfLeft, Submenu, ConfSelected, ConfHelp, ConfSearch, ConfValue, Returned, In, Stack
<1>2. listing' \in Listings
  BY <1>1 DEF ConfLeft, Submenu, ConfSelected, ConfHelp, ConfSearch, ConfValue, Keep, Set
<1>3. CASE ConfLeft
  BY <1>1, <1>2, <1>3, LeaveInv DEF ConfLeft
<1>4. ASSUME result \notin {"esc", "small"}
      PROVE  /\ StackOK(Noted) /\ Noted # <<>>
             /\ LastOf(Noted).fn = "conf" /\ LastOf(Noted).place.scroll = s_scroll
             /\ It.tag = "m" => \A l \in Listings : It.data \in DOMAIN l
  BY <1>1, <1>4, NotedOK
<1>5. ASSUME result \notin {"esc", "small"}, Loop(Noted)
      PROVE  Stack' /\ Position' /\ ListMade' /\ Selected' /\ MenuInv' /\ ListInv' /\ Idle'
  BY <1>1, <1>2, <1>4, <1>5, LoopInv
<1>6. ASSUME result \notin {"esc", "small"}, NEW t, ShowText(Noted, t)
      PROVE  Stack' /\ Position' /\ ListMade' /\ Selected' /\ MenuInv' /\ ListInv' /\ Idle'
  BY <1>1, <1>2, <1>4, <1>6, TextInv
<1>7. ASSUME result \notin {"esc", "small"}, NEW f, NEW m, NEW a, Call(Noted, f, m, a),
             f = "conf" => a = NoData /\ \A l \in Listings : m \in DOMAIN l,
             f = "choice" => m \in DOMAIN Values
      PROVE  Stack' /\ Position' /\ ListMade' /\ Selected' /\ MenuInv' /\ ListInv' /\ Idle'
  BY <1>1, <1>2, <1>4, <1>7, CallInv
<1>8. CASE Submenu
  <2>1. /\ result \in {"select", "toggle"} /\ Call(Noted, "conf", It.data, NoData)
        /\ It.tag = "m" \/ It.data \in DOMAIN listing
    BY <1>8 DEF Submenu
  <2>2. \A l \in Listings : It.data \in DOMAIN l
    <3>1. CASE It.tag = "m"
      BY <1>4, <2>1, <3>1
    <3>2. CASE It.data \in DOMAIN listing
      BY <1>1, <3>2, ListsAssumption
    <3> QED BY <2>1, <3>1, <3>2
  <2> QED BY <1>7, <2>1, <2>2
<1>9. CASE ConfSelected
  <2>1. result = "select"
    BY <1>9 DEF ConfSelected
  <2>2. CASE Loop(Noted)
    BY <1>5, <2>1, <2>2
  <2>3. CASE It.data \in DOMAIN Values /\ Call(Noted, "choice", It.data, chosen)
    BY <1>7, <2>1, <2>3
  <2>4. CASE \E f \in {"string", "load", "save"} : Call(Noted, f, It.data, NoData)
    BY <1>7, <2>1, <2>4
  <2> QED BY <1>9, <2>2, <2>3, <2>4 DEF ConfSelected
<1>10. CASE ConfHelp
  BY <1>6, <1>10 DEF ConfHelp, HelpShown
<1>11. CASE ConfSearch
  BY <1>7, <1>11 DEF ConfSearch
<1>12. CASE ConfValue
  <2>1. result \notin {"esc", "small"}
    BY <1>12 DEF ConfValue
  <2> QED BY <1>5, <1>6, <1>12, <2>1 DEF ConfValue
<1> QED BY <1>3, <1>8, <1>9, <1>10, <1>11, <1>12

LEMMA OthersKeep ==
    ASSUME ScreenInv,
           \/ ChoiceSelected \/ ChoiceHelp \/ ChoiceLeft
           \/ StringEntered \/ LoadEntered \/ SaveEntered \/ InputHelp \/ InputLeft \/ InputTooLow
           \/ SearchTooLow \/ SearchEntered
    PROVE  Stack' /\ Position' /\ ListMade' /\ Selected' /\ MenuInv' /\ ListInv' /\ Idle'
<1>1. /\ Stack /\ Position /\ Idle /\ open = "none" /\ frames # <<>> /\ listing \in Listings
      /\ ~In("conf")
  BY DEF ScreenInv, ChoiceSelected, ChoiceHelp, ChoiceLeft, StringEntered, LoadEntered, SaveEntered,
         InputHelp, InputLeft, InputTooLow, SearchTooLow, SearchEntered, Returned, In, Stack
<1>2. FrameOK(Top) /\ Top = LastOf(frames) /\ StackOK(frames)
      /\ Top.fn # "conf" /\ Top.kept = s_scroll
  BY <1>1, TopFrame DEF Stack, Position, In
<1>3. ASSUME Leave, listing' \in Listings
      PROVE  Stack' /\ Position' /\ ListMade' /\ Selected' /\ MenuInv' /\ ListInv' /\ Idle'
  BY <1>1, <1>3, LeaveInv
<1>4. ASSUME Loop(frames), listing' \in Listings
      PROVE  Stack' /\ Position' /\ ListMade' /\ Selected' /\ MenuInv' /\ ListInv' /\ Idle'
  BY <1>1, <1>2, <1>4, LoopInv
<1>5. ASSUME NEW t, ShowText(frames, t), listing' \in Listings
      PROVE  Stack' /\ Position' /\ ListMade' /\ Selected' /\ MenuInv' /\ ListInv' /\ Idle'
  BY <1>1, <1>2, <1>5, TextInv
<1>6. Keep \/ Set => listing' \in Listings
  BY <1>1 DEF Keep, Set
<1>7. CASE ChoiceSelected
  BY <1>3, <1>4, <1>6, <1>7 DEF ChoiceSelected
<1>8. CASE ChoiceHelp
  <2>1. PICK a : [frames EXCEPT ![Len(frames)].active = a]
                   = [frames EXCEPT ![Len(frames)].active = Values[Top.menu][picked + 1].sym]
    OBVIOUS
  <2> DEFINE f == [Top EXCEPT !.active = a]
  <2>2. PICK t : ShowText([frames EXCEPT ![Len(frames)].active = a], t)
    BY <1>8, <2>1 DEF ChoiceHelp, HelpShown
  <2>3. f = [fn |-> Top.fn, menu |-> Top.menu, active |-> a, kept |-> Top.kept, place |-> Top.place]
    BY <1>2 DEF FrameOK
  <2>4. [frames EXCEPT ![Len(frames)].active = a] = [frames EXCEPT ![Len(frames)] = f]
    BY DEF Top
  <2> HIDE DEF f
  <2>5. f.fn = Top.fn /\ f.menu = Top.menu /\ f.active = a /\ f.kept = Top.kept /\ f.place = Top.place
    BY <2>3
  <2>6. FrameOK(f)
    BY <1>2, <2>3, <2>5 DEF FrameOK, PlaceOK
  <2>7. /\ StackOK([frames EXCEPT ![Len(frames)] = f]) /\ [frames EXCEPT ![Len(frames)] = f] # <<>>
        /\ LastOf([frames EXCEPT ![Len(frames)] = f]) = f
    BY <1>1, <1>2, <2>5, <2>6, FrameChanged
  <2>8. ShowText([frames EXCEPT ![Len(frames)] = f], t) /\ listing' \in Listings
    BY <1>6, <1>8, <2>2, <2>4 DEF ChoiceHelp
  <2> QED BY <1>1, <1>2, <2>5, <2>7, <2>8, TextInv
<1>9. CASE ChoiceLeft \/ InputLeft \/ SearchTooLow
  BY <1>3, <1>6, <1>9 DEF ChoiceLeft, InputLeft, SearchTooLow
<1>10. CASE StringEntered \/ LoadEntered
  BY <1>3, <1>5, <1>6, <1>10 DEF StringEntered, LoadEntered, Refused
<1>11. CASE SaveEntered
  BY <1>1, <1>3, <1>5, <1>6, <1>11 DEF SaveEntered, Refused
<1>12. CASE InputHelp
  BY <1>5, <1>6, <1>12 DEF InputHelp, HelpShown
<1>13. CASE InputTooLow
  BY <1>4, <1>6, <1>13 DEF InputTooLow
<1>14. CASE SearchEntered
  <2> DEFINE gs == SubSeq(frames, 1, Len(frames) - 1)
  <2>1. PICK t : ShowText(gs, t)
    BY <1>14 DEF SearchEntered, HelpShown
  <2>2. listing' \in Listings
    BY <1>6, <1>14 DEF SearchEntered
  <2>3. /\ StackOK(gs)
        /\ gs # <<>> => LastOf(gs).fn = "conf" /\ LastOf(gs).place.scroll = s_scroll
    BY <1>1, <1>2, FramePopped
  <2> HIDE DEF gs
  <2>4. CASE gs # <<>>
    BY <1>1, <2>1, <2>2, <2>3, <2>4, TextInv
  <2>5. CASE gs = <<>>
    <3>1. /\ frames' = <<>> /\ at' = "text" /\ open' \in {"none", "text"}
          /\ UNCHANGED <<button, drawn, s_scroll>>
      BY <2>1, <2>5 DEF ShowText, TextOpen, OnlyText, listVars
    <3>2. Stack' /\ Position'
      BY <1>1, <2>2, <2>3, <2>5, <3>1 DEF Stack, Position, In
    <3> QED BY <1>1, <3>1, <3>2, Elsewhere
  <2> QED BY <2>4, <2>5
<1> QED BY <1>7, <1>8, <1>9, <1>10, <1>11, <1>12, <1>13, <1>14

LEMMA ScreenStep ==
    ASSUME ScreenInv, [Next]_vars
    PROVE  ScreenInv'
<1>1. CASE UNCHANGED vars
  BY <1>1 DEF vars, mainVars, listVars, dialogVars, ScreenInv, Phase, Stack, Position, ListMade, Selected,
              MenuInv, ListInv, Idle, In, Top, item_count, max_choice, MenuRows, MenuArrows, ListRows
<1>2. CASE KeyPressed
  BY <1>2, KeysKeep
<1>3. CASE Next /\ ~KeyPressed
  <2>1. Phase'
    BY <1>3, OtherSteps DEF ScreenInv
  <2>2. Stack' /\ Position' /\ ListMade' /\ Selected' /\ MenuInv' /\ ListInv' /\ Idle'
    <3>1. CASE ConfMake /\ at' # "made"
      <4>1. Leave /\ Keep /\ at = "loop" /\ frames # <<>>
        BY <3>1 DEF ConfMake, In
      <4> QED BY <4>1, LeaveInv DEF ScreenInv, Phase, Keep, Stack
    <3>2. CASE (ConfMake /\ at' = "made") \/ ChoiceMake
      BY <3>2, MakesKeep
    <3>3. CASE TextClosed
      <4>1. open = "none" /\ at = "text" /\ Loop(frames) /\ Keep
        BY <3>3 DEF TextClosed
      <4>2. CASE frames # <<>>
        BY <4>1, <4>2, TopFrame, LoopInv DEF ScreenInv, Position, In, Stack, Keep
      <4>3. CASE frames = <<>>
        <5>1. Stack' /\ Position'
          BY <4>1, <4>3 DEF ScreenInv, Stack, Position, Loop, Keep, listVars, In
        <5> QED BY <4>1, <5>1, Elsewhere DEF ScreenInv, Loop, NoDialog, dialogVars
      <4> QED BY <4>2, <4>3
    <3> QED BY <1>3, <3>1, <3>2, <3>3, OpensKeep, MainKeeps, ConfKeeps, OthersKeep DEF Next
  <2> QED BY <2>1, <2>2 DEF ScreenInv
<1> QED BY <1>1, <1>2, <1>3

LEMMA ScreenStart == Init => ScreenInv
<1> SUFFICES ASSUME Init PROVE ScreenInv
  OBVIOUS
<1>1. /\ open = "none" /\ button = 0 /\ drawn = 0 /\ s_scroll = 0 /\ at = "loop"
      /\ listing \in Listings /\ frames = <<Frame("conf", Root, NoData)>>
  BY DEF Init
<1>2. PICK f : f = Frame("conf", Root, NoData)
  OBVIOUS
<1>3. FrameOK(f) /\ f.fn = "conf" /\ f.place.scroll = 0
  <2>1. \A l \in Listings : Root \in DOMAIN l
    BY ScreensAssumption
  <2> QED BY <1>1, <1>2, <2>1, NewFrame
<1>4. frames = <<f>> /\ Len(frames) = 1 /\ frames[1] = f /\ frames # <<>>
  BY <1>1, <1>2
<1>5. IsSeq(frames)
  <2>1. frames \in Seq({f})
    BY <1>4
  <2> QED BY <2>1, SeqFromAny
<1>6. Top = f /\ In("conf")
  BY <1>3, <1>4 DEF Top, In
<1>7. StackOK(frames)
  <2>1. \A i \in 1..Len(frames) : i = 1
    BY <1>4
  <2>2. \A i \in 1..(Len(frames) - 1) : FALSE
    BY <1>4
  <2> QED BY <1>3, <1>4, <1>5, <2>1, <2>2 DEF StackOK
<1>8. Stack /\ Position
  BY <1>1, <1>3, <1>4, <1>6, <1>7 DEF Stack, Position
<1> QED BY <1>1, <1>8, PhaseStart DEF ScreenInv, ListMade, Selected, MenuInv, ListInv, Idle

\* The frames of mconf.c that are running, the s_scroll and active_menu each keeps,
\* the list that is made and the window that shows it belong together.
THEOREM ScreenCorrect == Spec => []ScreenInv
BY ScreenStart, ScreenStep, PTL DEF Spec

-----------------------------------------------------------------------------
(***************************************************************************)
(* What the window shows.                                                  *)
(***************************************************************************)
LEMMA ShownWithin ==
    ASSUME item_count \in Nat, NEW rows \in Nat, rows > 0,
           scroll \in 0..(item_count - rows), choice \in 0..(rows - 1),
           win = [i \in 0..(rows - 1) |-> Cell(scroll + i, i = choice)]
    PROVE  /\ \A i \in DOMAIN win : win[i] = Cell(scroll + i, i = choice)
           /\ choice \in DOMAIN win /\ item_count \notin {scroll + i : i \in DOMAIN win}
           /\ (\A i \in DOMAIN win : scroll + i + 1 < item_count) <=> scroll + rows < item_count
<1> HIDE DEF item_count
<1>1. DOMAIN win = 0..(rows - 1) /\ choice \in DOMAIN win
  OBVIOUS
<1>2. \A i \in DOMAIN win : win[i] = Cell(scroll + i, i = choice)
  OBVIOUS
<1>3. \A i \in 0..(rows - 1) : scroll + i # item_count
  OBVIOUS
<1>4. rows - 1 \in 0..(rows - 1) /\ scroll + (rows - 1) + 1 = scroll + rows
  OBVIOUS
<1>5. (\A i \in 0..(rows - 1) : scroll + i + 1 < item_count) <=> scroll + rows < item_count
  <2>1. ASSUME \A i \in 0..(rows - 1) : scroll + i + 1 < item_count
        PROVE  scroll + rows < item_count
    BY <1>4, <2>1
  <2>2. ASSUME scroll + rows < item_count, NEW i \in 0..(rows - 1)
        PROVE  scroll + i + 1 < item_count
    BY <2>2
  <2> QED BY <2>1, <2>2
<1> QED BY <1>1, <1>2, <1>3, <1>5

LEMMA WindowShown == ScreenInv => WindowTrue
<1> SUFFICES ASSUME ScreenInv, open \in {"menu", "list"}, ~resized
             PROVE  /\ \A i \in DOMAIN win : win[i] = Cell(scroll + i, i = choice)
                    /\ choice \in DOMAIN win /\ item_count \notin {scroll + i : i \in DOMAIN win}
                    /\ arrows = [up |-> scroll > 0,
                                 down |-> \A i \in DOMAIN win : scroll + i + 1 < item_count]
                    /\ drawn = button
  BY DEF WindowTrue
<1>1. CASE open = "menu"
  <2>1. /\ IsList(items) /\ items # <<>> /\ height \in Heights /\ height >= 15
        /\ scroll \in 0..(item_count - max_choice) /\ choice \in 0..(max_choice - 1)
        /\ win = [i \in 0..(max_choice - 1) |-> Cell(scroll + i, i = choice)]
        /\ arrows = MenuArrows(scroll, height) /\ drawn = button
    BY <1>1 DEF ScreenInv, Phase, ListMade, MenuInv
  <2>2. /\ height \in Nat /\ item_count \in Nat /\ max_choice \in Nat /\ max_choice > 0
        /\ max_choice = IF height - 14 < item_count THEN height - 14 ELSE item_count
    BY <2>1, MenuSizes DEF max_choice, Least
  <2>3. /\ \A i \in DOMAIN win : win[i] = Cell(scroll + i, i = choice)
        /\ choice \in DOMAIN win /\ item_count \notin {scroll + i : i \in DOMAIN win}
        /\ (\A i \in DOMAIN win : scroll + i + 1 < item_count) <=> scroll + max_choice < item_count
    BY <2>1, <2>2, ShownWithin
  <2>4. scroll + max_choice < item_count <=> scroll + (height - 14) < item_count
    <3> HIDE DEF item_count, max_choice
    <3> QED BY <2>1, <2>2
  <2>5. arrows = [up |-> scroll > 0, down |-> scroll + (height - 14) < item_count]
    BY <2>1 DEF MenuArrows
  <2>6. (scroll + (height - 14) < item_count) <=> (\A i \in DOMAIN win : scroll + i + 1 < item_count)
    BY <2>3, <2>4
  <2>7. arrows = [up |-> scroll > 0, down |-> \A i \in DOMAIN win : scroll + i + 1 < item_count]
    <3> HIDE DEF item_count
    <3>1. CASE scroll + (height - 14) < item_count
      <4>1. /\ (scroll + (height - 14) < item_count) = TRUE
            /\ (\A i \in DOMAIN win : scroll + i + 1 < item_count) = TRUE
        BY <2>6, <3>1
      <4> QED BY <2>5, <4>1
    <3>2. CASE ~(scroll + (height - 14) < item_count)
      <4>1. /\ (scroll + (height - 14) < item_count) = FALSE
            /\ (\A i \in DOMAIN win : scroll + i + 1 < item_count) = FALSE
        BY <2>6, <3>2
      <4> QED BY <2>5, <4>1
    <3> QED BY <3>1, <3>2
  <2> QED BY <2>1, <2>3, <2>7
<1>2. CASE open = "list"
  <2>1. /\ IsSeq(items) /\ items # <<>>
        /\ scroll \in 0..(item_count - ListRows) /\ choice \in 0..(ListRows - 1)
        /\ win = [i \in 0..(ListRows - 1) |-> Cell(scroll + i, i = choice)]
        /\ arrows = [up |-> scroll > 0, down |-> scroll + ListRows < item_count] /\ drawn = button
    BY <1>2 DEF ScreenInv, Phase, ListMade, ListInv
  <2>2. item_count \in Nat /\ ListRows \in Nat /\ ListRows > 0
    BY <2>1, ListSizes
  <2>3. /\ \A i \in DOMAIN win : win[i] = Cell(scroll + i, i = choice)
        /\ choice \in DOMAIN win /\ item_count \notin {scroll + i : i \in DOMAIN win}
        /\ (\A i \in DOMAIN win : scroll + i + 1 < item_count) <=> scroll + ListRows < item_count
    BY <2>1, <2>2, ShownWithin
  <2>4. (scroll + ListRows < item_count) <=> (\A i \in DOMAIN win : scroll + i + 1 < item_count)
    BY <2>3
  <2>5. arrows = [up |-> scroll > 0, down |-> \A i \in DOMAIN win : scroll + i + 1 < item_count]
    <3> HIDE DEF item_count, ListRows
    <3>1. CASE scroll + ListRows < item_count
      <4>1. /\ (scroll + ListRows < item_count) = TRUE
            /\ (\A i \in DOMAIN win : scroll + i + 1 < item_count) = TRUE
        BY <2>4, <3>1
      <4> QED BY <2>1, <4>1
    <3>2. CASE ~(scroll + ListRows < item_count)
      <4>1. /\ (scroll + ListRows < item_count) = FALSE
            /\ (\A i \in DOMAIN win : scroll + i + 1 < item_count) = FALSE
        BY <2>4, <3>2
      <4> QED BY <2>1, <4>1
    <3> QED BY <3>1, <3>2
  <2> QED BY <2>1, <2>3, <2>5
<1> QED BY <1>1, <1>2

\* However a menu or a list has been scrolled (menubox.c:304, checklist.c:211), its
\* window shows the items from scroll on, with the row of choice alone highlighted.
THEOREM WindowCorrect == Spec => []WindowTrue
BY ScreenCorrect, WindowShown, PTL

-----------------------------------------------------------------------------
(***************************************************************************)
(* A menu that is shown again.                                             *)
(***************************************************************************)
LEMMA PlaceFound ==
    ASSUME ScreenInv, ConfOpen, open' = "menu", Top.active # NoData,
           Top.place.items = items, Top.place.height = height
    PROVE  scroll' = Top.place.scroll /\ choice' = Top.place.choice
<1>1. /\ Stack /\ at = "made" /\ In("conf") /\ frames # <<>> /\ Top.fn = "conf"
      /\ IsList(items) /\ items # <<>> /\ s_scroll \in Nat /\ s_scroll = Top.place.scroll
      /\ open = "none" /\ height \in Heights /\ MenuOpen(Top.active)
  BY DEF ScreenInv, ConfOpen, MenuOpen, Phase, ListMade, Position, In
<1>2. ~(height < 15) /\ ShowOrDie(Layout(height, Top.active, 0, 0), height)
  BY <1>1 DEF MenuOpen
<1>3. Show(Layout(height, Top.active, 0, 0), height)
  BY <1>2 DEF ShowOrDie, Killed
<1>4. /\ height \in Nat /\ height >= 15 /\ item_count \in Nat /\ item_count > 0
      /\ max_choice \in Nat /\ max_choice = Least(height - 14, item_count)
  BY <1>1, <1>2, HeightsAssumption, MenuSizes DEF max_choice
<1>5. RowsOf(Top.place) = max_choice
  BY <1>4 DEF RowsOf, item_count
<1>6. PICK p : p = Top.place
  OBVIOUS
<1>7. /\ p.choice \in 0..(max_choice - 1) /\ s_scroll + max_choice <= item_count
      /\ items[s_scroll + p.choice + 1].data = Top.active
  BY <1>1, <1>5, <1>6, TopFrame DEF FrameOK, PlaceOK, item_count
<1> DEFINE n == s_scroll + p.choice
           named == {k \in 0..(item_count - 1) : Top.active # NoData /\ item(k).data = Top.active}
           want == IF named = {} THEN 0 ELSE CHOOSE k \in named : \A j \in named : j <= k
           fits == s_scroll <= want /\ want < s_scroll + max_choice /\ s_scroll + max_choice <= item_count
<1>8. n \in 0..(item_count - 1) /\ s_scroll <= n /\ n < s_scroll + max_choice
  <2>1. p.choice \in Nat /\ p.choice < max_choice
    BY <1>4, <1>7
  <2> HIDE DEF item_count, max_choice
  <2>2. PICK c \in Nat : c = p.choice
    BY <2>1
  <2>3. s_scroll + c \in 0..(item_count - 1) /\ s_scroll <= s_scroll + c /\ s_scroll + c < s_scroll + max_choice
    <3>1. c < max_choice /\ s_scroll + max_choice <= item_count
      BY <1>7, <2>1, <2>2
    <3>2. s_scroll \in Nat /\ item_count \in Nat /\ max_choice \in Nat
      BY <1>1, <1>4
    <3> QED BY <3>1, <3>2
  <2> QED BY <2>2, <2>3
<1>9. named = {n}
  BY <1>1, <1>7, <1>8, Named DEF item
<1>10. want = n
  <2> HIDE DEF named
  <2>1. n <= n
    BY <1>4, <1>8
  <2>2. (CHOOSE k \in {n} : \A j \in {n} : j <= k) = n
    BY <2>1
  <2> QED BY <1>9, <2>2
<1>11. fits
  <2> HIDE DEF named, want
  <2> QED BY <1>7, <1>8, <1>10
<1>12. /\ Layout(height, Top.active, 0, 0).scroll = s_scroll
       /\ Layout(height, Top.active, 0, 0).choice = want - s_scroll
  BY <1>11 DEF Layout, max_choice
<1>13. want - s_scroll = p.choice
  <2> HIDE DEF want
  <2> QED BY <1>1, <1>7, <1>10
<1> QED BY <1>1, <1>3, <1>6, <1>12, <1>13 DEF Show

\* An item without data is not looked for: the highlight goes to the first line, and
\* an s_scroll from which that line is not seen is dropped.
LEMMA FirstLine ==
    ASSUME ScreenInv, ConfOpen, open' = "menu", Top.active = NoData
    PROVE  scroll' = 0 /\ choice' = 0
<1>1. /\ IsList(items) /\ items # <<>> /\ s_scroll \in Nat /\ open = "none" /\ height \in Heights
      /\ MenuOpen(NoData)
  BY DEF ScreenInv, ConfOpen, MenuOpen, Phase, ListMade, Position, In
<1>2. ~(height < 15) /\ ShowOrDie(Layout(height, NoData, 0, 0), height)
  BY <1>1 DEF MenuOpen
<1>3. Show(Layout(height, NoData, 0, 0), height)
  BY <1>2 DEF ShowOrDie, Killed
<1>4. height \in Nat /\ MenuRows(height) \in Nat /\ MenuRows(height) > 0
  BY <1>1, <1>2, HeightsAssumption, MenuSizes
<1> DEFINE rows == MenuRows(height)
           named == {k \in 0..(item_count - 1) : NoData # NoData /\ item(k).data = NoData}
           want == IF named = {} THEN 0 ELSE CHOOSE k \in named : \A j \in named : j <= k
           fits == s_scroll <= want /\ want < s_scroll + rows /\ s_scroll + rows <= item_count
           far  == ~fits /\ want >= rows
           from == IF fits THEN s_scroll
                   ELSE IF ~far THEN 0
                   ELSE IF want >= item_count - rows \div 2 THEN item_count - rows
                   ELSE want - rows \div 2
<1>5. want = 0
  OBVIOUS
<1>6. ~far
  <2> HIDE DEF want, fits
  <2> QED BY <1>4, <1>5
<1>7. fits => s_scroll = 0
  <2> HIDE DEF want
  <2> QED BY <1>1, <1>5
<1>8. from = 0
  <2> HIDE DEF fits, far, want
  <2> QED BY <1>6, <1>7
<1>9. Layout(height, NoData, 0, 0).scroll = from /\ Layout(height, NoData, 0, 0).choice = want - from
  BY DEF Layout
<1>10. want - from = 0
  <2> HIDE DEF want, from
  <2> QED BY <1>5, <1>8
<1> QED BY <1>3, <1>8, <1>9, <1>10 DEF Show

LEMMA PlaceStep ==
    ScreenInv => (ConfOpen /\ open' = "menu" /\ Top.place.items = items /\ Top.place.height = height
                  => <<scroll', choice'>> = IF Top.active = NoData THEN <<0, 0>>
                                            ELSE <<Top.place.scroll, Top.place.choice>>)
BY PlaceFound, FirstLine

\* A menu is shown again as it was left, whatever the functions conf() has called in
\* between have done; each has an s_scroll of its own (mconf.c:531, mconf.c:550).  After
\* an item without data (Load, Save, ---) it is shown on its first line.
THEOREM PlaceCorrect == Spec => ReturnsToPlace
BY ScreenCorrect, PlaceStep, PTL DEF ReturnsToPlace
=============================================================================
