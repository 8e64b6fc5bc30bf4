------------------------------- MODULE Screens -------------------------------
(***************************************************************************)
(* The screens of menuconfig: main, conf, conf_choice, conf_string,        *)
(* conf_load, conf_save and search_conf of mconf.c as they open the        *)
(* dialogs of lxdialog, one at a time, and act on what those return.       *)
(* What a key does to the symbols is in Menuconfig; here it leaves some    *)
(* other list of items and some other value of the choice.                 *)
(***************************************************************************)
EXTENDS Menubox, Checklist, Inputbox, Textbox, Yesno, Functions

CONSTANTS Root,      \* rootmenu
          Listings,  \* what the lists of the menus may be: functions from menus to items
          Values,    \* the items of each choice, with the symbol each stands for
          Strings,   \* initial strings of input boxes
          HelpTexts, \* texts without a height of their own
          BoxTexts   \* the texts of message boxes

ASSUME ScreensAssumption ==
    /\ Listings # {} /\ \A l \in Listings : Root \in DOMAIN l
    /\ \A t \in HelpTexts \union BoxTexts : t.lines \in Nat \ {0}
    /\ \A t \in HelpTexts \union BoxTexts : t.rows = 0 \/ t.rows \in {5, 6}

\* The menus do not change, only what is visible of them: build_conf makes an item
\* of a menu once, and tags it "m" if it has a list of its own.
ASSUME ListsAssumption ==
    \A l \in Listings :
        /\ \A other \in Listings : DOMAIN other = DOMAIN l
        /\ \A m \in DOMAIN l :
             /\ l[m] \in Seq(Range(l[m]))
             /\ \A it \in Range(l[m]) : it.tag = "m" => it.data \in DOMAIN l
             /\ \A j, k \in DOMAIN l[m] :
                  j # k /\ l[m][j].data = l[m][k].data => l[m][j].data = NoData

\* A choice has a value to show (checklist.c acts on the highlighted one), and a
\* string to be edited fits dialog_input_result (inputbox.c copies it whole).
ASSUME ValuesAssumption ==
    /\ \A c \in DOMAIN Values : Values[c] \in Seq(Range(Values[c])) \ {<<>>}
    /\ \A s \in Strings : s \in Seq(Chars) /\ Len(s) <= MAX_LEN

VARIABLES frames,   \* the functions that are running, the innermost one last
          at,       \* where that function is: "loop", "made", "in", "text"; main: "asking", "over"
          listing,  \* the list of each menu
          chosen,   \* sym_get_choice_value of the choice
          changed   \* conf_get_changed

mainVars == <<frames, at, listing, chosen, changed>>
vars == <<dialogVars, listVars, inputVars, textVars, mainVars>>

Top == frames[Len(frames)]
In(f) == frames # <<>> /\ Top.fn = f

\* A frame: the function, its menu, active_menu or active, s_scroll of the conf()
\* that called it, and what its menu showed when it returned last (history).
NoPlace == [items |-> <<>>, height |-> 0, scroll |-> 0, choice |-> 0]
Frame(f, m, a) == [fn |-> f, menu |-> m, active |-> a, kept |-> s_scroll, place |-> NoPlace]

NoText == [lines |-> 1, ended |-> TRUE, rows |-> 0]
NoDialog == UNCHANGED <<dialogVars, inputVars, textVars>>
OnlyPosition == UNCHANGED <<items, picked, scroll, choice, first_item, win, arrows>>
Keep == UNCHANGED <<listing, chosen, changed>>
\* A symbol gets another value, or is refused one.
Set == listing' \in Listings /\ changed' = TRUE /\ UNCHANGED chosen

\* How a function goes on, with frames fs: its loop once more, a call of another, a return.
Loop(fs) == frames' = fs /\ at' = "loop" /\ NoDialog /\ UNCHANGED listVars
Call(fs, f, m, a) == /\ frames' = Append(fs, Frame(f, m, a)) /\ at' = "loop"
                     /\ s_scroll' = IF f = "conf" THEN 0 ELSE s_scroll
                     /\ OnlyPosition /\ NoDialog

\* Slip: s_scroll is not a local of conf().
LeaveSharing == /\ frames' = SubSeq(frames, 1, Len(frames) - 1)
                /\ at' = IF Len(frames) = 1 THEN "asking" ELSE "loop"
                /\ NoDialog /\ UNCHANGED listVars

Leave == /\ frames' = SubSeq(frames, 1, Len(frames) - 1)
         /\ at' = IF Len(frames) = 1 THEN "asking" ELSE "loop"
         /\ s_scroll' = IF Top.fn = "conf" THEN Top.kept ELSE s_scroll
         /\ OnlyPosition /\ NoDialog
\* show_textbox, show_helptext, show_help; the loop goes on when it is closed.
ShowText(fs, t) == frames' = fs /\ at' = "text" /\ TextOpen(t) /\ UNCHANGED inputVars

Symbols == {v.sym : v \in UNION {Range(Values[c]) : c \in DOMAIN Values}} \ {NoData}

Init == /\ open = "none" /\ height \in {h \in Heights : h >= 19} /\ button = 0 /\ drawn = 0
        /\ resized = FALSE /\ result = "none"
        /\ items = <<>> /\ picked = -1 /\ s_scroll = 0
        /\ scroll = 0 /\ choice = 0 /\ first_item = 0
        /\ win = <<>> /\ arrows = [up |-> FALSE, down |-> FALSE]
        /\ instr = <<>> /\ input_x = 0 /\ left_x = 0 /\ field = <<>>
        /\ text = NoText /\ page = 0 /\ begin_reached = FALSE /\ end_reached = FALSE
        /\ page_length = 0 /\ hscroll = 0 /\ lines = <<>>
        /\ frames = <<Frame("conf", Root, NoData)>> /\ at = "loop"
        /\ listing \in Listings /\ chosen \in Symbols
        /\ changed \in BOOLEAN

(***************************************************************************)
(* The top of a loop: the list is made, and the dialog opened.             *)
(***************************************************************************)
\* What the dialogs before it have left behind is not read again.
Made(list, n) == /\ items' = list /\ picked' = n
                 /\ instr' = <<>> /\ text' = NoText
                 /\ UNCHANGED <<s_scroll, scroll, choice, first_item, win, arrows, frames>>
                 /\ UNCHANGED <<dialogVars, input_x, left_x, field>>
                 /\ UNCHANGED <<page, begin_reached, end_reached, page_length, hscroll, lines>> /\ Keep

ConfMake == /\ at = "loop" /\ In("conf")
            /\ \/ listing[Top.menu] # <<>> /\ at' = "made" /\ Made(listing[Top.menu], -1)
               \/ listing[Top.menu] = <<>> /\ Leave /\ Keep

\* Values with the taken one marked; a comment stands for no symbol.
Items(vs) == [i \in DOMAIN vs |->
    [data |-> i, letter |-> vs[i].letter,
     tag |-> IF vs[i].sym = chosen THEN "X" ELSE IF vs[i].sym = NoData THEN ":" ELSE " "]]
ChoiceMake ==
    /\ at = "loop" /\ In("choice")
    /\ at' = "made"
    /\ LET vs == Values[Top.menu]
           same == {i \in DOMAIN vs : vs[i].sym = Top.active}
       IN  Made(Items(vs), IF same = {} THEN -1 ELSE (CHOOSE i \in same : \A k \in same : i <= k) - 1)

Opened == at' = "in" /\ UNCHANGED frames /\ Keep
ConfOpen   == at = "made" /\ In("conf") /\ MenuOpen(Top.active) /\ Opened /\ UNCHANGED <<inputVars, textVars>>
ChoiceOpen == at = "made" /\ In("choice") /\ ListOpen /\ Opened /\ UNCHANGED <<inputVars, textVars>>
InputStart == /\ at = "loop" /\ (In("string") \/ In("load") \/ In("save") \/ In("search"))
              /\ \E s \in (IF In("search") THEN {<<>>} ELSE Strings) : InputOpen(s)
              /\ Opened /\ UNCHANGED textVars
(***************************************************************************)
(* What a dialog has returned.                                             *)
(***************************************************************************)
Returned(f) == at = "in" /\ open = "none" /\ In(f)
It == item(picked)
\* active_menu is what has been selected, whatever it is selected for.
Noted == [frames EXCEPT ![Len(frames)] =
            [@ EXCEPT !.active = It.data,
                      !.place = [items |-> items, height |-> height,
                                 scroll |-> s_scroll, choice |-> picked - s_scroll]]]
HelpShown(fs) == \E t \in HelpTexts : ShowText(fs, t)

ConfLeft == Returned("conf") /\ result \in {"exit", "esc", "small"} /\ Leave /\ Keep

\* Enter, or space on a menu.
Submenu == /\ Returned("conf")
           /\ \/ result \in {"select", "toggle"} /\ It.tag = "m"
              \/ result = "select" /\ It.tag = "t" /\ It.data \in DOMAIN listing
           /\ Call(Noted, "conf", It.data, NoData) /\ Keep
ConfSelected ==
    /\ Returned("conf") /\ result = "select"
    /\ \/ It.tag = "t" /\ It.data \in DOMAIN Values /\ Call(Noted, "choice", It.data, chosen)
       \/ It.tag = "s" /\ Call(Noted, "string", It.data, NoData)
       \/ It.tag = "L" /\ Call(Noted, "load", It.data, NoData)
       \/ It.tag = "S" /\ Call(Noted, "save", It.data, NoData)
       \/ It.tag = "t" /\ It.data \notin DOMAIN listing \union DOMAIN Values /\ Loop(Noted)
       \/ It.tag = ":" /\ Loop(Noted)
    /\ Keep

ConfHelp   == Returned("conf") /\ result = "help" /\ HelpShown(Noted) /\ Keep
ConfSearch == Returned("conf") /\ result = "search" /\ Call(Noted, "search", NoData, NoData) /\ Keep

\* Keys for values.  A symbol that is y on M's terms is announced.
ConfValue ==
    /\ Returned("conf") /\ result \in {"yes", "no", "mod", "toggle"}
    /\ ~(result = "toggle" /\ It.tag = "m")
    /\ \/ Loop(Noted) /\ Keep
       \/ It.tag = "t" /\ Loop(Noted) /\ Set
       \/ It.tag = "t" /\ result = "yes" /\ (\E t \in BoxTexts : ShowText(Noted, t)) /\ Set

\* conf_choice.  A comment among the values cannot be taken.
ChoiceSelected ==
    /\ Returned("choice") /\ result = "select"
    /\ LET s == Values[Top.menu][picked + 1].sym
       IN  \/ s = NoData /\ Loop(frames) /\ Keep
           \/ s # NoData /\ Leave /\ Keep
           \/ s # NoData /\ Leave /\ chosen' = s /\ changed' = TRUE /\ listing' \in Listings
ChoiceHelp == /\ Returned("choice") /\ result = "help"
              /\ HelpShown([frames EXCEPT ![Len(frames)].active = Values[Top.menu][picked + 1].sym])
              /\ Keep
ChoiceLeft == Returned("choice") /\ result \in {"esc", "small"} /\ Leave /\ Keep

\* conf_string, conf_load and conf_save: a value or a name is taken or refused.
Refused == \E t \in BoxTexts : ShowText(frames, t) /\ Keep
StringEntered == /\ Returned("string") /\ result = "ok"
                 /\ \/ Leave /\ Set
                    \/ Leave /\ Keep
                    \/ Refused
LoadEntered   == /\ Returned("load") /\ result = "ok"
                 /\ IF instr = <<>> THEN Leave /\ Keep ELSE (Leave /\ Set) \/ Refused
SaveEntered   == /\ Returned("save") /\ result = "ok"
                 /\ IF instr = <<>> THEN Leave /\ Keep
                    ELSE (Leave /\ changed' = FALSE /\ UNCHANGED <<listing, chosen>>) \/ Refused
InputHelp == /\ \E f \in {"string", "load", "save", "search"} : Returned(f)
             /\ result = "help" /\ HelpShown(frames) /\ Keep
InputLeft == /\ \E f \in {"string", "load", "save", "search"} : Returned(f)
             /\ result = "esc" /\ Leave /\ Keep
\* A terminal that is too low is no case of their switch: they try again.
InputTooLow  == /\ \E f \in {"string", "load", "save"} : Returned(f)
                /\ result = "small" /\ Loop(frames) /\ Keep
SearchTooLow == Returned("search") /\ result = "small" /\ Leave /\ Keep
SearchEntered == /\ Returned("search") /\ result = "ok"
                 /\ HelpShown(SubSeq(frames, 1, Len(frames) - 1)) /\ Keep

TextClosed == at = "text" /\ open = "none" /\ Loop(frames) /\ Keep

(***************************************************************************)
(* main, after conf(&rootmenu).                                            *)
(***************************************************************************)
Finish == /\ at' = "over" /\ NoDialog /\ UNCHANGED <<listVars, frames>> /\ Keep
Ask == /\ at = "asking"
       /\ \/ changed /\ YesnoOpen /\ at' = "answer" /\ UNCHANGED <<inputVars, textVars, frames>> /\ Keep
          \/ ~changed /\ Finish
Answered == /\ at = "answer" /\ open = "none"
            /\ \/ result = "esc" /\ Call(<<>>, "conf", Root, NoData) /\ Keep
               \/ result # "esc" /\ Finish

\* A key goes to the dialog that is open.
KeyPressed == \/ MenuNext(Top.active) /\ UNCHANGED <<inputVars, textVars, mainVars>>
              \/ ListNext             /\ UNCHANGED <<inputVars, textVars, mainVars>>
              \/ InputNext            /\ UNCHANGED <<textVars, mainVars>>
              \/ TextNext             /\ UNCHANGED <<inputVars, mainVars>>
              \/ YesnoNext            /\ UNCHANGED <<inputVars, textVars, mainVars>>

Next == \/ KeyPressed
        \/ ConfMake \/ ChoiceMake \/ ConfOpen \/ ChoiceOpen \/ InputStart
        \/ ConfLeft \/ Submenu \/ ConfSelected \/ ConfHelp \/ ConfSearch \/ ConfValue
        \/ ChoiceSelected \/ ChoiceHelp \/ ChoiceLeft
        \/ StringEntered \/ LoadEntered \/ SaveEntered \/ InputHelp \/ InputLeft \/ InputTooLow
        \/ SearchTooLow \/ SearchEntered \/ TextClosed \/ Ask \/ Answered

Spec == Init /\ [][Next]_vars

(***************************************************************************)
(* Properties.                                                             *)
(***************************************************************************)
\* However it has been scrolled, a menu or list shows the items from scroll on,
\* the row the next key acts on and no other is highlighted, and the arrows and
\* the highlighted button say what there is (menubox.c:304, checklist.c:211).
WindowTrue ==
    open \in {"menu", "list"} /\ ~resized =>
        /\ \A i \in DOMAIN win : win[i] = Cell(scroll + i, i = choice)
        /\ choice \in DOMAIN win /\ item_count \notin {scroll + i : i \in DOMAIN win}
        /\ arrows = [up |-> scroll > 0, down |-> \A i \in DOMAIN win : scroll + i + 1 < item_count]
        /\ drawn = button

\* A menu whose list has not changed is shown again as it was left, after submenus,
\* dialogs and resizings of theirs ("my scrolling would be broken", menubox.c:34);
\* except that Load, Save and --- have no data (mconf.c:539-545, mconf.c:559), and after
\* one of them the main menu is on its first line whatever its s_scroll (menubox.c:247).
ReturnsToPlace ==
    [][ConfOpen /\ open' = "menu" /\ Top.place.items = items /\ Top.place.height = height
       => <<scroll', choice'>> = IF Top.active = NoData THEN <<0, 0>>
                                 ELSE <<Top.place.scroll, Top.place.choice>>]_vars

\* The field shows the end of the string up to the cursor, and the string fits.
FieldTrue ==
    open = "input" /\ ~resized =>
        /\ left_x + input_x = Len(instr) /\ input_x < BoxWidth /\ Len(instr) <= MAX_LEN
        /\ field = Shown(instr, left_x, BoxWidth)

\* Lines of a text that ends with a newline are shown in one run, and the marks
\* for its beginning and its end are right (textbox.c:271, textbox.c:350).  At 8
\* lines the box has no row, and nothing is shown.
PageTrue ==
    open = "text" /\ text.ended /\ boxh > 0 =>
        \E top \in 0..text.lines :
            /\ \A i \in DOMAIN lines : lines[i] = LineAt(text, top + i)
            /\ begin_reached = (top = 0)
            /\ end_reached = (top + boxh > text.lines)

=============================================================================
