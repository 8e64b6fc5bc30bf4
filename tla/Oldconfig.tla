------------------------------- MODULE Oldconfig -------------------------------
(***************************************************************************)
(* conf: make config, oldconfig, silentoldconfig, defconfig and the        *)
(* all*config targets of conf.c.  conf() and check_conf() call each other  *)
(* and themselves while they ask; the calls still to be made are kept in   *)
(* todo, so that every question is a state.  An action is one such call,   *)
(* or one line that is read.                                               *)
(*                                                                         *)
(* A file says something of the symbols (tri) and of the numbers (num).    *)
(* The menus have no symbol and the numbers stand at the end of a menu.    *)
(* Help, comments, strings and the mode ask_new, which no option sets, are *)
(* left out.                                                               *)
(***************************************************************************)
EXTENDS ConfData, KconfigNumbers

CONSTANTS Options,       \* input modes: "ask_all", "ask_silent", "sync" (-s), "set_default", ...
          FirstConfigs,  \* what .config says at first, or NoFile
          DefaultFile,   \* the file option defconfig_list names, and that of -d
          AllFiles,      \* what all*.config may say, or NoFile
          NumMenu,       \* the menu each number stands in
          Texts,         \* lines entered for a number
          Randoms,       \* what rand() gives the symbols
          MaxLines       \* lines on stdin before it ends

\* The entries that have a struct menu.
InTree == Menus \union UNION {Range(Kids[p]) : p \in Entries}

ASSUME ConfigsAssumption ==
    /\ \A f \in FirstConfigs \union AllFiles \union {DefaultFile} : f = NoFile \/ f.tri \in Contents
    /\ IsFiniteSet(Numbers) /\ NumMenu \in [Numbers -> Menus] /\ Numbers \intersect Entries = {}
    /\ \A p \in Entries : Kids[p] # <<>> => p \in InTree
    /\ Randoms \subseteq [Syms -> Tristate]

VARIABLES opt, quiet,    \* the option, and KCONFIG_NOSILENTUPDATE
          valid_stdin,
          input_mode,    \* "ask_all" or "ask_silent" while asking
          rootEntry, conf_cnt,
          todo,          \* calls to make: [do, e, new]
          lines,         \* lines left on stdin
          phase,         \* "start", "asking", "writing", "ended", "failed", "aborted"
          num,           \* the numbers
          known,         \* what had a value when the pass over the menus began (history)
          file, first    \* what .config says now, and said when the program started

asking   == <<valid_stdin, input_mode, rootEntry, conf_cnt, todo, lines>>
data     == <<db, num, changed>>
confVars == <<opt, quiet, asking, phase, data, known, file, first>>

SetModes == {"set_default", "set_no", "set_mod", "set_yes", "set_random"}

(***************************************************************************)
(* Reading.                                                                *)
(***************************************************************************)
\* conf_read of a file, from what its lines say of the numbers.  Returns [d, num, changed].
NumsRead(says) == [n \in Numbers |-> NumLine(says, n)]
ForgottenAll(u, nums, warned) ==
    [d |-> Forgotten(u.d, u.unsaved), num |-> NumForgotten(u.d, nums, u.unsaved),
     changed |-> warned \/ u.unsaved \/ \E n \in Numbers : NumOut(u.d, nums, n)]
WithNumbers(u, nums) == [u EXCEPT !.unsaved = @ \/ \E n \in Numbers : ~NumAgrees(u.d, nums, n)]
Compare(r, nums, warned) == ForgottenAll(WithNumbers(CheckAll(r.d), nums), nums, r.warned \/ warned)
Read(f) == Compare(ReadSimple(EmptyDb, f.tri), NumsRead(f.num), NumsWarned(f.num))

Nothing(change) == [d |-> EmptyDb, num |-> [n \in Numbers |-> NumRec], changed |-> change]

\* conf_read(NULL): without a .config the default file, if there is one.
ReadConfig == IF file # NoFile THEN Read(file)
              ELSE IF DefaultFile # NoFile THEN [Read(DefaultFile) EXCEPT !.changed = TRUE]
              ELSE Nothing(TRUE)

\* conf_read_simple alone.
ReadAll(f) == IF f = NoFile THEN Nothing(FALSE)
              ELSE [d |-> ReadSimple(EmptyDb, f.tri).d, num |-> NumsRead(f.num), changed |-> FALSE]

(***************************************************************************)
(* conf_set_all_new_symbols.                                               *)
(***************************************************************************)
NewValue(mode, rand, s) == CASE mode = "set_yes" -> yes
                             [] mode = "set_mod" -> mod
                             [] mode = "set_no"  -> no
                             [] OTHER            -> rand[s]
SetNew(d, mode, rand) ==
    [d EXCEPT !.sym = [s \in Syms |->
        IF @[s].user \/ mode = "set_default" THEN @[s]
        ELSE [@[s] EXCEPT !.utri = NewValue(mode, rand, s),
                          !.user = ~(IsChoice(s) /\ mode = "set_random")]]]

\* A random value of a choice is set to yes, the rest to no; of what has been
\* calculated only the choice is invalidated.
PickRandom(d, c, x) ==
    [d EXCEPT !.sym = [s \in Syms |->
        IF s = c THEN [@[s] EXCEPT !.usel = x, !.user = TRUE, !.valid = FALSE]
        ELSE IF s \in Range(Members[c]) THEN [@[s] EXCEPT !.utri = IF s = x THEN yes ELSE no]
        ELSE @[s]]]
Randomized(d, picks) ==
    LET Pick(d1, c) == IF d1.sym[c].tri = yes THEN PickRandom(d1, c, picks[c]) ELSE d1
        Unset(d1, c) == IF d1.sym[c].user \/ ~IsChoice(c) THEN d1 ELSE Pick(Calc(d1, c), c)
    IN  Each(HashOrder, Dbs, Unset, d)

RandomPicks == {p \in [{c \in Syms : IsChoice(c)} -> DOMAIN ChoiceOf] : \A c \in DOMAIN p : ChoiceOf[p[c]] = c}

SetAllNew(d, mode, rand, picks) ==
    LET d1 == ClearAllValid(SetNew(d, mode, rand))
    IN  IF mode = "set_random" THEN Randomized(d1, picks) ELSE d1

(***************************************************************************)
(* main, up to the questions.                                              *)
(***************************************************************************)
Known(d, nums) == {s \in Syms : d.sym[s].user} \union {n \in Numbers : nums[n].user}

Call(do, e) == [do |-> do, e |-> e, new |-> FALSE]
Calls(do, es) == [i \in DOMAIN es |-> Call(do, es[i])]

ConfInit ==
        /\ opt \in Options
        /\ file \in FirstConfigs
        /\ quiet \in BOOLEAN /\ valid_stdin \in BOOLEAN
        /\ opt # "sync" => ~quiet /\ valid_stdin
        /\ first = file
        /\ input_mode = IF opt = "ask_all" THEN opt ELSE "ask_silent"
        /\ rootEntry = Root /\ conf_cnt = 0 /\ todo = <<>>
        /\ lines \in 0 .. MaxLines
        /\ known = {}
        /\ phase = "start"
        /\ LET r == Nothing(FALSE) IN db = r.d /\ num = r.num /\ changed = r.changed

Fail == phase' = "failed" /\ UNCHANGED <<asking, data, known, file>>

StartAsking ==
    /\ opt \notin SetModes
    /\ IF opt = "sync" /\ (file = NoFile \/ (ReadConfig.changed /\ quiet)) THEN Fail
       ELSE /\ \E r \in {ReadConfig} : /\ db' = r.d /\ num' = r.num /\ changed' = r.changed
                                       /\ known' = Known(r.d, r.num)
            /\ todo' = <<Call(IF opt = "ask_all" THEN "conf" ELSE "check", Root)>>
            /\ phase' = "asking"
            /\ UNCHANGED <<valid_stdin, input_mode, rootEntry, conf_cnt, lines, file>>

\* sym_clear_all_valid makes every file that is generated a changed one.
Generate(r, rand, picks) ==
    /\ db' = SetAllNew(r.d, opt, rand, picks)
    /\ num' = r.num
    /\ changed' = TRUE
    /\ phase' = "writing"
    /\ UNCHANGED <<asking, known, file>>
StartDefault == /\ opt = "set_default"
                /\ IF DefaultFile = NoFile THEN Fail
                   ELSE Generate(Read(DefaultFile), <<>>, <<>>)
StartAll     == /\ opt \in SetModes \ {"set_default", "set_random"}
                /\ \E f \in AllFiles : Generate(ReadAll(f), <<>>, <<>>)
StartRandom  == /\ opt = "set_random"
                /\ \E f \in AllFiles, rand \in Randoms, picks \in RandomPicks : Generate(ReadAll(f), rand, picks)
Start == /\ phase = "start"
         /\ StartAsking \/ StartDefault \/ StartAll \/ StartRandom
         /\ UNCHANGED <<opt, quiet, first>>

(***************************************************************************)
(* Asking.                                                                 *)
(***************************************************************************)
\* menu_get_parent_menu
MenuAt[n \in Nat] == [e \in InTree |->
    IF e \in Menus \/ n = 0 THEN e ELSE MenuAt[n - 1][CHOOSE p \in InTree : e \in Range(Kids[p])]]
MenuOf(e) == IF e \in Numbers THEN NumMenu[e] ELSE MenuAt[Height][e]

\* menu_is_visible
See(e) == IF e \in Numbers THEN [d |-> db, val |-> NumVisible(db, e)] ELSE Visible(db, e)

Doing(do)  == phase = "asking" /\ todo # <<>> /\ Head(todo).do = do
Here       == Head(todo).e
Calling(calls) == todo' = calls \o Tail(todo)
Silent     == input_mode = "ask_silent"

EntriesBelow(e) == IF e \in Numbers THEN <<>>
                   ELSE Kids[e] \o SetToSeq({n \in Numbers : NumMenu[n] = e})

\* conf()
ChoiceCalls(d, c) == (IF Changeable(d, c) THEN <<Call("sym", c)>> ELSE <<>>)
                     \o <<[Call("choice", c) EXCEPT !.new = ~d.sym[c].user], Call("several", c)>>
ConfCalls(d, e) ==
    IF e \in Menus THEN IF Silent /\ rootEntry # e THEN <<Call("check", e)>> ELSE Calls("conf", EntriesBelow(e))
    ELSE IF e \in Numbers THEN <<Call("string", e)>>
    ELSE IF IsChoice(e) THEN ChoiceCalls(d, e)
    ELSE <<Call("sym", e)>> \o Calls("conf", Kids[e])

Conf == /\ Doing("conf")
        /\ \E v \in {See(Here)} :
             db' = v.d /\ Calling(IF v.val THEN ConfCalls(v.d, Here) ELSE <<>>)
        /\ UNCHANGED <<valid_stdin, input_mode, rootEntry, conf_cnt, lines, phase, num, changed, file>>

\* check_conf()
IsNewAny(d, e) == IF e \in Numbers THEN ~num[e].user ELSE e \notin Menus /\ ~d.sym[e].user   \* slip
IsNew(d, e) == IF e \in Numbers THEN ~num[e].user
               ELSE e \notin Menus /\ ~d.sym[e].user
                    /\ (Changeable(d, e) \/ (IsChoice(e) /\ d.sym[e].tri = yes))

CheckConf ==
    /\ Doing("check")
    /\ \E v \in {See(Here)} : \E new \in {v.val /\ IsNew(v.d, Here)} :
         /\ db' = v.d
         /\ conf_cnt' = IF new THEN 1 ELSE conf_cnt
         /\ rootEntry' = IF new THEN MenuOf(Here) ELSE rootEntry
         /\ Calling((IF new THEN <<Call("conf", MenuOf(Here))>> ELSE <<>>)
                 \o (IF v.val THEN Calls("check", EntriesBelow(Here)) ELSE <<>>))
    /\ UNCHANGED <<valid_stdin, input_mode, lines, phase, num, changed, file>>

\* The values of a choice that can be picked.
OfChoice(d, c) == {k \in Range(Kids[c]) : Visible(d, k).val}
Seen(c) == LookAtAll(Calc(db, c), Kids[c])

\* What conf_askvalue does for a symbol of the given state: no line is read, or
\* one is, unless nobody is there to enter it.
SkipsAll(changeable, old) == ~changeable \/ (Silent /\ old /\ conf_cnt = 0)   \* slip
Skips(changeable, old) == ~changeable \/ (Silent /\ old)
Answers == IF Silent THEN valid_stdin ELSE TRUE
Return == Calling(<<>>) /\ UNCHANGED <<valid_stdin, input_mode, rootEntry, conf_cnt, phase, file>>
NoLine == UNCHANGED lines
ALine  == lines > 0 /\ lines' = lines - 1

SkipSym ==
    /\ Doing("sym")
    /\ Skips(Changeable(db, Here), db.sym[Here].user)
    /\ Return /\ NoLine /\ UNCHANGED data

Abort == /\ \/ Doing("sym") /\ ~Skips(Changeable(db, Here), db.sym[Here].user)
            \/ Doing("string") /\ ~Skips(NumVisible(db, Here), num[Here].user)
            \/ /\ Doing("choice") /\ Head(todo).new
               /\ \E d \in {Seen(Here)} : d.sym[Here].tri = yes /\ Cardinality(OfChoice(d, Here)) > 1
         /\ ~Answers
         /\ phase' = "aborted"
         /\ UNCHANGED <<asking, data, file>>

\* conf_sym: a line with an accepted value, and after the last line the value
\* there is.  Other lines are asked for again.
AnswerSym ==
    /\ Doing("sym")
    /\ ~Skips(Changeable(db, Here), db.sym[Here].user) /\ Answers
    /\ \E v \in Tristate :
         /\ \/ ALine /\ Accepted(db, Here, v)
            \/ lines = 0 /\ NoLine /\ v = db.sym[Here].tri
         /\ db' = SetTri(db, Here, v)
         /\ changed' = (changed \/ db.sym[Here].tri # v)
    /\ Return /\ UNCHANGED num

SkipString ==
    /\ Doing("string")
    /\ Skips(NumVisible(db, Here), num[Here].user)
    /\ Return /\ NoLine /\ UNCHANGED data

\* conf_string: an empty line stands for the text there is.
AnswerString ==
    /\ Doing("string")
    /\ ~Skips(NumVisible(db, Here), num[Here].user) /\ Answers
    /\ \E t \in Texts \union {NumText(db, num, Here)} :
         /\ \/ ALine
            \/ lines = 0 /\ NoLine /\ t = NumText(db, num, Here)
         /\ NumAccepted(db, Here, t)
         /\ num' = SetNum(num, Here, t)
         /\ db' = IF Renewed(num, Here, t) THEN ClearAllValid(db) ELSE db
         /\ changed' = (changed \/ Renewed(num, Here, t))
    /\ Return

\* A line that is refused, and asked for again.
Refused == /\ Doing("sym") \/ Doing("string")
           /\ ~IF Here \in Numbers THEN Skips(NumVisible(db, Here), num[Here].user)
               ELSE Skips(Changeable(db, Here), db.sym[Here].user)
           /\ Answers /\ ALine
           /\ UNCHANGED <<valid_stdin, input_mode, rootEntry, conf_cnt, todo, phase, data, file>>

(***************************************************************************)
(* conf_choice, once the choice itself has been asked for.                 *)
(***************************************************************************)
\* A choice that is not y has no single value to pick.
NoPick == /\ Doing("choice")
          /\ \E d \in {Calc(db, Here)} : db' = d /\ d.sym[Here].tri # yes
          /\ Return /\ NoLine /\ UNCHANGED <<num, changed>>

\* sym_set_choice_value; a value that may only be m is not taken.
Pick(d, k) == /\ db' = IF Accepted(d, k, yes) THEN SetTri(d, k, yes) ELSE d
              /\ changed' = (changed \/ (Accepted(d, k, yes) /\ d.sym[k].tri # yes))
              /\ Calling(Calls("conf", Kids[k]))
              /\ UNCHANGED <<valid_stdin, input_mode, rootEntry, conf_cnt, phase, num, file>>

\* The only visible value, or in silence the one it had, if that is visible.
KeepPick ==
    /\ Doing("choice")
    /\ \E d \in {Seen(Here)} :
         /\ d.sym[Here].tri = yes
         /\ \E k \in OfChoice(d, Here) :
              /\ OfChoice(d, Here) = {k} \/ (Silent /\ ~Head(todo).new /\ k = d.sym[Here].sel)
              /\ Pick(d, k)
    /\ NoLine

AsksChoice(d) == /\ Doing("choice") /\ (~Silent \/ Head(todo).new) /\ Answers
                 /\ d.sym[Here].tri = yes /\ Cardinality(OfChoice(d, Here)) > 1

AnswerPick ==
    /\ Doing("choice")
    /\ \E d \in {Seen(Here)} :
         /\ AsksChoice(d)
         /\ \E k \in OfChoice(d, Here) :
              /\ ALine \/ (lines = 0 /\ NoLine /\ k = d.sym[Here].sel)
              /\ Pick(d, k)

\* No number, one that no value has, or a question mark: it asks again.
RefusedPick ==
    /\ Doing("choice") /\ ALine
    /\ \E d \in {Seen(Here)} : AsksChoice(d) /\ db' = d
    /\ UNCHANGED <<valid_stdin, input_mode, rootEntry, conf_cnt, todo, phase, num, changed, file>>

\* Back in conf(): of a choice that is m each value is asked for.
Several == /\ Doing("several")
           /\ Calling(IF db.sym[Here].tri = mod THEN Calls("conf", Kids[Here]) ELSE <<>>)
           /\ UNCHANGED <<valid_stdin, input_mode, rootEntry, conf_cnt, lines, phase, data, file>>

(***************************************************************************)
(* main, after the questions.                                              *)
(***************************************************************************)
\* Update until a loop causes no more changes; -s writes only what has changed.
Again == /\ phase = "asking" /\ todo = <<>>
         /\ ~Silent \/ conf_cnt # 0
         /\ input_mode' = "ask_silent"
         /\ conf_cnt' = 0
         /\ todo' = <<Call("check", Root)>>
         /\ known' = Known(db, num)
         /\ UNCHANGED <<valid_stdin, rootEntry, lines, phase, data, file>>

AskedOnce == /\ phase = "asking" /\ todo = <<>> /\ Silent      \* slip: one pass is enough
             /\ phase' = IF opt = "sync" /\ ~changed THEN "ended" ELSE "writing"
             /\ UNCHANGED <<asking, data, file>>
Asked == /\ phase = "asking" /\ todo = <<>> /\ Silent /\ conf_cnt = 0
         /\ phase' = IF opt = "sync" /\ ~changed THEN "ended" ELSE "writing"
         /\ UNCHANGED <<asking, data, file>>

\* conf_write
NumsOut == [n \in {x \in Numbers : NumWritten(db, x)} |-> NumText(db, num, n)]
WriteOut == /\ phase = "writing"
            /\ \E w \in {Write(db, changed)} : db' = w.d /\ file' = [tri |-> w.out, num |-> NumsOut]
            /\ changed' = FALSE
            /\ phase' = "ended"
            /\ UNCHANGED <<asking, num>>

\* The new file cannot be renamed, or not even made.
WriteFails == /\ phase = "writing"
              /\ file' \in {file, NoFile}
              /\ db' = Write(db, changed).d
              /\ phase' = "failed"
              /\ UNCHANGED <<asking, num, changed>>

ConfNext ==
        \/ Start
        \/ Again /\ UNCHANGED <<opt, quiet, first>>
        \/ /\ \/ Conf \/ CheckConf \/ SkipSym \/ AnswerSym \/ SkipString \/ AnswerString
              \/ Refused \/ Abort \/ NoPick \/ KeepPick \/ AnswerPick \/ RefusedPick \/ Several
              \/ Asked \/ WriteOut \/ WriteFails
           /\ UNCHANGED <<opt, quiet, known, first>>
        \/ phase \in {"ended", "failed", "aborted"} /\ UNCHANGED confVars

ConfSpec == ConfInit /\ [][ConfNext]_confVars

(***************************************************************************)
(* Properties.                                                             *)
(***************************************************************************)
\* A pass over the menus that has asked something has learnt something, so that
\* the loop of main (conf.c:594) ends.
NoVainPass == phase = "asking" /\ todo = <<>> /\ conf_cnt # 0 => Known(db, num) # known

\* When conf is done asking, every symbol that can be changed has a value (conf.c:593),
\* and what it has written reads back without a value that disagrees.
Answered(e) == IF e \in Numbers THEN NumVisible(db, e) => num[e].user
               ELSE Visible(db, e).val => ~IsNew(Visible(db, e).d, e)
NothingNew == phase = "ended" /\ opt \notin SetModes =>
    (\A e \in Syms \union Numbers : Answered(e)) /\ ~Read(file).changed

\* What the file gave a symbol that stays as visible, it has in the end, as far as
\* its dependencies allow; so in every mode that asks only for what is new.
Kept == phase = "ended" /\ opt \in {"ask_silent", "sync"} /\ first # NoFile =>
    \A d \in {Read(first).d} : \A s \in Syms :
        d.sym[s].user /\ ~IsChoice(s) /\ ~IsChoiceVal(s) =>
            db.sym[s].user /\ db.sym[s].utri = d.sym[s].utri

\* Of a choice that is y the value it picks is written as y, and no other ("so we have
\* only one set", confdata.c:890); of a choice that is not y none is.
OneOfChoice == phase = "ended" => \A c \in {x \in Syms : IsChoice(x)} :
    {s \in Range(Members[c]) \intersect DOMAIN file.tri : file.tri[s] = yes}
        = IF db.sym[c].tri = yes THEN {db.sym[c].sel} \ {Nobody} ELSE {}
===============================================================================
