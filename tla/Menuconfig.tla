------------------------------ MODULE Menuconfig ------------------------------
(***************************************************************************)
(* make menuconfig: the key loop of mconf.c over the symbol database, with *)
(* conf_read and conf_write of confdata.c.  An action is what the program  *)
(* does from one key of the user to the next time it waits for one: the    *)
(* handler, and build_conf for the menu it then shows.  The help and       *)
(* search screens change nothing and are left out; how the screens are     *)
(* worked is in Screens.                                                   *)
(***************************************************************************)
EXTENDS ConfData

CONSTANTS Names,         \* names the user enters for configuration files
          ConfigName,    \* conf_get_configname(), one of them
          FirstFiles,    \* what the file of that name says at first
          MaxSteps       \* bound on the keys pressed

ASSUME FilesAssumption == ConfigName \in Names /\ FirstFiles \subseteq Contents \union {NoFile}

VARIABLES files,    \* what the file of each name says
          name,     \* filename of mconf.c
          cur,      \* the menu conf() is in; menus are one level deep
          mode,     \* "keys", "asking" at exit, "ended", "unsaved"
          failed,   \* what has failed since the program started (history)
          steps

vars == <<db, changed, files, name, cur, mode, failed, steps>>

(***************************************************************************)
(* What is shown.                                                          *)
(***************************************************************************)
Screens == [d : Dbs, items : SUBSET Entries]

\* build_conf: b is [d, items], the symbols and menus a key acts on so far; build is the
\* function itself, for the entries below e.
Added(b, d, e, ok) == [d |-> d, items |-> IF ok THEN b.items \union {e} ELSE b.items]
\* def_menu, the value that is picked, if it is visible
Picked(d, e) == \E k \in Range(Kids[e]) : d.sym[e].sel = k /\ Visible(d, k).val
BuildEntry(build, b, e, here, v) ==
    LET Below(c, es) == Each(es, Screens, LAMBDA x, k : build[x][k][here], c)
        Choice(d, shown) ==
            Below(Added(b, d, e, Changeable(d, e) \/ shown),
                  IF d.sym[e].tri # yes THEN Kids[e]
                  ELSE IF shown /\ Kids[d.sym[e].sel] # <<>> THEN <<d.sym[e].sel>> ELSE <<>>)
    IN  IF ~v.val THEN Added(b, v.d, e, FALSE)
        ELSE IF e = here THEN Below(Added(b, v.d, e, FALSE), Kids[e])
        ELSE IF e \in Menus THEN Added(b, v.d, e, TRUE)
        ELSE IF IsChoice(e) THEN Choice(v.d, Picked(v.d, e))
        ELSE Below(Added(b, v.d, e, ~(IsChoiceVal(e) /\ v.d.sym[e].tri = yes)), Kids[e])
LookedAt(v, e) == IF v.val /\ e \in Syms /\ IsChoice(e) THEN [v EXCEPT !.d = LookAtAll(@, Kids[e])] ELSE v
BuildBy(build, b, e, here) == BuildEntry(build, b, e, here, LookedAt(Visible(b.d, e), e))

BuildAt[n \in Nat] == [b \in Screens |-> [e \in Entries |-> [here \in Menus |->
    IF n = 0 THEN b ELSE BuildBy(BuildAt[n - 1], b, e, here)]]]

Screen(d, here) == BuildAt[Height][[d |-> d, items |-> {}]][here][here]
Shown(d, here)  == Screen(d, here).d
Items           == Screen(db, cur).items

\* The program starts: conf_read(NULL), then conf(&rootmenu).
Started(file) ==
    [(IF file = NoFile THEN [d |-> EmptyDb, changed |-> TRUE] ELSE ConfRead(EmptyDb, file))
       EXCEPT !.d = Shown(@, Root)]

Init == \E file \in FirstFiles :
            /\ files = [n \in Names |-> IF n = ConfigName THEN file ELSE NoFile]
            /\ db = Started(file).d
            /\ changed = Started(file).changed
            /\ name = ConfigName
            /\ cur = Root
            /\ mode = "keys"
            /\ failed = {}
            /\ steps = 0

Key == mode = "keys" /\ steps < MaxSteps /\ steps' = steps + 1

(***************************************************************************)
(* Keys that change a value.  sym_clear_all_valid counts as a change.      *)
(***************************************************************************)
\* Slip: only the first value given to a symbol counts.
TouchesNew(d, s, v) == ~d.sym[s].user
Touches(d, s, v) == d.sym[s].tri # v

Set(s, v) == /\ db' = Shown(SetTri(db, s, v), cur)
             /\ changed' = (changed \/ Touches(db, s, v))
             /\ UNCHANGED <<files, name, cur, mode, failed>>

OnSymbol == Items \ Menus

\* Y, or M where Y is refused.
PressYes == /\ Key
            /\ \E s \in OnSymbol :
                 \/ Accepted(db, s, yes) /\ Set(s, yes)
                 \/ ~Accepted(db, s, yes) /\ Accepted(db, s, mod) /\ Set(s, mod)
PressNo  == Key /\ \E s \in OnSymbol : Accepted(db, s, no) /\ Set(s, no)
PressMod == Key /\ \E s \in OnSymbol : Accepted(db, s, mod) /\ Set(s, mod)

PressSpace == Key /\ \E s \in OnSymbol : Set(s, Toggled(db, s))

\* Enter on a choice that is y: conf_choice, and a value taken from its list.
ConfChoice ==
    /\ Key
    /\ \E c \in OnSymbol : \E s \in Range(Members[c]) :
         /\ db.sym[c].tri = yes
         /\ Visible(db, s).val
         /\ Accepted(db, s, yes)
         /\ Set(s, yes)

Enter == /\ Key
         /\ \E m \in Items \intersect Menus : cur' = m /\ db' = Shown(db, m)
         /\ UNCHANGED <<changed, files, name, mode, failed>>

Leave == /\ mode = "keys" /\ cur # Root
         /\ cur' = Root
         /\ db' = Shown(db, Root)
         /\ UNCHANGED <<changed, files, name, mode, failed, steps>>

(***************************************************************************)
(* Load and save, from the root menu, and exit.                            *)
(***************************************************************************)
Load == /\ Key /\ cur = Root
        /\ \E n \in Names :
             /\ files[n] # NoFile
             /\ db' = Shown(ConfRead(db, files[n]).d, Root)
             /\ name' = n
        /\ changed' = TRUE
        /\ UNCHANGED <<files, cur, mode, failed>>

\* conf_read has reset the change count before it finds that there is no file.
LoadMissing == /\ Key /\ cur = Root
               /\ \E n \in Names : files[n] = NoFile
               /\ changed' = FALSE
               /\ db' = Shown(db, Root)
               /\ failed' = failed \union {"load"}
               /\ UNCHANGED <<files, name, cur, mode>>

Save == /\ Key /\ cur = Root
        /\ \E w \in {Write(db, changed)}, n \in Names :
             /\ db' = Shown(w.d, Root)
             /\ files' = [files EXCEPT ![n] = w.out]
             /\ name' = n
        /\ changed' = FALSE
        /\ UNCHANGED <<cur, mode, failed>>

\* The new file cannot be renamed; the old one may have been moved away by then.
RenameFails(n) == /\ \E left \in {files[n], NoFile} : files' = [files EXCEPT ![n] = left]
                  /\ db' = Write(db, changed).d
                  /\ changed' = TRUE
                  /\ failed' = failed \union {"rename"}

SaveFails == /\ Key /\ cur = Root
             /\ \E n \in Names : RenameFails(n)
             /\ UNCHANGED <<name, cur, mode>>

\* Exit from the root menu; without changes nothing is asked.
Exit == /\ mode = "keys" /\ cur = Root
        /\ mode' = IF changed THEN "asking" ELSE "ended"
        /\ UNCHANGED <<db, changed, files, name, cur, failed, steps>>

AnswerYes == /\ mode = "asking"
             /\ \E w \in {Write(db, changed)} : db' = w.d /\ files' = [files EXCEPT ![name] = w.out]
             /\ changed' = FALSE
             /\ mode' = "ended"
             /\ UNCHANGED <<name, cur, failed, steps>>

AnswerYesFails == /\ mode = "asking"
                  /\ RenameFails(name)
                  /\ mode' = "unsaved"
                  /\ UNCHANGED <<name, cur, steps>>

AnswerNo == /\ mode = "asking"
            /\ mode' = "unsaved"
            /\ UNCHANGED <<db, changed, files, name, cur, failed, steps>>

AnswerEsc == /\ mode = "asking" /\ steps < MaxSteps
             /\ mode' = "keys"
             /\ steps' = steps + 1
             /\ db' = Shown(db, Root)
             /\ UNCHANGED <<changed, files, name, cur, failed>>

\* make menuconfig once more.
Restart == /\ mode \in {"ended", "unsaved"}
           /\ db' = Started(files[ConfigName]).d
           /\ changed' = Started(files[ConfigName]).changed
           /\ name' = ConfigName
           /\ mode' = "keys"
           /\ failed' = {}
           /\ UNCHANGED <<files, cur, steps>>

Next == \/ PressYes \/ PressNo \/ PressMod \/ PressSpace \/ ConfChoice
        \/ Enter \/ Leave \/ Load \/ LoadMissing \/ Save \/ SaveFails
        \/ Exit \/ AnswerYes \/ AnswerYesFails \/ AnswerNo \/ AnswerEsc \/ Restart

Spec == Init /\ [][Next]_vars

(***************************************************************************)
(* Properties.                                                             *)
(***************************************************************************)
\* A bool is never m, a choice picks one of its own values, and files hold values.
TypeOK ==
    /\ db \in Dbs /\ name \in Names /\ cur \in Menus
    /\ files \in [Names -> Contents \union {NoFile}]
    /\ \A s \in Syms : /\ s \in Bools => db.sym[s].tri # mod
                       /\ {db.sym[s].sel, db.sym[s].usel} \subseteq {Nobody} \union Range(Members[s])

\* A value that is kept (SYMBOL_VALID, symbol.c:266) is what would be calculated
\* now, in whatever order the symbols are asked for; unless conf_read calculated a
\* choice and then took the user's mark from it, because a visible value has none
\* (confdata.c:366): then the choice stays as it was until something is set.
SameValue(d, f, s) == \A field \in {"tri", "sel", "vis"} : d.sym[s][field] = f.sym[s][field]
LateChoice(d, f) == \E c \in Syms : /\ IsChoice(c) /\ ~d.sym[c].user /\ d.sym[c].utri # no
                                    /\ ~SameValue(d, f, c)
UpToDate(d, f) == \/ LateChoice(d, f)
                  \/ \A s \in Syms : d.sym[s].valid => SameValue(d, f, s)
Coherent == \A order \in {HashOrder, Reverse(HashOrder)} : UpToDate(db, Fresh(db, order))

\* No two values of a choice are y.  The one that is y is the one the choice
\* picks; a picked value is visible, and is y unless its dependencies allow only m
\* (symbol.c:300, symbol.c:219).
OnePicked(f) ==
    \A c \in {x \in Syms : IsChoice(x)} :
        LET picked == f.sym[c].sel
            on     == {x \in Range(Members[c]) : f.sym[x].tri = yes}
        IN  /\ on \subseteq {picked}
            /\ picked # Nobody => /\ f.sym[c].tri = yes
                                 /\ f.sym[picked].vis # no
                                 /\ (f.sym[picked].vis = yes => on = {picked})
ChoiceOne == OnePicked(Fresh(db, HashOrder))

\* Whatever the user sets, a symbol is no lower than what selects it, and one
\* without defaults no higher than both its dependencies and its selects allow;
\* but a choice without a visible value is n whatever selects it.
Bounds(f) ==
    LET low(s)  == Promoted(Value(TrisOf(f), RevDep[s]), NowTristate(f, s))
        high(s) == IF Prompt[s] = NoPrompt THEN no ELSE Value(TrisOf(f), Prompt[s])
    IN  \A s \in Syms \ {ModulesSym} :
            /\ ~IsChoiceVal(s) => f.sym[s].tri >= low(s) \/ (IsChoice(s) /\ f.sym[s].tri = no)
            /\ Defaults[s] = <<>> => f.sym[s].tri <= Promoted(OrT(low(s), high(s)), NowTristate(f, s))
WithinDependencies == Bounds(Fresh(db, HashOrder))

\* A value that sym_set_tristate_value (symbol.c:433) accepts for an item on the
\* screen is the one the symbol has afterwards.
TakesEffect ==
    mode = "keys" => \A s \in OnSymbol, v \in Tristate :
        Accepted(db, s, v) => Calc(SetTri(db, s, v), s).sym[s].tri = v

\* What is saved now and loaded later gives every symbol the value it has now
\* (confdata.c:399), as long as no rename has failed.
Retrievable ==
    mode = "keys" /\ "rename" \notin failed =>
        \A w \in {Write(db, changed)} : Values(ConfRead(EmptyDb, w.out).d) = Values(w.d)

\* The file the program ends with, if it says nothing of unsaved changes, holds
\* the values it ends with.
Held == mode = "ended" =>
            /\ files[name] # NoFile
            /\ Values(ConfRead(EmptyDb, files[name]).d) = Values(db)

\* A program that ends without a complaint has the user's values in its file
\* (mconf.c:832), as long as loading and renaming never failed.
NothingLost == failed = {} => Held
=============================================================================
