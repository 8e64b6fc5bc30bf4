------------------------------ MODULE KconfigReader ------------------------------
(***************************************************************************)
(* The reading half of conf_parse: the files of a Kconfig are read line by *)
(* line and the entries hung up (zconf.tab.c, lex.zconf.c, menu.c).        *)
(*                                                                         *)
(* A line stands for its tokens up to T_EOL.  Three statements take effect *)
(* only when the parser has seen the first token of another statement:     *)
(* what it waits with is kept in option_list.  What follows an error does  *)
(* not matter, for conf_parse exits in the end: it is one state.           *)
(* Help, comments, quoting, mainmenu and strings are left out.             *)
(***************************************************************************)
EXTENDS MenuTree

CONSTANTS MainFile,
          Scripts,      \* Kconfigs: for each file, what each of its lines may be
          Unended       \* sourced files whose last line has no newline

VARIABLES script,       \* the Kconfig that is read
          sources,      \* the files that are open: [file, at]; at lines of it are read
          scanned,      \* those with FILE_SCANNED
          menus,        \* the database of MenuTree
          blocks,       \* the blocks that are open
          option_list,  \* what the options and conditions that come belong to
          condition,    \* that of an if that takes effect with the next statement
          phase,        \* "reading", "parsed", "rejected", "crashed" and those of KconfigParser
          read          \* the lines so far, each with its file, and the file
                        \* that is open behind it (history)

vars == <<script, sources, scanned, menus, blocks, option_list, condition, phase, read>>

Options    == {"type", "prompt", "default", "select", "depends", "optional", "modules"}

Init == /\ script \in Scripts
        /\ sources = <<[file |-> MainFile, at |-> 0]>>
        /\ scanned = {}
        /\ menus = EmptyTree
        /\ blocks = <<>>
        /\ option_list = "none"
        /\ condition = {}
        /\ phase = "reading"
        /\ read = <<>>

(***************************************************************************)
(* The lexer.                                                              *)
(***************************************************************************)
Top == Last(sources)
LineHere == Top.at + 1

\* What the next line may be, if the file has one more.
Line(kind) == IF phase # "reading" \/ sources = <<>> \/ Top.at = Len(script[Top.file]) THEN {}
              ELSE {l \in script[Top.file][LineHere] : l.what = kind}

\* The end of a line without a newline is that of its file (zconf_endfile).
EndsFile == Top.file \in Unended /\ LineHere = Len(script[Top.file])
After == IF EndsFile THEN Front(sources) ELSE [sources EXCEPT ![Len(sources)].at = LineHere]
current_file == IF After = <<>> THEN Nobody ELSE Last(After).file

Taken(l) == /\ read' = Append(read, [line |-> l, file |-> Top.file, after |-> current_file])
            /\ scanned' = IF EndsFile THEN scanned \union {Top.file} ELSE scanned
            /\ UNCHANGED script
Stepped(l) == Taken(l) /\ sources' = After

Reject(l) == /\ Stepped(l)
             /\ phase' = "rejected"
             /\ UNCHANGED <<menus, blocks, option_list, condition>>

EndOfFile == /\ phase = "reading" /\ sources # <<>>
             /\ Top.at = Len(script[Top.file])
             /\ sources' = Front(sources)
             /\ scanned' = scanned \union {Top.file}
             /\ UNCHANGED <<script, menus, blocks, option_list, condition, phase, read>>

(***************************************************************************)
(* The grammar.                                                            *)
(***************************************************************************)
\* if_entry, choice_entry, menu_entry and menuconfig_stmt, which the first token of
\* the next statement completes; file is the one it stands in.
Begun(file) ==
    CASE option_list = "if" -> menu_add_menu(menu_add_dep(menu_add_entry(menus, Nobody, file), condition))
      [] option_list \in {"menu", "choice"} -> menu_add_menu(menus)
      [] option_list = "menuconfig" /\ HasPrompt(menus, menus.current_entry) ->
            [menus EXCEPT !.prop[menus.entry[menus.current_entry].prompt].type = "menu"]
      [] OTHER -> menus
Entered == IF option_list \in {"if", "menu", "choice"} THEN Append(blocks, option_list) ELSE blocks

OptionalSym(m, s) == [m EXCEPT !.sym[s].optional = TRUE]

\* A statement that is read completely: m is what it makes of the entries.
Statement(l, m, bs, list) ==
    /\ Stepped(l)
    /\ menus' = m /\ blocks' = bs /\ option_list' = list
    /\ UNCHANGED <<condition, phase>>

\* No menu and no choice stands directly in a choice.
Misplaced == Entered # <<>> /\ Last(Entered) = "choice"

Config == \E kind \in {"config", "menuconfig"} : \E l \in Line(kind) :
    Statement(l, OptionalSym(menu_add_entry(Begun(Top.file), l.name, current_file), l.name),
              Entered, kind)

Menu == \E l \in Line("menu") :
    IF Misplaced THEN Reject(l)
    ELSE Statement(l, menu_add_prompt(menu_add_entry(Begun(Top.file), Nobody, current_file), "menu", {}), Entered, "menu")

Comment == \E l \in Line("comment") :
    Statement(l, menu_add_prompt(menu_add_entry(Begun(Top.file), Nobody, current_file), "comment", {}),
              Entered, "comment")

Choice == \E l \in Line("choice") :
    LET m == Begun(Top.file)
    IN  IF Misplaced THEN Reject(l)
        ELSE Statement(l, menu_add_symbol(menu_add_entry(m, Len(m.entry) + 1, current_file), "choice", Nobody, {}),
                       Entered, "choice")

If == \E l \in Line("if") :
    /\ Stepped(l)
    /\ menus' = Begun(Top.file) /\ blocks' = Entered
    /\ option_list' = "if" /\ condition' = l.on
    /\ UNCHANGED phase

\* zconf_nextfile: the file must exist, and be neither open nor read already.
Source == \E l \in Line("source") :
    IF l.file \notin DOMAIN script \/ l.file \in scanned \union {s.file : s \in ToSet(sources)} THEN Reject(l)
    ELSE /\ Taken(l)
         /\ sources' = Append(After, [file |-> l.file, at |-> 0])
         /\ menus' = Begun(Top.file) /\ blocks' = Entered /\ option_list' = "none"
         /\ UNCHANGED <<condition, phase>>

\* zconf_endtoken; the newline after the token has been read, and perhaps the file
\* with it.
EndAnywhere(m, bs, what) == bs # <<>> /\ Last(bs) = what       \* slip
EndAllowed(m, bs, what) == /\ bs # <<>> /\ Last(bs) = what
                           /\ m.entry[m.current_menu].file = current_file
End == \E l \in Line("end") :
    LET m == Begun(Top.file)
    IN  IF EndAllowed(m, Entered, l.of) THEN Statement(l, menu_end_menu(m), Front(Entered), "none")
        ELSE Reject(l)

(***************************************************************************)
(* The lines that belong to the last statement, whichever file that is in. *)
(***************************************************************************)
OptionsOf(kind) == CASE kind \in {"config", "menuconfig"} -> Options \ {"optional"}
                     [] kind = "choice" -> Options \ {"select", "modules"}
                     [] kind \in {"menu", "comment"} -> {"depends"}
                     [] OTHER -> {}

Option(kind, Made(_)) == \E l \in Line(kind) :
    IF kind \in OptionsOf(option_list) THEN Statement(l, Made(l), blocks, option_list) ELSE Reject(l)

Type     == Option("type", LAMBDA l : menu_set_type(menus, l.type))
Prompt   == Option("prompt", LAMBDA l : menu_add_prompt(menus, "prompt", l.on))
DefaultTo == Option("default", LAMBDA l : menu_add_symbol(menus, "default", l.name, l.on))
Select   == Option("select", LAMBDA l : menu_add_symbol(menus, "select", l.name, l.on))
Depends  == Option("depends", LAMBDA l : menu_add_dep(menus, l.on))
Optional == Option("optional", LAMBDA l : OptionalSym(menus, menus.entry[menus.current_entry].sym))
Modules  == Option("modules", LAMBDA l : ModulesDefault(menus, menus.entry[menus.current_entry].sym, Top.file))

Blank == \E l \in Line("blank") :
    Stepped(l) /\ UNCHANGED <<menus, blocks, option_list, condition, phase>>

(***************************************************************************)
(* conf_parse, when the last file is read.                                 *)
(***************************************************************************)
\* A block that is still open is told of with the file of its entry, which an if that
\* waits until now does not have (zconfdestruct).
EndOfInput == /\ phase = "reading" /\ sources = <<>>
              /\ phase' = IF Entered = <<>> THEN "parsed" ELSE IF option_list = "if" THEN "crashed" ELSE "rejected"
              /\ menus' = Begun(Nobody) /\ blocks' = Entered /\ option_list' = "none"
              /\ UNCHANGED <<script, sources, scanned, condition, read>>

ReadNext == \/ Config \/ Menu \/ Comment \/ Choice \/ If \/ Source \/ End
            \/ Type \/ Prompt \/ DefaultTo \/ Select \/ Depends \/ Optional \/ Modules \/ Blank
            \/ EndOfFile \/ EndOfInput

\* What comes after that changes the entries, and reads no more.
Later == /\ phase \in {"parsed", "finalized"}
         /\ phase' \in {"finalized", "accepted", "recursive", "aborted"}
         /\ UNCHANGED <<script, sources, scanned, blocks, option_list, condition, read>>

ReadSpec == Init /\ [][ReadNext \/ Later]_vars

(***************************************************************************)
(* What a text t says, by itself: its lines in the order they are read.    *)
(***************************************************************************)
What(t, i) == t[i].line.what
Opens   == {"menu", "choice", "if"}
Heads   == Opens \union {"config", "menuconfig", "comment"}
Balance(t, j, k) == Cardinality({i \in j .. k : What(t, i) \in Opens}) - Cardinality({i \in j .. k : What(t, i) = "end"})

\* The blocks that line i stands in, and the statement it belongs to.
Within(t, i) == {j \in 1 .. i - 1 : What(t, j) \in Opens /\ \A k \in j .. i - 1 : Balance(t, j, k) > 0}
Inner(t, i)  == What(t, Max(Within(t, i)))
Owner(t, i)  == Max({0} \union {j \in 1 .. i - 1 : What(t, j) \notin Options \union {"blank"}})

\* Line j opens a block in the file that is open behind it, but an if in the one that
\* the next statement stands in.
Following(t, j) == Min({k \in j + 1 .. Len(t) : What(t, k) # "blank"})
BlockFile(t, j) == IF What(t, j) = "if" THEN t[Following(t, j)].file ELSE t[j].after
Fits(t, i) ==
    LET l == t[i].line
    IN  CASE l.what = "end" -> /\ Within(t, i) # {} /\ Inner(t, i) = l.of
                               /\ BlockFile(t, Max(Within(t, i))) = t[i].after
          [] l.what \in {"menu", "choice"} -> Within(t, i) = {} \/ Inner(t, i) # "choice"
          [] l.what = "source" -> /\ l.file \in DOMAIN script \ {MainFile}
                                  /\ \A j \in 1 .. i - 1 : What(t, j) = "source" => t[j].line.file # l.file
          [] l.what \in Options -> Owner(t, i) # 0 /\ l.what \in OptionsOf(What(t, Owner(t, i)))
          [] OTHER -> TRUE

\* The entry that line i makes, and its own condition.
EntryOf(t, i) == 1 + Cardinality({j \in 1 .. i : What(t, j) \in Heads})
Conditions(t, i) == {j \in DOMAIN t : \/ j = i /\ What(t, j) = "if"
                                      \/ Owner(t, j) = i /\ What(t, j) = "depends"}
Own(t, i) == UNION {menu_check_dep(t[j].line.on) : j \in Conditions(t, i)}

\* A Kconfig is refused at the first line that does not fit, or at its end when a
\* block is open; of any other every entry hangs in the block it stands in, and has
\* the conditions written below it (zconf_endtoken, zconf_nextfile, the grammar).
ReadRight ==
    /\ phase # "reading" =>
          /\ \A i \in 1 .. Len(read) - 1 : Fits(read, i)
          /\ phase \in {"rejected", "crashed"} <=>
                \/ read # <<>> /\ ~Fits(read, Len(read))
                \/ sources = <<>> /\ Within(read, Len(read) + 1) # {}
    /\ phase = "parsed" =>
          \A i \in {j \in DOMAIN read : What(read, j) \in Heads} :
              LET e == menus.entry[EntryOf(read, i)]
              IN  /\ e.parent = IF Within(read, i) = {} THEN Root ELSE EntryOf(read, Max(Within(read, i)))
                  /\ e.dep = Own(read, i)
==================================================================================
