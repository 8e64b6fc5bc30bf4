------------------------------- MODULE MenuTree -------------------------------
(***************************************************************************)
(* menu.c: how the parser hangs up the entries of a Kconfig.               *)
(*                                                                         *)
(* A database m is                                                         *)
(*   entry    the menu records: [sym, file, dep, prompt, parent, next,     *)
(*            list]; entry 1 is rootmenu, and Null ends a list             *)
(*   prop     the properties of all symbols in the order they were made:   *)
(*            [menu, sym, file, type, vis, expr]; a prompt is the number   *)
(*            of one                                                       *)
(*   sym      for each symbol [type, optional, choiceval, values, rev]; a  *)
(*            choice has the number of its entry for a symbol              *)
(*   current_menu, current_entry, last_entry_ptr                           *)
(*                                                                         *)
(* A condition is a conjunction: the set of its operands <<symbol, form>>, *)
(* where the form is "set", "not" or "y" (compared with y); KconfigExpr    *)
(* has the others, and the passes that leave a conjunction what it is.     *)
(* rev_dep is the sequence of its alternatives: [by, on], by being Nobody  *)
(* or the symbol that selects.  Warnings and help are left out.            *)
(***************************************************************************)
EXTENDS Naturals, Sequences, FiniteSets, SequencesExt

CONSTANTS Names,        \* the symbols with a name
          ModulesSym,   \* modules_sym
          MaxEntries,   \* bound on the entries
          Nobody        \* NULL, for a symbol or a file

ASSUME NobodyElse == Nobody \notin Names /\ ModulesSym \notin Names \union {Nobody}

Null == 0
Root == 1
Syms == Names \union {ModulesSym} \union 1 .. MaxEntries

\* The constant m as a condition.
OnlyM == <<Nobody, "m">>

\* menu_init, and what conf_parse makes before it reads
EmptyTree ==
    [entry |-> <<[sym |-> Nobody, file |-> Nobody, dep |-> {}, prompt |-> 1,
                  parent |-> Null, next |-> Null, list |-> Null]>>,
     prop  |-> <<[menu |-> Root, sym |-> Nobody, file |-> Nobody, type |-> "menu", vis |-> {}, expr |-> Nobody]>>,
     sym   |-> [s \in Syms |-> [type |-> IF s = ModulesSym THEN "bool" ELSE "unknown",
                                optional |-> FALSE, choiceval |-> FALSE, values |-> <<>>, rev |-> <<>>]],
     current_menu |-> Root, current_entry |-> Root,
     last_entry_ptr |-> [of |-> Root, field |-> "list"]]

IsChoice(s)    == s \in 1 .. MaxEntries
PromptOf(m, x) == m.prop[m.entry[x].prompt]
HasPrompt(m, x) == m.entry[x].prompt # Null

(***************************************************************************)
(* What the parser calls.                                                  *)
(***************************************************************************)
menu_add_entry(m, s, file) ==
    LET e == Len(m.entry) + 1
        p == m.last_entry_ptr
        Linked == IF p.field = "list" THEN [m.entry EXCEPT ![p.of].list = e] ELSE [m.entry EXCEPT ![p.of].next = e]
    IN  [m EXCEPT !.entry = Append(Linked, [sym |-> s, file |-> file, dep |-> {}, prompt |-> Null,
                                            parent |-> m.current_menu, next |-> Null, list |-> Null]),
                  !.last_entry_ptr = [of |-> e, field |-> "next"],
                  !.current_entry = e]

menu_add_menu(m) == [m EXCEPT !.last_entry_ptr = [of |-> m.current_entry, field |-> "list"],
                              !.current_menu = m.current_entry]

menu_end_menu(m) == [m EXCEPT !.last_entry_ptr = [of |-> m.current_menu, field |-> "next"],
                              !.current_menu = m.entry[@].parent]

\* m stands for m && MODULES.
menu_check_dep(c) == IF OnlyM \in c THEN c \union {<<ModulesSym, "set">>} ELSE c

menu_add_dep(m, c) == [m EXCEPT !.entry[m.current_entry].dep = @ \union menu_check_dep(c)]

\* A symbol keeps the first type it gets.
TypeSet(m, x, t) == IF m.sym[m.entry[x].sym].type # "unknown" THEN m
                    ELSE [m EXCEPT !.sym[m.entry[x].sym].type = t]
menu_set_type(m, t) == TypeSet(m, m.current_entry, t)

\* A property of the entry x.  While files are read, the file of its entry stands for
\* current_file: only whether there is one matters.
PropOf(m, x, file, type, c, expr) ==
    [m EXCEPT !.prop = Append(@, [menu |-> x, sym |-> m.entry[x].sym, file |-> file, type |-> type,
                                  vis |-> menu_check_dep(c), expr |-> expr])]
menu_add_symbol(m, type, s, c) == PropOf(m, m.current_entry, m.entry[m.current_entry].file, type, c, s)
menu_add_prompt(m, type, c) == [menu_add_symbol(m, type, Nobody, c) EXCEPT
                                    !.entry[m.current_entry].prompt = Len(m.prop) + 1]

\* prop_alloc for modules_sym: a default that belongs to no entry
ModulesDefault(m, s, file) == [m EXCEPT !.prop = Append(@, [menu |-> Null, sym |-> ModulesSym, file |-> file,
                                                            type |-> "default", vis |-> {}, expr |-> s])]
================================================================================
