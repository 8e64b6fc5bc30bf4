------------------------------- MODULE SymCheck -------------------------------
(***************************************************************************)
(* sym_check_deps of symbol.c: the search for symbols that depend on       *)
(* themselves, with its two flags.  A search s is                          *)
(*   check, checked  the symbols with SYMBOL_CHECK and SYMBOL_CHECKED      *)
(*   errors          zconfnerrs                                            *)
(*   crashed         the message has followed a pointer that is NULL; what *)
(*                   would come then does not matter                       *)
(*   found           what the last call returned                           *)
(***************************************************************************)
EXTENDS MenuTree

NotYet == [check |-> {}, checked |-> {}, errors |-> 0, crashed |-> FALSE, found |-> Nobody]

InCond(c) == {a[1] : a \in c} \ {Nobody}

\* What sym_check_sym_deps looks at: rev_dep, then of each property the condition and
\* the default.  The operands of one conjunction come in any order, the same each time.
DepsNoRev(m, x) == LET Deps(p) == InCond(p.vis)                      \* slip
                   IN  SetToSeq(UNION {Deps(p) : p \in {q \in ToSet(m.prop) : q.sym = x}})
DepsOf(m, x) ==
    LET Looked(p) == p.sym = x /\ p.type \notin {"choice", "select"}
        Deps(p) == SetToSeq(InCond(p.vis)) \o (IF p.type = "default" /\ ~IsChoice(x) THEN <<p.expr>> ELSE <<>>)
        props == SelectSeq(m.prop, Looked)
        Alternative(r) == (IF r.by = Nobody THEN <<>> ELSE <<r.by>>) \o SetToSeq(InCond(r.on))
    IN  FlattenSeq([i \in DOMAIN m.sym[x].rev |-> Alternative(m.sym[x].rev[i])])
        \o FlattenSeq([i \in DOMAIN props |-> Deps(props[i])])

\* The choice that a value belongs to: that of its first such property.
ChoiceOf(m, s) == SelectSeq(m.prop, LAMBDA p : p.sym = s /\ p.type = "choice")[1].expr

RECURSIVE sym_check_deps(_, _, _), EachOf(_, _, _), ValuesOf(_, _, _)

\* One symbol after the other, until a call finds one.
EachOf(m, s, xs) ==
    LET Further(s1) == IF s1.found # Nobody THEN s1 ELSE EachOf(m, s1, Tail(xs))
    IN  IF xs = <<>> THEN [s EXCEPT !.found = Nobody] ELSE Further(sym_check_deps(m, s, Head(xs)))
sym_check_sym_deps(m, s, x) == EachOf(m, s, DepsOf(m, x))

ValuesOf(m, s, xs) ==
    LET Further(s1) == IF s1.found # Nobody THEN s1 ELSE ValuesOf(m, s1, Tail(xs))
    IN  IF xs = <<>> THEN [s EXCEPT !.found = Nobody] ELSE Further(sym_check_sym_deps(m, s, Head(xs)))

Marked(s, xs)   == [s EXCEPT !.check = @ \union xs, !.checked = @ \union xs]
Unmarked(s, xs) == [s EXCEPT !.check = @ \ xs]

\* The values of a choice stay marked while the choice and each of them is checked.
sym_check_choice_deps(m, s, c) ==
    LET values == ToSet(m.sym[c].values)
        Values(s1) == IF s1.found # Nobody THEN s1 ELSE ValuesOf(m, s1, m.sym[c].values)
        Own(s1) == Values(Unmarked(sym_check_sym_deps(m, s1, c), {c}))
        Out(s1) == [s1 EXCEPT !.check = @ \ values,
                              !.found = IF s1.found # Nobody /\ m.sym[s1.found].choiceval
                                           /\ ChoiceOf(m, s1.found) = c THEN c ELSE @]
    IN  Out(Own(Marked(s, values \union {c})))

\* The message tells the file of the symbol's first property.  A symbol may have none,
\* and one made after the files were read has no file.
NoPlace(m, x) == LET own == SelectSeq(m.prop, LAMBDA p : p.sym = x)
                 IN  own = <<>> \/ own[1].file = Nobody

\* An error is counted where the symbol that was found is met again.
Counted(s, x) == IF s.found = x THEN [s EXCEPT !.errors = @ + 1, !.found = Nobody] ELSE s

sym_check_deps(m, s, x) ==
    IF x \in s.check THEN [s EXCEPT !.found = x, !.crashed = @ \/ NoPlace(m, x)]
    ELSE IF x \in s.checked THEN [s EXCEPT !.found = Nobody]
    ELSE Counted(IF m.sym[x].choiceval THEN sym_check_deps(m, s, ChoiceOf(m, x))
                 ELSE IF IsChoice(x) THEN sym_check_choice_deps(m, s, x)
                 ELSE Unmarked(sym_check_sym_deps(m, Marked(s, {x}), x), {x}), x)

\* for_all_symbols of conf_parse.  The symbols without a name come last: there they
\* are in one list, the youngest first.
AllChoices(m) == Reverse(SelectSeq([i \in DOMAIN m.entry |-> m.entry[i].sym], IsChoice)) \o <<ModulesSym>>
Returned(s) == IF s.found = Nobody THEN s ELSE [s EXCEPT !.errors = @ + 1]
Checked(m, order) == FoldLeft(LAMBDA s, x : Returned(sym_check_deps(m, s, x)), NotYet, order)
===============================================================================
