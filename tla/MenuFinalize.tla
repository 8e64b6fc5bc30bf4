------------------------------ MODULE MenuFinalize ------------------------------
(***************************************************************************)
(* menu_finalize of menu.c: what is made of the tree when the files have   *)
(* been read.  One definition per part of the function.                    *)
(***************************************************************************)
EXTENDS MenuTree

\* F(v); TLC then evaluates v once.
With(v, F(_)) == CHOOSE r \in {F(x) : x \in {v}} : TRUE
RECURSIVE Siblings(_, _), menu_finalize(_, _), Finalized(_, _), Nest(_, _, _, _, _), Adopt(_, _, _)

\* The entries from x to the end of its list.
Siblings(m, x) == IF x = Null THEN <<>> ELSE <<x>> \o Siblings(m, m.entry[x].next)
Below(m, p)    == Siblings(m, m.entry[p].list)

\* The properties that x made.
OwnProps(m, x) == {i \in DOMAIN m.prop : m.prop[i].menu = x}

\* The first value with a type gives it to the choice, which gives it to the others.
ChoiceType(m, p) ==
    LET typed == SelectSeq(Below(m, p), LAMBDA x : m.entry[x].sym # Nobody /\ m.sym[m.entry[x].sym].type # "unknown")
        m1 == IF typed = <<>> THEN m ELSE TypeSet(m, p, m.sym[m.entry[typed[1]].sym].type)
    IN  FoldLeft(LAMBDA d, x : IF d.entry[x].sym = Nobody THEN d ELSE TypeSet(d, x, d.sym[d.entry[p].sym].type),
                 m1, Below(m, p))

ParentDep(m, p) == IF IsChoice(m.entry[p].sym) THEN {<<m.entry[p].sym, "set">>}
                   ELSE IF HasPrompt(m, p) THEN PromptOf(m, p).vis
                   ELSE m.entry[p].dep

\* An entry's condition gets that of its parent, and its properties get both.
InheritOwn(m, p, x) ==    \* slip: the properties get the entry's own only
    LET dep == ParentDep(m, p) \union m.entry[x].dep
    IN  [m EXCEPT !.entry[x].dep = dep,
                  !.prop = [i \in DOMAIN @ |-> IF i \in OwnProps(m, x) THEN [@[i] EXCEPT !.vis = @ \union m.entry[x].dep]
                                               ELSE @[i]]]
Inherit(m, p, x) ==
    LET dep == ParentDep(m, p) \union m.entry[x].dep
    IN  [m EXCEPT !.entry[x].dep = dep,
                  !.prop = [i \in DOMAIN @ |-> IF i \in OwnProps(m, x) THEN [@[i] EXCEPT !.vis = @ \union dep]
                                               ELSE @[i]]]

\* What x selects depends on x in reverse.
Selected(m, x) ==
    FoldLeft(LAMBDA d, p : [d EXCEPT !.sym[p.expr].rev = Append(@, [by |-> p.sym, on |-> p.vis])],
             m, SelectSeq(m.prop, LAMBDA p : p.menu = x /\ p.type = "select"))

\* A config takes as children what follows it and depends on it; last is the last
\* of them so far, and base what its own prompt depends on.
Follows(m, s, base, x) ==
    LET dep == IF HasPrompt(m, x) THEN PromptOf(m, x).vis ELSE m.entry[x].dep
    IN  \E a \in dep : a[1] = s /\ (<<s, "set">> \in dep \/ <<s, "y">> \in dep \/ base \subseteq dep)
Moved(m, p, last) ==
    IF last = Null THEN m
    ELSE [m EXCEPT !.entry = [@ EXCEPT ![p].list = m.entry[p].next,
                                       ![p].next = m.entry[last].next,
                                       ![last].next = Null]]
Nest(m, p, base, x, last) ==
    LET Child(m1) == Nest([m1 EXCEPT !.entry[x].parent = p], p, base, m1.entry[x].next, x)
    IN  IF x = Null \/ ~Follows(m, m.entry[p].sym, base, x) THEN Moved(m, p, last)
        ELSE With(menu_finalize(m, x), Child)

\* x becomes a value of the choice p.  A value that is not tristate depends on a
\* tristate choice being y.
NewValue(m, p, x) ==
    LET c == m.entry[p].sym
        s == m.entry[x].sym
        only == IF m.sym[c].type = "tristate" /\ m.sym[s].type # "tristate" THEN {<<c, "y">>} ELSE {}
        m1 == [m EXCEPT !.entry[x].dep = @ \union only,
                        !.prop = [i \in DOMAIN @ |-> IF i \in OwnProps(m, x) THEN [@[i] EXCEPT !.vis = @ \union only]
                                                     ELSE @[i]],
                        !.sym[s].choiceval = TRUE,
                        !.sym[c].values = Append(@, s)]
    IN  PropOf(m1, x, Nobody, "choice", {}, c)

\* The children of an entry without a prompt move up behind it.
HoistFirst(m, p, x) ==    \* slip: the rest of the list is cut off
    LET kids == Below(m, x)
    IN  [m EXCEPT !.entry = [e \in DOMAIN @ |-> IF e = x THEN [@[e] EXCEPT !.next = kids[1], !.list = Null]
                                                ELSE IF e \in ToSet(kids) THEN [@[e] EXCEPT !.parent = p] ELSE @[e]]]
Hoist(m, p, x) ==
    LET kids == Below(m, x)
        up == [m EXCEPT !.entry = [e \in DOMAIN @ |-> IF e \in ToSet(kids) THEN [@[e] EXCEPT !.parent = p] ELSE @[e]]]
    IN  [up EXCEPT !.entry = [@ EXCEPT ![Last(kids)].next = m.entry[x].next,
                                       ![x].next = kids[1],
                                       ![x].list = Null]]

\* The last pass over the list, from x on.
Adopt(m, p, x) ==
    LET s == m.entry[x].sym
        m1 == IF IsChoice(m.entry[p].sym) /\ s # Nobody /\ ~m.sym[s].choiceval THEN NewValue(m, p, x) ELSE m
        m2 == IF m1.entry[x].list # Null /\ (~HasPrompt(m1, x)) THEN Hoist(m1, p, x) ELSE m1
        Further(m3) == Adopt(m3, p, m3.entry[x].next)
    IN  IF x = Null THEN m ELSE With(m2, Further)

\* Each entry from x on, in the list as the ones before have left it.
Finalized(m, x) ==
    LET Further(m1) == Finalized(m1, m1.entry[x].next)
    IN  IF x = Null THEN m ELSE With(menu_finalize(m, x), Further)

menu_finalize(m, p) ==
    LET s == m.entry[p].sym
        Typed == IF IsChoice(s) THEN ChoiceType(m, p) ELSE m
        Filled(m1) == FoldLeft(LAMBDA d, x : With(Inherit(d, p, x), LAMBDA e : Selected(e, x)), m1, Below(m1, p))
        Inside(m1) == Finalized(m1, m1.entry[p].list)
        Base == IF HasPrompt(m, p) THEN PromptOf(m, p).vis ELSE {}
        Held == IF m.entry[p].list # Null THEN With(With(Typed, Filled), Inside)
                ELSE IF s # Nobody THEN Nest(m, p, Base, m.entry[p].next, Null)
                ELSE m
        AtLeastM(m1) == IF s = Nobody \/ m1.sym[s].optional \/ ~HasPrompt(m1, p) THEN m1
                        ELSE [m1 EXCEPT !.sym[s].rev = Append(@, [by |-> Nobody, on |-> PromptOf(m1, p).vis \union {OnlyM}])]
        Last3(m1) == With(Adopt(m1, p, m1.entry[p].list), AtLeastM)
    IN  With(Held, Last3)
=================================================================================
