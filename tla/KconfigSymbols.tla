---------------------------- MODULE KconfigSymbols ----------------------------
(***************************************************************************)
(* The symbol database of symbol.c: what sym_calc_value caches in it and   *)
(* how, and what sym_set_tristate_value changes.                           *)
(*                                                                         *)
(* A database d is [sym, modval]: modules_val, and for each symbol         *)
(*   tri, sel     curr.tri, and curr.val of a choice: the member it picks  *)
(*   vis, rev     visible and rev_dep.tri                                  *)
(*   valid, write SYMBOL_VALID and SYMBOL_WRITE                            *)
(*   user, utri, usel  SYMBOL_DEF_USER and the user's value in def[]       *)
(* Each operator returns the database it leaves.  Expressions are those    *)
(* menu_finalize left (KconfigExpr), of a Kconfig that sym_check_deps      *)
(* accepts.  Symbols are bool or tristate and have at most one prompt;     *)
(* SYMBOL_CHANGED only drives repainting and is left out.                  *)
(***************************************************************************)
EXTENDS KconfigRules, Sequences, FiniteSets, SequencesExt

CONSTANTS Prompt,      \* visible.expr of each symbol's prompt, or NoPrompt
          Defaults,    \* its default properties in order: [value, cond]
          RevDep,      \* rev_dep.expr, with y for an absent condition; n when nothing selects it
          Members,     \* the values of a choice in order; <<>> for other symbols
          ChoiceOf,    \* the choice of each choice value
          ModulesSym,  \* modules_sym
          NoPrompt, Nobody

IsChoice(s)    == Members[s] # <<>>
IsChoiceVal(s) == s \in DOMAIN ChoiceOf

ASSUME SymbolsAssumption ==
    /\ IsFiniteSet(Syms) /\ Nobody \notin Syms /\ NoPrompt \notin Exprs /\ ModulesSym \in Bools
    /\ Prompt \in [Syms -> Exprs \union {NoPrompt}] /\ RevDep \in [Syms -> Exprs]
    /\ DOMAIN Defaults = Syms /\ \A s \in Syms : Defaults[s] \in Seq([value : Exprs, cond : Exprs])

\* Choices as menu_finalize makes them: a value has no default and belongs to one
\* choice, which its prompt depends on; and the defaults of a choice are values of it.
ASSUME ChoiceAssumption ==
    /\ Members \in [Syms -> Seq(Syms)] /\ DOMAIN ChoiceOf \subseteq Syms
    /\ \A c \in Syms, x \in Syms : x \in Range(Members[c]) <=> IsChoiceVal(x) /\ ChoiceOf[x] = c
    /\ \A x \in DOMAIN ChoiceOf :
         /\ ChoiceOf[x] \in Syms /\ ~IsChoice(x) /\ Defaults[x] = <<>>
         /\ Prompt[x] \in {NoPrompt, SymE("n")} \/ Mentions(Prompt[x], ChoiceOf[x])
    /\ \A c \in Syms : IsChoice(c) => \A p \in Range(Defaults[c]) : \E x \in Range(Members[c]) : p.value = SymE(x)

\* What sym_check_sym_deps finds that the value of s depends on.
Needs(e) == {x \in Syms : Mentions(e, x)}
DependsOnSyms(s) ==
    (IF Prompt[s] = NoPrompt THEN {} ELSE Needs(Prompt[s])) \union Needs(RevDep[s])
    \union UNION {Needs(p.cond) \union (IF IsChoice(s) THEN {} ELSE Needs(p.value)) : p \in Range(Defaults[s])}

\* A choice and its values are one node; the edges that sym_check_deps follows.
Node(s) == IF IsChoiceVal(s) THEN ChoiceOf[s] ELSE s
Uses(a) == {Node(t) : t \in UNION {DependsOnSyms(s) \ (IF s = a THEN {} ELSE {a}) : s \in {x \in Syms : Node(x) = a}}}

\* sym_check_deps has accepted it: every set of nodes has one that uses none of them.
ASSUME NoCircleAssumption ==
    \A S \in (SUBSET {Node(s) : s \in Syms}) \ {{}} : \E a \in S : Uses(a) \intersect S = {}

\* What decides whether there are modules is bool throughout.
ASSUME ModulesAssumption ==
    \E K \in SUBSET Bools : /\ ModulesSym \in K
                            /\ \A s \in K : {x \in Syms : Node(x) \in Uses(Node(s)) \union {Node(s)}} \subseteq K

SymRec == [tri |-> no, sel |-> Nobody, vis |-> no, rev |-> no, valid |-> FALSE, write |-> FALSE,
           user |-> FALSE, utri |-> no, usel |-> Nobody]
EmptyDb == [sym |-> [s \in Syms |-> SymRec], modval |-> no]

SymRecs == [tri : Tristate, sel : Syms \union {Nobody}, vis : Tristate, rev : Tristate, valid : BOOLEAN,
            write : BOOLEAN, user : BOOLEAN, utri : Tristate, usel : Syms \union {Nobody}]
Dbs == [sym : [Syms -> SymRecs], modval : Tristate]

\* sym_get_type: is the symbol tristate now?
NowTristate(d, s) ==
    s \in Tris /\ ~(IsChoiceVal(s) /\ d.sym[s].vis = yes) /\ d.modval # no

\* m, where a symbol cannot be m, is y.
Promoted(tri, mayBeMod) == IF tri = mod /\ ~mayBeMod THEN yes ELSE tri

(***************************************************************************)
(* Calculating.  A result is [d, val]: the database after a call and what  *)
(* the call returned.  calc is sym_calc_value: calc[d][s] is the database  *)
(* it leaves.                                                              *)
(***************************************************************************)
Results == [d : Dbs, val : Tristate]

\* expr_calc_value: both operands are always calculated, the left one first.
ConstOrSym(calc, d, x) ==
    LET Value1(d1) == [d |-> d1, val |-> d1.sym[x].tri]
    IN  IF x \in ConstSyms THEN [d |-> d, val |-> ConstTri[x]] ELSE Value1(calc[d][x])
Compared(e, r) == IF e.op = "sym" THEN r
                  ELSE [r EXCEPT !.val = IF (e.op = "eq") = (@ = ConstTri[e.c]) THEN yes ELSE no]

Negated(r) == [r EXCEPT !.val = NotT(@)]
Joined(op, l, r) == [r EXCEPT !.val = IF op = "and" THEN AndT(l.val, @) ELSE OrT(l.val, @)]
Chained(f, l, right) == Joined(f.op, l, right[l.d])
EvalBy(calc, d, e) ==
    LET eval[f \in Exprs] == [d1 \in Dbs |->
            IF f.op \in Chains THEN Chained(f, eval[f.a][d1], eval[f.b])
            ELSE IF f.op = "not" THEN Negated(eval[f.a][d1])
            ELSE Compared(f, ConstOrSym(calc, d1, f.s))]
    IN  eval[e][d]

\* sym_calc_visibility: first the prompt, then, but for choice values, the selects.
PromptVisibility(calc, d, s) ==
    LET Seen(p) == [p.d EXCEPT !.sym[s].vis = Promoted(p.val, s \in Tris /\ p.d.modval # no)]
    IN  Seen(IF Prompt[s] = NoPrompt THEN [d |-> d, val |-> no] ELSE EvalBy(calc, d, Prompt[s]))
Selects(calc, d, s) ==
    LET Selected(q) == [q.d EXCEPT !.sym[s].rev = Promoted(q.val, NowTristate(q.d, s))]
    IN  IF IsChoiceVal(s) THEN d ELSE Selected(EvalBy(calc, d, RevDep[s]))
CalcVisibility(calc, d, s) == Selects(calc, PromptVisibility(calc, d, s), s)

\* sym_get_default_prop: at is the first default whose condition holds, 0 without one,
\* and val its condition.
Found(n) == [d : Dbs, at : 0..n, val : Tristate]
TryDefault(calc, s, r, i) ==
    LET Tried(c) == [d |-> c.d, at |-> IF c.val = no THEN 0 ELSE i, val |-> c.val]
    IN  IF r.at # 0 THEN r ELSE Tried(EvalBy(calc, r.d, Defaults[s][i].cond))
DefaultProp(calc, d, s) ==
    LET n == Len(Defaults[s])
    IN  Repeated(n, [i \in 1..n |-> [r \in Found(n) |-> TryDefault(calc, s, r, i)]], [d |-> d, at |-> 0, val |-> no])

\* Its value, as far as the condition holds.
DefaultValue(calc, s, r) ==
    LET Limited(v) == [v EXCEPT !.val = AndT(@, r.val)]
    IN  IF r.at = 0 THEN [d |-> r.d, val |-> no] ELSE Limited(EvalBy(calc, r.d, Defaults[s][r.at].value))

\* sym_calc_choice: the user's choice, a default, or the first member, whichever
\* is first to be visible.
Always(xs) == [i \in DOMAIN xs |-> [value |-> SymE(xs[i]), cond |-> SymE("y")]]
Candidates(d, s) ==
    (IF d.sym[s].usel = Nobody THEN <<>> ELSE Always(<<d.sym[s].usel>>))
    \o Defaults[s] \o Always(Members[s])

Picks == [d : Dbs, pick : Syms \union {Nobody}]
IfVisible(d, x) == [d |-> d, pick |-> IF d.sym[x].vis = no THEN Nobody ELSE x]
TryMember(calc, c, x) == IF c.val = no THEN [d |-> c.d, pick |-> Nobody]
                         ELSE IfVisible(CalcVisibility(calc, c.d, x), x)
TryCandidate(calc, r, p) ==
    IF r.pick # Nobody THEN r ELSE TryMember(calc, EvalBy(calc, r.d, p.cond), p.value.s)
PickBy(calc, d, s) ==
    LET ps == Candidates(d, s)
    IN  Repeated(Len(ps), [i \in 1..Len(ps) |-> [r \in Picks |-> TryCandidate(calc, r, ps[i])]],
                 [d |-> d, pick |-> Nobody])

\* A value r.val of s that is not decided by its choice, no lower than its selects.
Own(r, s, write) == [d   |-> [r.d EXCEPT !.sym[s].write = @ \/ write],
                     val |-> OrT(r.val, r.d.sym[s].rev)]
ByUser(d, s) == d.sym[s].vis # no /\ d.sym[s].user
Reachable(d, s) == d.sym[s].vis # no \/ d.sym[s].rev # no
OwnDefault(calc, s, r, reachable) == Own(DefaultValue(calc, s, r), s, reachable \/ r.at # 0)
DefaultOwn(calc, d, s) == OwnDefault(calc, s, DefaultProp(calc, d, s), Reachable(d, s))

\* Slip: the user's value is taken as it is, below a select or not.
OwnValueUserWins(calc, d, s) ==
    IF ByUser(d, s) THEN [d |-> [d EXCEPT !.sym[s].write = TRUE], val |-> AndT(d.sym[s].utri, d.sym[s].vis)]
    ELSE IF IsChoice(s) THEN Own([d |-> d, val |-> no], s, Reachable(d, s))
    ELSE DefaultOwn(calc, d, s)

\* The user's value as far as it is visible, or else a default.
OwnValue(calc, d, s) ==
    IF ByUser(d, s) THEN Own([d |-> d, val |-> AndT(d.sym[s].utri, d.sym[s].vis)], s, TRUE)
    ELSE IF IsChoice(s) THEN Own([d |-> d, val |-> no], s, Reachable(d, s))
    ELSE DefaultOwn(calc, d, s)

\* A value of a choice that is y: the one the choice picks.
MemberByUser(d, s) == IF d.sym[ChoiceOf[s]].usel = s THEN yes ELSE no    \* slip: picked or not
MemberAsSet(d, s) == d.sym[s].utri                                      \* slip
MemberValue(d, s) == IF d.sym[ChoiceOf[s]].sel = s THEN yes ELSE no

\* The steps of sym_calc_value.
Begun(d, s) == [d EXCEPT !.sym[s].valid = TRUE, !.sym[s].write = IsChoiceVal(s) /\ @]
\* set default if recursively called
Reset(d, s) == [d EXCEPT !.sym[s].tri = no, !.sym[s].sel = Nobody]
Valued(calc, d, s) ==
    LET Take(v) == [v.d EXCEPT !.sym[s].tri = Promoted(v.val, NowTristate(v.d, s))]
    IN  Take(IF IsChoiceVal(s) /\ d.sym[s].vis = yes THEN [d |-> d, val |-> MemberValue(d, s)]
             ELSE OwnValue(calc, d, s))
\* Without a visible value the choice is not set.
Choosing(calc, d, s) ==
    LET Take(p) == IF p.pick = Nobody THEN [p.d EXCEPT !.sym[s].tri = no] ELSE [p.d EXCEPT !.sym[s].sel = p.pick]
    IN  IF IsChoice(s) /\ d.sym[s].tri = yes THEN Take(PickBy(calc, d, s)) ELSE d
\* modules_sym is SYMBOL_AUTO; a choice that is written has its values written.
Marked(d, s) ==
    IF s = ModulesSym THEN [d EXCEPT !.modval = d.sym[s].tri, !.sym[s].write = FALSE]
    ELSE [d EXCEPT !.sym = [x \in Syms |->
            [d.sym[x] EXCEPT !.write = @ \/ (x \in Range(Members[s]) /\ d.sym[s].write)]]]

CalcBy(calc, d, s) ==
    Marked(Choosing(calc, Valued(calc, Reset(CalcVisibility(calc, Begun(d, s), s), s), s), s), s)

\* sym_calc_value while at most n symbols are not valid: a call within a call finds
\* one more of them valid.
CalcAt[n \in Nat] == [d \in Dbs |-> [s \in Syms |->
    IF d.sym[s].valid \/ n = 0 THEN d ELSE CalcBy(CalcAt[n - 1], d, s)]]
SymCalc    == CalcAt[Cardinality(Syms)]
Calc(d, s) == SymCalc[d][s]
Eval(d, e) == EvalBy(SymCalc, d, e)

Invalidate(d) == [d EXCEPT !.sym = [s \in Syms |-> [@[s] EXCEPT !.valid = FALSE]]]

\* sym_clear_all_valid; the change count it adds to is the caller's.
ClearAllValid(d) == Calc(Invalidate(d), ModulesSym)

(***************************************************************************)
(* Setting a value.                                                        *)
(***************************************************************************)
Changeable(d, s) == d.sym[s].vis > d.sym[s].rev

\* Slip: the upper limit is forgotten.
WithinRangeAbove(d, s, v) == d.sym[s].vis # no /\ Changeable(d, s) /\ v >= d.sym[s].rev

\* sym_tristate_within_range, on the cached visibility.
WithinRange(d, s, v) ==
    /\ d.sym[s].vis # no
    /\ v = mod => NowTristate(d, s)
    /\ Changeable(d, s)
    /\ IF IsChoiceVal(s) /\ d.sym[s].vis = yes THEN v = yes
       ELSE v >= d.sym[s].rev /\ v <= d.sym[s].vis

Accepted(d, s, v) == d.sym[s].tri = v \/ WithinRange(d, s, v)

\* Slip: only the symbol and its choice are calculated again.
SetTriAlone(d, s, v) ==
    LET again == {s} \union (IF IsChoiceVal(s) THEN {ChoiceOf[s]} ELSE {})
    IN  [d EXCEPT !.sym = [x \in Syms |->
            IF x \notin again THEN @[x]
            ELSE [@[x] EXCEPT !.valid = FALSE, !.user = TRUE, !.utri = v, !.usel = IF x = s THEN @ ELSE s]]]

\* sym_set_tristate_value of an accepted value.  Taking a choice value also makes
\* it the choice's and takes the visible other values for seen.
Taken(d, c, s) ==
    LET seen == {x \in Range(Members[c]) : d.sym[x].vis # no} \union {c}
    IN  [d EXCEPT !.sym = [x \in Syms |->
            [d.sym[x] EXCEPT !.user = @ \/ x \in seen, !.usel = IF x = c THEN s ELSE @]]]
Given(d, s, v) ==
    LET d1 == IF IsChoiceVal(s) /\ v = yes THEN Taken(d, ChoiceOf[s], s) ELSE d
    IN  [d1 EXCEPT !.sym[s].user = TRUE, !.sym[s].utri = v]
SetTri(d, s, v) == IF d.sym[s].tri = v THEN Given(d, s, v) ELSE ClearAllValid(Given(d, s, v))

\* sym_toggle_tristate_value: n -> m -> y -> n, the first accepted.
Toggled(d, s) == LET old == d.sym[s].tri
                     up(k) == (old + k) % 3
                 IN  IF Accepted(d, s, up(1)) THEN up(1)
                     ELSE IF Accepted(d, s, up(2)) THEN up(2) ELSE old
=============================================================================
