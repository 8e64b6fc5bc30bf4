----------------------------- MODULE KconfigExpr ------------------------------
(***************************************************************************)
(* The passes of expr.c over dependency expressions, and the order in      *)
(* which menu_finalize runs them over the "depends on" of an entry and the *)
(* dependencies of the menu around it.                                     *)
(*                                                                         *)
(* The code rewrites trees in place through pairs of pointers, often two   *)
(* pointers into the same tree.  Here a chain, nested nodes of one         *)
(* operator, is taken apart into the sequence of its operands; a pointer   *)
(* is a position in it, and the chain is put together again in the shape   *)
(* it had.  malloc and free are left out.                                  *)
(***************************************************************************)
EXTENDS KconfigRules, Sequences, SequencesExt

CONSTANTS ParentDeps,  \* dependencies of the enclosing menu
          EntryDeps,   \* dependencies the entry itself is written with
          FrontDeps    \* dependencies the config in front of it is written with

Unit(op) == IF op = "or" THEN "n" ELSE "y"      \* leaves the other operand alone
Zero(op) == IF op = "or" THEN "y" ELSE "n"      \* decides the whole chain

(***************************************************************************)
(* What the passes below reduce: expressions that have been transformed,   *)
(* of at most Depth operands.  The negation of a chain, which              *)
(* expr_transform leaves nowhere, and the literal m, which is not          *)
(* modelled, count as too many.                                            *)
(***************************************************************************)
Plain == Simple \ {SymE("m"), NotE(SymE("m"))}
Width[e \in Exprs] == IF e.op \in Chains THEN Width[e.a] + Width[e.b]
                      ELSE IF e \in Plain THEN 1 ELSE Depth + 1
Flat == {e \in Exprs : Width[e] <= Depth}

\* The operands of the chain of op at e, left to right.
Operands[e \in Exprs] == [op \in Chains |->
    IF e.op # op THEN <<e>> ELSE Operands[e.a][op] \o Operands[e.b][op]]
Count(op, e) == Len(Operands[e][op])

\* The chain e with the operands xs[k], xs[k + 1] and so on.
Filled(op, xs, e, k) ==
    LET filled[f \in Exprs] == [i \in Nat |->
            IF f.op # op THEN xs[i]
            ELSE Two(op, filled[f.a][i], filled[f.b][i + Count(op, f.a)])]
    IN  filled[e][k]

\* All nodes of the chain, each after those below it: e is the node, at the position
\* of its first operand.
Nodes(op, e) ==
    LET nodes[f \in Exprs] == [i \in Nat |->
            (IF f.op # op THEN <<>> ELSE nodes[f.a][i] \o nodes[f.b][i + Count(op, f.a)])
            \o <<[e |-> f, at |-> i]>>]
    IN  nodes[e][1]

\* What do[i][j], j in the inner loop, make of a state, where S is what the states are.
Pairwise(S, m, n, do, s) ==
    Repeated(m, [i \in 1..m |-> [u \in S |-> Repeated(n, do[i], u)]], s)

\* expr_eliminate_yn: no operand of a chain stays a constant y or n.
ElimYn[e \in Exprs] ==
    IF e.op \notin Chains THEN e
    ELSE LET f == ElimYn[e.a]
             g == ElimYn[e.b]
         IN  IF IsConst(f, Zero(e.op)) \/ IsConst(g, Zero(e.op)) THEN SymE(Zero(e.op))
             ELSE IF IsConst(f, Unit(e.op)) THEN g
             ELSE IF IsConst(g, Unit(e.op)) THEN f
             ELSE Two(e.op, f, g)

(***************************************************************************)
(* expr_eq and expr_eliminate_eq: two chains are equal when striking out   *)
(* the operands they share, in any order, leaves the same constant.        *)
(***************************************************************************)
Pair(e, f)   == [a |-> e, b |-> f]
SameConst(t) == t.a.op = "sym" /\ t.a = t.b
Cleaned(t)   == Pair(ElimYn[t.a], ElimYn[t.b])

\* Strike out of two chains of op what eq says they share; a constant that both hold
\* only if consts.  Returns the trees and whether anything was struck.
Twins == [xs : Seq(Exprs), ys : Seq(Exprs), hit : BOOLEAN]
Struck(eq, op, t, consts) ==
    LET m == Count(op, t.a)
        n == Count(op, t.b)
        Shared(u, i, j) == /\ eq[u.xs[i]][u.ys[j]]
                           /\ consts \/ ~(u.xs[i] = u.ys[j] /\ u.xs[i] \in {SymE("y"), SymE("n")})
        strike == [i \in 1..m |-> [j \in 1..n |-> [u \in Twins |->
                    IF ~Shared(u, i, j) THEN u
                    ELSE [xs |-> [u.xs EXCEPT ![i] = SymE(Unit(op))],
                          ys |-> [u.ys EXCEPT ![j] = SymE(Unit(op))],
                          hit |-> TRUE]]]]
        u0 == [xs |-> Operands[t.a][op], ys |-> Operands[t.b][op], hit |-> FALSE]
        Again(u) == [t |-> Pair(Filled(op, u.xs, t.a, 1), Filled(op, u.ys, t.b, 1)), hit |-> u.hit]
    IN  Again(Pairwise(Twins, m, n, strike, u0))

ElimEqBy(eq, op, t) == Struck(eq, op, t, FALSE).t

\* eq is what expr_eq says of two operands.
ElimEq(eq, t) ==
    LET ByLeft(u)  == IF u.a.op \in Chains THEN ElimEqBy(eq, u.a.op, u) ELSE u
        ByRight(u) == IF u.b.op \in Chains /\ u.b.op # u.a.op THEN ElimEqBy(eq, u.b.op, u) ELSE u
    IN  Cleaned(ByRight(ByLeft(t)))

\* expr_eq, where chains nest at most n deep; but for them it compares symbols.
EqBy[n \in Nat] == [e \in Flat |-> [f \in Flat |->
    /\ e.op = f.op
    /\ IF e.op \in Chains THEN n # 0 /\ SameConst(ElimEq(EqBy[n - 1], Pair(e, f))) ELSE e = f]]
Eq == EqBy[Depth]

(***************************************************************************)
(* expr_transform: negations are pushed down to the symbols.               *)
(***************************************************************************)
Undualised(op) == op     \* slip: !(a || b) -> !a || !b
Dual(op) == IF op = "or" THEN "and" ELSE "or"

Transform[e \in Exprs] ==
    CASE e.op \in Comparisons -> TransformTest(e)
      [] e.op \in Chains      -> Two(e.op, Transform[e.a], Transform[e.b])
      [] e.op = "not" ->
           LET Negated(f) == CASE f.op = "not"    -> Transform[f.a]
                               [] f.op \in Chains -> Transform[Two(Dual(f.op), NotE(f.a), NotE(f.b))]
                               [] OTHER           -> TransformNot(f)
           IN  Negated(Transform[e.a])
      [] OTHER -> e

(***************************************************************************)
(* expr_eliminate_dups.  A step of it works on [xs, n]: the operands of a  *)
(* chain and trans_count, the rewrites since the round began; a call       *)
(* returns [e, n].                                                         *)
(***************************************************************************)
\* expr_extract_eq_and and expr_extract_eq_or: strike what two trees share.
ExtractEq(op, t) == LET Out(r) == IF r.hit THEN Cleaned(r.t) ELSE r.t
                    IN  Out(Struck(Eq, op, t, TRUE))

Join(op, e, f) == LET Joined(same) == IF op = "or" THEN JoinOr(e, f, same) ELSE JoinAnd(e, f, same)
                  IN  Joined(Eq[e][f])

Chain == [xs : Seq(Exprs), n : Nat]

\* The operand at i after a call for it, if it is a chain itself.
Within(u, i, call) ==
    LET Put(r) == [xs |-> [u.xs EXCEPT ![i] = r.e], n |-> u.n + r.n]
    IN  IF u.xs[i].op \in Chains THEN Put(call[u.xs[i]]) ELSE u

\* What the steps do[i][j], i an operand of e and j one of 1..n, make of e.
Rewritten(e, n, do) ==
    LET m == Count(e.op, e)
        Back(u) == [e |-> Filled(e.op, u.xs, e, 1), n |-> u.n]
    IN  Back(Pairwise(Chain, m, n, do, [xs |-> Operands[e][e.op], n |-> 0]))

\* Two operands of one chain are joined into the second.  call is the function itself,
\* for a chain within a chain.
JoinAt(op, w, i, j) ==
    LET Replaced(x) == IF x = None THEN w
                       ELSE [xs |-> [w.xs EXCEPT ![i] = SymE(Unit(op)), ![j] = x], n |-> w.n + 1]
    IN  Replaced(Join(op, w.xs[i], w.xs[j]))
Dups1By(call, e) ==
    LET m == Count(e.op, e)
    IN  Rewritten(e, m, [i \in 1..m |-> [j \in 1..m |-> [u \in Chain |->
            IF i = j THEN u ELSE JoinAt(e.op, Within(u, i, call), i, j)]]])

\* An operand whose negation the chain holds too decides the chain.  The
\* recursion goes on after it has visited the operands of the second pointer, so
\* the operand is compared with every node of the chain, and with itself in it.
Complement(op, x, y) == ExtractEq(op, Pair(Transform[NotE(x)], y)).a
DecideAt(op, w, i, f) ==
    IF IsConst(Complement(op, w.xs[i], Filled(op, w.xs, f.e, f.at)), Unit(op))
    THEN [xs |-> [w.xs EXCEPT ![i] = SymE(Zero(op))], n |-> w.n + 1] ELSE w
Dups2By(call, e) ==
    LET m  == Count(e.op, e)
        fs == Nodes(e.op, e)
        Same(f, i) == f.e.op # e.op /\ f.at = i
    IN  Rewritten(e, Len(fs), [i \in 1..m |-> [j \in 1..Len(fs) |-> [u \in Chain |->
            IF Same(fs[j], i) \/ u.xs[i].op \notin Chains THEN u
            ELSE DecideAt(e.op, Within(u, i, call), i, fs[j])]]])

\* Chains within chains, at most n deep.
Dups1[n \in Nat] == [e \in Flat |->
    IF n = 0 \/ e.op \notin Chains THEN [e |-> e, n |-> 0] ELSE Dups1By(Dups1[n - 1], e)]
Dups2[n \in Nat] == [e \in Flat |->
    IF n = 0 \/ e.op \notin Chains THEN [e |-> e, n |-> 0] ELSE Dups2By(Dups2[n - 1], e)]

\* The loop of expr_eliminate_dups ends with the first round that rewrites nothing.
\* After the first no constant is an operand, and a round that rewrites leaves fewer
\* operands, so that Depth + 2 rounds are enough.
Round(e) ==
    LET Cleared(r) == IF r.n = 0 THEN r ELSE [r EXCEPT !.e = ElimYn[@]]
        Then(r1) == LET r2 == Dups2[Depth][r1.e] IN Cleared([r2 EXCEPT !.n = @ + r1.n])
    IN  Then(Dups1[Depth][e])
Rounds(e) ==
    Repeated(Depth + 2,
             [k \in 1..Depth + 2 |-> [r \in [e : Exprs, n : Nat] |-> IF r.n = 0 THEN r ELSE Round(r.e)]],
             [e |-> e, n |-> 1])
ElimDups(e) == Rounds(e).e

(***************************************************************************)
(* The passes for one kind of use.                                         *)
(***************************************************************************)
\* Slip: FOO!=y is taken for FOO as well.
ShortenedAny(e) == IF e.op = "neq" /\ e.s \in Tris THEN SymE(e.s) ELSE e
\* expr_trans_bool: FOO!=n -> FOO, where only n or not n matters.
Shortened(e) == IF Tests(e, "neq", "n") /\ e.s \in Tris THEN SymE(e.s) ELSE e

TransBool[e \in Exprs] ==
    CASE e.op \in Chains -> Two(e.op, TransBool[e.a], TransBool[e.b])
      [] e.op = "not"    -> NotE(TransBool[e.a])
      [] OTHER           -> Shortened(e)

\* expr_trans_compare for the constants y and n: an expression for e = c or e != c.
TransCompare(e, op, c) ==
    LET Negate(o, f) == IF o = "neq" THEN NotE(f) ELSE f
        compare[f \in Exprs] == [o \in Comparisons |->
            LET Both(p) == Negate(o, Two(p, compare[f.a]["eq"], compare[f.b]["eq"]))
            IN  CASE f.op = "and"  -> Both(IF c = "y" THEN "and" ELSE "or")
                  [] f.op = "or"   -> Both(IF c = "y" THEN "or" ELSE "and")
                  [] f.op = "not"  -> compare[f.a][IF o = "eq" THEN "neq" ELSE "eq"]
                  [] f.op = "sym"  -> Cmp(o, f.s, c)
                  [] OTHER         -> IF (o = "eq") = (c = "y") THEN f ELSE NotE(f)]
    IN  IF e = None THEN Negate(op, SymE(c)) ELSE compare[e][op]

\* Slip: a dependency that only mentions x is taken to depend on it.
DependsIfMentioned(e, x) == Mentions(e, x)

\* expr_depends_symbol: e cannot be true unless x is.
DependsOn(e, x) ==
    LET depends[f \in Exprs] == CASE f.op = "and" -> depends[f.a] \/ depends[f.b]
                                  [] f.op = "eq"  -> f.s = x /\ f.c \in {"y", "m"}
                                  [] f.op = "neq" -> f.s = x /\ f.c = "n"
                                  [] OTHER        -> f.op = "sym" /\ f.s = x
    IN  depends[e]

\* expr_alloc_and, where None is the absent dependency.
AndE(e, f) == IF e = None THEN f ELSE IF f = None THEN e ELSE Two("and", e, f)

\* What a menu and an entry depend on together are expressions that can be reduced.
NullOr(e, f) == IF e = None THEN None ELSE f
Transformed(e) == NullOr(e, Transform[e])
ASSUME DepsAssumption ==
    /\ EntryDeps \union FrontDeps \subseteq Exprs \union {None}
    /\ \A p \in ParentDeps, d \in EntryDeps \union FrontDeps :
         /\ p \in Flat \union {None}
         /\ AndE(p, Transformed(d)) \in Flat \union {None}

(***************************************************************************)
(* menu_finalize over one entry: its own dependency is transformed, joined *)
(* to the menu's, reduced, and taken for its prompt; then it is decided    *)
(* whether the entry is shown below the config in front of it.             *)
(***************************************************************************)
VARIABLES parent,   \* prompt->visible.expr of the menu around
          own,      \* "depends on" as it was written
          dep,      \* menu->dep of the entry, then its prompt's visible.expr
          front,    \* the config in front of it: its symbol and its prompt's visible.expr
          nested,   \* the entry is below that config in the menu tree
          pc

vars == <<parent, own, dep, front, nested, pc>>

\* The three steps of the loop over a menu's entries (menu.c:263), Transformed the first.
MenuDep(e)         == NullOr(e, ElimDups(e))
PromptDep(e)       == NullOr(e, TransBool[ElimDups(e)])

Init == /\ parent \in ParentDeps
        /\ own \in EntryDeps
        /\ dep = own
        /\ front = [sym |-> "y", dep |-> None]
        /\ nested = FALSE
        /\ pc = "written"

TransformDep == /\ pc = "written"
                /\ dep' = Transformed(own)
                /\ pc' = "transformed"
                /\ UNCHANGED <<parent, own, front, nested>>

JoinParent == /\ pc = "transformed"
              /\ dep' = AndE(parent, dep)
              /\ pc' = "joined"
              /\ UNCHANGED <<parent, own, front, nested>>

Reduce == /\ pc = "joined"
          /\ dep' = MenuDep(dep)
          /\ pc' = "reduced"
          /\ UNCHANGED <<parent, own, front, nested>>

\* The prompt of a config that is not tristate.
Prompt == /\ pc = "reduced"
          /\ dep' = PromptDep(dep)
          /\ pc' = "prompt"
          /\ UNCHANGED <<parent, own, front, nested>>

\* e != n as an expression, reduced.
Holds(e) == ElimDups(Transform[TransCompare(e, "neq", "n")])

\* The config in front is of the same menu and went through the same steps.
Nest == /\ pc = "prompt"
        /\ \E x \in Syms, d \in FrontDeps :
             front' = [sym |-> x, dep |-> PromptDep(MenuDep(AndE(parent, Transformed(d))))]
        /\ nested' = /\ dep # None
                     /\ Mentions(dep, front'.sym)
                     /\ \/ DependsOn(dep, front'.sym)
                        \/ IsConst(ElimEq(Eq, Pair(Holds(dep), Holds(front'.dep))).b, "y")
        /\ pc' = "done"
        /\ UNCHANGED <<parent, own, dep>>

Next == TransformDep \/ JoinParent \/ Reduce \/ Prompt \/ Nest

Spec == Init /\ [][Next]_vars

(***************************************************************************)
(* Properties.                                                             *)
(***************************************************************************)
ValueOf(v, e) == IF e = None THEN yes ELSE Value(v, e)

\* Valuations in which no symbol is m: all there are without modules.
TwoValued == {v \in Valuations : \A x \in Syms : v[x] # mod}
Written(v) == AndT(ValueOf(v, parent), ValueOf(v, own))

\* expr_transform (expr.c:641) does not change what a dependency evaluates to,
\* whatever the symbols hold, m included.
TransformKeepsValue ==
    pc = "transformed" => \A v \in Valuations : ValueOf(v, dep) = ValueOf(v, own)

\* Striking out duplicates and complements (expr.c:617) keeps the conjunction of
\* the menu's and the entry's dependency as they were written.
ReduceKeepsValue ==
    pc = "reduced" => \A v \in TwoValued : ValueOf(v, dep) = Written(v)

\* The prompt of a bool is visible exactly when the dependencies as written are
\* not n, after FOO!=n has become FOO as well (expr.c:322, menu.c:279).
PromptKeepsVisibility ==
    pc = "prompt" => \A v \in TwoValued : (ValueOf(v, dep) = no) <=> (Written(v) = no)

\* An entry is shown below the config in front of it only when it cannot be
\* visible without that config being set, or else without its being visible
\* (menu.c:299).
NestedFollows ==
    nested => \/ \A v \in TwoValued : v[front.sym] = no => ValueOf(v, dep) = no
              \/ \A v \in TwoValued : ValueOf(v, front.dep) = no => ValueOf(v, dep) = no
=============================================================================
