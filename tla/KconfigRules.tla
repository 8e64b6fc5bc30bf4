----------------------------- MODULE KconfigRules -----------------------------
(***************************************************************************)
(* The tristate logic of Kconfig, its dependency expressions, and the      *)
(* rewrite rules of expr.c that look at one or two leaves of one.  The     *)
(* passes that walk whole expressions with these rules are in KconfigExpr, *)
(* and what symbol.c calculates from expressions is in KconfigSymbols.     *)
(***************************************************************************)
EXTENDS Integers

CONSTANTS Bools,    \* symbols of type bool
          Tris,     \* symbols of type tristate
          Depth     \* bound on how deep expressions nest

Syms == Bools \union Tris

\* symbol_no, symbol_mod and symbol_yes, as operands of expressions.
ConstSyms == {"n", "m", "y"}

ASSUME DepthAssumption == Depth \in Nat
ASSUME SymbolNames == Syms \intersect ConstSyms = {} /\ Bools \intersect Tris = {}

no  == 0
mod == 1
yes == 2
Tristate == {no, mod, yes}

OrT(a, b)  == IF a > b THEN a ELSE b
AndT(a, b) == IF a < b THEN a ELSE b
NotT(a)    == 2 - a

ConstTri == [c \in ConstSyms |-> IF c = "n" THEN no ELSE IF c = "m" THEN mod ELSE yes]

\* What the symbols may hold: a bool is never m, and the constants are themselves.
Valuations == {v \in [Syms \union ConstSyms -> Tristate] :
                 /\ \A b \in Bools : v[b] # mod
                 /\ v["n"] = no /\ v["m"] = mod /\ v["y"] = yes}

(***************************************************************************)
(* Nodes.  E_SYMBOL, E_EQUAL and E_UNEQUAL are leaves.                      *)
(***************************************************************************)
SymE(x)       == [op |-> "sym", s |-> x]
Cmp(op, x, c) == [op |-> op, s |-> x, c |-> c]
NotE(e)       == [op |-> "not", a |-> e]
Two(op, e, f) == [op |-> op, a |-> e, b |-> f]
None          == [op |-> "none"]

Comparisons == {"eq", "neq"}
Leaves      == {SymE(x) : x \in Syms \union ConstSyms}
               \union {Cmp(op, x, c) : op \in Comparisons, x \in Syms \union ConstSyms, c \in ConstSyms}
Simple      == Leaves \union {NotE(e) : e \in Leaves}

IsLeaf(e)     == e.op \in Comparisons \union {"sym"}
IsConst(e, c) == e.op = "sym" /\ e.s = c
Tests(e, op, c) == e.op = op /\ e.c = c

\* Both orders of a pair of tests, as the rules below always accept.
Either(P(_, _), e, f) == P(e, f) \/ P(f, e)

LeafValue(v, e) == IF e.op = "sym" THEN v[e.s]
                   ELSE IF (e.op = "eq") = (v[e.s] = v[e.c]) THEN yes ELSE no

SimpleValue(v, e) == IF e.op = "not" THEN NotT(LeafValue(v, e.a)) ELSE LeafValue(v, e)

(***************************************************************************)
(* Expressions, and loops.                                                 *)
(***************************************************************************)
Chains == {"and", "or"}

\* struct expr, at most n nodes deep above its leaves and their negations.
Above(S) == Simple \union [op : {"not"}, a : S] \union [op : Chains, a : S, b : S]
Tree[n \in Nat] == IF n = 0 THEN Simple ELSE Above(Tree[n - 1])
Exprs == Tree[Depth]

\* expr_calc_value, over a given valuation of the symbols.
Value(v, e) ==
    LET value[f \in Exprs] == CASE f.op = "and" -> AndT(value[f.a], value[f.b])
                                [] f.op = "or"  -> OrT(value[f.a], value[f.b])
                                [] f.op = "not" -> NotT(value[f.a])
                                [] OTHER        -> LeafValue(v, f)
    IN  value[e]

Mentions(e, x) ==
    LET mentions[f \in Exprs] == CASE f.op \in Chains      -> mentions[f.a] \/ mentions[f.b]
                                   [] f.op = "not"         -> mentions[f.a]
                                   [] f.op \in Comparisons -> f.s = x \/ f.c = x
                                   [] OTHER                -> f.s = x
    IN  mentions[e]

\* What do[1], do[2], ... do[n] make of a state, one after the other.
Repeated(n, do, s) ==
    LET after[k \in 0..n] == IF k = 0 THEN s ELSE do[k][after[k - 1]]
    IN  after[n]

(***************************************************************************)
(* expr_join_or and expr_join_and: one operand for two, or None.  "same"   *)
(* is what expr_eq said of the two.                                        *)
(***************************************************************************)
\* The symbol both operands are about; the second may not be a negated comparison.
Joinable(e, f) ==
    /\ IsLeaf(e) \/ (e.op = "not" /\ IsLeaf(e.a))
    /\ IsLeaf(f) \/ (f.op = "not" /\ f.a.op = "sym")
    /\ LET About(g) == IF g.op = "not" THEN g.a.s ELSE g.s
       IN  About(e) = About(f) /\ About(e) \in Syms

TestsBoth(e, f, op, c, d) == Either(LAMBDA g, h : Tests(g, op, c) /\ Tests(h, op, d), e, f)
\* Slip: which constant the symbol is compared with is not looked at.
SymAndAny(e, f, op, c) == Either(LAMBDA g, h : g.op = "sym" /\ h.op = op, e, f)
SymAnd(e, f, op, c) == Either(LAMBDA g, h : g.op = "sym" /\ Tests(h, op, c), e, f)

JoinOr(e, f, same) ==
    LET x == IF e.op = "not" THEN e.a.s ELSE e.s
        SymOrNot(g, h) == g.op = "sym" /\ h.op = "not" /\ h.a.op = "sym"
    IN
    IF same THEN e
    ELSE IF ~Joinable(e, f) THEN None
    ELSE IF x \in Tris /\ TestsBoth(e, f, "eq", "y", "m") THEN Cmp("neq", x, "n")
    ELSE IF x \in Tris /\ TestsBoth(e, f, "eq", "y", "n") THEN Cmp("neq", x, "m")
    ELSE IF x \in Tris /\ TestsBoth(e, f, "eq", "m", "n") THEN Cmp("neq", x, "y")
    ELSE IF x \in Bools /\ Either(SymOrNot, e, f) THEN SymE("y")
    ELSE None

JoinAnd(e, f, same) ==
    LET x == IF e.op = "not" THEN e.a.s ELSE e.s
        \* (a='b') && (a!='c') -> 'b'='c' ? 'n' : a='b'
        EqNeq(g, h) == IF g.c # h.c THEN Cmp("eq", x, g.c) ELSE SymE("n")
    IN
    IF same THEN e
    ELSE IF ~Joinable(e, f) THEN None
    ELSE IF SymAnd(e, f, "eq", "y")  THEN Cmp("eq", x, "y")
    ELSE IF SymAnd(e, f, "neq", "n") THEN SymE(x)
    ELSE IF SymAnd(e, f, "neq", "m") THEN Cmp("eq", x, "y")
    ELSE IF x \notin Tris THEN None
    ELSE IF e.op = "eq" /\ f.op = "neq" THEN EqNeq(e, f)
    ELSE IF e.op = "neq" /\ f.op = "eq" THEN EqNeq(f, e)
    ELSE IF TestsBoth(e, f, "neq", "y", "n") THEN Cmp("eq", x, "m")
    ELSE IF TestsBoth(e, f, "neq", "y", "m") THEN Cmp("eq", x, "n")
    ELSE IF TestsBoth(e, f, "neq", "m", "n") THEN Cmp("eq", x, "y")
    ELSE None

(***************************************************************************)
(* The leaf cases of expr_transform.                                       *)
(***************************************************************************)
\* A comparison of a bool becomes the symbol, its negation or a constant.
TransformTest(e) ==
    IF e.s \notin Bools THEN e
    ELSE IF e.c = "m" THEN SymE(IF e.op = "eq" THEN "n" ELSE "y")
    ELSE IF (e.op = "eq") = (e.c = "y") THEN SymE(e.s)
    ELSE NotE(SymE(e.s))

\* The negation of a leaf: !a='x' -> a!='x', and the constants are flipped.
TransformNot(e) ==
    IF e.op \in Comparisons THEN Cmp(IF e.op = "eq" THEN "neq" ELSE "eq", e.s, e.c)
    ELSE IF e.s = "y" THEN SymE("n")
    ELSE IF e.s = "m" THEN SymE("m")
    ELSE IF e.s = "n" THEN SymE("y")
    ELSE NotE(e)
=============================================================================
