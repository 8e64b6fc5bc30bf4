-------------------------- MODULE KconfigRulesProofs --------------------------
(***************************************************************************)
(* The rewrite rules of expr.c keep the value of what they rewrite, for    *)
(* every set of bool and tristate symbols and whatever the symbols hold.   *)
(* The lemmas on expressions of any depth, on functions computed over      *)
(* them, and on loops are what KconfigExprProofs and FrontEndProofs build  *)
(* on.                                                                     *)
(***************************************************************************)
EXTENDS KconfigRules, WellFoundedInduction, TLAPS

LEMMA LeafValueType ==
    ASSUME NEW v \in Valuations, NEW e \in Leaves
    PROVE  LeafValue(v, e) \in Tristate
BY DEF Valuations, Leaves, LeafValue, Tristate, SymE, Cmp, Comparisons, yes, no, mod

\* expr_transform on one test (expr.c:657-702): for a bool it becomes the symbol,
\* its negation or a constant of the same value.
THEOREM TransformTestSound ==
    ASSUME NEW v \in Valuations, NEW op \in Comparisons, NEW x \in Syms \union ConstSyms, NEW c \in ConstSyms
    PROVE  SimpleValue(v, TransformTest(Cmp(op, x, c))) = LeafValue(v, Cmp(op, x, c))
<1>1. v[x] \in Tristate /\ v["n"] = no /\ v["m"] = mod /\ v["y"] = yes
      /\ (x \in Bools => v[x] # mod)
  BY DEF Valuations, Syms
<1> QED
  BY <1>1 DEF TransformTest, SimpleValue, LeafValue, SymE, Cmp, NotE, NotT, Comparisons, ConstSyms,
              Tristate, yes, no, mod

\* expr_transform on the negation of a leaf (expr.c:703-767).
THEOREM TransformNotSound ==
    ASSUME NEW v \in Valuations, NEW e \in Leaves
    PROVE  SimpleValue(v, TransformNot(e)) = NotT(LeafValue(v, e))
<1>1. \A x \in Syms \union ConstSyms : v[x] \in Tristate
  BY DEF Valuations
<1>2. v["n"] = no /\ v["m"] = mod /\ v["y"] = yes
  BY DEF Valuations
<1>3. CASE e.op = "sym"
  <2>1. PICK x \in Syms \union ConstSyms : e = SymE(x)
    BY <1>3 DEF Leaves, SymE, Cmp, Comparisons
  <2>2. CASE x \in ConstSyms
    BY <2>1, <2>2, <1>2 DEF TransformNot, SimpleValue, LeafValue, SymE, NotT, ConstSyms,
                        Comparisons, yes, no, mod
  <2>3. CASE x \in Syms
    BY <2>1, <2>3, SymbolNames DEF TransformNot, SimpleValue, LeafValue, SymE, NotE, ConstSyms,
                        Comparisons
  <2> QED BY <2>1, <2>2, <2>3
<1>4. CASE e.op # "sym"
  <2>1. PICK op \in Comparisons, x \in Syms \union ConstSyms, c \in ConstSyms : e = Cmp(op, x, c)
    BY <1>4 DEF Leaves, SymE
  <2> QED
    BY <2>1 DEF TransformNot, SimpleValue, LeafValue, Cmp, NotT, Comparisons, yes, no, mod
<1> QED BY <1>3, <1>4

\* What a valuation gives an operand of the join rules is a tristate.
LEMMA SimpleValueType ==
    ASSUME NEW v \in Valuations, NEW e \in Simple
    PROVE  SimpleValue(v, e) \in Tristate
<1>1. CASE e \in Leaves
  <2>1. e.op # "not"
    BY <1>1 DEF Leaves, SymE, Cmp, Comparisons
  <2> QED BY <1>1, <2>1, LeafValueType DEF SimpleValue
<1>2. CASE e \in {NotE(g) : g \in Leaves}
  <2>1. PICK g \in Leaves : e = NotE(g)
    BY <1>2
  <2>2. SimpleValue(v, e) = NotT(LeafValue(v, g))
    BY <2>1 DEF SimpleValue, NotE
  <2> QED BY <2>2, LeafValueType DEF NotT, Tristate, yes, no, mod
<1> QED BY <1>1, <1>2 DEF Simple

\* An operand of a join rule that is a test is a test of a symbol for a constant.
LEMMA TestShape ==
    ASSUME NEW e \in Simple, e.op \in Comparisons
    PROVE  /\ e.s \in Syms \union ConstSyms /\ e.c \in ConstSyms
           /\ \A v \in Valuations : SimpleValue(v, e) = IF (e.op = "eq") = (v[e.s] = v[e.c]) THEN yes ELSE no
<1>1. PICK op \in Comparisons, x \in Syms \union ConstSyms, c \in ConstSyms : e = Cmp(op, x, c)
  BY DEF Simple, Leaves, SymE, Cmp, NotE, Comparisons
<1> QED BY <1>1 DEF Cmp, Comparisons, SimpleValue, LeafValue

\* The shapes of two operands that are about the same symbol.
LEMMA SymShape ==
    ASSUME NEW e \in Simple, e.op = "sym"
    PROVE  \A v \in Valuations : SimpleValue(v, e) = v[e.s]
BY DEF SimpleValue, LeafValue

LEMMA NotSymShape ==
    ASSUME NEW e \in Simple, e.op = "not", e.a.op = "sym"
    PROVE  \A v \in Valuations : SimpleValue(v, e) = NotT(v[e.a.s])
BY DEF SimpleValue, LeafValue

\* The tristate operators obey De Morgan's laws, on which the rewriting of
\* negated chains rests (expr.c:722-739), and a chain may drop a constant or a
\* repeated operand (expr.c:236).
THEOREM TristateLaws ==
    ASSUME NEW a \in Tristate, NEW b \in Tristate
    PROVE  /\ NotT(OrT(a, b)) = AndT(NotT(a), NotT(b))
           /\ NotT(AndT(a, b)) = OrT(NotT(a), NotT(b))
           /\ NotT(NotT(a)) = a
           /\ OrT(a, no) = a /\ OrT(a, yes) = yes /\ OrT(a, a) = a
           /\ AndT(a, yes) = a /\ AndT(a, no) = no /\ AndT(a, a) = a
BY DEF Tristate, OrT, AndT, NotT, no, mod, yes

\* expr_join_or (expr.c:351): when it offers one operand for two of an ||, that
\* operand has the value of the ||, m included.  "same" is what expr_eq found.
THEOREM JoinOrSound ==
    ASSUME NEW v \in Valuations, NEW e \in Simple, NEW f \in Simple, NEW same \in BOOLEAN,
           same => SimpleValue(v, e) = SimpleValue(v, f),
           JoinOr(e, f, same) # None
    PROVE  SimpleValue(v, JoinOr(e, f, same)) = OrT(SimpleValue(v, e), SimpleValue(v, f))
<1> DEFINE x == IF e.op = "not" THEN e.a.s ELSE e.s
<1>1. \A y \in Syms : v[y] \in Tristate /\ (y \in Bools => v[y] # mod)
  BY DEF Valuations, Syms
<1>2. v["n"] = no /\ v["m"] = mod /\ v["y"] = yes
  BY DEF Valuations
<1>3. CASE same
  BY <1>3, SimpleValueType DEF JoinOr, OrT, Tristate, yes, no, mod
<1>4. CASE ~same
  <2>1. Joinable(e, f)
    BY <1>4 DEF JoinOr
  <2>2. x \in Syms
    BY <2>1 DEF Joinable
  <2>3. ASSUME NEW c \in ConstSyms, NEW d \in ConstSyms, TestsBoth(e, f, "eq", c, d)
        PROVE  /\ x = e.s /\ e.s = f.s
               /\ OrT(SimpleValue(v, e), SimpleValue(v, f)) = IF v[x] = v[c] \/ v[x] = v[d] THEN yes ELSE no
    <3>1. e.op = "eq" /\ f.op = "eq" /\ ((e.c = c /\ f.c = d) \/ (e.c = d /\ f.c = c))
      BY <2>3 DEF TestsBoth, Either, Tests
    <3>2. x = e.s /\ e.s = f.s
      BY <3>1, <2>1 DEF Joinable
    <3> QED BY <3>1, <3>2, TestShape DEF Comparisons, OrT, yes, no
  <2>4. ASSUME NEW c \in ConstSyms
        PROVE  SimpleValue(v, Cmp("neq", x, c)) = IF v[x] = v[c] THEN no ELSE yes
    BY DEF SimpleValue, LeafValue, Cmp
  <2>5. CASE x \in Tris /\ TestsBoth(e, f, "eq", "y", "m")
    <3>1. JoinOr(e, f, same) = Cmp("neq", x, "n")
      BY <1>4, <2>1, <2>5 DEF JoinOr
    <3> QED BY <3>1, <2>3, <2>4, <2>5, <2>2, <1>1, <1>2 DEF ConstSyms, Tristate, yes, no, mod
  <2>6. CASE x \in Tris /\ TestsBoth(e, f, "eq", "y", "n") /\ ~TestsBoth(e, f, "eq", "y", "m")
    <3>1. JoinOr(e, f, same) = Cmp("neq", x, "m")
      BY <1>4, <2>1, <2>6 DEF JoinOr
    <3> QED BY <3>1, <2>3, <2>4, <2>6, <2>2, <1>1, <1>2 DEF ConstSyms, Tristate, yes, no, mod
  <2>7. CASE /\ x \in Tris /\ TestsBoth(e, f, "eq", "m", "n")
             /\ ~TestsBoth(e, f, "eq", "y", "m") /\ ~TestsBoth(e, f, "eq", "y", "n")
    <3>1. JoinOr(e, f, same) = Cmp("neq", x, "y")
      BY <1>4, <2>1, <2>7 DEF JoinOr
    <3> QED BY <3>1, <2>3, <2>4, <2>7, <2>2, <1>1, <1>2 DEF ConstSyms, Tristate, yes, no, mod
  <2>8. CASE ~(x \in Tris /\ (\/ TestsBoth(e, f, "eq", "y", "m") \/ TestsBoth(e, f, "eq", "y", "n")
                              \/ TestsBoth(e, f, "eq", "m", "n")))
    <3>1. /\ x \in Bools /\ JoinOr(e, f, same) = SymE("y")
          /\ \/ e.op = "sym" /\ f.op = "not" /\ f.a.op = "sym"
             \/ f.op = "sym" /\ e.op = "not" /\ e.a.op = "sym"
      BY <1>4, <2>1, <2>8 DEF JoinOr, Either
    <3>2. v[x] \in {no, yes}
      BY <3>1, <2>2, <1>1 DEF Tristate
    <3>3. {SimpleValue(v, e), SimpleValue(v, f)} = {v[x], NotT(v[x])}
      BY <3>1, <2>1, SymShape, NotSymShape DEF Joinable
    <3>4. SimpleValue(v, SymE("y")) = yes
      BY <1>2 DEF SimpleValue, LeafValue, SymE
    <3> QED BY <3>1, <3>2, <3>3, <3>4 DEF OrT, NotT, yes, no
  <2> QED BY <2>5, <2>6, <2>7, <2>8
<1> QED BY <1>3, <1>4

\* expr_join_and (expr.c:415): when it offers one operand for two of an &&, that
\* operand has the value of the &&, m included.
THEOREM JoinAndSound ==
    ASSUME NEW v \in Valuations, NEW e \in Simple, NEW f \in Simple, NEW same \in BOOLEAN,
           same => SimpleValue(v, e) = SimpleValue(v, f),
           JoinAnd(e, f, same) # None
    PROVE  SimpleValue(v, JoinAnd(e, f, same)) = AndT(SimpleValue(v, e), SimpleValue(v, f))
<1> DEFINE x == IF e.op = "not" THEN e.a.s ELSE e.s
           Says(op, c) == IF (op = "eq") = (v[x] = v[c]) THEN yes ELSE no
<1>1. \A y \in Syms : v[y] \in Tristate
  BY DEF Valuations, Syms
<1>2. v["n"] = no /\ v["m"] = mod /\ v["y"] = yes
  BY DEF Valuations
<1>3. CASE same
  BY <1>3, SimpleValueType DEF JoinAnd, AndT, Tristate, yes, no, mod
<1>4. CASE ~same
  <2>1. Joinable(e, f)
    BY <1>4 DEF JoinAnd
  <2>2. x \in Syms /\ v[x] \in Tristate
    BY <2>1, <1>1 DEF Joinable
  <2>3. ASSUME NEW op \in Comparisons, NEW c \in ConstSyms
        PROVE  SimpleValue(v, Cmp(op, x, c)) = Says(op, c)
    BY DEF SimpleValue, LeafValue, Cmp, Comparisons
  <2>4. SimpleValue(v, SymE(x)) = v[x] /\ SimpleValue(v, SymE("n")) = no
    BY <1>2 DEF SimpleValue, LeafValue, SymE
  <2>5. ASSUME NEW op \in Comparisons, NEW c \in ConstSyms, SymAnd(e, f, op, c)
        PROVE  AndT(SimpleValue(v, e), SimpleValue(v, f)) = AndT(v[x], Says(op, c))
    <3>1. \/ e.op = "sym" /\ f.op = op /\ f.c = c
          \/ f.op = "sym" /\ e.op = op /\ e.c = c
      BY <2>5 DEF SymAnd, Either, Tests
    <3>2. x = e.s /\ e.s = f.s
      BY <3>1, <2>1 DEF Joinable, Comparisons
    <3> QED BY <3>1, <3>2, <2>2, TestShape, SymShape DEF AndT, Tristate, yes, no, mod
  <2>6. ASSUME e.op \in Comparisons, f.op \in Comparisons
        PROVE  /\ e.c \in ConstSyms /\ f.c \in ConstSyms
               /\ AndT(SimpleValue(v, e), SimpleValue(v, f)) = AndT(Says(e.op, e.c), Says(f.op, f.c))
    <3>1. x = e.s /\ e.s = f.s
      BY <2>6, <2>1 DEF Joinable, Comparisons
    <3> QED BY <2>6, <3>1, TestShape
  <2>7. CASE SymAnd(e, f, "eq", "y")
    <3>1. JoinAnd(e, f, same) = Cmp("eq", x, "y")
      BY <1>4, <2>1, <2>7 DEF JoinAnd
    <3> QED BY <3>1, <2>7, <2>3, <2>5, <2>2, <1>2 DEF AndT, Comparisons, ConstSyms, Tristate, yes, no, mod
  <2>8. CASE SymAnd(e, f, "neq", "n") /\ ~SymAnd(e, f, "eq", "y")
    <3>1. JoinAnd(e, f, same) = SymE(x)
      BY <1>4, <2>1, <2>8 DEF JoinAnd
    <3> QED BY <3>1, <2>8, <2>4, <2>5, <2>2, <1>2 DEF AndT, Comparisons, ConstSyms, Tristate, yes, no, mod
  <2>9. CASE /\ SymAnd(e, f, "neq", "m")
             /\ ~SymAnd(e, f, "eq", "y") /\ ~SymAnd(e, f, "neq", "n")
    <3>1. JoinAnd(e, f, same) = Cmp("eq", x, "y")
      BY <1>4, <2>1, <2>9 DEF JoinAnd
    <3> QED BY <3>1, <2>9, <2>3, <2>5, <2>2, <1>2 DEF AndT, Comparisons, ConstSyms, Tristate, yes, no, mod
  <2>10. CASE ~SymAnd(e, f, "eq", "y") /\ ~SymAnd(e, f, "neq", "n") /\ ~SymAnd(e, f, "neq", "m")
    <3> DEFINE EqNeq(g, h) == IF g.c # h.c THEN Cmp("eq", x, g.c) ELSE SymE("n")
    <3>1. CASE e.op = "eq" /\ f.op = "neq"
      <4>1. JoinAnd(e, f, same) = EqNeq(e, f)
        BY <1>4, <2>1, <2>10, <3>1 DEF JoinAnd
      <4>2. e.c # f.c => v[e.c] # v[f.c]
        BY <3>1, <2>6, <1>2 DEF Comparisons, ConstSyms, yes, no, mod
      <4> QED BY <4>1, <4>2, <3>1, <2>3, <2>4, <2>6 DEF AndT, Comparisons, yes, no
    <3>2. CASE e.op = "neq" /\ f.op = "eq"
      <4>1. JoinAnd(e, f, same) = EqNeq(f, e)
        BY <1>4, <2>1, <2>10, <3>2 DEF JoinAnd
      <4>2. e.c # f.c => v[e.c] # v[f.c]
        BY <3>2, <2>6, <1>2 DEF Comparisons, ConstSyms, yes, no, mod
      <4> QED BY <4>1, <4>2, <3>2, <2>3, <2>4, <2>6 DEF AndT, Comparisons, yes, no
    <3>3. CASE ~(e.op = "eq" /\ f.op = "neq") /\ ~(e.op = "neq" /\ f.op = "eq")
      <4>1. PICK c \in ConstSyms, d \in ConstSyms, r \in ConstSyms :
              /\ {c, d, r} = ConstSyms
              /\ TestsBoth(e, f, "neq", c, d) /\ JoinAnd(e, f, same) = Cmp("eq", x, r)
        BY <1>4, <2>1, <2>10, <3>3 DEF JoinAnd, ConstSyms
      <4>2. e.op = "neq" /\ f.op = "neq" /\ {e.c, f.c} = {c, d}
        BY <4>1 DEF TestsBoth, Either, Tests
      <4> QED BY <4>1, <4>2, <2>2, <2>3, <2>6, <1>2 DEF AndT, Comparisons, ConstSyms, Tristate, yes, no, mod
    <3> QED BY <3>1, <3>2, <3>3
  <2> QED BY <2>7, <2>8, <2>9, <2>10
<1> QED BY <1>3, <1>4

(***************************************************************************)
(* Expression trees, level by level.                                       *)
(***************************************************************************)
\* A set of numbers has a least one.
LEMMA LeastNumber ==
    ASSUME NEW T \in SUBSET Nat, T # {}
    PROVE  \E x \in T : \A y \in T : x <= y
<1> DEFINE R == {ss \in Nat \X Nat : ss[1] < ss[2]}
<1>1. IsWellFoundedOn(R, Nat)
  BY NatLessThanWellFounded DEF OpToRel
<1>2. PICK x \in T : \A y \in T : ~(<<y, x>> \in R)
  BY <1>1, WFMin
<1>3. \A y \in T : ~(y < x)
  BY <1>2
<1> QED BY <1>3

\* What holds of 0 and is passed on holds of every number: induction over a set.
LEMMA Climb ==
    ASSUME NEW G, 0 \in G, \A n \in Nat : n \in G => n + 1 \in G
    PROVE  \A n \in Nat : n \in G
<1>1. SUFFICES ASSUME NEW n \in Nat, n \notin G
               PROVE  FALSE
  OBVIOUS
<1>2. PICK m \in Nat \ G : \A k \in Nat \ G : m <= k
  <2>1. Nat \ G \in SUBSET Nat /\ Nat \ G # {}
    BY <1>1
  <2> QED BY <2>1, LeastNumber
<1>3. m - 1 \in Nat /\ m - 1 \in G
  <2>1. m # 0
    BY <1>2
  <2>2. m - 1 \in Nat /\ ~(m <= m - 1)
    BY <2>1
  <2> QED BY <1>2, <2>2
<1>4. (m - 1) + 1 \in G
  BY <1>3
<1>5. (m - 1) + 1 = m
  BY <1>2
<1> QED BY <1>2, <1>4, <1>5

\* The levels up to n, each one above the one before.
LevelsTo(F, n) == F = [k \in 0..n |-> IF k = 0 THEN Simple ELSE Above(F[k - 1])]

LEMMA LevelsAgree ==
    ASSUME NEW F, NEW G, NEW n \in Nat, NEW m \in Nat, LevelsTo(F, n), LevelsTo(G, m)
    PROVE  \A k \in Nat : k <= n /\ k <= m => F[k] = G[k]
<1> DEFINE A == {k \in Nat : k <= n /\ k <= m => F[k] = G[k]}
<1>1. 0 \in A
  <2>1. 0 \in 0..n /\ 0 \in 0..m
    OBVIOUS
  <2> QED BY <2>1 DEF LevelsTo
<1>2. ASSUME NEW k \in Nat, k \in A
      PROVE  k + 1 \in A
  <2>1. SUFFICES ASSUME k + 1 <= n, k + 1 <= m
                 PROVE  F[k + 1] = G[k + 1]
    OBVIOUS
  <2>2. k + 1 \in 0..n /\ k + 1 \in 0..m /\ k + 1 # 0 /\ (k + 1) - 1 = k
    BY <2>1
  <2>3. F[k + 1] = Above(F[(k + 1) - 1]) /\ G[k + 1] = Above(G[(k + 1) - 1])
    BY <2>2 DEF LevelsTo
  <2>4. F[k] = G[k]
    BY <1>2, <2>1
  <2> QED BY <2>2, <2>3, <2>4
<1> HIDE DEF A
<1>3. \A k \in Nat : k \in A
  BY <1>1, <1>2, Climb
<1> QED BY <1>3 DEF A

LEMMA LevelsExist ==
    \A n \in Nat : \E F : LevelsTo(F, n)
<1> DEFINE A == {n \in Nat : \E F : LevelsTo(F, n)}
<1>1. 0 \in A
  <2> DEFINE F == [k \in 0..0 |-> Simple]
  <2>1. LevelsTo(F, 0)
    BY DEF LevelsTo
  <2> QED BY <2>1
<1>2. ASSUME NEW n \in Nat, n \in A
      PROVE  n + 1 \in A
  <2>1. PICK F : LevelsTo(F, n)
    BY <1>2
  <2> DEFINE G == [k \in 0..(n + 1) |-> IF k = n + 1 THEN Above(F[n]) ELSE F[k]]
  <2>2. ASSUME NEW k \in 0..(n + 1)
        PROVE  G[k] = IF k = 0 THEN Simple ELSE Above(G[k - 1])
    <3>1. CASE k = n + 1
      <4>1. k # 0 /\ k - 1 = n /\ n \in 0..(n + 1) /\ n # n + 1
        BY <3>1
      <4> QED BY <3>1, <4>1
    <3>2. CASE k # n + 1
      <4>1. k \in 0..n
        BY <3>2
      <4>2. F[k] = IF k = 0 THEN Simple ELSE Above(F[k - 1])
        BY <2>1, <4>1 DEF LevelsTo
      <4>3. k # 0 => k - 1 \in 0..(n + 1) /\ k - 1 # n + 1
        BY <4>1
      <4> QED BY <3>2, <4>2, <4>3
    <3> QED BY <3>1, <3>2
  <2>3. LevelsTo(G, n + 1)
    BY <2>2 DEF LevelsTo
  <2> QED BY <2>3
<1> HIDE DEF A
<1>3. \A n \in Nat : n \in A
  BY <1>1, <1>2, Climb
<1> QED BY <1>3 DEF A

\* The recursion that defines the levels has a solution: struct expr, level by level.
LEMMA TreeLevels ==
    /\ Tree[0] = Simple
    /\ \A n \in Nat : Tree[n + 1] = Above(Tree[n])
<1> DEFINE Upto == [n \in Nat |-> CHOOSE F : LevelsTo(F, n)]
           T == [n \in Nat |-> Upto[n][n]]
<1>1. \A n \in Nat : LevelsTo(Upto[n], n)
  BY LevelsExist
<1> HIDE DEF Upto
<1>2. ASSUME NEW n \in Nat
      PROVE  T[n] = IF n = 0 THEN Simple ELSE Above(T[n - 1])
  <2>1. Upto[n][n] = IF n = 0 THEN Simple ELSE Above(Upto[n][n - 1])
    <3>1. n \in 0..n
      OBVIOUS
    <3>2. Upto[n] = [k \in 0..n |-> IF k = 0 THEN Simple ELSE Above(Upto[n][k - 1])]
      BY <1>1 DEF LevelsTo
    <3> HIDE DEF T
    <3> QED BY <3>1, <3>2
  <2>2. CASE n = 0
    BY <2>1, <2>2
  <2>3. CASE n # 0
    <3>1. n - 1 \in Nat /\ n - 1 <= n /\ n - 1 <= n - 1
      BY <2>3
    <3>2. LevelsTo(Upto[n], n) /\ LevelsTo(Upto[n - 1], n - 1)
      BY <1>1, <3>1
    <3>3. Upto[n][n - 1] = Upto[n - 1][n - 1]
      BY <3>1, <3>2, LevelsAgree
    <3> QED BY <2>1, <2>3, <3>1, <3>3
  <2> QED BY <2>2, <2>3
<1>3. T = [n \in Nat |-> IF n = 0 THEN Simple ELSE Above(T[n - 1])]
  BY <1>2
<1> HIDE DEF T
<1>4. \E F : F = [n \in Nat |-> IF n = 0 THEN Simple ELSE Above(F[n - 1])]
  BY <1>3
<1>5. Tree = [n \in Nat |-> IF n = 0 THEN Simple ELSE Above(Tree[n - 1])]
  BY <1>4 DEF Tree
<1>6. Tree[0] = Simple
  BY <1>5
<1>7. ASSUME NEW n \in Nat
      PROVE  Tree[n + 1] = Above(Tree[n])
  <2>1. n + 1 \in Nat /\ n + 1 # 0 /\ (n + 1) - 1 = n
    OBVIOUS
  <2>2. Tree[n + 1] = Above(Tree[(n + 1) - 1])
    BY <1>5, <2>1
  <2> QED BY <2>1, <2>2
<1> QED BY <1>6, <1>7

LEMMA TreeGrows ==
    \A n \in Nat : Tree[n] \subseteq Tree[n + 1]
<1> DEFINE A == {n \in Nat : Tree[n] \subseteq Tree[n + 1]}
<1>1. 0 \in A
  <2>1. Tree[0 + 1] = Above(Tree[0]) /\ Tree[0] = Simple
    BY TreeLevels
  <2> QED BY <2>1 DEF Above
<1>2. ASSUME NEW n \in Nat, n \in A
      PROVE  n + 1 \in A
  <2>1. Tree[n + 1] = Above(Tree[n]) /\ Tree[(n + 1) + 1] = Above(Tree[n + 1])
    BY TreeLevels
  <2>2. Tree[n] \subseteq Tree[n + 1]
    BY <1>2
  <2>3. Above(Tree[n]) \subseteq Above(Tree[n + 1])
    BY <2>2 DEF Above
  <2> QED BY <2>1, <2>3
<1> HIDE DEF A
<1>3. \A n \in Nat : n \in A
  BY <1>1, <1>2, Climb
<1> QED BY <1>3 DEF A

LEMMA TreeSubset ==
    ASSUME NEW m \in Nat, NEW n \in Nat, m <= n
    PROVE  Tree[m] \subseteq Tree[n]
<1> DEFINE A == {k \in Nat : m <= k => Tree[m] \subseteq Tree[k]}
<1>1. 0 \in A
  <2>1. m <= 0 => m = 0
    OBVIOUS
  <2> QED BY <2>1
<1>2. ASSUME NEW k \in Nat, k \in A
      PROVE  k + 1 \in A
  <2>1. CASE m = k + 1
    BY <2>1
  <2>2. CASE m # k + 1
    <3>1. m <= k + 1 => m <= k
      BY <2>2
    <3> QED BY <1>2, <3>1, TreeGrows
  <2> QED BY <2>1, <2>2
<1> HIDE DEF A
<1>3. \A k \in Nat : k \in A
  BY <1>1, <1>2, Climb
<1> QED BY <1>3 DEF A

\* The three forms of an expression.
LEMMA LeafOps ==
    \A e \in Leaves : e.op \notin Chains /\ e.op # "not" /\ e.op # "none"
BY DEF Leaves, SymE, Cmp, Comparisons, Chains

LEMMA NotForm ==
    ASSUME NEW e
    PROVE  NotE(e).op = "not" /\ NotE(e).a = e
BY DEF NotE

LEMMA TwoForm ==
    ASSUME NEW op, NEW e, NEW f
    PROVE  Two(op, e, f).op = op /\ Two(op, e, f).a = e /\ Two(op, e, f).b = f
BY DEF Two

LEMMA SimpleInTree ==
    \A n \in Nat : Simple \subseteq Tree[n]
<1>1. \A n \in Nat : Tree[0] \subseteq Tree[n]
  BY TreeSubset
<1> QED BY <1>1, TreeLevels

LEMMA LeavesInTree ==
    \A n \in Nat : Leaves \subseteq Tree[n]
BY SimpleInTree DEF Simple

LEMMA NotInTree ==
    ASSUME NEW n \in Nat, NEW e \in Tree[n]
    PROVE  NotE(e) \in Tree[n + 1]
<1>1. Tree[n + 1] = Above(Tree[n])
  BY TreeLevels
<1>2. NotE(e) \in [op : {"not"}, a : Tree[n]]
  BY DEF NotE
<1> QED BY <1>1, <1>2 DEF Above

LEMMA NotLeafInTree ==
    ASSUME NEW n \in Nat, NEW e \in Leaves
    PROVE  NotE(e) \in Tree[n]
BY SimpleInTree DEF Simple

LEMMA TwoInTree ==
    ASSUME NEW n \in Nat, NEW e \in Tree[n], NEW f \in Tree[n], NEW op \in Chains
    PROVE  Two(op, e, f) \in Tree[n + 1]
<1>1. Tree[n + 1] = Above(Tree[n])
  BY TreeLevels
<1>2. Two(op, e, f) \in [op : Chains, a : Tree[n], b : Tree[n]]
  BY DEF Two
<1> QED BY <1>1, <1>2 DEF Above

\* What an expression of level n + 1, or of level 0, consists of.
LEMMA FormAbove ==
    ASSUME NEW n \in Nat, NEW e \in Tree[n + 1]
    PROVE  \/ e \in Leaves
           \/ e.op = "not" /\ e.a \in Tree[n] /\ e = NotE(e.a)
           \/ e.op \in Chains /\ e.a \in Tree[n] /\ e.b \in Tree[n] /\ e = Two(e.op, e.a, e.b)
<1>1. e \in Above(Tree[n])
  BY TreeLevels
<1>2. CASE e \in Leaves
  BY <1>2
<1>3. CASE e \in {NotE(f) : f \in Leaves}
  <2>1. PICK f \in Leaves : e = NotE(f)
    BY <1>3
  <2>2. f \in Tree[n]
    BY LeavesInTree
  <2> QED BY <2>1, <2>2, NotForm
<1>4. CASE e \in [op : {"not"}, a : Tree[n]]
  BY <1>4 DEF NotE
<1>5. CASE e \in [op : Chains, a : Tree[n], b : Tree[n]]
  BY <1>5 DEF Two
<1> QED BY <1>1, <1>2, <1>3, <1>4, <1>5 DEF Above, Simple

LEMMA FormSimple ==
    ASSUME NEW e \in Tree[0]
    PROVE  \/ e \in Leaves
           \/ e.op = "not" /\ e.a \in Leaves /\ e = NotE(e.a)
<1>1. e \in Simple
  BY TreeLevels
<1>2. CASE e \in {NotE(f) : f \in Leaves}
  <2>1. PICK f \in Leaves : e = NotE(f)
    BY <1>2
  <2> QED BY <2>1, NotForm
<1> QED BY <1>1, <1>2 DEF Simple

\* The same without the level: the operands of an expression are expressions.
LEMMA Form ==
    ASSUME NEW n \in Nat, NEW e \in Tree[n]
    PROVE  \/ e \in Leaves
           \/ e.op = "not" /\ e.a \in Tree[n] /\ e = NotE(e.a)
           \/ e.op \in Chains /\ e.a \in Tree[n] /\ e.b \in Tree[n] /\ e = Two(e.op, e.a, e.b)
<1>1. CASE n = 0
  BY <1>1, FormSimple, LeavesInTree
<1>2. CASE n # 0
  <2>1. PICK m \in Nat : n = m + 1
    BY <1>2
  <2>2. Tree[m] \subseteq Tree[n]
    BY <2>1, TreeGrows
  <2> QED BY <2>1, <2>2, FormAbove
<1> QED BY <1>1, <1>2

(***************************************************************************)
(* Functions computed from the operands up: L gives a leaf, N a negation   *)
(* and C a chain, from what it gives the operands.                         *)
(***************************************************************************)
FoldOf(g, e, L, N, C) == IF e.op \in Chains THEN C[e][g[e.a]][g[e.b]]
                         ELSE IF e.op = "not" THEN N[e][g[e.a]]
                         ELSE L[e]

IsFold(g, n, L, N, C) == g = [e \in Tree[n] |-> FoldOf(g, e, L, N, C)]

LEMMA NotNotChain == "not" \notin Chains
BY DEF Chains

LEMMA FoldExists ==
    ASSUME NEW L, NEW N, NEW C
    PROVE  \A n \in Nat : \E g : IsFold(g, n, L, N, C)
<1> DEFINE A == {n \in Nat : \E g : IsFold(g, n, L, N, C)}
<1>1. 0 \in A
  <2> DEFINE h == [e \in Tree[0] |-> L[e]]
             g == [e \in Tree[0] |-> IF e.op = "not" THEN N[e][h[e.a]] ELSE L[e]]
  <2>1. ASSUME NEW e \in Tree[0]
        PROVE  g[e] = FoldOf(g, e, L, N, C)
    <3>1. CASE e \in Leaves
      BY <3>1, LeafOps DEF FoldOf
    <3>2. CASE e.op = "not" /\ e.a \in Leaves
      <4>1. e.a \in Tree[0]
        BY <3>2, LeavesInTree
      <4>2. g[e.a] = L[e.a] /\ h[e.a] = L[e.a]
        BY <3>2, <4>1, LeafOps
      <4>3. g[e] = N[e][h[e.a]]
        BY <3>2
      <4> HIDE DEF g, h
      <4> QED BY <3>2, <4>2, <4>3, NotNotChain DEF FoldOf
    <3> QED BY <3>1, <3>2, FormSimple
  <2>2. IsFold(g, 0, L, N, C)
    BY <2>1 DEF IsFold
  <2> HIDE DEF g
  <2> QED BY <2>2
<1>2. ASSUME NEW n \in Nat, n \in A
      PROVE  n + 1 \in A
  <2>1. PICK h : IsFold(h, n, L, N, C)
    BY <1>2
  <2> DEFINE g == [e \in Tree[n + 1] |-> FoldOf(h, e, L, N, C)]
  <2>2. ASSUME NEW e \in Tree[n]
        PROVE  g[e] = h[e]
    <3>1. e \in Tree[n + 1]
      BY TreeGrows
    <3>2. h[e] = FoldOf(h, e, L, N, C)
      BY <2>1 DEF IsFold
    <3> QED BY <3>1, <3>2
  <2>3. ASSUME NEW e \in Tree[n + 1]
        PROVE  g[e] = FoldOf(g, e, L, N, C)
    <3>1. g[e] = FoldOf(h, e, L, N, C)
      OBVIOUS
    <3> HIDE DEF g
    <3>2. CASE e \in Leaves
      BY <3>1, <3>2, LeafOps DEF FoldOf
    <3>3. CASE e.op = "not" /\ e.a \in Tree[n]
      <4>1. g[e.a] = h[e.a]
        BY <3>3, <2>2
      <4> QED BY <3>1, <3>3, <4>1, NotNotChain DEF FoldOf
    <3>4. CASE e.op \in Chains /\ e.a \in Tree[n] /\ e.b \in Tree[n]
      <4>1. g[e.a] = h[e.a] /\ g[e.b] = h[e.b]
        BY <3>4, <2>2
      <4> QED BY <3>1, <3>4, <4>1 DEF FoldOf
    <3> QED BY <3>2, <3>3, <3>4, FormAbove
  <2>4. IsFold(g, n + 1, L, N, C)
    BY <2>3 DEF IsFold
  <2> HIDE DEF g
  <2> QED BY <2>4
<1> HIDE DEF A
<1>3. \A n \in Nat : n \in A
  BY <1>1, <1>2, Climb
<1> QED BY <1>3 DEF A

LEMMA FoldRange ==
    ASSUME NEW n \in Nat, NEW V, NEW L \in [Leaves -> V], NEW N \in [Tree[n] -> [V -> V]],
           NEW C \in [Tree[n] -> [V -> [V -> V]]], NEW g, IsFold(g, n, L, N, C)
    PROVE  \A e \in Tree[n] : g[e] \in V
<1> DEFINE A == {k \in Nat : k <= n => \A e \in Tree[k] : g[e] \in V}
<1>1. \A e \in Tree[n] : g[e] = FoldOf(g, e, L, N, C)
  BY DEF IsFold
<1>2. \A e \in Leaves : g[e] \in V
  BY <1>1, LeavesInTree, LeafOps DEF FoldOf
<1>3. ASSUME NEW e \in Tree[n], e.op = "not", g[e.a] \in V
      PROVE  g[e] \in V
  <2>1. g[e] = N[e][g[e.a]]
    BY <1>1, <1>3, NotNotChain DEF FoldOf
  <2> QED BY <1>3, <2>1
<1>4. ASSUME NEW e \in Tree[n], e.op \in Chains, g[e.a] \in V, g[e.b] \in V
      PROVE  g[e] \in V
  <2>1. g[e] = C[e][g[e.a]][g[e.b]]
    BY <1>1, <1>4 DEF FoldOf
  <2> QED BY <1>4, <2>1
<1>5. 0 \in A
  <2>1. Tree[0] \subseteq Tree[n]
    BY TreeLevels, SimpleInTree
  <2> QED BY <1>2, <1>3, <2>1, FormSimple
<1>6. ASSUME NEW k \in Nat, k \in A
      PROVE  k + 1 \in A
  <2>1. SUFFICES ASSUME k + 1 <= n, NEW e \in Tree[k + 1]
                 PROVE  g[e] \in V
    OBVIOUS
  <2>2. Tree[k + 1] \subseteq Tree[n]
    BY <2>1, TreeSubset
  <2>3. \A f \in Tree[k] : g[f] \in V
    BY <1>6, <2>1
  <2> QED BY <1>2, <1>3, <1>4, <2>2, <2>3, FormAbove
<1> HIDE DEF A
<1>7. n \in A
  BY <1>5, <1>6, Climb
<1> QED BY <1>7 DEF A

(***************************************************************************)
(* expr_calc_value.                                                        *)
(***************************************************************************)
ValueBody(v, g, e) == CASE e.op = "and" -> AndT(g[e.a], g[e.b])
                        [] e.op = "or"  -> OrT(g[e.a], g[e.b])
                        [] e.op = "not" -> NotT(g[e.a])
                        [] OTHER        -> LeafValue(v, e)

IsValue(g, v) == g = [e \in Exprs |-> ValueBody(v, g, e)]

LEMMA TristateClosed ==
    ASSUME NEW a \in Tristate, NEW b \in Tristate
    PROVE  AndT(a, b) \in Tristate /\ OrT(a, b) \in Tristate /\ NotT(a) \in Tristate
BY DEF Tristate, AndT, OrT, NotT, no, mod, yes

LEMMA DepthNat == Depth \in Nat
BY DepthAssumption

LEMMA ValueExists ==
    ASSUME NEW v \in Valuations
    PROVE  \E g : IsValue(g, v)
<1> DEFINE L == [e \in Leaves |-> LeafValue(v, e)]
           N == [e \in Tree[Depth] |-> [x \in Tristate |-> NotT(x)]]
           C == [e \in Tree[Depth] |-> [x \in Tristate |-> [y \in Tristate |->
                   IF e.op = "and" THEN AndT(x, y) ELSE OrT(x, y)]]]
<1>1. L \in [Leaves -> Tristate]
  BY LeafValueType
<1>2. N \in [Tree[Depth] -> [Tristate -> Tristate]]
  BY TristateClosed
<1>3. C \in [Tree[Depth] -> [Tristate -> [Tristate -> Tristate]]]
  <2>1. ASSUME NEW e \in Tree[Depth], NEW x \in Tristate
        PROVE  [y \in Tristate |-> IF e.op = "and" THEN AndT(x, y) ELSE OrT(x, y)] \in [Tristate -> Tristate]
    BY TristateClosed
  <2>2. ASSUME NEW e \in Tree[Depth]
        PROVE  [x \in Tristate |-> [y \in Tristate |-> IF e.op = "and" THEN AndT(x, y) ELSE OrT(x, y)]]
                 \in [Tristate -> [Tristate -> Tristate]]
    BY <2>1
  <2> QED BY <2>2
<1>4. /\ \A e \in Leaves : L[e] = LeafValue(v, e)
      /\ \A e \in Tree[Depth], x \in Tristate : N[e][x] = NotT(x)
      /\ \A e \in Tree[Depth], x \in Tristate, y \in Tristate :
           C[e][x][y] = IF e.op = "and" THEN AndT(x, y) ELSE OrT(x, y)
  OBVIOUS
<1> HIDE DEF L, N, C
<1>5. PICK g : IsFold(g, Depth, L, N, C)
  BY FoldExists, DepthNat
<1>6. \A e \in Tree[Depth] : g[e] \in Tristate
  BY <1>1, <1>2, <1>3, <1>5, DepthNat, FoldRange
<1>7. ASSUME NEW e \in Exprs
      PROVE  FoldOf(g, e, L, N, C) = ValueBody(v, g, e)
  <2>1. CASE e \in Leaves
    <3>1. e.op # "and" /\ e.op # "or" /\ e.op # "not"
      BY <2>1, LeafOps DEF Chains
    <3> QED BY <2>1, <3>1, <1>4 DEF FoldOf, ValueBody, Chains
  <2>2. CASE e.op = "not" /\ e.a \in Exprs
    <3>1. N[e][g[e.a]] = NotT(g[e.a])
      BY <2>2, <1>4, <1>6 DEF Exprs
    <3> QED BY <2>2, <3>1 DEF FoldOf, ValueBody, Chains
  <2>3. CASE e.op \in Chains /\ e.a \in Exprs /\ e.b \in Exprs
    <3>1. g[e.a] \in Tristate /\ g[e.b] \in Tristate
      BY <2>3, <1>6 DEF Exprs
    <3>2. C[e][g[e.a]][g[e.b]] = IF e.op = "and" THEN AndT(g[e.a], g[e.b]) ELSE OrT(g[e.a], g[e.b])
      BY <3>1, <1>4 DEF Exprs
    <3> QED BY <2>3, <3>2 DEF FoldOf, ValueBody, Chains
  <2> QED BY <2>1, <2>2, <2>3, Form, DepthNat DEF Exprs
<1>8. IsValue(g, v)
  <2>1. g = [e \in Exprs |-> FoldOf(g, e, L, N, C)]
    BY <1>5 DEF IsFold, Exprs
  <2> QED BY <2>1, <1>7 DEF IsValue
<1> QED BY <1>8

\* What the recursion of expr_calc_value (expr.c:943) computes.
LEMMA ValueRecursion ==
    ASSUME NEW v \in Valuations
    PROVE  \A e \in Exprs : Value(v, e) = CASE e.op = "and" -> AndT(Value(v, e.a), Value(v, e.b))
                                            [] e.op = "or"  -> OrT(Value(v, e.a), Value(v, e.b))
                                            [] e.op = "not" -> NotT(Value(v, e.a))
                                            [] OTHER        -> LeafValue(v, e)
<1> DEFINE value == CHOOSE g : IsValue(g, v)
<1>1. IsValue(value, v)
  BY ValueExists
<1>2. \A e : Value(v, e) = value[e]
  BY DEF Value, IsValue, ValueBody
<1> HIDE DEF value
<1>3. \A e \in Exprs : value[e] = ValueBody(v, value, e)
  BY <1>1 DEF IsValue
<1> QED BY <1>2, <1>3 DEF ValueBody

LEMMA ValueLeaf ==
    ASSUME NEW v \in Valuations, NEW e \in Leaves
    PROVE  e \in Exprs /\ Value(v, e) = LeafValue(v, e)
<1>1. e \in Exprs
  BY LeavesInTree, DepthNat DEF Exprs
<1>2. e.op # "and" /\ e.op # "or" /\ e.op # "not"
  BY LeafOps DEF Chains
<1> QED BY <1>1, <1>2, ValueRecursion

LEMMA ValueNot ==
    ASSUME NEW v \in Valuations, NEW e, NotE(e) \in Exprs
    PROVE  Value(v, NotE(e)) = NotT(Value(v, e))
<1>1. NotE(e).op = "not" /\ NotE(e).a = e
  BY NotForm
<1> QED BY <1>1, ValueRecursion

LEMMA ValueTwo ==
    ASSUME NEW v \in Valuations, NEW op \in Chains, NEW e, NEW f, Two(op, e, f) \in Exprs
    PROVE  Value(v, Two(op, e, f)) = IF op = "and" THEN AndT(Value(v, e), Value(v, f))
                                     ELSE OrT(Value(v, e), Value(v, f))
<1> DEFINE w == Two(op, e, f)
<1>1. w.op = op /\ w.a = e /\ w.b = f
  BY TwoForm
<1>2. w \in Exprs
  OBVIOUS
<1> HIDE DEF w
<1>3. Value(v, w) = IF op = "and" THEN AndT(Value(v, e), Value(v, f)) ELSE OrT(Value(v, e), Value(v, f))
  BY <1>1, <1>2, ValueRecursion DEF Chains
<1> QED BY <1>3 DEF w

LEMMA ValueSimple ==
    ASSUME NEW v \in Valuations, NEW e \in Simple
    PROVE  e \in Exprs /\ Value(v, e) = SimpleValue(v, e)
<1>1. CASE e \in Leaves
  BY <1>1, ValueLeaf, LeafOps DEF SimpleValue
<1>2. CASE e \in {NotE(f) : f \in Leaves}
  <2>1. PICK f \in Leaves : e = NotE(f)
    BY <1>2
  <2>2. e \in Exprs
    BY <2>1, NotLeafInTree, DepthNat DEF Exprs
  <2>3. Value(v, e) = NotT(Value(v, f))
    BY <2>1, <2>2, ValueNot
  <2>4. SimpleValue(v, e) = NotT(LeafValue(v, f))
    BY <2>1, NotForm DEF SimpleValue
  <2> QED BY <2>2, <2>3, <2>4, ValueLeaf
<1> QED BY <1>1, <1>2 DEF Simple

LEMMA ValueType ==
    ASSUME NEW v \in Valuations
    PROVE  \A e \in Exprs : Value(v, e) \in Tristate
<1> DEFINE A == {k \in Nat : k <= Depth => \A e \in Tree[k] : Value(v, e) \in Tristate}
<1>1. 0 \in A
  BY ValueSimple, SimpleValueType, TreeLevels
<1>2. ASSUME NEW k \in Nat, k \in A
      PROVE  k + 1 \in A
  <2>1. SUFFICES ASSUME k + 1 <= Depth, NEW e \in Tree[k + 1]
                 PROVE  Value(v, e) \in Tristate
    OBVIOUS
  <2>2. e \in Exprs
    BY <2>1, TreeSubset, DepthNat DEF Exprs
  <2>3. \A f \in Tree[k] : Value(v, f) \in Tristate
    BY <1>2, <2>1, DepthNat
  <2>4. CASE e \in Leaves
    BY <2>4, ValueLeaf, LeafValueType
  <2>5. CASE e.op = "not" /\ e.a \in Tree[k] /\ e = NotE(e.a)
    <3>1. Value(v, e) = NotT(Value(v, e.a))
      BY <2>2, <2>5, ValueNot
    <3> QED BY <2>3, <2>5, <3>1, TristateClosed
  <2>6. CASE e.op \in Chains /\ e.a \in Tree[k] /\ e.b \in Tree[k] /\ e = Two(e.op, e.a, e.b)
    <3>1. Value(v, e) = IF e.op = "and" THEN AndT(Value(v, e.a), Value(v, e.b))
                        ELSE OrT(Value(v, e.a), Value(v, e.b))
      BY <2>2, <2>6, ValueTwo
    <3>2. Value(v, e.a) \in Tristate /\ Value(v, e.b) \in Tristate
      BY <2>3, <2>6
    <3>3. AndT(Value(v, e.a), Value(v, e.b)) \in Tristate /\ OrT(Value(v, e.a), Value(v, e.b)) \in Tristate
      BY <3>2, TristateClosed
    <3> QED BY <3>1, <3>3
  <2> QED BY <2>4, <2>5, <2>6, FormAbove
<1> HIDE DEF A
<1>3. Depth \in A
  BY <1>1, <1>2, Climb, DepthNat
<1> QED BY <1>3, DepthNat DEF A, Exprs

(***************************************************************************)
(* Loops, and functions of how deep chains nest.                           *)
(***************************************************************************)
IsRun(g, n, do, s) == g = [k \in 0..n |-> IF k = 0 THEN s ELSE do[k][g[k - 1]]]

LEMMA RunExists ==
    ASSUME NEW do, NEW s
    PROVE  \A n \in Nat : \E g : IsRun(g, n, do, s)
<1> DEFINE A == {n \in Nat : \E g : IsRun(g, n, do, s)}
<1>1. 0 \in A
  <2> DEFINE g == [k \in 0..0 |-> s]
  <2>1. g = [k \in 0..0 |-> IF k = 0 THEN s ELSE do[k][g[k - 1]]]
    OBVIOUS
  <2> QED BY <2>1 DEF IsRun
<1>2. ASSUME NEW n \in Nat, n \in A
      PROVE  n + 1 \in A
  <2>1. PICK h : IsRun(h, n, do, s)
    BY <1>2
  <2> DEFINE g == [k \in 0..n + 1 |-> IF k = 0 THEN s ELSE do[k][h[k - 1]]]
  <2>2. \A k \in 0..n : h[k] = IF k = 0 THEN s ELSE do[k][h[k - 1]]
    BY <2>1 DEF IsRun
  <2>3. \A k \in 0..n : g[k] = h[k]
    BY <2>2
  <2>4. g = [k \in 0..n + 1 |-> IF k = 0 THEN s ELSE do[k][g[k - 1]]]
    <3>1. \A k \in 0..n + 1 : k # 0 => k - 1 \in 0..n
      OBVIOUS
    <3>2. \A k \in 0..n + 1 : (IF k = 0 THEN s ELSE do[k][h[k - 1]]) = (IF k = 0 THEN s ELSE do[k][g[k - 1]])
      BY <2>3, <3>1
    <3> QED BY <3>2
  <2> HIDE DEF g
  <2> QED BY <2>4 DEF IsRun
<1> HIDE DEF A
<1>3. \A n \in Nat : n \in A
  BY <1>1, <1>2, Climb
<1> QED BY <1>3 DEF A

\* What holds before a loop, and after each step when it held before the step, holds
\* after the loop.
LEMMA LoopSteps ==
    ASSUME NEW n \in Nat, NEW do, NEW Good, NEW s \in Good[0],
           \A k \in 1..n : \A u \in Good[k - 1] : do[k][u] \in Good[k]
    PROVE  Repeated(n, do, s) \in Good[n]
<1> DEFINE after == CHOOSE g : IsRun(g, n, do, s)
<1>1. IsRun(after, n, do, s)
  BY RunExists
<1>2. Repeated(n, do, s) = after[n]
  BY DEF Repeated, IsRun
<1> HIDE DEF after
<1>3. \A k \in 0..n : after[k] = IF k = 0 THEN s ELSE do[k][after[k - 1]]
  BY <1>1 DEF IsRun
<1> DEFINE A == {k \in Nat : k <= n => after[k] \in Good[k]}
<1>4. 0 \in A
  BY <1>3
<1>5. ASSUME NEW k \in Nat, k \in A
      PROVE  k + 1 \in A
  <2>1. SUFFICES ASSUME k + 1 <= n
                 PROVE  after[k + 1] \in Good[k + 1]
    OBVIOUS
  <2>2. k + 1 \in 1..n /\ (k + 1) - 1 = k
    BY <2>1
  <2>3. after[k + 1] = do[k + 1][after[k]]
    BY <1>3, <2>2
  <2>4. after[k] \in Good[(k + 1) - 1]
    BY <1>5, <2>1, <2>2
  <2>5. do[k + 1][after[k]] \in Good[k + 1]
    BY <2>2, <2>4
  <2> QED BY <2>3, <2>5
<1> HIDE DEF A
<1>6. n \in A
  BY <1>4, <1>5, Climb
<1> QED BY <1>2, <1>6 DEF A

LEMMA LoopInvariant ==
    ASSUME NEW n \in Nat, NEW do, NEW Good, NEW s \in Good,
           \A k \in 1..n : \A u \in Good : do[k][u] \in Good
    PROVE  Repeated(n, do, s) \in Good
<1>1. PICK G : G = [k \in 0..n |-> Good]
  OBVIOUS
<1>2. s \in G[0] /\ \A k \in 1..n : \A u \in G[k - 1] : do[k][u] \in G[k]
  BY <1>1
<1>3. Repeated(n, do, s) \in G[n]
  BY <1>2, LoopSteps
<1> QED BY <1>1, <1>3

\* F applied again and again, from x on.
IsTower(g, X, F, x) == g \in [Nat -> X] /\ g = [n \in Nat |-> IF n = 0 THEN x ELSE F[g[n - 1]]]

LEMMA TowerExists ==
    ASSUME NEW X, NEW F \in [X -> X], NEW x \in X
    PROVE  \E g : IsTower(g, X, F, x)
<1> DEFINE do == [n \in Nat |-> F]
           run(n) == CHOOSE g : IsRun(g, n, do, x)
           g == [n \in Nat |-> run(n)[n]]
<1>1. \A n \in Nat : do[n] = F
  OBVIOUS
<1> HIDE DEF do
<1>2. \A n \in Nat : IsRun(run(n), n, do, x)
  BY RunExists
<1> HIDE DEF run
<1>3. ASSUME NEW n \in Nat
      PROVE  \A k \in 0..n : /\ k = 0 => run(n)[k] = x
                             /\ k # 0 => run(n)[k] = F[run(n)[k - 1]]
  BY <1>1, <1>2 DEF IsRun
<1>4. ASSUME NEW m \in Nat, NEW n \in Nat, m <= n
      PROVE  \A k \in Nat : k <= m => run(m)[k] = run(n)[k]
  <2> DEFINE A == {k \in Nat : k <= m => run(m)[k] = run(n)[k]}
  <2>1. 0 \in A
    BY <1>3, <1>4
  <2>2. ASSUME NEW k \in Nat, k \in A
        PROVE  k + 1 \in A
    <3>1. SUFFICES ASSUME k + 1 <= m
                   PROVE  run(m)[k + 1] = run(n)[k + 1]
      OBVIOUS
    <3>2. run(m)[k + 1] = F[run(m)[k]] /\ run(n)[k + 1] = F[run(n)[k]]
      <4>1. k + 1 \in 0..m /\ k + 1 \in 0..n /\ k + 1 # 0 /\ (k + 1) - 1 = k
        BY <1>4, <3>1
      <4> QED BY <1>3, <4>1
    <3> QED BY <2>2, <3>1, <3>2
  <2> HIDE DEF A
  <2>3. \A k \in Nat : k \in A
    BY <2>1, <2>2, Climb
  <2> QED BY <2>3 DEF A
<1>5. ASSUME NEW n \in Nat
      PROVE  g[n] = IF n = 0 THEN x ELSE F[g[n - 1]]
  <2>1. CASE n = 0
    <3>1. 0 \in 0..n
      BY <2>1
    <3> QED BY <1>3, <2>1, <3>1
  <2>2. CASE n # 0
    <3>1. n - 1 \in Nat /\ n - 1 <= n
      BY <2>2
    <3>2. run(n)[n] = F[run(n)[n - 1]]
      BY <1>3, <2>2
    <3>3. run(n - 1)[n - 1] = run(n)[n - 1]
      BY <1>4, <3>1
    <3>4. g[n] = run(n)[n] /\ g[n - 1] = run(n - 1)[n - 1]
      BY <3>1
    <3> HIDE DEF g
    <3> QED BY <2>2, <3>2, <3>3, <3>4
  <2> QED BY <2>1, <2>2
<1>6. DOMAIN g = Nat /\ g = [n \in Nat |-> g[n]]
  OBVIOUS
<1> HIDE DEF g
<1>7. \A n \in Nat : g[n] \in X
  <2> DEFINE A == {n \in Nat : g[n] \in X}
  <2>1. 0 \in A
    BY <1>5
  <2>2. ASSUME NEW n \in Nat, n \in A
        PROVE  n + 1 \in A
    <3>1. g[n + 1] = F[g[n]]
      <4>1. n + 1 \in Nat /\ n + 1 # 0 /\ (n + 1) - 1 = n
        OBVIOUS
      <4> QED BY <1>5, <4>1
    <3> QED BY <2>2, <3>1
  <2> HIDE DEF A
  <2>3. \A n \in Nat : n \in A
    BY <2>1, <2>2, Climb
  <2> QED BY <2>3 DEF A
<1>8. g \in [Nat -> X]
  BY <1>6, <1>7
<1>9. g = [n \in Nat |-> IF n = 0 THEN x ELSE F[g[n - 1]]]
  BY <1>5, <1>6
<1> QED BY <1>8, <1>9 DEF IsTower

\* What holds of leaves and their negations and is passed on from the operands of
\* a node to the node holds of every expression.
LEMMA ExprInduction ==
    ASSUME NEW G,
           \A e \in Exprs : e.op \notin Chains => e \in G,
           \A e \in Exprs : e.op \in Chains /\ e.a \in Exprs /\ e.b \in Exprs /\ e.a \in G /\ e.b \in G => e \in G
    PROVE  Exprs \subseteq G
<1> DEFINE A == {k \in Nat : k <= Depth => Tree[k] \subseteq G}
<1>1. 0 \in A
  <2>1. Tree[0] \subseteq Exprs
    BY TreeSubset, DepthNat DEF Exprs
  <2>2. \A e \in Tree[0] : e.op \notin Chains
    BY FormSimple, LeafOps, NotNotChain
  <2> QED BY <2>1, <2>2
<1>2. ASSUME NEW k \in Nat, k \in A
      PROVE  k + 1 \in A
  <2>1. SUFFICES ASSUME k + 1 <= Depth, NEW e \in Tree[k + 1]
                 PROVE  e \in G
    OBVIOUS
  <2>2. e \in Exprs /\ Tree[k] \subseteq Exprs
    BY <2>1, TreeSubset, DepthNat DEF Exprs
  <2>3. CASE e.op \in Chains
    <3>1. e.a \in Tree[k] /\ e.b \in Tree[k]
      BY <2>3, FormAbove, LeafOps, NotNotChain
    <3>2. Tree[k] \subseteq G
      BY <1>2, <2>1, DepthNat
    <3> QED BY <2>2, <2>3, <3>1, <3>2
  <2> QED BY <2>2, <2>3
<1> HIDE DEF A
<1>3. Depth \in A
  BY <1>1, <1>2, Climb, DepthNat
<1> QED BY <1>3, DepthNat DEF A, Exprs

LEMMA ChainParts ==
    ASSUME NEW e \in Exprs, e.op \in Chains
    PROVE  e.a \in Exprs /\ e.b \in Exprs /\ e = Two(e.op, e.a, e.b)
BY Form, DepthNat, LeafOps, NotNotChain DEF Exprs

\* The same, with negations inside chains on their own.
LEMMA ShapeInduction ==
    ASSUME NEW G,
           \A e \in Leaves : e \in Exprs => e \in G,
           \A e \in Exprs : e.op = "not" /\ e.a \in G => e \in G,
           \A e \in Exprs : e.op \in Chains /\ e.a \in G /\ e.b \in G => e \in G
    PROVE  Exprs \subseteq G
<1> DEFINE A == {k \in Nat : k <= Depth => Tree[k] \subseteq G}
<1>1. \A k \in Nat : k <= Depth => Tree[k] \subseteq Exprs
  BY TreeSubset, DepthNat DEF Exprs
<1>2. Leaves \subseteq G
  BY LeavesInTree, DepthNat DEF Exprs
<1>3. 0 \in A
  <2>1. \A e \in Tree[0] : e \in Leaves \/ (e.op = "not" /\ e.a \in Leaves)
    BY FormSimple
  <2>2. Tree[0] \subseteq Exprs
    BY <1>1, DepthNat
  <2> QED BY <1>2, <2>1, <2>2
<1>4. ASSUME NEW k \in Nat, k \in A
      PROVE  k + 1 \in A
  <2>1. SUFFICES ASSUME k + 1 <= Depth, NEW e \in Tree[k + 1]
                 PROVE  e \in G
    OBVIOUS
  <2>2. e \in Exprs /\ Tree[k] \subseteq G
    BY <1>1, <1>4, <2>1, DepthNat
  <2> QED BY <1>2, <2>2, FormAbove
<1> HIDE DEF A
<1>5. Depth \in A
  BY <1>3, <1>4, Climb, DepthNat
<1> QED BY <1>5, DepthNat DEF A, Exprs
==============================================================================
