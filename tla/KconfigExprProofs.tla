-------------------------- MODULE KconfigExprProofs ---------------------------
(***************************************************************************)
(* The passes of expr.c keep the value of the dependencies they rewrite,   *)
(* for expressions of any depth: expr_transform, and, as long as no symbol *)
(* is m, the passes that reduce, and with them menu_finalize.              *)
(***************************************************************************)
EXTENDS KconfigExpr, KconfigRulesProofs, SequenceTheorems

(***************************************************************************)
(* expr_transform.                                                         *)
(***************************************************************************)
Negation(g, f) == CASE f.op = "not"    -> g[f.a]
                    [] f.op \in Chains -> g[Two(Dual(f.op), NotE(f.a), NotE(f.b))]
                    [] OTHER           -> TransformNot(f)

TransformBody(g, e) == CASE e.op \in Comparisons -> TransformTest(e)
                         [] e.op \in Chains      -> Two(e.op, g[e.a], g[e.b])
                         [] e.op = "not"         -> Negation(g, g[e.a])
                         [] OTHER -> e

IsTransform(g, n) == g = [e \in Tree[n] |-> TransformBody(g, e)]

LeafTransform(e) == IF e.op \in Comparisons THEN TransformTest(e) ELSE e

LEMMA BodyLeaf ==
    ASSUME NEW g, NEW e \in Leaves
    PROVE  TransformBody(g, e) = LeafTransform(e)
BY LeafOps DEF TransformBody, LeafTransform

LEMMA BodyNot ==
    ASSUME NEW g, NEW e, e.op = "not"
    PROVE  TransformBody(g, e) = Negation(g, g[e.a])
BY DEF TransformBody, Comparisons, Chains

LEMMA BodyChain ==
    ASSUME NEW g, NEW e, e.op \in Chains
    PROVE  TransformBody(g, e) = Two(e.op, g[e.a], g[e.b])
BY DEF TransformBody, Comparisons, Chains

LEMMA LeafCases ==
    ASSUME NEW e \in Leaves
    PROVE  \/ \E x \in Syms \union ConstSyms : e = SymE(x)
           \/ \E op \in Comparisons, x \in Syms \union ConstSyms, c \in ConstSyms : e = Cmp(op, x, c)
BY DEF Leaves

LEMMA SymLeaf ==
    ASSUME NEW x \in Syms \union ConstSyms
    PROVE  SymE(x) \in Leaves /\ SymE(x) \in Simple /\ NotE(SymE(x)) \in Simple
BY DEF Leaves, Simple

LEMMA LeafTransformSimple ==
    ASSUME NEW e \in Leaves
    PROVE  LeafTransform(e) \in Simple
<1>1. CASE \E x \in Syms \union ConstSyms : e = SymE(x)
  BY <1>1 DEF LeafTransform, SymE, Comparisons, Simple
<1>2. CASE \E op \in Comparisons, x \in Syms \union ConstSyms, c \in ConstSyms : e = Cmp(op, x, c)
  <2>1. PICK op \in Comparisons, x \in Syms \union ConstSyms, c \in ConstSyms : e = Cmp(op, x, c)
    BY <1>2
  <2>2. e.op = op /\ e.s = x /\ e.c = c
    BY <2>1 DEF Cmp
  <2>3. LeafTransform(e) = TransformTest(e)
    BY <2>2 DEF LeafTransform
  <2>4. TransformTest(e) \in {e, SymE("n"), SymE("y"), SymE(x), NotE(SymE(x))}
    BY <2>2 DEF TransformTest
  <2>5. "n" \in ConstSyms /\ "y" \in ConstSyms
    BY DEF ConstSyms
  <2>6. SymE("n") \in Simple /\ SymE("y") \in Simple /\ SymE(x) \in Simple /\ NotE(SymE(x)) \in Simple
    BY <2>5, SymLeaf
  <2> QED BY <2>3, <2>4, <2>6 DEF Simple
<1> QED BY <1>1, <1>2, LeafCases

LEMMA TransformNotSimple ==
    ASSUME NEW e \in Leaves
    PROVE  TransformNot(e) \in Simple
<1>1. CASE \E x \in Syms \union ConstSyms : e = SymE(x)
  <2>1. TransformNot(e) \in {SymE("n"), SymE("m"), SymE("y"), NotE(e)}
    BY <1>1 DEF TransformNot, SymE, Comparisons
  <2>2. "n" \in ConstSyms /\ "m" \in ConstSyms /\ "y" \in ConstSyms
    BY DEF ConstSyms
  <2>3. SymE("n") \in Simple /\ SymE("m") \in Simple /\ SymE("y") \in Simple /\ NotE(e) \in Simple
    BY <2>2, SymLeaf DEF Simple
  <2> QED BY <2>1, <2>3
<1>2. CASE \E op \in Comparisons, x \in Syms \union ConstSyms, c \in ConstSyms : e = Cmp(op, x, c)
  <2>1. PICK op \in Comparisons, x \in Syms \union ConstSyms, c \in ConstSyms : e = Cmp(op, x, c)
    BY <1>2
  <2>2. e.op = op /\ e.s = x /\ e.c = c
    BY <2>1 DEF Cmp
  <2>3. TransformNot(e) = Cmp(IF op = "eq" THEN "neq" ELSE "eq", x, c)
    BY <2>2 DEF TransformNot
  <2>4. (IF op = "eq" THEN "neq" ELSE "eq") \in Comparisons
    BY DEF Comparisons
  <2>5. Cmp(IF op = "eq" THEN "neq" ELSE "eq", x, c) \in Leaves
    BY <2>4 DEF Leaves
  <2> QED BY <2>3, <2>5 DEF Simple
<1> QED BY <1>1, <1>2, LeafCases

LEMMA DualChain ==
    ASSUME NEW op \in Chains
    PROVE  Dual(op) \in Chains
BY DEF Dual, Chains

\* The rewriting of a negated chain one level down.
LEMMA Dualised ==
    ASSUME NEW n \in Nat, NEW f \in Tree[n], f.op \in Chains
    PROVE  /\ NotE(f.a) \in Tree[n] /\ NotE(f.b) \in Tree[n]
           /\ Two(Dual(f.op), NotE(f.a), NotE(f.b)) \in Tree[n + 1]
<1>1. n # 0
  BY FormSimple, LeafOps, NotNotChain
<1>2. PICK m \in Nat : n = m + 1
  <2>1. n - 1 \in Nat /\ n = (n - 1) + 1
    BY <1>1
  <2> QED BY <2>1
<1>3. f.a \in Tree[m] /\ f.b \in Tree[m]
  BY <1>2, FormAbove, LeafOps, NotNotChain
<1>4. NotE(f.a) \in Tree[n] /\ NotE(f.b) \in Tree[n]
  BY <1>2, <1>3, NotInTree
<1> QED BY <1>4, TwoInTree, DualChain

\* Rewriting makes no expression deeper.
LEMMA TransformLevels ==
    ASSUME NEW n \in Nat, NEW g, IsTransform(g, n)
    PROVE  \A k \in Nat : k <= n => \A e \in Tree[k] : g[e] \in Tree[k]
<1> DEFINE A == {k \in Nat : k <= n => \A e \in Tree[k] : g[e] \in Tree[k]}
<1>1. \A e \in Tree[n] : g[e] = TransformBody(g, e)
  BY DEF IsTransform
<1>2. \A e \in Leaves : g[e] = LeafTransform(e) /\ g[e] \in Simple
  BY <1>1, LeavesInTree, BodyLeaf, LeafTransformSimple
<1>3. 0 \in A
  <2>1. SUFFICES ASSUME NEW e \in Tree[0]
                 PROVE  g[e] \in Tree[0]
    OBVIOUS
  <2>2. CASE e \in Leaves
    BY <2>2, <1>2, TreeLevels
  <2>3. CASE e.op = "not" /\ e.a \in Leaves
    <3>1. g[e] = Negation(g, g[e.a])
      BY <1>1, <2>1, <2>3, BodyNot, TreeLevels, SimpleInTree
    <3>2. g[e.a] \in Tree[0]
      BY <1>2, <2>3, TreeLevels
    <3>3. CASE g[e.a] \in Leaves
      <4>1. Negation(g, g[e.a]) = TransformNot(g[e.a])
        BY <3>3, LeafOps DEF Negation
      <4> QED BY <3>1, <3>3, <4>1, TransformNotSimple, TreeLevels
    <3>4. CASE g[e.a].op = "not" /\ g[e.a].a \in Leaves
      <4>1. Negation(g, g[e.a]) = g[g[e.a].a]
        BY <3>4, NotNotChain DEF Negation
      <4> QED BY <3>1, <3>4, <4>1, <1>2, TreeLevels
    <3> QED BY <3>2, <3>3, <3>4, FormSimple
  <2> QED BY <2>2, <2>3, FormSimple
<1>4. ASSUME NEW k \in Nat, k \in A
      PROVE  k + 1 \in A
  <2>1. SUFFICES ASSUME k + 1 <= n, NEW e \in Tree[k + 1]
                 PROVE  g[e] \in Tree[k + 1]
    OBVIOUS
  <2>2. \A f \in Tree[k] : g[f] \in Tree[k]
    BY <1>4, <2>1
  <2>3. Tree[k] \subseteq Tree[k + 1] /\ Tree[k + 1] \subseteq Tree[n]
    BY <2>1, TreeGrows, TreeSubset
  <2>4. CASE e \in Leaves
    BY <2>4, <1>2, SimpleInTree
  <2>5. CASE e.op \in Chains /\ e.a \in Tree[k] /\ e.b \in Tree[k]
    <3>1. g[e] = Two(e.op, g[e.a], g[e.b])
      BY <1>1, <2>3, <2>5, BodyChain
    <3> QED BY <3>1, <2>2, <2>5, TwoInTree
  <2>6. CASE e.op = "not" /\ e.a \in Tree[k]
    <3>1. PICK f : f = g[e.a]
      OBVIOUS
    <3>2. g[e] = Negation(g, f) /\ f \in Tree[k]
      BY <1>1, <2>2, <2>3, <2>6, <3>1, BodyNot
    <3>3. CASE f \in Leaves
      <4>1. Negation(g, f) = TransformNot(f)
        BY <3>3, LeafOps DEF Negation
      <4> QED BY <3>2, <3>3, <4>1, TransformNotSimple, SimpleInTree
    <3>4. CASE f.op = "not" /\ f.a \in Tree[k]
      <4>1. Negation(g, f) = g[f.a]
        BY <3>4, NotNotChain DEF Negation
      <4> QED BY <3>2, <3>4, <4>1, <2>2, <2>3
    <3>5. CASE f.op \in Chains
      <4> DEFINE w == Two(Dual(f.op), NotE(f.a), NotE(f.b))
      <4>1. NotE(f.a) \in Tree[k] /\ NotE(f.b) \in Tree[k] /\ w \in Tree[k + 1]
        BY <3>2, <3>5, Dualised
      <4>2. Negation(g, f) = g[w]
        BY <3>5, NotNotChain DEF Negation
      <4>3. w.op = Dual(f.op) /\ w.a = NotE(f.a) /\ w.b = NotE(f.b) /\ w.op \in Chains
        BY <3>5, TwoForm, DualChain
      <4> HIDE DEF w
      <4>4. g[w] = Two(w.op, g[w.a], g[w.b])
        BY <1>1, <2>3, <4>1, <4>3, BodyChain
      <4>5. g[w.a] \in Tree[k] /\ g[w.b] \in Tree[k]
        BY <2>2, <4>1, <4>3
      <4> QED BY <3>2, <4>2, <4>3, <4>4, <4>5, TwoInTree
    <3> QED BY <3>2, <3>3, <3>4, <3>5, Form
  <2> QED BY <2>4, <2>5, <2>6, FormAbove
<1> HIDE DEF A
<1>5. \A k \in Nat : k \in A
  BY <1>3, <1>4, Climb
<1> QED BY <1>5 DEF A

\* One more level: what a negation above level n is rewritten to, by what is
\* known up to level n.
NegationAbove(g, f) == CASE f.op = "not"    -> g[f.a]
                         [] f.op \in Chains -> Two(Dual(f.op), g[NotE(f.a)], g[NotE(f.b)])
                         [] OTHER           -> TransformNot(f)

StepAbove(g, e) == IF e.op = "not" THEN NegationAbove(g, g[e.a]) ELSE Two(e.op, g[e.a], g[e.b])

LEMMA TransformExists ==
    \A n \in Nat : \E g : IsTransform(g, n)
<1> DEFINE A == {n \in Nat : \E g : IsTransform(g, n)}
<1>1. 0 \in A
  <2> DEFINE l == [e \in Leaves |-> LeafTransform(e)]
             r == [e \in Tree[0] |->
                     IF e.op # "not" THEN LeafTransform(e)
                     ELSE IF l[e.a].op = "not" THEN l[l[e.a].a] ELSE TransformNot(l[e.a])]
  <2>1. \A e \in Leaves : l[e] = LeafTransform(e) /\ l[e] \in Simple
    BY LeafTransformSimple
  <2>2. /\ \A e \in Leaves : r[e] = l[e]
        /\ \A e \in Tree[0] : e.op = "not" =>
             r[e] = IF l[e.a].op = "not" THEN l[l[e.a].a] ELSE TransformNot(l[e.a])
    BY LeavesInTree, LeafOps
  <2>3. r = [e \in Tree[0] |-> r[e]]
    OBVIOUS
  <2> HIDE DEF l, r
  <2>4. ASSUME NEW e \in Tree[0]
        PROVE  r[e] = TransformBody(r, e)
    <3>1. CASE e \in Leaves
      BY <3>1, <2>1, <2>2, BodyLeaf
    <3>2. CASE e.op = "not" /\ e.a \in Leaves
      <4>1. TransformBody(r, e) = Negation(r, l[e.a])
        BY <3>2, <2>2, BodyNot
      <4>2. l[e.a] \in Simple
        BY <3>2, <2>1
      <4>3. CASE l[e.a] \in Leaves
        BY <4>1, <4>3, <2>2, <3>2, LeafOps DEF Negation
      <4>4. CASE l[e.a].op = "not" /\ l[e.a].a \in Leaves
        <5>1. Negation(r, l[e.a]) = r[l[e.a].a]
          BY <4>4, NotNotChain DEF Negation
        <5> QED BY <4>1, <4>4, <5>1, <2>2, <3>2
      <4> QED BY <4>2, <4>3, <4>4, FormSimple, TreeLevels
    <3> QED BY <3>1, <3>2, FormSimple
  <2>5. IsTransform(r, 0)
    BY <2>3, <2>4 DEF IsTransform
  <2> QED BY <2>5
<1>2. ASSUME NEW n \in Nat, n \in A
      PROVE  n + 1 \in A
  <2>1. PICK g : IsTransform(g, n)
    BY <1>2
  <2>2. \A e \in Tree[n] : g[e] = TransformBody(g, e) /\ g[e] \in Tree[n]
    BY <2>1, TransformLevels DEF IsTransform
  <2> DEFINE h == [e \in Tree[n + 1] |-> IF e \in Tree[n] THEN g[e] ELSE StepAbove(g, e)]
  <2>3. /\ \A e \in Tree[n] : h[e] = g[e]
        /\ \A e \in Tree[n + 1] : e \notin Tree[n] => h[e] = StepAbove(g, e)
        /\ h = [e \in Tree[n + 1] |-> h[e]]
    BY TreeGrows
  <2> HIDE DEF h
  <2>4. ASSUME NEW w \in Tree[n + 1], w.op \in Chains, w.a \in Tree[n], w.b \in Tree[n]
        PROVE  h[w] = Two(w.op, g[w.a], g[w.b])
    <3>1. CASE w \in Tree[n]
      BY <2>2, <2>3, <2>4, <3>1, BodyChain
    <3>2. CASE w \notin Tree[n]
      BY <2>3, <2>4, <3>2, NotNotChain DEF StepAbove
    <3> QED BY <3>1, <3>2
  <2>5. ASSUME NEW f \in Tree[n], f.op \in Chains
        PROVE  Negation(h, f) = NegationAbove(g, f)
    <3> DEFINE w == Two(Dual(f.op), NotE(f.a), NotE(f.b))
    <3>1. NotE(f.a) \in Tree[n] /\ NotE(f.b) \in Tree[n] /\ w \in Tree[n + 1]
      BY <2>5, Dualised
    <3>2. Negation(h, f) = h[w]
      BY <2>5, NotNotChain DEF Negation
    <3>3. w.op = Dual(f.op) /\ w.a = NotE(f.a) /\ w.b = NotE(f.b) /\ w.op \in Chains
      BY <2>5, TwoForm, DualChain
    <3>4. NegationAbove(g, f) = Two(Dual(f.op), g[NotE(f.a)], g[NotE(f.b)])
      BY <2>5, NotNotChain DEF NegationAbove
    <3> HIDE DEF w
    <3>5. h[w] = Two(w.op, g[w.a], g[w.b])
      BY <2>4, <3>1, <3>3
    <3> QED BY <3>2, <3>3, <3>4, <3>5
  <2>6. ASSUME NEW f \in Tree[n], f.op \notin Chains
        PROVE  Negation(h, f) = NegationAbove(g, f) /\ Negation(h, f) = Negation(g, f)
    <3>1. CASE f.op = "not"
      <4>1. f.a \in Tree[n]
        BY <3>1, Form, LeafOps, NotNotChain
      <4> QED BY <3>1, <4>1, <2>3, NotNotChain DEF Negation, NegationAbove
    <3>2. CASE f.op # "not"
      BY <2>6, <3>2 DEF Negation, NegationAbove
    <3> QED BY <3>1, <3>2
  <2>7. ASSUME NEW e \in Tree[n]
        PROVE  h[e] = TransformBody(h, e)
    <3>1. h[e] = TransformBody(g, e)
      BY <2>2, <2>3
    <3>2. CASE e \in Leaves
      BY <3>1, <3>2, BodyLeaf
    <3>3. CASE e.op \in Chains /\ e.a \in Tree[n] /\ e.b \in Tree[n]
      BY <3>1, <3>3, <2>3, BodyChain
    <3>4. CASE e.op = "not" /\ e.a \in Tree[n] /\ g[e.a].op \notin Chains
      <4>1. TransformBody(g, e) = Negation(g, g[e.a]) /\ TransformBody(h, e) = Negation(h, g[e.a])
        BY <3>4, <2>3, BodyNot
      <4> QED BY <3>1, <3>4, <4>1, <2>2, <2>6
    <3>5. CASE e.op = "not" /\ e.a \in Tree[n] /\ g[e.a].op \in Chains
      <4>1. TransformBody(g, e) = Negation(g, g[e.a]) /\ TransformBody(h, e) = Negation(h, g[e.a])
        BY <3>5, <2>3, BodyNot
      <4>2. PICK f : f = g[e.a]
        OBVIOUS
      <4> DEFINE w == Two(Dual(f.op), NotE(f.a), NotE(f.b))
      <4>3. n # 0
        <5>1. ASSUME n = 0
              PROVE  FALSE
          <6>1. e.a \in Leaves
            BY <5>1, <3>5, FormSimple, LeafOps
          <6>2. g[e.a] \in Simple
            BY <6>1, <2>2, BodyLeaf, LeafTransformSimple, LeavesInTree
          <6>3. g[e.a] \in Leaves \/ g[e.a].op = "not"
            BY <6>2, FormSimple, TreeLevels
          <6> QED BY <6>3, <3>5, LeafOps, NotNotChain
        <5> QED BY <5>1
      <4>4. PICK m \in Nat : n = m + 1
        <5>1. n - 1 \in Nat /\ n = (n - 1) + 1
          BY <4>3
        <5> QED BY <5>1
      <4>5. e.a \in Tree[m]
        BY <3>5, <4>4, FormAbove, LeafOps, NotNotChain
      <4>6. f \in Tree[m] /\ f.op \in Chains
        BY <2>1, <3>5, <4>2, <4>4, <4>5, TransformLevels
      <4>7. w \in Tree[n]
        BY <4>4, <4>6, Dualised
      <4>8. Negation(g, f) = g[w] /\ Negation(h, f) = h[w]
        BY <4>6, NotNotChain DEF Negation
      <4> HIDE DEF w
      <4> QED BY <3>1, <4>1, <4>2, <4>7, <4>8, <2>3
    <3> QED BY <3>2, <3>3, <3>4, <3>5, Form
  <2>8. ASSUME NEW e \in Tree[n + 1], e \notin Tree[n]
        PROVE  h[e] = TransformBody(h, e)
    <3>1. h[e] = StepAbove(g, e)
      BY <2>3, <2>8
    <3>2. e \notin Leaves
      BY <2>8, LeavesInTree
    <3>3. CASE e.op = "not" /\ e.a \in Tree[n]
      <4>1. TransformBody(h, e) = Negation(h, g[e.a])
        BY <3>3, <2>3, BodyNot
      <4>2. h[e] = NegationAbove(g, g[e.a])
        BY <3>1, <3>3 DEF StepAbove
      <4>3. g[e.a] \in Tree[n]
        BY <3>3, <2>2
      <4> QED BY <4>1, <4>2, <4>3, <2>5, <2>6
    <3>4. CASE e.op \in Chains /\ e.a \in Tree[n] /\ e.b \in Tree[n]
      BY <3>1, <3>4, <2>3, BodyChain, NotNotChain DEF StepAbove
    <3> QED BY <3>2, <3>3, <3>4, FormAbove
  <2>9. IsTransform(h, n + 1)
    BY <2>3, <2>7, <2>8 DEF IsTransform
  <2> QED BY <2>9
<1> HIDE DEF A
<1>3. \A n \in Nat : n \in A
  BY <1>1, <1>2, Climb
<1> QED BY <1>3 DEF A

LEMMA TransformRecursion ==
    IsTransform(Transform, Depth)
<1>1. \E g : IsTransform(g, Depth)
  BY TransformExists, DepthNat
<1>2. \E g : g = [e \in Exprs |-> TransformBody(g, e)]
  BY <1>1 DEF IsTransform, Exprs
<1>3. Transform = [e \in Exprs |-> TransformBody(Transform, e)]
  BY <1>2 DEF Transform, TransformBody, Negation
<1> QED BY <1>3 DEF IsTransform, Exprs

LEMMA TransformIn ==
    \A e \in Exprs : Transform[e] \in Exprs
BY TransformRecursion, TransformLevels, DepthNat DEF Exprs

LEMMA LeafTransformSound ==
    ASSUME NEW v \in Valuations, NEW e \in Leaves
    PROVE  Value(v, LeafTransform(e)) = Value(v, e)
<1>1. SimpleValue(v, LeafTransform(e)) = LeafValue(v, e)
  <2>1. CASE \E x \in Syms \union ConstSyms : e = SymE(x)
    BY <2>1 DEF LeafTransform, SimpleValue, SymE, Comparisons
  <2>2. CASE \E op \in Comparisons, x \in Syms \union ConstSyms, c \in ConstSyms : e = Cmp(op, x, c)
    <3>1. PICK op \in Comparisons, x \in Syms \union ConstSyms, c \in ConstSyms : e = Cmp(op, x, c)
      BY <2>2
    <3>2. LeafTransform(e) = TransformTest(Cmp(op, x, c))
      BY <3>1 DEF LeafTransform, Cmp
    <3> QED BY <3>1, <3>2, TransformTestSound
  <2> QED BY <2>1, <2>2, LeafCases
<1> QED BY <1>1, ValueLeaf, ValueSimple, LeafTransformSimple

\* expr_transform (expr.c:641): whatever the depth of an expression and whatever its
\* symbols hold, pushing the negations down to the leaves keeps its value.
THEOREM TransformSound ==
    ASSUME NEW v \in Valuations
    PROVE  \A e \in Exprs : Transform[e] \in Exprs /\ Value(v, Transform[e]) = Value(v, e)
<1> DEFINE A == {k \in Nat : k <= Depth => \A e \in Tree[k] : Value(v, Transform[e]) = Value(v, e)}
<1>1. \A e \in Exprs : Transform[e] = TransformBody(Transform, e)
  BY TransformRecursion DEF IsTransform, Exprs
<1>2. \A k \in Nat : k <= Depth => /\ Tree[k] \subseteq Exprs
                                   /\ \A e \in Tree[k] : Transform[e] \in Tree[k]
  BY TransformRecursion, TransformLevels, TreeSubset, DepthNat DEF Exprs
<1>3. \A e \in Leaves : e \in Exprs /\ Value(v, Transform[e]) = Value(v, e) /\ Transform[e] \in Simple
  BY <1>1, BodyLeaf, LeafTransformSound, LeafTransformSimple, ValueLeaf
<1>4. \A f \in Leaves : /\ TransformNot(f) \in Exprs
                        /\ Value(v, TransformNot(f)) = NotT(Value(v, f))
  BY TransformNotSimple, TransformNotSound, ValueSimple, ValueLeaf
<1>5. 0 \in A
  <2>1. SUFFICES ASSUME NEW e \in Tree[0]
                 PROVE  Value(v, Transform[e]) = Value(v, e)
    OBVIOUS
  <2>2. CASE e \in Leaves
    BY <2>2, <1>3
  <2>3. CASE e.op = "not" /\ e.a \in Leaves /\ e = NotE(e.a)
    <3>1. PICK f : f = Transform[e.a]
      OBVIOUS
    <3>2. e \in Exprs /\ Transform[e] = Negation(Transform, f)
      BY <1>1, <1>2, <2>3, <3>1, BodyNot, DepthNat
    <3>3. Value(v, e) = NotT(Value(v, f))
      BY <1>3, <2>3, <3>1, <3>2, ValueNot
    <3>4. f \in Simple
      BY <1>3, <2>3, <3>1
    <3>5. CASE f \in Leaves
      <4>1. Negation(Transform, f) = TransformNot(f)
        BY <3>5, LeafOps DEF Negation
      <4> QED BY <1>4, <3>2, <3>3, <3>5, <4>1
    <3>6. CASE f.op = "not" /\ f.a \in Leaves /\ f = NotE(f.a)
      <4>1. Negation(Transform, f) = Transform[f.a]
        BY <3>6, NotNotChain DEF Negation
      <4>2. Value(v, f) = NotT(Value(v, f.a))
        BY <3>4, <3>6, ValueNot, ValueSimple
      <4>3. Value(v, Transform[e]) = Value(v, f.a) /\ Value(v, f.a) \in Tristate
        BY <1>3, <3>2, <3>6, <4>1, ValueType
      <4> QED BY <3>3, <4>2, <4>3, TristateLaws
    <3> QED BY <3>4, <3>5, <3>6, FormSimple, TreeLevels
  <2> QED BY <2>2, <2>3, FormSimple
<1>6. ASSUME NEW k \in Nat, k \in A
      PROVE  k + 1 \in A
  <2>1. SUFFICES ASSUME k + 1 <= Depth, NEW e \in Tree[k + 1]
                 PROVE  Value(v, Transform[e]) = Value(v, e)
    OBVIOUS
  <2>2. k <= Depth /\ \A f \in Tree[k] : Value(v, Transform[f]) = Value(v, f)
    BY <1>6, <2>1, DepthNat
  <2>3. /\ Tree[k] \subseteq Exprs /\ Tree[k + 1] \subseteq Exprs
        /\ \A f \in Tree[k] : Transform[f] \in Tree[k]
    BY <1>2, <2>1, <2>2
  <2>4. CASE e \in Leaves
    BY <2>4, <1>3
  <2>5. CASE e.op \in Chains /\ e.a \in Tree[k] /\ e.b \in Tree[k] /\ e = Two(e.op, e.a, e.b)
    <3>1. Transform[e] = Two(e.op, Transform[e.a], Transform[e.b])
      BY <1>1, <2>3, <2>5, BodyChain
    <3>2. Two(e.op, Transform[e.a], Transform[e.b]) \in Exprs
      BY <2>3, <2>5, TwoInTree
    <3>3. e \in Exprs
      BY <2>3
    <3>4. Value(v, Transform[e.a]) = Value(v, e.a) /\ Value(v, Transform[e.b]) = Value(v, e.b)
      BY <2>2, <2>5
    <3>5. Value(v, e) = IF e.op = "and" THEN AndT(Value(v, e.a), Value(v, e.b))
                        ELSE OrT(Value(v, e.a), Value(v, e.b))
      BY <2>5, <3>3, ValueTwo
    <3>6. Value(v, Transform[e]) = IF e.op = "and" THEN AndT(Value(v, Transform[e.a]), Value(v, Transform[e.b]))
                                   ELSE OrT(Value(v, Transform[e.a]), Value(v, Transform[e.b]))
      BY <2>5, <3>1, <3>2, ValueTwo
    <3> QED BY <3>4, <3>5, <3>6
  <2>6. CASE e.op = "not" /\ e.a \in Tree[k] /\ e = NotE(e.a)
    <3>1. PICK f : f = Transform[e.a]
      OBVIOUS
    <3>2. /\ e \in Exprs /\ Transform[e] = Negation(Transform, f)
          /\ f \in Tree[k] /\ f \in Exprs
      BY <1>1, <2>3, <2>6, <3>1, BodyNot
    <3>3. Value(v, e) = NotT(Value(v, f))
      BY <2>2, <2>6, <3>1, <3>2, ValueNot
    <3>4. CASE f \in Leaves
      <4>1. Negation(Transform, f) = TransformNot(f)
        BY <3>4, LeafOps DEF Negation
      <4> QED BY <1>4, <3>2, <3>3, <3>4, <4>1
    <3>5. CASE f.op = "not" /\ f.a \in Tree[k] /\ f = NotE(f.a)
      <4>1. Negation(Transform, f) = Transform[f.a]
        BY <3>5, NotNotChain DEF Negation
      <4>2. Value(v, f) = NotT(Value(v, f.a))
        BY <3>2, <3>5, ValueNot
      <4>3. Value(v, Transform[e]) = Value(v, f.a) /\ Value(v, f.a) \in Tristate
        BY <2>2, <2>3, <3>2, <3>5, <4>1, ValueType
      <4> QED BY <3>3, <4>2, <4>3, TristateLaws
    <3>6. CASE f.op \in Chains /\ f.a \in Tree[k] /\ f.b \in Tree[k] /\ f = Two(f.op, f.a, f.b)
      <4> DEFINE w == Two(Dual(f.op), NotE(f.a), NotE(f.b))
      <4>1. NotE(f.a) \in Tree[k] /\ NotE(f.b) \in Tree[k] /\ w \in Tree[k + 1]
        BY <3>2, <3>6, Dualised
      <4>2. Transform[e] = Transform[w]
        BY <3>2, <3>6, NotNotChain DEF Negation
      <4>3. w.op = Dual(f.op) /\ w.a = NotE(f.a) /\ w.b = NotE(f.b) /\ w.op \in Chains
        BY <3>6, TwoForm, DualChain
      <4> HIDE DEF w
      <4>4. Transform[w] = Two(w.op, Transform[w.a], Transform[w.b])
        BY <1>1, <2>3, <4>1, <4>3, BodyChain
      <4>5. Two(w.op, Transform[w.a], Transform[w.b]) \in Exprs
        BY <2>3, <4>1, <4>3, TwoInTree
      <4>6. Value(v, Transform[w.a]) = NotT(Value(v, f.a)) /\ Value(v, Transform[w.b]) = NotT(Value(v, f.b))
        BY <2>2, <2>3, <4>1, <4>3, ValueNot
      <4>7. Value(v, Transform[w]) = IF Dual(f.op) = "and" THEN AndT(NotT(Value(v, f.a)), NotT(Value(v, f.b)))
                                     ELSE OrT(NotT(Value(v, f.a)), NotT(Value(v, f.b)))
        BY <4>3, <4>4, <4>5, <4>6, ValueTwo
      <4>8. Value(v, f) = IF f.op = "and" THEN AndT(Value(v, f.a), Value(v, f.b))
                          ELSE OrT(Value(v, f.a), Value(v, f.b))
        BY <3>2, <3>6, ValueTwo
      <4>9. Value(v, f.a) \in Tristate /\ Value(v, f.b) \in Tristate
        BY <2>3, <3>6, ValueType
      <4>10. Dual(f.op) = IF f.op = "and" THEN "or" ELSE "and"
        BY <3>6 DEF Dual, Chains
      <4> QED BY <3>3, <4>2, <4>7, <4>8, <4>9, <4>10, TristateLaws
    <3> QED BY <3>2, <3>4, <3>5, <3>6, Form
  <2> QED BY <2>4, <2>5, <2>6, FormAbove
<1> HIDE DEF A
<1>7. Depth \in A
  BY <1>5, <1>6, Climb, DepthNat
<1> QED BY <1>7, TransformIn, DepthNat DEF A, Exprs

(***************************************************************************)
(* What can be reduced.                                                    *)
(***************************************************************************)
WidthBody(g, e) == IF e.op \in Chains THEN g[e.a] + g[e.b]
                   ELSE IF e \in Plain THEN 1 ELSE Depth + 1

LEMMA WidthExists ==
    \E g : g = [e \in Exprs |-> WidthBody(g, e)] /\ \A e \in Exprs : g[e] \in Nat \ {0}
<1> DEFINE W(e) == IF e \in Plain THEN 1 ELSE Depth + 1
           Pos == Nat \ {0}
           L == [e \in Leaves |-> W(e)]
           N == [e \in Tree[Depth] |-> [x \in Pos |-> W(e)]]
           C == [e \in Tree[Depth] |-> [x \in Pos |-> [y \in Pos |-> x + y]]]
<1>1. \A e : W(e) \in Pos
  BY DepthNat
<1>2. L \in [Leaves -> Pos] /\ N \in [Tree[Depth] -> [Pos -> Pos]]
  BY <1>1
<1>3. C \in [Tree[Depth] -> [Pos -> [Pos -> Pos]]]
  <2>1. ASSUME NEW x \in Pos
        PROVE  [y \in Pos |-> x + y] \in [Pos -> Pos]
    OBVIOUS
  <2>2. [x \in Pos |-> [y \in Pos |-> x + y]] \in [Pos -> [Pos -> Pos]]
    BY <2>1
  <2> QED BY <2>2
<1>4. /\ \A e \in Leaves : L[e] = W(e)
      /\ \A e \in Tree[Depth], x \in Pos : N[e][x] = W(e)
      /\ \A e \in Tree[Depth], x \in Pos, y \in Pos : C[e][x][y] = x + y
  OBVIOUS
<1>5. \A g, e : WidthBody(g, e) = IF e.op \in Chains THEN g[e.a] + g[e.b] ELSE W(e)
  BY DEF WidthBody
<1> HIDE DEF L, N, C, W, Pos
<1>6. PICK g : IsFold(g, Depth, L, N, C)
  BY FoldExists, DepthNat
<1>7. \A e \in Tree[Depth] : g[e] \in Pos
  BY <1>2, <1>3, <1>6, DepthNat, FoldRange
<1>8. ASSUME NEW e \in Exprs
      PROVE  FoldOf(g, e, L, N, C) = WidthBody(g, e)
  <2>1. CASE e \in Leaves
    BY <2>1, <1>4, <1>5, LeafOps DEF FoldOf
  <2>2. CASE e.op = "not" /\ e.a \in Exprs
    BY <2>2, <1>4, <1>5, <1>7, NotNotChain DEF FoldOf, Exprs
  <2>3. CASE e.op \in Chains /\ e.a \in Exprs /\ e.b \in Exprs
    BY <2>3, <1>4, <1>5, <1>7 DEF FoldOf, Exprs
  <2> QED BY <2>1, <2>2, <2>3, Form, DepthNat DEF Exprs
<1>9. g = [e \in Exprs |-> WidthBody(g, e)]
  <2>1. g = [e \in Exprs |-> FoldOf(g, e, L, N, C)]
    BY <1>6 DEF IsFold, Exprs
  <2> QED BY <2>1, <1>8
<1> QED BY <1>7, <1>9 DEF Exprs, Pos

LEMMA WidthRecursion ==
    \A e \in Exprs : Width[e] = IF e.op \in Chains THEN Width[e.a] + Width[e.b]
                                ELSE IF e \in Plain THEN 1 ELSE Depth + 1
<1>1. \E g : g = [e \in Exprs |-> WidthBody(g, e)]
  BY WidthExists
<1>2. Width = [e \in Exprs |-> WidthBody(Width, e)]
  BY <1>1 DEF Width, WidthBody
<1> QED BY <1>2 DEF WidthBody

LEMMA WidthNat ==
    \A e \in Exprs : Width[e] \in Nat /\ Width[e] >= 1
<1> DEFINE A == {k \in Nat : k <= Depth => \A e \in Tree[k] : Width[e] \in Nat /\ Width[e] >= 1}
<1>1. ASSUME NEW e \in Exprs, e.op \notin Chains
      PROVE  Width[e] \in Nat /\ Width[e] >= 1
  BY <1>1, WidthRecursion, DepthNat
<1>2. 0 \in A
  <2>1. Tree[0] \subseteq Exprs
    BY TreeSubset, DepthNat DEF Exprs
  <2>2. \A e \in Tree[0] : e.op \notin Chains
    BY FormSimple, LeafOps, NotNotChain
  <2> QED BY <1>1, <2>1, <2>2
<1>3. ASSUME NEW k \in Nat, k \in A
      PROVE  k + 1 \in A
  <2>1. SUFFICES ASSUME k + 1 <= Depth, NEW e \in Tree[k + 1]
                 PROVE  Width[e] \in Nat /\ Width[e] >= 1
    OBVIOUS
  <2>2. e \in Exprs
    BY <2>1, TreeSubset, DepthNat DEF Exprs
  <2>3. CASE e.op \in Chains
    <3>1. e.a \in Tree[k] /\ e.b \in Tree[k]
      BY <2>3, FormAbove, LeafOps, NotNotChain
    <3>2. /\ Width[e.a] \in Nat /\ Width[e.a] >= 1
          /\ Width[e.b] \in Nat /\ Width[e.b] >= 1
      BY <1>3, <2>1, <3>1, DepthNat
    <3>3. Width[e] = Width[e.a] + Width[e.b]
      BY <2>2, <2>3, WidthRecursion
    <3> QED BY <3>2, <3>3
  <2> QED BY <1>1, <2>2, <2>3
<1> HIDE DEF A
<1>4. Depth \in A
  BY <1>2, <1>3, Climb, DepthNat
<1> QED BY <1>4, DepthNat DEF A, Exprs

\* What an expression that can be reduced consists of.
LEMMA FlatParts ==
    ASSUME NEW e \in Flat
    PROVE  /\ e \in Exprs /\ Width[e] \in Nat /\ Width[e] >= 1 /\ Width[e] <= Depth
           /\ e.op \notin Chains => e \in Plain /\ Width[e] = 1
           /\ e.op \in Chains => /\ e.a \in Flat /\ e.b \in Flat /\ e = Two(e.op, e.a, e.b)
                                 /\ Width[e] = Width[e.a] + Width[e.b]
<1>1. e \in Exprs /\ Width[e] \in Nat /\ Width[e] >= 1 /\ Width[e] <= Depth
  BY WidthNat DEF Flat
<1>2. ASSUME e.op \notin Chains
      PROVE  e \in Plain /\ Width[e] = 1
  <2>1. Width[e] = IF e \in Plain THEN 1 ELSE Depth + 1
    BY <1>1, <1>2, WidthRecursion
  <2> QED BY <1>1, <2>1, DepthNat
<1>3. ASSUME e.op \in Chains
      PROVE  /\ e.a \in Flat /\ e.b \in Flat /\ e = Two(e.op, e.a, e.b)
             /\ Width[e] = Width[e.a] + Width[e.b]
  <2>1. e.a \in Exprs /\ e.b \in Exprs /\ e = Two(e.op, e.a, e.b)
    BY <1>1, <1>3, Form, DepthNat, LeafOps, NotNotChain DEF Exprs
  <2>2. Width[e] = Width[e.a] + Width[e.b]
    BY <1>1, <1>3, WidthRecursion
  <2>3. /\ Width[e.a] \in Nat /\ Width[e.a] >= 1
        /\ Width[e.b] \in Nat /\ Width[e.b] >= 1
    BY <2>1, WidthNat
  <2>4. Width[e.a] <= Depth /\ Width[e.b] <= Depth
    BY <1>1, <2>2, <2>3, DepthNat
  <2> QED BY <2>1, <2>2, <2>4 DEF Flat
<1> QED BY <1>1, <1>2, <1>3

LEMMA PlainFlat ==
    ASSUME NEW e \in Plain, Depth >= 1
    PROVE  e \in Flat /\ Width[e] = 1 /\ e.op \notin Chains
<1>1. e \in Simple
  BY DEF Plain
<1>2. e \in Exprs
  BY <1>1, SimpleInTree, DepthNat DEF Exprs
<1>3. e.op \notin Chains
  BY <1>1, FormSimple, TreeLevels, LeafOps, NotNotChain
<1>4. Width[e] = 1
  BY <1>2, <1>3, WidthRecursion
<1> QED BY <1>2, <1>3, <1>4 DEF Flat

\* Few operands make no deep expression.
LEMMA FlatLevels ==
    \A e \in Flat : e \in Tree[Width[e] - 1]
<1> DEFINE A == {k \in Nat : k <= Depth => \A e \in Tree[k] : e \in Flat => e \in Tree[Width[e] - 1]}
<1>1. ASSUME NEW e \in Flat, e.op \notin Chains
      PROVE  e \in Tree[Width[e] - 1]
  <2>1. e \in Simple /\ Width[e] - 1 = 0
    BY <1>1, FlatParts DEF Plain
  <2> QED BY <2>1, SimpleInTree
<1>2. 0 \in A
  <2>1. \A e \in Tree[0] : e.op \notin Chains
    BY FormSimple, LeafOps, NotNotChain
  <2> QED BY <1>1, <2>1
<1>3. ASSUME NEW k \in Nat, k \in A
      PROVE  k + 1 \in A
  <2>1. SUFFICES ASSUME k + 1 <= Depth, NEW e \in Tree[k + 1], e \in Flat
                 PROVE  e \in Tree[Width[e] - 1]
    OBVIOUS
  <2>2. CASE e.op \in Chains
    <3>1. e.a \in Tree[k] /\ e.b \in Tree[k]
      BY <2>2, FormAbove, LeafOps, NotNotChain
    <3>2. /\ e.a \in Flat /\ e.b \in Flat /\ e = Two(e.op, e.a, e.b)
          /\ Width[e] = Width[e.a] + Width[e.b]
      BY <2>1, <2>2, FlatParts
    <3>3. /\ Width[e.a] \in Nat /\ Width[e.a] >= 1
          /\ Width[e.b] \in Nat /\ Width[e.b] >= 1
      BY <3>2, FlatParts
    <3>4. e.a \in Tree[Width[e.a] - 1] /\ e.b \in Tree[Width[e.b] - 1]
      BY <1>3, <2>1, <3>1, <3>2, DepthNat
    <3>5. PICK n : n = Width[e] - 2
      OBVIOUS
    <3>6. /\ n \in Nat /\ n + 1 = Width[e] - 1
          /\ Width[e.a] - 1 \in Nat /\ Width[e.a] - 1 <= n
          /\ Width[e.b] - 1 \in Nat /\ Width[e.b] - 1 <= n
      BY <3>2, <3>3, <3>5
    <3>7. e.a \in Tree[n] /\ e.b \in Tree[n]
      BY <3>4, <3>6, TreeSubset
    <3>8. Two(e.op, e.a, e.b) \in Tree[n + 1]
      BY <2>2, <3>6, <3>7, TwoInTree
    <3> QED BY <3>2, <3>6, <3>8
  <2> QED BY <1>1, <2>1, <2>2
<1> HIDE DEF A
<1>4. Depth \in A
  BY <1>2, <1>3, Climb, DepthNat
<1> QED BY <1>4, DepthNat DEF A, Exprs, Flat

LEMMA TwoFlat ==
    ASSUME NEW e \in Flat, NEW f \in Flat, NEW op \in Chains, Width[e] + Width[f] <= Depth
    PROVE  Two(op, e, f) \in Flat /\ Width[Two(op, e, f)] = Width[e] + Width[f]
<1>1. /\ Width[e] \in Nat /\ Width[e] >= 1 /\ Width[f] \in Nat /\ Width[f] >= 1
  BY FlatParts
<1>2. PICK n : n = Depth - 1
  OBVIOUS
<1>3. /\ n \in Nat /\ n + 1 = Depth
      /\ Width[e] - 1 \in Nat /\ Width[e] - 1 <= n
      /\ Width[f] - 1 \in Nat /\ Width[f] - 1 <= n
  BY <1>1, <1>2, DepthNat
<1>4. e \in Tree[n] /\ f \in Tree[n]
  BY <1>3, FlatLevels, TreeSubset
<1>5. PICK w : w = Two(op, e, f)
  OBVIOUS
<1>6. w \in Exprs /\ w.op \in Chains /\ w.a = e /\ w.b = f
  BY <1>3, <1>4, <1>5, TwoInTree, TwoForm DEF Exprs
<1>7. Width[w] = Width[e] + Width[f]
  BY <1>6, WidthRecursion
<1> QED BY <1>5, <1>6, <1>7 DEF Flat

LEMMA NotInExprs ==
    ASSUME NEW e \in Flat
    PROVE  NotE(e) \in Exprs
<1>1. PICK n : n = Depth - 1
  OBVIOUS
<1>2. n \in Nat /\ n + 1 = Depth /\ Width[e] - 1 \in Nat /\ Width[e] - 1 <= n
  BY <1>1, FlatParts, DepthNat
<1>3. e \in Tree[n]
  BY <1>2, FlatLevels, TreeSubset
<1> QED BY <1>2, <1>3, NotInTree DEF Exprs

LEMMA PairInvariant ==
    ASSUME NEW S, NEW Good, Good \subseteq S, NEW m \in Nat, NEW n \in Nat, NEW do, NEW s \in Good,
           \A i \in 1..m, j \in 1..n : \A u \in Good : do[i][j][u] \in Good
    PROVE  Pairwise(S, m, n, do, s) \in Good
<1> DEFINE row == [i \in 1..m |-> [u \in S |-> Repeated(n, do[i], u)]]
<1>1. ASSUME NEW i \in 1..m, NEW u \in Good
      PROVE  row[i][u] \in Good
  <2>1. row[i][u] = Repeated(n, do[i], u)
    OBVIOUS
  <2>2. \A k \in 1..n : \A w \in Good : do[i][k][w] \in Good
    OBVIOUS
  <2> HIDE DEF row
  <2>3. Repeated(n, do[i], u) \in Good
    BY <2>2, LoopInvariant
  <2> QED BY <2>1, <2>3
<1>2. Pairwise(S, m, n, do, s) = Repeated(m, row, s)
  BY DEF Pairwise
<1> HIDE DEF row
<1>3. Repeated(m, row, s) \in Good
  BY <1>1, LoopInvariant
<1> QED BY <1>2, <1>3

(***************************************************************************)
(* The operands of a chain.                                                *)
(***************************************************************************)
OperandsBody(g, e) == [op \in Chains |-> IF e.op # op THEN <<e>> ELSE g[e.a][op] \o g[e.b][op]]

\* The operands of an expression that is no chain of op are itself.
LEMMA OperandsExists ==
    \E g : g = [e \in Exprs |-> OperandsBody(g, e)]
<1> DEFINE V == [Chains -> Seq(Exprs)]
           O(e) == [op \in Chains |-> <<e>>]
           L == [e \in Leaves |-> O(e)]
           N == [e \in Tree[Depth] |-> [x \in V |-> O(e)]]
           C == [e \in Tree[Depth] |-> [x \in V |-> [y \in V |->
                    [op \in Chains |-> IF e.op # op THEN <<e>> ELSE x[op] \o y[op]]]]]
<1>1. \A e \in Exprs : O(e) \in V
  OBVIOUS
<1>2. L \in [Leaves -> V] /\ N \in [Tree[Depth] -> [V -> V]]
  BY <1>1, LeavesInTree, DepthNat DEF Exprs
<1>3. C \in [Tree[Depth] -> [V -> [V -> V]]]
  <2>1. ASSUME NEW e \in Tree[Depth], NEW x \in V, NEW y \in V
        PROVE  [op \in Chains |-> IF e.op # op THEN <<e>> ELSE x[op] \o y[op]] \in V
    <3>1. \A op \in Chains : x[op] \in Seq(Exprs) /\ y[op] \in Seq(Exprs)
      OBVIOUS
    <3>3. e \in Exprs
      BY DEF Exprs
    <3>4. <<e>> \in Seq(Exprs)
      BY <3>3
    <3>2. \A op \in Chains : x[op] \o y[op] \in Seq(Exprs)
      BY <3>1, ConcatProperties
    <3> QED BY <3>2, <3>4
  <2> HIDE DEF V
  <2>2. ASSUME NEW e \in Tree[Depth], NEW x \in V
        PROVE  [y \in V |-> [op \in Chains |-> IF e.op # op THEN <<e>> ELSE x[op] \o y[op]]] \in [V -> V]
    BY <2>1
  <2>3. ASSUME NEW e \in Tree[Depth]
        PROVE  [x \in V |-> [y \in V |-> [op \in Chains |-> IF e.op # op THEN <<e>> ELSE x[op] \o y[op]]]]
                  \in [V -> [V -> V]]
    BY <2>2
  <2> QED BY <2>3
<1>4. /\ \A e \in Leaves : L[e] = O(e)
      /\ \A e \in Tree[Depth], x \in V : N[e][x] = O(e)
      /\ \A e \in Tree[Depth], x \in V, y \in V :
           C[e][x][y] = [op \in Chains |-> IF e.op # op THEN <<e>> ELSE x[op] \o y[op]]
  OBVIOUS
<1>5. \A g, e : e.op \notin Chains => OperandsBody(g, e) = O(e)
  BY DEF OperandsBody
<1> HIDE DEF L, N, C, V, O
<1>6. PICK g : IsFold(g, Depth, L, N, C)
  BY FoldExists, DepthNat
<1>7. \A e \in Tree[Depth] : g[e] \in V
  BY <1>2, <1>3, <1>6, DepthNat, FoldRange
<1>8. ASSUME NEW e \in Exprs
      PROVE  FoldOf(g, e, L, N, C) = OperandsBody(g, e)
  <2>1. CASE e \in Leaves
    BY <2>1, <1>4, <1>5, LeafOps DEF FoldOf
  <2>2. CASE e.op = "not" /\ e.a \in Exprs
    BY <2>2, <1>4, <1>5, <1>7, NotNotChain DEF FoldOf, Exprs
  <2>3. CASE e.op \in Chains /\ e.a \in Exprs /\ e.b \in Exprs
    <3>1. FoldOf(g, e, L, N, C) = C[e][g[e.a]][g[e.b]]
      BY <2>3 DEF FoldOf
    <3>2. g[e.a] \in V /\ g[e.b] \in V
      BY <2>3, <1>7 DEF Exprs
    <3>3. C[e][g[e.a]][g[e.b]] = [op \in Chains |-> IF e.op # op THEN <<e>> ELSE g[e.a][op] \o g[e.b][op]]
      BY <3>2, <1>4, Zenon DEF Exprs
    <3> QED BY <3>1, <3>3, Zenon DEF OperandsBody
  <2> QED BY <2>1, <2>2, <2>3, Form, DepthNat DEF Exprs
<1>9. g = [e \in Exprs |-> OperandsBody(g, e)]
  <2>1. g = [e \in Exprs |-> FoldOf(g, e, L, N, C)]
    BY <1>6 DEF IsFold, Exprs
  <2> QED BY <2>1, <1>8
<1> QED BY <1>9

LEMMA OperandsRecursion ==
    \A e \in Exprs, op \in Chains :
        Operands[e][op] = IF e.op # op THEN <<e>> ELSE Operands[e.a][op] \o Operands[e.b][op]
<1>1. \E g : g = [e \in Exprs |-> OperandsBody(g, e)]
  BY OperandsExists
<1>2. Operands = [e \in Exprs |-> OperandsBody(Operands, e)]
  BY <1>1 DEF Operands, OperandsBody
<1>3. ASSUME NEW e \in Exprs, NEW op \in Chains
      PROVE  Operands[e][op] = IF e.op # op THEN <<e>> ELSE Operands[e.a][op] \o Operands[e.b][op]
  <2>1. Operands[e] = OperandsBody(Operands, e)
    BY <1>2
  <2>2. OperandsBody(Operands, e)[op] = IF e.op # op THEN <<e>> ELSE Operands[e.a][op] \o Operands[e.b][op]
    BY DEF OperandsBody
  <2> QED BY <2>1, <2>2
<1> QED BY <1>3

LEMMA OperandsType ==
    ASSUME NEW op \in Chains
    PROVE  \A e \in Exprs : Operands[e][op] \in Seq(Exprs) /\ Count(op, e) \in Nat /\ Count(op, e) >= 1
<1> DEFINE G == {e \in Exprs : Operands[e][op] \in Seq(Exprs) /\ Len(Operands[e][op]) >= 1}
<1>1. ASSUME NEW e \in Exprs, e.op # op
      PROVE  e \in G
  <2>1. Operands[e][op] = <<e>>
    BY <1>1, OperandsRecursion
  <2>2. PICK s : s = <<e>>
    OBVIOUS
  <2>3. s \in Seq(Exprs) /\ Len(s) >= 1
    BY <2>2
  <2>4. s = Operands[e][op]
    BY <2>1, <2>2
  <2> QED BY <2>3, <2>4
<1>2. ASSUME NEW e \in Exprs, e.op = op, e.a \in G, e.b \in G
      PROVE  e \in G
  <2>1. Operands[e][op] = Operands[e.a][op] \o Operands[e.b][op]
    BY <1>2, OperandsRecursion
  <2>2. PICK s, t : s = Operands[e.a][op] /\ t = Operands[e.b][op]
    OBVIOUS
  <2>3. s \in Seq(Exprs) /\ t \in Seq(Exprs) /\ Len(s) >= 1 /\ Len(t) >= 1
    BY <1>2, <2>2
  <2>4. s \o t \in Seq(Exprs) /\ Len(s \o t) = Len(s) + Len(t)
    BY <2>3, ConcatProperties
  <2>5. Len(s) \in Nat /\ Len(t) \in Nat
    BY <2>3
  <2>6. PICK r : r = s \o t
    OBVIOUS
  <2>7. r \in Seq(Exprs) /\ Len(r) >= 1
    BY <2>3, <2>4, <2>5, <2>6
  <2>8. r = Operands[e][op]
    BY <2>1, <2>2, <2>6
  <2> QED BY <2>7, <2>8
<1> HIDE DEF G
<1>3. Exprs \subseteq G
  BY <1>1, <1>2, ExprInduction
<1>4. \A e \in Exprs : Operands[e][op] \in Seq(Exprs) /\ Len(Operands[e][op]) >= 1
  BY <1>3 DEF G
<1> QED BY <1>4 DEF Count

LEMMA OpsSingle ==
    ASSUME NEW op \in Chains, NEW e \in Exprs, e.op # op
    PROVE  Count(op, e) = 1 /\ Operands[e][op][1] = e
<1>1. Operands[e][op] = <<e>>
  BY OperandsRecursion
<1>2. Len(<<e>>) = 1 /\ <<e>>[1] = e
  OBVIOUS
<1> QED BY <1>1, <1>2 DEF Count

LEMMA OpsChain ==
    ASSUME NEW op \in Chains, NEW e \in Exprs, e.op = op
    PROVE  /\ Count(op, e) = Count(op, e.a) + Count(op, e.b)
           /\ \A j \in 1..Count(op, e.a) : Operands[e][op][j] = Operands[e.a][op][j]
           /\ \A j \in 1..Count(op, e.b) : Operands[e][op][j + Count(op, e.a)] = Operands[e.b][op][j]
<1>1. e.a \in Exprs /\ e.b \in Exprs
  BY ChainParts
<1>2. PICK s, t : s = Operands[e.a][op] /\ t = Operands[e.b][op]
  OBVIOUS
<1>3. s \in Seq(Exprs) /\ t \in Seq(Exprs) /\ Count(op, e.a) = Len(s) /\ Count(op, e.b) = Len(t)
  BY <1>1, <1>2, OperandsType DEF Count
<1>4. Operands[e][op] = s \o t
  BY <1>2, OperandsRecursion
<1>5. /\ Len(s \o t) = Len(s) + Len(t)
      /\ \A i \in 1 .. Len(s) + Len(t) : (s \o t)[i] = IF i <= Len(s) THEN s[i] ELSE t[i - Len(s)]
  BY <1>3, ConcatProperties
<1>6. Len(s) \in Nat /\ Len(t) \in Nat
  BY <1>3
<1>7. \A j \in 1..Len(s) : (s \o t)[j] = s[j]
  BY <1>5, <1>6
<1>8. ASSUME NEW j \in 1..Len(t)
      PROVE  (s \o t)[j + Len(s)] = t[j]
  <2>1. j + Len(s) \in 1..Len(s) + Len(t) /\ ~(j + Len(s) <= Len(s)) /\ (j + Len(s)) - Len(s) = j
    BY <1>6
  <2> QED BY <1>5, <2>1
<1>9. Count(op, e) = Len(s \o t)
  BY <1>4 DEF Count
<1>10. Count(op, e) = Count(op, e.a) + Count(op, e.b)
  BY <1>3, <1>5, <1>9
<1>11. \A j \in 1..Count(op, e.a) : Operands[e][op][j] = Operands[e.a][op][j]
  BY <1>2, <1>3, <1>4, <1>7
<1>12. \A j \in 1..Count(op, e.b) : Operands[e][op][j + Count(op, e.a)] = Operands[e.b][op][j]
  BY <1>2, <1>3, <1>4, <1>8
<1> QED BY <1>10, <1>11, <1>12

(***************************************************************************)
(* A chain with other operands.                                            *)
(***************************************************************************)
FilledBody(op, xs, g, e) ==
    [i \in Nat |-> IF e.op # op THEN xs[i] ELSE Two(op, g[e.a][i], g[e.b][i + Count(op, e.a)])]

IsFilled(g, op, xs, n) == g = [e \in Tree[n] |-> FilledBody(op, xs, g, e)]

LEMMA FilledExists ==
    ASSUME NEW op \in Chains, NEW xs
    PROVE  \A n \in Nat : \E g : IsFilled(g, op, xs, n)
<1> DEFINE A == {n \in Nat : \E g : IsFilled(g, op, xs, n)}
<1>1. 0 \in A
  <2> DEFINE g == [e \in Tree[0] |-> [i \in Nat |-> xs[i]]]
  <2>1. \A e \in Tree[0] : e.op # op
    BY FormSimple, LeafOps, NotNotChain
  <2>2. \A e \in Tree[0] : FilledBody(op, xs, g, e) = [i \in Nat |-> xs[i]]
    BY <2>1 DEF FilledBody
  <2>3. g = [e \in Tree[0] |-> FilledBody(op, xs, g, e)]
    BY <2>2
  <2> HIDE DEF g
  <2> QED BY <2>3 DEF IsFilled
<1>2. ASSUME NEW n \in Nat, n \in A
      PROVE  n + 1 \in A
  <2>1. PICK h : IsFilled(h, op, xs, n)
    BY <1>2
  <2> DEFINE g == [e \in Tree[n + 1] |-> FilledBody(op, xs, h, e)]
  <2>2. \A e \in Tree[n] : g[e] = h[e]
    <3>1. \A e \in Tree[n] : e \in Tree[n + 1]
      BY TreeGrows
    <3>2. \A e \in Tree[n] : h[e] = FilledBody(op, xs, h, e)
      BY <2>1 DEF IsFilled
    <3> QED BY <3>1, <3>2
  <2>3. \A e \in Tree[n + 1] : g[e] = FilledBody(op, xs, h, e)
    OBVIOUS
  <2>4. g = [e \in Tree[n + 1] |-> g[e]]
    OBVIOUS
  <2> HIDE DEF g
  <2>5. ASSUME NEW e \in Tree[n + 1]
        PROVE  g[e] = FilledBody(op, xs, g, e)
    <3>1. CASE e.op # op
      BY <3>1, <2>3 DEF FilledBody
    <3>2. CASE e.op = op
      <4>1. e.a \in Tree[n] /\ e.b \in Tree[n]
        BY <3>2, FormAbove, LeafOps, NotNotChain
      <4>2. g[e.a] = h[e.a] /\ g[e.b] = h[e.b]
        BY <2>2, <4>1
      <4> QED BY <2>3, <4>2 DEF FilledBody
    <3> QED BY <3>1, <3>2
  <2>6. IsFilled(g, op, xs, n + 1)
    BY <2>4, <2>5 DEF IsFilled
  <2> QED BY <2>6
<1> HIDE DEF A
<1>3. \A n \in Nat : n \in A
  BY <1>1, <1>2, Climb
<1> QED BY <1>3 DEF A

LEMMA FilledRecursion ==
    ASSUME NEW op \in Chains, NEW xs
    PROVE  \A e \in Exprs, k \in Nat :
              Filled(op, xs, e, k) = IF e.op # op THEN xs[k]
                                     ELSE Two(op, Filled(op, xs, e.a, k), Filled(op, xs, e.b, k + Count(op, e.a)))
<1> DEFINE filled == CHOOSE g : IsFilled(g, op, xs, Depth)
<1>1. IsFilled(filled, op, xs, Depth)
  BY FilledExists, DepthNat
<1>2. \A e, k : Filled(op, xs, e, k) = filled[e][k]
  BY DEF Filled, IsFilled, FilledBody, Exprs
<1> HIDE DEF filled
<1>3. ASSUME NEW e \in Exprs, NEW k \in Nat
      PROVE  filled[e][k] = IF e.op # op THEN xs[k] ELSE Two(op, filled[e.a][k], filled[e.b][k + Count(op, e.a)])
  <2>1. filled[e] = FilledBody(op, xs, filled, e)
    BY <1>1 DEF IsFilled, Exprs
  <2>2. FilledBody(op, xs, filled, e)[k] =
           IF e.op # op THEN xs[k] ELSE Two(op, filled[e.a][k], filled[e.b][k + Count(op, e.a)])
    BY DEF FilledBody
  <2> QED BY <2>1, <2>2
<1> QED BY <1>2, <1>3

LEMMA FilledSingle ==
    ASSUME NEW op \in Chains, NEW xs, NEW e \in Exprs, NEW k \in Nat, e.op # op
    PROVE  Filled(op, xs, e, k) = xs[k]
BY FilledRecursion

LEMMA FilledTwo ==
    ASSUME NEW op \in Chains, NEW xs, NEW e \in Exprs, NEW k \in Nat, e.op = op
    PROVE  Filled(op, xs, e, k) = Two(op, Filled(op, xs, e.a, k), Filled(op, xs, e.b, k + Count(op, e.a)))
<1>1. \A d \in Exprs, j \in Nat :
         Filled(op, xs, d, j) = IF d.op # op THEN xs[j]
                                ELSE Two(op, Filled(op, xs, d.a, j), Filled(op, xs, d.b, j + Count(op, d.a)))
  BY FilledRecursion
<1> QED BY <1>1

\* From position k on, xs holds the operands of e.
Holding(op, xs, e, k) == \A j \in 1..Count(op, e) : xs[k + j - 1] = Operands[e][op][j]

\* A chain with the operands it had is the chain.
LEMMA FilledSame ==
    ASSUME NEW op \in Chains
    PROVE  \A e \in Exprs : Filled(op, Operands[e][op], e, 1) = e
<1> DEFINE G == {e \in Exprs : \A xs : \A k \in Nat : Holding(op, xs, e, k) => Filled(op, xs, e, k) = e}
<1>1. ASSUME NEW e \in Exprs, e.op # op
      PROVE  e \in G
  <2>1. SUFFICES ASSUME NEW xs, NEW k \in Nat, Holding(op, xs, e, k)
                 PROVE  Filled(op, xs, e, k) = e
    OBVIOUS
  <2>2. Count(op, e) = 1 /\ Operands[e][op][1] = e
    BY <1>1, OpsSingle
  <2>3. xs[k + 1 - 1] = e /\ k + 1 - 1 = k
    BY <2>1, <2>2 DEF Holding
  <2> QED BY <1>1, <2>3, FilledSingle
<1>2. ASSUME NEW e \in Exprs, e.op = op, e.a \in G, e.b \in G
      PROVE  e \in G
  <2>1. SUFFICES ASSUME NEW xs, NEW k \in Nat, Holding(op, xs, e, k)
                 PROVE  Filled(op, xs, e, k) = e
    OBVIOUS
  <2>2. e.a \in Exprs /\ e.b \in Exprs /\ e = Two(op, e.a, e.b)
    BY <1>2, ChainParts
  <2>3. PICK m, n : m = Count(op, e.a) /\ n = Count(op, e.b)
    OBVIOUS
  <2>4. m \in Nat /\ n \in Nat /\ Count(op, e) = m + n
    BY <1>2, <2>2, <2>3, OperandsType, OpsChain
  <2>5. Holding(op, xs, e.a, k)
    <3>1. \A j \in 1..m : j \in 1..m + n
      BY <2>4
    <3>2. \A j \in 1..m : Operands[e][op][j] = Operands[e.a][op][j]
      BY <1>2, <2>3, OpsChain
    <3> QED BY <2>1, <2>3, <2>4, <3>1, <3>2 DEF Holding
  <2>6. Holding(op, xs, e.b, k + m)
    <3>1. \A j \in 1..n : Operands[e][op][j + m] = Operands[e.b][op][j]
      BY <1>2, <2>3, OpsChain
    <3>2. \A j \in 1..n : j + m \in 1..m + n /\ k + (j + m) - 1 = (k + m) + j - 1
      BY <2>4
    <3> QED BY <2>1, <2>3, <2>4, <3>1, <3>2 DEF Holding
  <2>7. k + m \in Nat
    BY <2>4
  <2>8. Filled(op, xs, e.a, k) = e.a
    BY <1>2, <2>5
  <2>9. Filled(op, xs, e.b, k + m) = e.b
    BY <1>2, <2>6, <2>7
  <2> QED BY <1>2, <2>2, <2>3, <2>8, <2>9, FilledTwo
<1> HIDE DEF G
<1>3. Exprs \subseteq G
  BY <1>1, <1>2, ExprInduction
<1>4. ASSUME NEW e \in Exprs
      PROVE  Filled(op, Operands[e][op], e, 1) = e
  <2>1. \A xs : \A k \in Nat : Holding(op, xs, e, k) => Filled(op, xs, e, k) = e
    BY <1>3 DEF G
  <2>2. Holding(op, Operands[e][op], e, 1)
    <3>1. \A j \in 1..Count(op, e) : 1 + j - 1 = j
      BY OperandsType
    <3> QED BY <3>1 DEF Holding
  <2> QED BY <2>1, <2>2
<1> QED BY <1>4

\* The positions of the operands of e from k on.
Span(op, e, k) == k..k + Count(op, e) - 1

LEMMA SpanSingle ==
    ASSUME NEW op \in Chains, NEW e \in Exprs, NEW k \in Nat, e.op # op
    PROVE  Span(op, e, k) = {k}
<1>1. Count(op, e) = 1
  BY OpsSingle
<1> QED BY <1>1 DEF Span

LEMMA SpanTwo ==
    ASSUME NEW op \in Chains, NEW e \in Exprs, NEW k \in Nat, e.op = op
    PROVE  /\ e.a \in Exprs /\ e.b \in Exprs
           /\ k + Count(op, e.a) \in Nat
           /\ Span(op, e, k) = Span(op, e.a, k) \union Span(op, e.b, k + Count(op, e.a))
           /\ Span(op, e.a, k) \intersect Span(op, e.b, k + Count(op, e.a)) = {}
<1>1. e.a \in Exprs /\ e.b \in Exprs
  BY ChainParts
<1>2. PICK m, n : m = Count(op, e.a) /\ n = Count(op, e.b)
  OBVIOUS
<1>3. m \in Nat /\ m >= 1 /\ n \in Nat /\ n >= 1 /\ Count(op, e) = m + n
  BY <1>1, <1>2, OperandsType, OpsChain
<1>4. k..k + (m + n) - 1 = (k..k + m - 1) \union ((k + m)..(k + m) + n - 1)
  BY <1>3
<1>5. (k..k + m - 1) \intersect ((k + m)..(k + m) + n - 1) = {}
  BY <1>3
<1>6. k + m \in Nat
  BY <1>3
<1> QED BY <1>1, <1>2, <1>3, <1>4, <1>5, <1>6 DEF Span

\* A chain depends on the operands in its span only.
LEMMA FilledElsewhere ==
    ASSUME NEW op \in Chains, NEW xs, NEW ys
    PROVE  \A e \in Exprs : \A k \in Nat : (\A i \in Span(op, e, k) : xs[i] = ys[i])
                                             => Filled(op, xs, e, k) = Filled(op, ys, e, k)
<1> DEFINE G == {e \in Exprs : \A k \in Nat : (\A i \in Span(op, e, k) : xs[i] = ys[i])
                                             => Filled(op, xs, e, k) = Filled(op, ys, e, k)}
<1>1. ASSUME NEW e \in Exprs, e.op # op
      PROVE  e \in G
  BY <1>1, SpanSingle, FilledSingle
<1>2. ASSUME NEW e \in Exprs, e.op = op, e.a \in G, e.b \in G
      PROVE  e \in G
  <2>1. SUFFICES ASSUME NEW k \in Nat, \A i \in Span(op, e, k) : xs[i] = ys[i]
                 PROVE  Filled(op, xs, e, k) = Filled(op, ys, e, k)
    OBVIOUS
  <2>2. PICK l : l = k + Count(op, e.a)
    OBVIOUS
  <2>3. l \in Nat /\ Span(op, e, k) = Span(op, e.a, k) \union Span(op, e.b, l)
    BY <1>2, <2>2, SpanTwo
  <2>4. Filled(op, xs, e.a, k) = Filled(op, ys, e.a, k) /\ Filled(op, xs, e.b, l) = Filled(op, ys, e.b, l)
    BY <1>2, <2>1, <2>3
  <2> QED BY <1>2, <2>2, <2>4, FilledTwo
<1> HIDE DEF G
<1>3. Exprs \subseteq G
  BY <1>1, <1>2, ExprInduction
<1> QED BY <1>3 DEF G

\* What can be reduced has operands that can be.
LEMMA FilledOperand ==
    ASSUME NEW op \in Chains, NEW xs
    PROVE  \A e \in Exprs : \A k \in Nat : Filled(op, xs, e, k) \in Flat =>
             \A i \in Span(op, e, k) : xs[i] \in Flat /\ Width[xs[i]] <= Width[Filled(op, xs, e, k)]
<1> DEFINE G == {e \in Exprs : \A k \in Nat : Filled(op, xs, e, k) \in Flat =>
             \A i \in Span(op, e, k) : xs[i] \in Flat /\ Width[xs[i]] <= Width[Filled(op, xs, e, k)]}
<1>1. ASSUME NEW e \in Exprs, e.op # op
      PROVE  e \in G
  <2>1. SUFFICES ASSUME NEW k \in Nat, Filled(op, xs, e, k) \in Flat
                 PROVE  \A i \in Span(op, e, k) : xs[i] \in Flat /\ Width[xs[i]] <= Width[Filled(op, xs, e, k)]
    OBVIOUS
  <2>2. Filled(op, xs, e, k) = xs[k] /\ Span(op, e, k) = {k}
    BY <1>1, SpanSingle, FilledSingle
  <2>3. Width[xs[k]] <= Width[xs[k]]
    BY <2>1, <2>2, FlatParts
  <2> QED BY <2>1, <2>2, <2>3
<1>2. ASSUME NEW e \in Exprs, e.op = op, e.a \in G, e.b \in G
      PROVE  e \in G
  <2>1. SUFFICES ASSUME NEW k \in Nat, Filled(op, xs, e, k) \in Flat, NEW i \in Span(op, e, k)
                 PROVE  xs[i] \in Flat /\ Width[xs[i]] <= Width[Filled(op, xs, e, k)]
    OBVIOUS
  <2>2. PICK l : l = k + Count(op, e.a)
    OBVIOUS
  <2>3. l \in Nat /\ Span(op, e, k) = Span(op, e.a, k) \union Span(op, e.b, l)
    BY <1>2, <2>2, SpanTwo
  <2>4. PICK w, p, q : w = Filled(op, xs, e, k) /\ p = Filled(op, xs, e.a, k) /\ q = Filled(op, xs, e.b, l)
    OBVIOUS
  <2>5. w = Two(op, p, q)
    BY <1>2, <2>2, <2>4, FilledTwo
  <2>6. w.op = op /\ w.a = p /\ w.b = q
    BY <2>5, TwoForm
  <2>7. p \in Flat /\ q \in Flat /\ Width[w] = Width[p] + Width[q]
    BY <2>1, <2>4, <2>6, FlatParts
  <2>8. Width[p] \in Nat /\ Width[q] \in Nat
    BY <2>7, FlatParts
  <2>9. CASE i \in Span(op, e.a, k)
    <3>1. xs[i] \in Flat /\ Width[xs[i]] <= Width[p]
      BY <1>2, <2>4, <2>7, <2>9
    <3>2. Width[xs[i]] \in Nat
      BY <3>1, FlatParts
    <3> QED BY <2>4, <2>7, <2>8, <3>1, <3>2
  <2>10. CASE i \in Span(op, e.b, l)
    <3>1. xs[i] \in Flat /\ Width[xs[i]] <= Width[q]
      BY <1>2, <2>3, <2>4, <2>7, <2>10
    <3>2. Width[xs[i]] \in Nat
      BY <3>1, FlatParts
    <3> QED BY <2>4, <2>7, <2>8, <3>1, <3>2
  <2> QED BY <2>1, <2>3, <2>9, <2>10
<1> HIDE DEF G
<1>3. Exprs \subseteq G
  BY <1>1, <1>2, ExprInduction
<1> QED BY <1>3 DEF G

\* ys is xs but for x at i.
Changed(xs, ys, i, x, S) == \A j \in S : ys[j] = IF j = i THEN x ELSE xs[j]

\* Another operand makes the chain wider or narrower by as much as it is.
LEMMA FilledUpdate ==
    ASSUME NEW op \in Chains, NEW xs, NEW ys, NEW i, NEW x \in Flat
    PROVE  \A e \in Exprs : \A k \in Nat :
             /\ Filled(op, xs, e, k) \in Flat /\ i \in Span(op, e, k)
             /\ Changed(xs, ys, i, x, Span(op, e, k))
             /\ Width[Filled(op, xs, e, k)] + Width[x] <= Depth + Width[xs[i]]
             => /\ Filled(op, ys, e, k) \in Flat
                /\ Width[Filled(op, ys, e, k)] + Width[xs[i]] = Width[Filled(op, xs, e, k)] + Width[x]
<1> DEFINE H(e, k) == /\ Filled(op, xs, e, k) \in Flat /\ i \in Span(op, e, k)
                      /\ Changed(xs, ys, i, x, Span(op, e, k))
                      /\ Width[Filled(op, xs, e, k)] + Width[x] <= Depth + Width[xs[i]]
           R(e, k) == /\ Filled(op, ys, e, k) \in Flat
                      /\ Width[Filled(op, ys, e, k)] + Width[xs[i]] = Width[Filled(op, xs, e, k)] + Width[x]
           G == {e \in Exprs : \A k \in Nat : H(e, k) => R(e, k)}
<1>1. ASSUME NEW e \in Exprs, e.op # op
      PROVE  e \in G
  <2>1. SUFFICES ASSUME NEW k \in Nat, H(e, k)
                 PROVE  R(e, k)
    OBVIOUS
  <2>2. Filled(op, xs, e, k) = xs[k] /\ Filled(op, ys, e, k) = ys[k] /\ Span(op, e, k) = {k}
    BY <1>1, SpanSingle, FilledSingle
  <2>3. i = k /\ ys[k] = x
    BY <2>1, <2>2 DEF Changed
  <2>4. Width[x] \in Nat /\ Width[xs[k]] \in Nat
    BY <2>1, <2>2, FlatParts
  <2> QED BY <2>2, <2>3, <2>4
<1>2. ASSUME NEW e \in Exprs, e.op = op, e.a \in G, e.b \in G
      PROVE  e \in G
  <2>1. SUFFICES ASSUME NEW k \in Nat, H(e, k)
                 PROVE  R(e, k)
    OBVIOUS
  <2>2. PICK l : l = k + Count(op, e.a)
    OBVIOUS
  <2>3. /\ l \in Nat /\ Span(op, e, k) = Span(op, e.a, k) \union Span(op, e.b, l)
        /\ Span(op, e.a, k) \intersect Span(op, e.b, l) = {}
        /\ e.a \in Exprs /\ e.b \in Exprs
    BY <1>2, <2>2, SpanTwo
  <2>4. PICK w, p, q : w = Filled(op, xs, e, k) /\ p = Filled(op, xs, e.a, k) /\ q = Filled(op, xs, e.b, l)
    OBVIOUS
  <2>5. PICK w1, p1, q1 : w1 = Filled(op, ys, e, k) /\ p1 = Filled(op, ys, e.a, k) /\ q1 = Filled(op, ys, e.b, l)
    OBVIOUS
  <2>6. w = Two(op, p, q) /\ w1 = Two(op, p1, q1)
    BY <1>2, <2>2, <2>4, <2>5, FilledTwo
  <2>7. w.op = op /\ w.a = p /\ w.b = q
    BY <2>6, TwoForm
  <2>8. w \in Flat /\ Width[w] + Width[x] <= Depth + Width[xs[i]] /\ i \in Span(op, e, k)
    BY <2>1, <2>4
  <2>9. p \in Flat /\ q \in Flat /\ Width[w] = Width[p] + Width[q]
    BY <2>7, <2>8, FlatParts
  <2>10. Width[p] \in Nat /\ Width[q] \in Nat /\ Width[x] \in Nat
    BY <2>9, FlatParts
  <2>11. xs[i] \in Flat /\ Width[xs[i]] \in Nat
    BY <2>4, <2>8, FilledOperand, FlatParts
  <2>12. /\ Width[p] + Width[x] <= Depth + Width[xs[i]]
         /\ Width[q] + Width[x] <= Depth + Width[xs[i]]
    BY <2>8, <2>9, <2>10, <2>11, DepthNat
  <2>13. Changed(xs, ys, i, x, Span(op, e.a, k)) /\ Changed(xs, ys, i, x, Span(op, e.b, l))
    BY <2>1, <2>3 DEF Changed
  <2>14. CASE i \in Span(op, e.a, k)
    <3>1. q1 = q
      <4>1. \A j \in Span(op, e.b, l) : xs[j] = ys[j]
        BY <2>3, <2>13, <2>14 DEF Changed
      <4> QED BY <2>3, <2>4, <2>5, <4>1, FilledElsewhere
    <3>2. H(e.a, k)
      BY <2>4, <2>9, <2>12, <2>13, <2>14
    <3>3. p1 \in Flat /\ Width[p1] + Width[xs[i]] = Width[p] + Width[x]
      BY <1>2, <2>4, <2>5, <3>2
    <3>4. Width[p1] \in Nat
      BY <3>3, FlatParts
    <3>5. Width[p1] + Width[q] <= Depth
      BY <2>8, <2>9, <2>10, <2>11, <3>3, <3>4, DepthNat
    <3>6. w1 \in Flat /\ Width[w1] = Width[p1] + Width[q]
      BY <2>6, <2>9, <3>1, <3>3, <3>5, TwoFlat
    <3>7. Width[w1] + Width[xs[i]] = Width[w] + Width[x]
      BY <2>9, <2>10, <2>11, <3>3, <3>4, <3>6
    <3> QED BY <2>4, <2>5, <3>6, <3>7
  <2>15. CASE i \in Span(op, e.b, l)
    <3>1. p1 = p
      <4>1. \A j \in Span(op, e.a, k) : xs[j] = ys[j]
        BY <2>3, <2>13, <2>15 DEF Changed
      <4> QED BY <2>3, <2>4, <2>5, <4>1, FilledElsewhere
    <3>2. H(e.b, l)
      BY <2>4, <2>9, <2>12, <2>13, <2>15
    <3>3. q1 \in Flat /\ Width[q1] + Width[xs[i]] = Width[q] + Width[x]
      BY <1>2, <2>3, <2>4, <2>5, <3>2
    <3>4. Width[q1] \in Nat
      BY <3>3, FlatParts
    <3>5. Width[p] + Width[q1] <= Depth
      BY <2>8, <2>9, <2>10, <2>11, <3>3, <3>4, DepthNat
    <3>6. w1 \in Flat /\ Width[w1] = Width[p] + Width[q1]
      BY <2>6, <2>9, <3>1, <3>3, <3>5, TwoFlat
    <3>7. Width[w1] + Width[xs[i]] = Width[w] + Width[x]
      BY <2>9, <2>10, <2>11, <3>3, <3>4, <3>6
    <3> QED BY <2>4, <2>5, <3>6, <3>7
  <2> QED BY <2>3, <2>8, <2>14, <2>15
<1> HIDE DEF G
<1>3. Exprs \subseteq G
  BY <1>1, <1>2, ExprInduction
<1> QED BY <1>3 DEF G

LEMMA FlatInduction ==
    ASSUME NEW G,
           \A e \in Flat : e.op \notin Chains => e \in G,
           \A e \in Flat : e.op \in Chains /\ e.a \in Flat /\ e.b \in Flat /\ e.a \in G /\ e.b \in G => e \in G
    PROVE  Flat \subseteq G
<1> DEFINE H == {e \in Exprs : e \in Flat => e \in G}
<1>1. ASSUME NEW e \in Exprs, e.op \notin Chains
      PROVE  e \in H
  BY <1>1
<1>2. ASSUME NEW e \in Exprs, e.op \in Chains, e.a \in H, e.b \in H
      PROVE  e \in H
  BY <1>2, FlatParts
<1> HIDE DEF H
<1>3. Exprs \subseteq H
  BY <1>1, <1>2, ExprInduction
<1> QED BY <1>3 DEF H, Flat

(***************************************************************************)
(* Values of chains, where no symbol is m.                                 *)
(***************************************************************************)
UnitValue(op) == IF op = "or" THEN no ELSE yes
ZeroValue(op) == IF op = "or" THEN yes ELSE no

LEMMA TwoValuedIn == TwoValued \subseteq Valuations
BY DEF TwoValued

LEMMA TwoValuesLeaf ==
    ASSUME NEW v \in TwoValued, NEW e \in Leaves, e # SymE("m")
    PROVE  LeafValue(v, e) \in {no, yes}
<1>1. v \in Valuations /\ \A x \in Syms : v[x] # mod
  BY DEF TwoValued
<1>2. \A x \in Syms \union ConstSyms : v[x] \in Tristate
  BY <1>1 DEF Valuations
<1>3. CASE \E x \in Syms \union ConstSyms : e = SymE(x)
  <2>1. PICK x \in Syms \union ConstSyms : e = SymE(x)
    BY <1>3
  <2>2. LeafValue(v, e) = v[x] /\ x # "m"
    BY <2>1 DEF LeafValue, SymE
  <2>3. v["n"] = no /\ v["y"] = yes
    BY <1>1 DEF Valuations
  <2> QED BY <1>1, <1>2, <2>2, <2>3 DEF ConstSyms, Tristate
<1>4. CASE \E op \in Comparisons, x \in Syms \union ConstSyms, c \in ConstSyms : e = Cmp(op, x, c)
  BY <1>4 DEF LeafValue, Cmp, Comparisons
<1> QED BY <1>3, <1>4, LeafCases

LEMMA PlainForm ==
    ASSUME NEW e \in Plain
    PROVE  \/ e \in Leaves /\ e # SymE("m")
           \/ \E f \in Leaves : e = NotE(f) /\ f # SymE("m")
BY DEF Plain, Simple

LEMMA PlainLeaf ==
    ASSUME NEW e \in Leaves, e # SymE("m")
    PROVE  e \in Plain /\ NotE(e) \in Plain
<1>1. e.op # "not"
  BY LeafOps
<1>2. SymE("m").op = "sym" /\ NotE(e).op = "not" /\ NotE(SymE("m")).op = "not"
  BY DEF SymE, NotE
<1>3. NotE(e).a = e /\ NotE(SymE("m")).a = SymE("m")
  BY NotForm
<1> QED BY <1>1, <1>2, <1>3 DEF Plain, Simple

LEMMA PlainValue ==
    ASSUME NEW v \in TwoValued, NEW e \in Plain
    PROVE  e \in Exprs /\ Value(v, e) = SimpleValue(v, e) /\ Value(v, e) \in {no, yes}
<1>1. v \in Valuations
  BY TwoValuedIn
<1>2. e \in Simple
  BY DEF Plain
<1>3. e \in Exprs /\ Value(v, e) = SimpleValue(v, e)
  BY <1>1, <1>2, ValueSimple
<1>4. CASE e \in Leaves /\ e # SymE("m")
  BY <1>3, <1>4, TwoValuesLeaf, LeafOps DEF SimpleValue
<1>5. CASE \E f \in Leaves : e = NotE(f) /\ f # SymE("m")
  <2>1. PICK f \in Leaves : e = NotE(f) /\ f # SymE("m")
    BY <1>5
  <2>2. SimpleValue(v, e) = NotT(LeafValue(v, f))
    BY <2>1, NotForm DEF SimpleValue
  <2>3. LeafValue(v, f) \in {no, yes}
    BY <2>1, TwoValuesLeaf
  <2> QED BY <1>3, <2>2, <2>3 DEF NotT, no, yes
<1> QED BY <1>3, <1>4, <1>5, PlainForm

LEMMA FlatTwo ==
    ASSUME NEW v \in Valuations, NEW e \in Flat, e.op \in Chains
    PROVE  Value(v, e) = IF e.op = "and" THEN AndT(Value(v, e.a), Value(v, e.b)) ELSE OrT(Value(v, e.a), Value(v, e.b))
<1>1. e \in Exprs /\ e = Two(e.op, e.a, e.b)
  BY FlatParts
<1> QED BY <1>1, ValueTwo

LEMMA FlatValue ==
    ASSUME NEW v \in TwoValued
    PROVE  \A e \in Flat : Value(v, e) \in {no, yes}
<1> DEFINE G == {e \in Flat : Value(v, e) \in {no, yes}}
<1>1. v \in Valuations
  BY TwoValuedIn
<1>2. ASSUME NEW e \in Flat, e.op \notin Chains
      PROVE  e \in G
  BY <1>2, FlatParts, PlainValue
<1>3. ASSUME NEW e \in Flat, e.op \in Chains, e.a \in G, e.b \in G
      PROVE  e \in G
  BY <1>1, <1>3, FlatTwo DEF AndT, OrT, no, yes
<1> HIDE DEF G
<1>4. Flat \subseteq G
  BY <1>2, <1>3, FlatInduction
<1> QED BY <1>4 DEF G

\* A chain leaves its other operand alone when one operand is its unit.
LEMMA TwoUnit ==
    ASSUME NEW op \in Chains, NEW a \in Tristate, NEW b \in Tristate
    PROVE  LET c == IF op = "and" THEN AndT(a, b) ELSE OrT(a, b)
           IN  c = UnitValue(op) <=> a = UnitValue(op) /\ b = UnitValue(op)
BY DEF Chains, Tristate, AndT, OrT, UnitValue, no, mod, yes

\* A chain has its unit for value when all of its operands have.
LEMMA FilledValue ==
    ASSUME NEW v \in Valuations, NEW op \in Chains, NEW xs
    PROVE  \A e \in Exprs : \A k \in Nat : Filled(op, xs, e, k) \in Flat =>
             (Value(v, Filled(op, xs, e, k)) = UnitValue(op)
                <=> \A i \in Span(op, e, k) : Value(v, xs[i]) = UnitValue(op))
<1> DEFINE R(e, k) == Value(v, Filled(op, xs, e, k)) = UnitValue(op)
                        <=> \A i \in Span(op, e, k) : Value(v, xs[i]) = UnitValue(op)
           G == {e \in Exprs : \A k \in Nat : Filled(op, xs, e, k) \in Flat => R(e, k)}
<1>1. ASSUME NEW e \in Exprs, e.op # op
      PROVE  e \in G
  BY <1>1, SpanSingle, FilledSingle
<1>2. ASSUME NEW e \in Exprs, e.op = op, e.a \in G, e.b \in G
      PROVE  e \in G
  <2>1. SUFFICES ASSUME NEW k \in Nat, Filled(op, xs, e, k) \in Flat
                 PROVE  R(e, k)
    OBVIOUS
  <2>2. PICK l : l = k + Count(op, e.a)
    OBVIOUS
  <2>3. l \in Nat /\ Span(op, e, k) = Span(op, e.a, k) \union Span(op, e.b, l)
    BY <1>2, <2>2, SpanTwo
  <2>4. PICK w, p, q : w = Filled(op, xs, e, k) /\ p = Filled(op, xs, e.a, k) /\ q = Filled(op, xs, e.b, l)
    OBVIOUS
  <2>5. w = Two(op, p, q)
    BY <1>2, <2>2, <2>4, FilledTwo
  <2>6. w.op = op /\ w.a = p /\ w.b = q
    BY <2>5, TwoForm
  <2>7. w \in Flat /\ p \in Flat /\ q \in Flat
    BY <2>1, <2>4, <2>6, FlatParts
  <2>8. Value(v, p) \in Tristate /\ Value(v, q) \in Tristate
    BY <2>7, FlatParts, ValueType
  <2>9. Value(v, w) = IF op = "and" THEN AndT(Value(v, p), Value(v, q)) ELSE OrT(Value(v, p), Value(v, q))
    BY <2>6, <2>7, FlatTwo
  <2>10. Value(v, w) = UnitValue(op) <=> Value(v, p) = UnitValue(op) /\ Value(v, q) = UnitValue(op)
    BY <2>8, <2>9, TwoUnit
  <2>11. R(e.a, k) /\ R(e.b, l)
    BY <1>2, <2>3, <2>4, <2>7
  <2> QED BY <2>3, <2>4, <2>10, <2>11
<1> HIDE DEF G
<1>3. Exprs \subseteq G
  BY <1>1, <1>2, ExprInduction
<1> QED BY <1>3 DEF G

\* Without m, a chain keeps its value when the same operands are its unit.
LEMMA FilledKeeps ==
    ASSUME NEW v \in TwoValued, NEW op \in Chains, NEW xs, NEW ys, NEW e \in Exprs, NEW k \in Nat,
           Filled(op, xs, e, k) \in Flat, Filled(op, ys, e, k) \in Flat,
           (\A i \in Span(op, e, k) : Value(v, xs[i]) = UnitValue(op))
             <=> (\A i \in Span(op, e, k) : Value(v, ys[i]) = UnitValue(op))
    PROVE  Value(v, Filled(op, xs, e, k)) = Value(v, Filled(op, ys, e, k))
<1>1. v \in Valuations
  BY TwoValuedIn
<1>2. PICK p, q : p = Value(v, Filled(op, xs, e, k)) /\ q = Value(v, Filled(op, ys, e, k))
  OBVIOUS
<1>3. p \in {no, yes} /\ q \in {no, yes}
  BY <1>2, FlatValue
<1>4. p = UnitValue(op) <=> q = UnitValue(op)
  BY <1>1, <1>2, FilledValue
<1> QED BY <1>2, <1>3, <1>4 DEF UnitValue, no, yes

LEMMA UnitPlain ==
    ASSUME NEW op \in Chains
    PROVE  /\ SymE(Unit(op)) \in Plain /\ SymE(Zero(op)) \in Plain
           /\ \A v \in Valuations : /\ Value(v, SymE(Unit(op))) = UnitValue(op)
                                    /\ Value(v, SymE(Zero(op))) = ZeroValue(op)
           /\ UnitValue(op) # ZeroValue(op)
<1>1. Unit(op) \in {"n", "y"} /\ Zero(op) \in {"n", "y"}
  BY DEF Unit, Zero
<1>2. \A c \in {"n", "y"} : SymE(c) \in Leaves /\ SymE(c) # SymE("m")
  BY DEF Leaves, ConstSyms, SymE
<1>3. \A v \in Valuations, c \in {"n", "y"} : Value(v, SymE(c)) = v[c]
  BY <1>2, ValueLeaf DEF LeafValue, SymE
<1>4. \A v \in Valuations : v["n"] = no /\ v["y"] = yes
  BY DEF Valuations
<1>5. \A v \in Valuations : v[Unit(op)] = UnitValue(op) /\ v[Zero(op)] = ZeroValue(op)
  BY <1>4 DEF Unit, Zero, UnitValue, ZeroValue
<1> QED BY <1>1, <1>2, <1>3, <1>5, PlainLeaf DEF UnitValue, ZeroValue, no, yes

(***************************************************************************)
(* expr_eliminate_yn.                                                      *)
(***************************************************************************)
Trees == UNION {Tree[n] : n \in Nat}

LEMMA TreesClosed ==
    /\ Exprs \subseteq Trees
    /\ \A e \in Trees : NotE(e) \in Trees
    /\ \A e \in Trees, f \in Trees, op \in Chains : Two(op, e, f) \in Trees
<1>1. Exprs \subseteq Trees
  BY DepthNat DEF Exprs, Trees
<1>2. ASSUME NEW e \in Trees
      PROVE  NotE(e) \in Trees
  <2>1. PICK n \in Nat : e \in Tree[n]
    BY DEF Trees
  <2>2. n + 1 \in Nat /\ NotE(e) \in Tree[n + 1]
    BY <2>1, NotInTree
  <2> QED BY <2>2 DEF Trees
<1>3. ASSUME NEW e \in Trees, NEW f \in Trees, NEW op \in Chains
      PROVE  Two(op, e, f) \in Trees
  <2>1. PICK m \in Nat, n \in Nat : e \in Tree[m] /\ f \in Tree[n]
    BY DEF Trees
  <2>2. PICK k \in Nat : m <= k /\ n <= k
    <3>1. m <= m + n /\ n <= m + n /\ m + n \in Nat
      OBVIOUS
    <3> QED BY <3>1
  <2>3. e \in Tree[k] /\ f \in Tree[k]
    BY <2>1, <2>2, TreeSubset
  <2>4. k + 1 \in Nat /\ Two(op, e, f) \in Tree[k + 1]
    BY <2>3, TwoInTree
  <2> QED BY <2>4 DEF Trees
<1> QED BY <1>1, <1>2, <1>3

YnLeft(op, f, g) == IF IsConst(f, Zero(op)) \/ IsConst(g, Zero(op)) THEN SymE(Zero(op))
                    ELSE IF IsConst(f, Unit(op)) THEN g
                    ELSE IF IsConst(g, Unit(op)) THEN f
                    ELSE Two(op, f, g)

ElimYnBody(g, e) == IF e.op \notin Chains THEN e ELSE YnLeft(e.op, g[e.a], g[e.b])

LEMMA ElimYnExists ==
    \E g : g = [e \in Exprs |-> ElimYnBody(g, e)]
<1> DEFINE L == [e \in Leaves |-> e]
           N == [e \in Tree[Depth] |-> [x \in Trees |-> e]]
           Y(e, x, y) == IF e.op \in Chains THEN YnLeft(e.op, x, y) ELSE e
           C == [e \in Tree[Depth] |-> [x \in Trees |-> [y \in Trees |-> Y(e, x, y)]]]
<1>1. Exprs \subseteq Trees /\ Leaves \subseteq Trees /\ Tree[Depth] \subseteq Trees
  BY TreesClosed, LeavesInTree, DepthNat DEF Exprs
<1>2. L \in [Leaves -> Trees] /\ N \in [Tree[Depth] -> [Trees -> Trees]]
  BY <1>1
<1>3. ASSUME NEW e \in Tree[Depth], NEW x \in Trees, NEW y \in Trees
      PROVE  Y(e, x, y) \in Trees
  <2>1. CASE e.op \in Chains
    <3>1. SymE(Zero(e.op)) \in Simple
      BY <2>1, UnitPlain DEF Plain
    <3>2. SymE(Zero(e.op)) \in Trees
      BY <1>1, <3>1, SimpleInTree, DepthNat
    <3>3. Two(e.op, x, y) \in Trees
      BY <2>1, TreesClosed
    <3> QED BY <2>1, <3>2, <3>3 DEF YnLeft
  <2> QED BY <1>1, <2>1
<1> HIDE DEF Y
<1>4. C \in [Tree[Depth] -> [Trees -> [Trees -> Trees]]]
  BY <1>3
<1>5. /\ \A e \in Leaves : L[e] = e
      /\ \A e \in Tree[Depth], x \in Trees : N[e][x] = e
      /\ \A e \in Tree[Depth], x \in Trees, y \in Trees : C[e][x][y] = Y(e, x, y)
  OBVIOUS
<1> HIDE DEF L, N, C
<1>6. PICK g : IsFold(g, Depth, L, N, C)
  BY FoldExists, DepthNat
<1>7. \A e \in Tree[Depth] : g[e] \in Trees
  BY <1>2, <1>4, <1>6, DepthNat, FoldRange
<1>8. ASSUME NEW e \in Exprs
      PROVE  FoldOf(g, e, L, N, C) = ElimYnBody(g, e)
  <2>1. CASE e \in Leaves
    BY <2>1, <1>5, LeafOps DEF FoldOf, ElimYnBody
  <2>2. CASE e.op = "not" /\ e.a \in Exprs
    BY <2>2, <1>5, <1>7, NotNotChain DEF FoldOf, Exprs, ElimYnBody
  <2>3. CASE e.op \in Chains /\ e.a \in Exprs /\ e.b \in Exprs
    BY <2>3, <1>5, <1>7 DEF FoldOf, Exprs, ElimYnBody, Y
  <2> QED BY <2>1, <2>2, <2>3, Form, DepthNat DEF Exprs
<1>9. g = [e \in Exprs |-> ElimYnBody(g, e)]
  <2>1. g = [e \in Exprs |-> FoldOf(g, e, L, N, C)]
    BY <1>6 DEF IsFold, Exprs
  <2> QED BY <2>1, <1>8
<1> QED BY <1>9

LEMMA ElimYnRecursion ==
    \A e \in Exprs : ElimYn[e] = IF e.op \notin Chains THEN e ELSE YnLeft(e.op, ElimYn[e.a], ElimYn[e.b])
<1>1. \E g : g = [e \in Exprs |-> ElimYnBody(g, e)]
  BY ElimYnExists
<1>2. ElimYn = [e \in Exprs |-> ElimYnBody(ElimYn, e)]
  BY <1>1 DEF ElimYn, ElimYnBody, YnLeft
<1> QED BY <1>2 DEF ElimYnBody

LEMMA ConstValue ==
    ASSUME NEW v \in Valuations, NEW e \in Flat, NEW c \in {"n", "y"}, IsConst(e, c)
    PROVE  Value(v, e) = v[c]
<1>1. e.op = "sym" /\ e.s = c
  BY DEF IsConst
<1>2. e \in Simple
  BY <1>1, FlatParts DEF Chains, Plain
<1>3. Value(v, e) = SimpleValue(v, e)
  BY <1>2, ValueSimple
<1> QED BY <1>1, <1>2, <1>3, SymShape

LEMMA YnLeftSound ==
    ASSUME NEW op \in Chains, NEW f \in Flat, NEW g \in Flat, Width[f] + Width[g] <= Depth
    PROVE  /\ YnLeft(op, f, g) \in Flat /\ Width[YnLeft(op, f, g)] <= Width[f] + Width[g]
           /\ \A v \in Valuations : Value(v, YnLeft(op, f, g)) =
                 IF op = "and" THEN AndT(Value(v, f), Value(v, g)) ELSE OrT(Value(v, f), Value(v, g))
<1>1. Depth >= 1 /\ Width[f] \in Nat /\ Width[f] >= 1 /\ Width[g] \in Nat /\ Width[g] >= 1
  BY FlatParts, DepthNat
<1>2. SymE(Zero(op)) \in Flat /\ Width[SymE(Zero(op))] = 1
  BY <1>1, UnitPlain, PlainFlat
<1>3. PICK w : w = Two(op, f, g)
  OBVIOUS
<1>4. w \in Flat /\ Width[w] = Width[f] + Width[g]
  BY <1>3, TwoFlat
<1>5. YnLeft(op, f, g) \in Flat /\ Width[YnLeft(op, f, g)] <= Width[f] + Width[g]
  <2>1. YnLeft(op, f, g) \in {SymE(Zero(op)), f, g, w}
    BY <1>3 DEF YnLeft
  <2> QED BY <2>1, <1>1, <1>2, <1>4
<1>6. ASSUME NEW v \in Valuations
      PROVE  Value(v, YnLeft(op, f, g)) =
                 IF op = "and" THEN AndT(Value(v, f), Value(v, g)) ELSE OrT(Value(v, f), Value(v, g))
  <2>1. Value(v, f) \in Tristate /\ Value(v, g) \in Tristate
    BY FlatParts, ValueType
  <2>2. v["n"] = no /\ v["y"] = yes
    BY DEF Valuations
  <2>3. Unit(op) \in {"n", "y"} /\ Zero(op) \in {"n", "y"}
    BY DEF Unit, Zero
  <2>4. v[Unit(op)] = UnitValue(op) /\ v[Zero(op)] = ZeroValue(op)
    BY <2>2 DEF Unit, Zero, UnitValue, ZeroValue
  <2>5. /\ IsConst(f, Unit(op)) => Value(v, f) = UnitValue(op)
        /\ IsConst(g, Unit(op)) => Value(v, g) = UnitValue(op)
        /\ IsConst(f, Zero(op)) => Value(v, f) = ZeroValue(op)
        /\ IsConst(g, Zero(op)) => Value(v, g) = ZeroValue(op)
    BY <2>3, <2>4, ConstValue
  <2>6. Value(v, SymE(Zero(op))) = ZeroValue(op)
    BY UnitPlain
  <2>7. Value(v, w) = IF op = "and" THEN AndT(Value(v, f), Value(v, g)) ELSE OrT(Value(v, f), Value(v, g))
    BY <1>3, <1>4, FlatParts, ValueTwo
  <2>8. CASE IsConst(f, Zero(op)) \/ IsConst(g, Zero(op))
    <3>1. YnLeft(op, f, g) = SymE(Zero(op))
      BY <2>8 DEF YnLeft
    <3> QED BY <2>1, <2>5, <2>6, <2>8, <3>1 DEF ZeroValue, AndT, OrT, Tristate, Chains, no, mod, yes
  <2>9. CASE ~(IsConst(f, Zero(op)) \/ IsConst(g, Zero(op))) /\ IsConst(f, Unit(op))
    <3>1. YnLeft(op, f, g) = g
      BY <2>9 DEF YnLeft
    <3> QED BY <2>1, <2>5, <2>9, <3>1 DEF UnitValue, AndT, OrT, Tristate, Chains, no, mod, yes
  <2>10. CASE ~(IsConst(f, Zero(op)) \/ IsConst(g, Zero(op))) /\ ~IsConst(f, Unit(op)) /\ IsConst(g, Unit(op))
    <3>1. YnLeft(op, f, g) = f
      BY <2>10 DEF YnLeft
    <3> QED BY <2>1, <2>5, <2>10, <3>1 DEF UnitValue, AndT, OrT, Tristate, Chains, no, mod, yes
  <2>11. CASE ~(IsConst(f, Zero(op)) \/ IsConst(g, Zero(op))) /\ ~IsConst(f, Unit(op)) /\ ~IsConst(g, Unit(op))
    <3>1. YnLeft(op, f, g) = w
      BY <1>3, <2>11 DEF YnLeft
    <3> QED BY <2>7, <3>1
  <2> QED BY <2>8, <2>9, <2>10, <2>11
<1> QED BY <1>5, <1>6

\* expr_eliminate_yn (expr.c:236) keeps the value, whatever the symbols hold, and
\* leaves no more operands than there were.
THEOREM ElimYnSound ==
    \A e \in Flat : /\ ElimYn[e] \in Flat /\ Width[ElimYn[e]] <= Width[e]
                    /\ \A v \in Valuations : Value(v, ElimYn[e]) = Value(v, e)
<1> DEFINE G == {e \in Flat : /\ ElimYn[e] \in Flat /\ Width[ElimYn[e]] <= Width[e]
                              /\ \A v \in Valuations : Value(v, ElimYn[e]) = Value(v, e)}
<1>1. ASSUME NEW e \in Flat, e.op \notin Chains
      PROVE  e \in G
  <2>1. ElimYn[e] = e /\ Width[e] <= Width[e]
    BY <1>1, ElimYnRecursion, FlatParts
  <2> QED BY <2>1
<1>2. ASSUME NEW e \in Flat, e.op \in Chains, e.a \in G, e.b \in G
      PROVE  e \in G
  <2>1. PICK f, g : f = ElimYn[e.a] /\ g = ElimYn[e.b]
    OBVIOUS
  <2>2. /\ f \in Flat /\ Width[f] <= Width[e.a] /\ g \in Flat /\ Width[g] <= Width[e.b]
        /\ \A v \in Valuations : Value(v, f) = Value(v, e.a) /\ Value(v, g) = Value(v, e.b)
    BY <1>2, <2>1
  <2>3. /\ e \in Exprs /\ e.a \in Flat /\ e.b \in Flat /\ Width[e] = Width[e.a] + Width[e.b]
        /\ Width[e] <= Depth
    BY <1>2, FlatParts
  <2>4. Width[e.a] \in Nat /\ Width[e.b] \in Nat /\ Width[f] \in Nat /\ Width[g] \in Nat
    BY <2>2, <2>3, FlatParts
  <2>5. Width[f] + Width[g] <= Width[e] /\ Width[f] + Width[g] <= Depth
    BY <2>2, <2>3, <2>4, DepthNat
  <2>6. ElimYn[e] = YnLeft(e.op, f, g)
    BY <1>2, <2>1, <2>3, ElimYnRecursion
  <2>7. YnLeft(e.op, f, g) \in Flat /\ Width[YnLeft(e.op, f, g)] <= Width[f] + Width[g]
    BY <1>2, <2>2, <2>5, YnLeftSound
  <2>8. Width[YnLeft(e.op, f, g)] \in Nat /\ Width[e] \in Nat
    BY <2>7, FlatParts
  <2>9. Width[YnLeft(e.op, f, g)] <= Width[e]
    BY <2>4, <2>5, <2>7, <2>8
  <2>10. ASSUME NEW v \in Valuations
         PROVE  Value(v, YnLeft(e.op, f, g)) = Value(v, e)
    <3>1. Value(v, YnLeft(e.op, f, g)) = IF e.op = "and" THEN AndT(Value(v, f), Value(v, g))
                                         ELSE OrT(Value(v, f), Value(v, g))
      BY <1>2, <2>2, <2>5, YnLeftSound
    <3>2. Value(v, e) = IF e.op = "and" THEN AndT(Value(v, e.a), Value(v, e.b))
                        ELSE OrT(Value(v, e.a), Value(v, e.b))
      BY <1>2, FlatTwo
    <3> QED BY <2>2, <3>1, <3>2
  <2> QED BY <1>2, <2>6, <2>7, <2>9, <2>10
<1> HIDE DEF G
<1>3. Flat \subseteq G
  BY <1>1, <1>2, FlatInduction
<1> QED BY <1>3 DEF G

(***************************************************************************)
(* Striking out of two chains.                                             *)
(***************************************************************************)
\* xs may stand for the operands of the chain of op at e.
Fits(op, e, xs) == /\ xs \in Seq(Exprs) /\ Len(xs) = Count(op, e)
                   /\ Filled(op, xs, e, 1) \in Flat

LEMMA SpanAll ==
    ASSUME NEW op \in Chains, NEW e \in Exprs
    PROVE  Span(op, e, 1) = 1..Count(op, e) /\ Count(op, e) \in Nat
<1>1. Count(op, e) \in Nat
  BY OperandsType
<1>2. \A n \in Nat : 1 + n - 1 = n
  OBVIOUS
<1> QED BY <1>1, <1>2 DEF Span

LEMMA FitsOwn ==
    ASSUME NEW op \in Chains, NEW e \in Flat
    PROVE  Fits(op, e, Operands[e][op]) /\ Filled(op, Operands[e][op], e, 1) = e
<1>1. e \in Exprs
  BY DEF Flat
<1>2. Operands[e][op] \in Seq(Exprs)
  BY <1>1, OperandsType
<1>3. Filled(op, Operands[e][op], e, 1) = e
  BY <1>1, FilledSame
<1> QED BY <1>2, <1>3 DEF Fits, Count

LEMMA FitsOperand ==
    ASSUME NEW op \in Chains, NEW e \in Exprs, NEW xs, Fits(op, e, xs), NEW i \in 1..Count(op, e)
    PROVE  xs[i] \in Flat /\ Width[xs[i]] <= Width[Filled(op, xs, e, 1)]
BY SpanAll, FilledOperand DEF Fits

\* The operands with x for the one at i.
With(xs, i, x) == [xs EXCEPT ![i] = x]

LEMMA FitsUpdate ==
    ASSUME NEW op \in Chains, NEW e \in Exprs, NEW xs, Fits(op, e, xs), NEW i \in 1..Count(op, e), NEW x \in Flat,
           Width[Filled(op, xs, e, 1)] + Width[x] <= Depth + Width[xs[i]], NEW ys, ys = With(xs, i, x)
    PROVE  /\ Fits(op, e, ys)
           /\ Width[Filled(op, ys, e, 1)] + Width[xs[i]] = Width[Filled(op, xs, e, 1)] + Width[x]
           /\ \A j \in 1..Count(op, e) : ys[j] = IF j = i THEN x ELSE xs[j]
<1>1. x \in Exprs /\ xs \in Seq(Exprs) /\ Len(xs) = Count(op, e)
  BY DEF Flat, Fits
<1>2. /\ ys \in Seq(Exprs) /\ Len(ys) = Len(xs)
      /\ \A j \in 1..Len(xs) : ys[j] = IF j = i THEN x ELSE xs[j]
  BY <1>1, ExceptSeq DEF With
<1>3. Changed(xs, ys, i, x, Span(op, e, 1)) /\ i \in Span(op, e, 1)
  BY <1>1, <1>2, SpanAll DEF Changed
<1>4. /\ Filled(op, ys, e, 1) \in Flat
      /\ Width[Filled(op, ys, e, 1)] + Width[xs[i]] = Width[Filled(op, xs, e, 1)] + Width[x]
  BY <1>3, FilledUpdate DEF Fits
<1>5. Fits(op, e, ys)
  BY <1>1, <1>2, <1>4 DEF Fits
<1>6. \A j \in 1..Count(op, e) : ys[j] = IF j = i THEN x ELSE xs[j]
  BY <1>1, <1>2
<1> QED BY <1>4, <1>5, <1>6

LEMMA FitsKeeps ==
    ASSUME NEW v \in TwoValued, NEW op \in Chains, NEW e \in Exprs, NEW xs, NEW ys, Fits(op, e, xs), Fits(op, e, ys),
           (\A i \in 1..Count(op, e) : Value(v, xs[i]) = UnitValue(op))
             <=> (\A i \in 1..Count(op, e) : Value(v, ys[i]) = UnitValue(op))
    PROVE  Value(v, Filled(op, xs, e, 1)) = Value(v, Filled(op, ys, e, 1))
<1>1. Span(op, e, 1) = 1..Count(op, e)
  BY SpanAll
<1>2. (\A i \in Span(op, e, 1) : Value(v, xs[i]) = UnitValue(op))
        <=> (\A i \in Span(op, e, 1) : Value(v, ys[i]) = UnitValue(op))
  BY <1>1
<1>3. Filled(op, xs, e, 1) \in Flat /\ Filled(op, ys, e, 1) \in Flat /\ 1 \in Nat
  BY DEF Fits
<1> QED BY <1>2, <1>3, FilledKeeps

LEMMA FitsValue ==
    ASSUME NEW v \in Valuations, NEW op \in Chains, NEW e \in Exprs, NEW xs, Fits(op, e, xs)
    PROVE  Value(v, Filled(op, xs, e, 1)) = UnitValue(op)
             <=> \A i \in 1..Count(op, e) : Value(v, xs[i]) = UnitValue(op)
BY SpanAll, FilledValue DEF Fits

\* An operand that is replaced by the unit leaves a chain that is no wider.
LEMMA FitsUnit ==
    ASSUME NEW op \in Chains, NEW e \in Exprs, NEW xs, Fits(op, e, xs), NEW i \in 1..Count(op, e),
           NEW c \in {SymE(Unit(op)), SymE(Zero(op))}, NEW ys, ys = With(xs, i, c)
    PROVE  /\ Fits(op, e, ys)
           /\ Width[Filled(op, ys, e, 1)] + Width[xs[i]] = Width[Filled(op, xs, e, 1)] + 1
           /\ Width[Filled(op, ys, e, 1)] <= Width[Filled(op, xs, e, 1)]
           /\ \A j \in 1..Count(op, e) : ys[j] = IF j = i THEN c ELSE xs[j]
<1>1. xs[i] \in Flat /\ Filled(op, xs, e, 1) \in Flat
  BY FitsOperand DEF Fits
<1>2. /\ Width[xs[i]] \in Nat /\ Width[xs[i]] >= 1
      /\ Width[Filled(op, xs, e, 1)] \in Nat /\ Width[Filled(op, xs, e, 1)] <= Depth
  BY <1>1, FlatParts
<1>3. Depth >= 1
  BY <1>1, FlatParts, DepthNat
<1>4. c \in Flat /\ Width[c] = 1
  BY <1>3, UnitPlain, PlainFlat
<1>5. Width[Filled(op, xs, e, 1)] + Width[c] <= Depth + Width[xs[i]]
  BY <1>2, <1>4, DepthNat
<1>6. /\ Fits(op, e, ys)
      /\ Width[Filled(op, ys, e, 1)] + Width[xs[i]] = Width[Filled(op, xs, e, 1)] + Width[c]
      /\ \A j \in 1..Count(op, e) : ys[j] = IF j = i THEN c ELSE xs[j]
  BY <1>4, <1>5, FitsUpdate
<1>7. Width[Filled(op, ys, e, 1)] \in Nat
  BY <1>6, FlatParts DEF Fits
<1>8. Width[Filled(op, ys, e, 1)] <= Width[Filled(op, xs, e, 1)]
  BY <1>2, <1>4, <1>6, <1>7
<1> QED BY <1>4, <1>6, <1>8

Equalities == [Flat -> [Flat -> BOOLEAN]]
\* What eq takes for equal has one value.
EqualUnder(v, eq) == \A e \in Flat, f \in Flat : eq[e][f] => Value(v, e) = Value(v, f)

\* No wider than t, and of the same two values where they differ.
Kept(eq, t, r) == /\ r.a \in Flat /\ Width[r.a] <= Width[t.a]
                  /\ r.b \in Flat /\ Width[r.b] <= Width[t.b]
                  /\ \A v \in TwoValued : EqualUnder(v, eq) /\ Value(v, t.a) # Value(v, t.b) =>
                        Value(v, r.a) = Value(v, t.a) /\ Value(v, r.b) = Value(v, t.b)

Replaced(op, u, i, j) == [xs |-> [u.xs EXCEPT ![i] = SymE(Unit(op))],
                          ys |-> [u.ys EXCEPT ![j] = SymE(Unit(op))], hit |-> TRUE]

\* Two operands of one value are struck out.
LEMMA StrikeOne ==
    ASSUME NEW v \in TwoValued, NEW op \in Chains, NEW e \in Exprs, NEW f \in Exprs, NEW xs, NEW ys,
           Fits(op, e, xs), Fits(op, f, ys), NEW i \in 1..Count(op, e), NEW j \in 1..Count(op, f),
           Value(v, xs[i]) = Value(v, ys[j]),
           Value(v, Filled(op, xs, e, 1)) # Value(v, Filled(op, ys, f, 1))
    PROVE  /\ Value(v, Filled(op, With(xs, i, SymE(Unit(op))), e, 1)) = Value(v, Filled(op, xs, e, 1))
           /\ Value(v, Filled(op, With(ys, j, SymE(Unit(op))), f, 1)) = Value(v, Filled(op, ys, f, 1))
<1>1. v \in Valuations
  BY TwoValuedIn
<1>2. Value(v, xs[i]) = UnitValue(op)
  <2>1. SUFFICES ASSUME Value(v, xs[i]) # UnitValue(op)
                 PROVE  FALSE
    OBVIOUS
  <2>2. PICK p, q : p = Value(v, Filled(op, xs, e, 1)) /\ q = Value(v, Filled(op, ys, f, 1))
    OBVIOUS
  <2>3. p # UnitValue(op) /\ q # UnitValue(op)
    BY <1>1, <2>1, <2>2, FitsValue
  <2>4. p \in {no, yes} /\ q \in {no, yes}
    BY <2>2, FlatValue DEF Fits
  <2>5. p = q
    BY <2>3, <2>4 DEF UnitValue
  <2> QED BY <2>2, <2>5
<1>3. Value(v, SymE(Unit(op))) = UnitValue(op)
  BY <1>1, UnitPlain
<1>4. PICK c : c = SymE(Unit(op))
  OBVIOUS
<1>5. Value(v, Filled(op, With(xs, i, c), e, 1)) = Value(v, Filled(op, xs, e, 1))
  <2> DEFINE zs == With(xs, i, c)
  <2>1. Fits(op, e, zs) /\ \A k \in 1..Count(op, e) : zs[k] = IF k = i THEN c ELSE xs[k]
    BY <1>4, FitsUnit
  <2> HIDE DEF zs
  <2>2. \A k \in 1..Count(op, e) : Value(v, zs[k]) = Value(v, xs[k])
    BY <1>2, <1>3, <1>4, <2>1
  <2>3. Value(v, Filled(op, zs, e, 1)) = Value(v, Filled(op, xs, e, 1))
    BY <2>1, <2>2, FitsKeeps
  <2> QED BY <2>3 DEF zs
<1>6. Value(v, Filled(op, With(ys, j, c), f, 1)) = Value(v, Filled(op, ys, f, 1))
  <2> DEFINE zs == With(ys, j, c)
  <2>1. Fits(op, f, zs) /\ \A k \in 1..Count(op, f) : zs[k] = IF k = j THEN c ELSE ys[k]
    BY <1>4, FitsUnit
  <2> HIDE DEF zs
  <2>2. \A k \in 1..Count(op, f) : Value(v, zs[k]) = Value(v, ys[k])
    BY <1>2, <1>3, <1>4, <2>1
  <2>3. Value(v, Filled(op, zs, f, 1)) = Value(v, Filled(op, ys, f, 1))
    BY <2>1, <2>2, FitsKeeps
  <2> QED BY <2>3 DEF zs
<1> QED BY <1>4, <1>5, <1>6

LEMMA PairForm ==
    ASSUME NEW e, NEW f
    PROVE  Pair(e, f).a = e /\ Pair(e, f).b = f
BY DEF Pair

LEMMA StruckSound ==
    ASSUME NEW eq \in Equalities, NEW op \in Chains, NEW t, t.a \in Flat, t.b \in Flat, NEW consts \in BOOLEAN
    PROVE  Kept(eq, t, Struck(eq, op, t, consts).t)
<1> DEFINE m == Count(op, t.a)
           n == Count(op, t.b)
           Shared(u, i, j) == /\ eq[u.xs[i]][u.ys[j]]
                              /\ consts \/ ~(u.xs[i] = u.ys[j] /\ u.xs[i] \in {SymE("y"), SymE("n")})
           strike == [i \in 1..m |-> [j \in 1..n |-> [u \in Twins |->
                       IF ~Shared(u, i, j) THEN u ELSE Replaced(op, u, i, j)]]]
           u0 == [xs |-> Operands[t.a][op], ys |-> Operands[t.b][op], hit |-> FALSE]
           last == Pairwise(Twins, m, n, strike, u0)
           A(u) == Filled(op, u.xs, t.a, 1)
           B(u) == Filled(op, u.ys, t.b, 1)
           K == {v \in TwoValued : EqualUnder(v, eq) /\ Value(v, t.a) # Value(v, t.b)}
           Good == {u \in Twins : /\ Fits(op, t.a, u.xs) /\ Width[A(u)] <= Width[t.a]
                                  /\ Fits(op, t.b, u.ys) /\ Width[B(u)] <= Width[t.b]
                                  /\ \A v \in K : Value(v, A(u)) = Value(v, t.a) /\ Value(v, B(u)) = Value(v, t.b)}
<1>1. Struck(eq, op, t, consts).t = Pair(A(last), B(last))
  BY DEF Struck, Replaced
<1>2. t.a \in Exprs /\ t.b \in Exprs /\ m \in Nat /\ n \in Nat
  BY OperandsType DEF Flat
<1>3. Good \subseteq Twins
  OBVIOUS
<1>4. u0 \in Good
  <2>1. /\ Fits(op, t.a, u0.xs) /\ A(u0) = t.a
        /\ Fits(op, t.b, u0.ys) /\ B(u0) = t.b
    BY FitsOwn
  <2>2. u0 \in Twins
    BY <1>2, OperandsType DEF Twins
  <2>3. Width[t.a] <= Width[t.a] /\ Width[t.b] <= Width[t.b]
    BY FlatParts
  <2> HIDE DEF u0
  <2> QED BY <2>1, <2>2, <2>3
<1>5. \A i \in 1..m, j \in 1..n, u \in Twins : strike[i][j][u] = IF ~Shared(u, i, j) THEN u ELSE Replaced(op, u, i, j)
  OBVIOUS
<1> HIDE DEF strike, u0
<1>6. ASSUME NEW i \in 1..m, NEW j \in 1..n, NEW u \in Good, Shared(u, i, j)
      PROVE  Replaced(op, u, i, j) \in Good
  <2>1. PICK c : c = SymE(Unit(op))
    OBVIOUS
  <2>2. PICK w : w = Replaced(op, u, i, j)
    OBVIOUS
  <2>3. w = [xs |-> [u.xs EXCEPT ![i] = c], ys |-> [u.ys EXCEPT ![j] = c], hit |-> TRUE]
    BY <2>1, <2>2 DEF Replaced
  <2>4. w.xs = With(u.xs, i, c) /\ w.ys = With(u.ys, j, c)
    BY <2>3 DEF With
  <2>5. /\ Fits(op, t.a, u.xs) /\ Width[A(u)] <= Width[t.a]
        /\ Fits(op, t.b, u.ys) /\ Width[B(u)] <= Width[t.b]
        /\ \A v \in K : Value(v, A(u)) = Value(v, t.a) /\ Value(v, B(u)) = Value(v, t.b)
    OBVIOUS
  <2>6. Fits(op, t.a, w.xs) /\ Width[A(w)] <= Width[A(u)]
    BY <1>2, <2>1, <2>4, <2>5, FitsUnit
  <2>7. Fits(op, t.b, w.ys) /\ Width[B(w)] <= Width[B(u)]
    BY <1>2, <2>1, <2>4, <2>5, FitsUnit
  <2>8. w \in Twins
    BY <2>3, <2>4, <2>6, <2>7 DEF Fits, Twins
  <2>9. Width[A(w)] <= Width[t.a] /\ Width[B(w)] <= Width[t.b]
    <3>1. A(w) \in Flat /\ A(u) \in Flat /\ B(w) \in Flat /\ B(u) \in Flat
      BY <2>5, <2>6, <2>7 DEF Fits
    <3>2. /\ Width[A(w)] \in Nat /\ Width[A(u)] \in Nat /\ Width[t.a] \in Nat
          /\ Width[B(w)] \in Nat /\ Width[B(u)] \in Nat /\ Width[t.b] \in Nat
      BY <3>1, FlatParts
    <3> HIDE DEF A, B
    <3> QED BY <2>5, <2>6, <2>7, <3>2
  <2>10. ASSUME NEW v \in K
         PROVE  Value(v, A(w)) = Value(v, t.a) /\ Value(v, B(w)) = Value(v, t.b)
    <3>1. v \in TwoValued /\ EqualUnder(v, eq) /\ Value(v, t.a) # Value(v, t.b)
      OBVIOUS
    <3>2. Value(v, A(u)) = Value(v, t.a) /\ Value(v, B(u)) = Value(v, t.b)
      BY <2>5
    <3>3. u.xs[i] \in Flat /\ u.ys[j] \in Flat
      BY <1>2, <2>5, FitsOperand
    <3>4. eq[u.xs[i]][u.ys[j]]
      BY <1>6
    <3>5. Value(v, u.xs[i]) = Value(v, u.ys[j])
      BY <3>1, <3>3, <3>4 DEF EqualUnder
    <3>6. Value(v, Filled(op, u.xs, t.a, 1)) # Value(v, Filled(op, u.ys, t.b, 1))
      BY <3>1, <3>2
    <3>7. Value(v, A(w)) = Value(v, A(u)) /\ Value(v, B(w)) = Value(v, B(u))
      BY <1>2, <2>1, <2>4, <2>5, <3>1, <3>5, <3>6, StrikeOne
    <3> QED BY <3>2, <3>7
  <2>11. w \in Good
    BY <2>6, <2>7, <2>8, <2>9, <2>10
  <2> QED BY <2>2, <2>11
<1>7. ASSUME NEW i \in 1..m, NEW j \in 1..n, NEW u \in Good
      PROVE  strike[i][j][u] \in Good
  <2>1. u \in Twins
    BY <1>3
  <2> HIDE DEF Good, Shared
  <2> QED BY <1>5, <1>6, <2>1
<1>8. last \in Good
  <2> HIDE DEF Good
  <2> QED BY <1>2, <1>3, <1>4, <1>7, PairInvariant
<1> HIDE DEF last
<1>9. Struck(eq, op, t, consts).t.a = A(last) /\ Struck(eq, op, t, consts).t.b = B(last)
  BY <1>1, PairForm
<1> QED BY <1>8, <1>9 DEF Kept, Fits

(***************************************************************************)
(* expr_eliminate_eq and expr_eq.                                          *)
(***************************************************************************)
LEMMA KeptSelf ==
    ASSUME NEW eq, NEW t, t.a \in Flat, t.b \in Flat
    PROVE  Kept(eq, t, t)
BY FlatParts DEF Kept

LEMMA KeptAgain ==
    ASSUME NEW eq, NEW t, NEW r, NEW s, t.a \in Flat, t.b \in Flat, Kept(eq, t, r), Kept(eq, r, s)
    PROVE  Kept(eq, t, s)
<1>1. r.a \in Flat /\ r.b \in Flat /\ s.a \in Flat /\ s.b \in Flat
  BY DEF Kept
<1>2. /\ Width[t.a] \in Nat /\ Width[t.b] \in Nat /\ Width[r.a] \in Nat /\ Width[r.b] \in Nat
      /\ Width[s.a] \in Nat /\ Width[s.b] \in Nat
  BY <1>1, FlatParts
<1>3. Width[s.a] <= Width[t.a] /\ Width[s.b] <= Width[t.b]
  BY <1>2 DEF Kept
<1>4. ASSUME NEW v \in TwoValued, EqualUnder(v, eq), Value(v, t.a) # Value(v, t.b)
      PROVE  Value(v, s.a) = Value(v, t.a) /\ Value(v, s.b) = Value(v, t.b)
  <2>1. Value(v, r.a) = Value(v, t.a) /\ Value(v, r.b) = Value(v, t.b)
    BY <1>4 DEF Kept
  <2>2. Value(v, s.a) = Value(v, r.a) /\ Value(v, s.b) = Value(v, r.b)
    BY <1>4, <2>1 DEF Kept
  <2> QED BY <2>1, <2>2
<1> QED BY <1>1, <1>3, <1>4 DEF Kept

LEMMA CleanedKept ==
    ASSUME NEW eq, NEW t, t.a \in Flat, t.b \in Flat
    PROVE  Kept(eq, t, Cleaned(t))
<1>1. Cleaned(t).a = ElimYn[t.a] /\ Cleaned(t).b = ElimYn[t.b]
  BY PairForm DEF Cleaned
<1> QED BY <1>1, ElimYnSound, TwoValuedIn DEF Kept

LEMMA ElimEqByKept ==
    ASSUME NEW eq \in Equalities, NEW op \in Chains, NEW t, t.a \in Flat, t.b \in Flat
    PROVE  Kept(eq, t, ElimEqBy(eq, op, t))
BY StruckSound DEF ElimEqBy

\* expr_eliminate_eq (expr.c:186) keeps two values that differ.
LEMMA ElimEqKept ==
    ASSUME NEW eq \in Equalities, NEW t, t.a \in Flat, t.b \in Flat
    PROVE  Kept(eq, t, ElimEq(eq, t))
<1> DEFINE ByLeft(u)  == IF u.a.op \in Chains THEN ElimEqBy(eq, u.a.op, u) ELSE u
           ByRight(u) == IF u.b.op \in Chains /\ u.b.op # u.a.op THEN ElimEqBy(eq, u.b.op, u) ELSE u
<1>1. \A u : u.a \in Flat /\ u.b \in Flat => Kept(eq, u, ByLeft(u)) /\ Kept(eq, u, ByRight(u))
  BY KeptSelf, ElimEqByKept
<1>2. ElimEq(eq, t) = Cleaned(ByRight(ByLeft(t)))
  BY DEF ElimEq
<1> HIDE DEF ByLeft, ByRight
<1>3. PICK r : r = ByLeft(t)
  OBVIOUS
<1>4. Kept(eq, t, r) /\ r.a \in Flat /\ r.b \in Flat
  BY <1>1, <1>3 DEF Kept
<1>5. PICK s : s = ByRight(r)
  OBVIOUS
<1>6. Kept(eq, r, s) /\ s.a \in Flat /\ s.b \in Flat
  BY <1>1, <1>4, <1>5 DEF Kept
<1>7. Kept(eq, t, s)
  BY <1>4, <1>6, KeptAgain
<1>8. Kept(eq, s, Cleaned(s))
  BY <1>6, CleanedKept
<1>9. Kept(eq, t, Cleaned(s))
  BY <1>7, <1>8, KeptAgain
<1> QED BY <1>2, <1>3, <1>5, <1>9

EqStep(eq, e, f) == /\ e.op = f.op
                    /\ IF e.op \in Chains THEN SameConst(ElimEq(eq, Pair(e, f))) ELSE e = f
EqFirst(e, f) == e.op = f.op /\ e.op \notin Chains /\ e = f

LEMMA EqRecursion ==
    /\ \A n \in Nat : EqBy[n] \in Equalities
    /\ \A e \in Flat, f \in Flat : EqBy[0][e][f] <=> EqFirst(e, f)
    /\ \A n \in Nat : \A e \in Flat, f \in Flat : EqBy[n + 1][e][f] <=> EqStep(EqBy[n], e, f)
<1> DEFINE Y(eq) == [e \in Flat |-> [f \in Flat |-> EqStep(eq, e, f)]]
           F == [eq \in Equalities |-> Y(eq)]
           x == [e \in Flat |-> [f \in Flat |-> EqFirst(e, f)]]
           B(g, n) == [e \in Flat |-> [f \in Flat |->
                /\ e.op = f.op
                /\ IF e.op \in Chains THEN n # 0 /\ SameConst(ElimEq(g[n - 1], Pair(e, f))) ELSE e = f]]
<1>1. /\ \A eq, e, f : EqStep(eq, e, f) \in BOOLEAN
      /\ \A e, f : EqFirst(e, f) \in BOOLEAN
  BY DEF EqStep, EqFirst
<1>2. x \in Equalities
  BY <1>1 DEF Equalities
<1>3. \A eq : Y(eq) \in Equalities
  BY <1>1 DEF Equalities
<1>4. F \in [Equalities -> Equalities] /\ \A eq \in Equalities : F[eq] = Y(eq)
  BY <1>3
<1>5. \A g : B(g, 0) = x
  BY DEF EqFirst
<1>6. \A g : \A n \in Nat : n # 0 => B(g, n) = Y(g[n - 1])
  BY DEF EqStep
<1> HIDE DEF F, x, B, Y
<1>7. PICK g : IsTower(g, Equalities, F, x)
  BY <1>2, <1>4, TowerExists
<1>8. g \in [Nat -> Equalities] /\ g = [n \in Nat |-> IF n = 0 THEN x ELSE F[g[n - 1]]]
  BY <1>7 DEF IsTower
<1>9. ASSUME NEW n \in Nat
      PROVE  (IF n = 0 THEN x ELSE F[g[n - 1]]) = B(g, n)
  <2>1. CASE n = 0
    BY <1>5, <2>1
  <2>2. CASE n # 0
    <3>1. n - 1 \in Nat
      BY <2>2
    <3>2. g[n - 1] \in Equalities
      BY <1>8, <3>1
    <3> QED BY <1>4, <1>6, <2>2, <3>2
  <2> QED BY <2>1, <2>2
<1>10. g = [n \in Nat |-> B(g, n)]
  BY <1>8, <1>9
<1>11. EqBy = [n \in Nat |-> B(EqBy, n)]
  BY <1>10 DEF EqBy, B
<1>12. EqBy[0] = x
  BY <1>5, <1>11
<1>13. ASSUME NEW n \in Nat
       PROVE  EqBy[n + 1] = Y(EqBy[n])
  <2>1. n + 1 \in Nat /\ n + 1 # 0 /\ (n + 1) - 1 = n
    OBVIOUS
  <2> QED BY <1>6, <1>11, <2>1
<1>14. \A n \in Nat : EqBy[n] \in Equalities
  <2> DEFINE S == {n \in Nat : EqBy[n] \in Equalities}
  <2>1. 0 \in S
    BY <1>2, <1>12
  <2>2. ASSUME NEW n \in Nat
        PROVE  n + 1 \in S
    BY <1>3, <1>13
  <2> HIDE DEF S
  <2>3. \A n \in Nat : n \in S
    BY <2>1, <2>2, Climb
  <2> QED BY <2>3 DEF S
<1>15. \A e \in Flat, f \in Flat : EqBy[0][e][f] <=> EqFirst(e, f)
  BY <1>12 DEF x
<1>16. \A n \in Nat : \A e \in Flat, f \in Flat : EqBy[n + 1][e][f] <=> EqStep(EqBy[n], e, f)
  <2>1. \A eq : \A e \in Flat, f \in Flat : Y(eq)[e][f] = EqStep(eq, e, f)
    BY DEF Y
  <2> QED BY <1>13, <2>1
<1> QED BY <1>14, <1>15, <1>16

\* expr_eq (expr.c:194): what it takes for equal has the same value as long as no
\* symbol is m, however deep the chains nest.
THEOREM EqSound ==
    /\ Eq \in Equalities
    /\ \A v \in TwoValued : EqualUnder(v, Eq)
<1> DEFINE S == {n \in Nat : \A v \in TwoValued : EqualUnder(v, EqBy[n])}
<1>1. 0 \in S
  BY EqRecursion DEF EqualUnder, EqFirst
<1>2. ASSUME NEW n \in Nat, n \in S
      PROVE  n + 1 \in S
  <2>1. SUFFICES ASSUME NEW v \in TwoValued, NEW e \in Flat, NEW f \in Flat, EqBy[n + 1][e][f]
                 PROVE  Value(v, e) = Value(v, f)
    BY DEF EqualUnder
  <2>2. EqStep(EqBy[n], e, f) /\ EqBy[n] \in Equalities
    BY <2>1, EqRecursion
  <2>3. CASE e.op \notin Chains
    BY <2>2, <2>3 DEF EqStep
  <2>4. CASE e.op \in Chains
    <3>1. PICK t : t = Pair(e, f)
      OBVIOUS
    <3>2. t.a = e /\ t.b = f
      BY <3>1, PairForm
    <3>3. PICK r : r = ElimEq(EqBy[n], t)
      OBVIOUS
    <3>4. Kept(EqBy[n], t, r)
      BY <2>2, <3>2, <3>3, ElimEqKept
    <3>5. SameConst(r)
      BY <2>2, <2>4, <3>1, <3>3 DEF EqStep
    <3>6. EqualUnder(v, EqBy[n])
      BY <1>2
    <3> QED BY <3>2, <3>4, <3>5, <3>6 DEF Kept, SameConst
  <2> QED BY <2>3, <2>4
<1> HIDE DEF S
<1>3. Depth \in S
  BY <1>1, <1>2, Climb, DepthNat
<1> QED BY <1>3, EqRecursion, DepthNat DEF S, Eq

\* expr_extract_eq (expr.c:831) keeps two values that differ.
LEMMA ExtractEqKept ==
    ASSUME NEW op \in Chains, NEW t, t.a \in Flat, t.b \in Flat
    PROVE  Kept(Eq, t, ExtractEq(op, t))
<1>1. PICK r : r = Struck(Eq, op, t, TRUE)
  OBVIOUS
<1>2. Kept(Eq, t, r.t)
  BY <1>1, EqSound, StruckSound
<1>3. r.t.a \in Flat /\ r.t.b \in Flat
  BY <1>2 DEF Kept
<1>4. Kept(Eq, r.t, Cleaned(r.t))
  BY <1>3, CleanedKept
<1>5. Kept(Eq, t, Cleaned(r.t))
  BY <1>2, <1>4, KeptAgain
<1>6. ExtractEq(op, t) = IF r.hit THEN Cleaned(r.t) ELSE r.t
  BY <1>1 DEF ExtractEq
<1> QED BY <1>2, <1>5, <1>6

(***************************************************************************)
(* expr_eliminate_dups1.                                                   *)
(***************************************************************************)
\* What may be returned for e: no wider, and without m of the same value.
Returns(e) == {r \in [e : Flat, n : Nat] : /\ Width[r.e] <= Width[e]
                                           /\ \A v \in TwoValued : Value(v, r.e) = Value(v, e)}
Calls == {c \in [Flat -> [e : Flat, n : Nat]] : \A e \in Flat : c[e] \in Returns(e)}

\* The states on the way through the operands of e.
OnTheWay(e) == {u \in Chain : /\ Fits(e.op, e, u.xs)
                              /\ Width[Filled(e.op, u.xs, e, 1)] <= Width[e]
                              /\ \A v \in TwoValued : Value(v, Filled(e.op, u.xs, e, 1)) = Value(v, e)}

LEMMA RewrittenSound ==
    ASSUME NEW e \in Flat, e.op \in Chains, NEW n \in Nat, NEW do,
           \A i \in 1..Count(e.op, e), j \in 1..n : \A u \in OnTheWay(e) : do[i][j][u] \in OnTheWay(e)
    PROVE  Rewritten(e, n, do) \in Returns(e)
<1> DEFINE u0 == [xs |-> Operands[e][e.op], n |-> 0]
           m == Count(e.op, e)
           last == Pairwise(Chain, m, n, do, u0)
<1>1. e \in Exprs /\ m \in Nat
  BY OperandsType DEF Flat
<1>2. u0 \in OnTheWay(e)
  <2>1. Fits(e.op, e, u0.xs) /\ Filled(e.op, u0.xs, e, 1) = e
    BY FitsOwn
  <2>2. u0 \in Chain
    BY <1>1, OperandsType DEF Chain
  <2>3. Width[e] <= Width[e]
    BY FlatParts
  <2> HIDE DEF u0
  <2> QED BY <2>1, <2>2, <2>3 DEF OnTheWay
<1>3. OnTheWay(e) \subseteq Chain
  BY DEF OnTheWay
<1>4. last \in OnTheWay(e)
  <2> HIDE DEF u0, m
  <2> QED BY <1>1, <1>2, <1>3, PairInvariant DEF m
<1>5. Rewritten(e, n, do) = [e |-> Filled(e.op, last.xs, e, 1), n |-> last.n]
  BY DEF Rewritten
<1> HIDE DEF last
<1>6. last.n \in Nat /\ Filled(e.op, last.xs, e, 1) \in Flat
  BY <1>4 DEF OnTheWay, Chain, Fits
<1>7. PICK f : f = Filled(e.op, last.xs, e, 1)
  OBVIOUS
<1>8. f \in Flat /\ Width[f] <= Width[e] /\ \A v \in TwoValued : Value(v, f) = Value(v, e)
  BY <1>4, <1>6, <1>7 DEF OnTheWay
<1>9. [e |-> f, n |-> last.n] \in [e : Flat, n : Nat] /\ [e |-> f, n |-> last.n].e = f
  BY <1>6, <1>8
<1> QED BY <1>5, <1>7, <1>8, <1>9 DEF Returns

\* One operand for another of the same value.
LEMMA OnTheWayUpdate ==
    ASSUME NEW e \in Flat, e.op \in Chains, NEW u \in OnTheWay(e), NEW i \in 1..Count(e.op, e), NEW x \in Flat,
           Width[x] <= Width[u.xs[i]], NEW n \in Nat,
           \A v \in TwoValued : Value(v, x) = Value(v, u.xs[i])
    PROVE  [xs |-> With(u.xs, i, x), n |-> n] \in OnTheWay(e)
<1> DEFINE op == e.op
           W(s) == Filled(op, s, e, 1)
<1>1. PICK ys : ys = With(u.xs, i, x)
  OBVIOUS
<1>2. e \in Exprs /\ Fits(op, e, u.xs) /\ W(u.xs) \in Flat /\ Width[W(u.xs)] <= Width[e]
  BY DEF OnTheWay, Flat, Fits
<1>3. u.xs[i] \in Flat
  BY <1>2, FitsOperand
<1>4. /\ Width[x] \in Nat /\ Width[u.xs[i]] \in Nat /\ Width[W(u.xs)] \in Nat /\ Width[W(u.xs)] <= Depth
      /\ Width[e] \in Nat
  BY <1>2, <1>3, FlatParts
<1>5. Width[W(u.xs)] + Width[x] <= Depth + Width[u.xs[i]]
  BY <1>4, DepthNat
<1>6. /\ Fits(op, e, ys)
      /\ Width[W(ys)] + Width[u.xs[i]] = Width[W(u.xs)] + Width[x]
      /\ \A j \in 1..Count(op, e) : ys[j] = IF j = i THEN x ELSE u.xs[j]
  BY <1>1, <1>2, <1>5, FitsUpdate
<1>7. W(ys) \in Flat
  BY <1>6 DEF Fits
<1>8. Width[W(ys)] \in Nat
  BY <1>7, FlatParts
<1>9. Width[W(ys)] <= Width[e]
  <2> HIDE DEF W
  <2> QED BY <1>2, <1>4, <1>6, <1>8
<1>10. ASSUME NEW v \in TwoValued
       PROVE  Value(v, W(ys)) = Value(v, e)
  <2>1. \A j \in 1..Count(op, e) : Value(v, ys[j]) = Value(v, u.xs[j])
    BY <1>6
  <2>2. Value(v, W(ys)) = Value(v, W(u.xs))
    BY <1>2, <1>6, <2>1, FitsKeeps
  <2> QED BY <2>2 DEF OnTheWay
<1>11. PICK w : w = [xs |-> ys, n |-> n]
  OBVIOUS
<1>12. w.xs = ys /\ w \in Chain
  BY <1>6, <1>11 DEF Fits, Chain
<1> QED BY <1>1, <1>6, <1>9, <1>10, <1>11, <1>12 DEF OnTheWay

LEMMA WithinSound ==
    ASSUME NEW e \in Flat, e.op \in Chains, NEW u \in OnTheWay(e), NEW i \in 1..Count(e.op, e), NEW call \in Calls
    PROVE  Within(u, i, call) \in OnTheWay(e)
<1>1. CASE u.xs[i].op \notin Chains
  BY <1>1 DEF Within
<1>2. CASE u.xs[i].op \in Chains
  <2>1. PICK r : r = call[u.xs[i]]
    OBVIOUS
  <2>2. u.xs[i] \in Flat /\ u.n \in Nat
    BY FitsOperand DEF OnTheWay, Flat, Chain
  <2>3. r \in Returns(u.xs[i])
    BY <2>1, <2>2 DEF Calls
  <2>4. /\ r.e \in Flat /\ r.n \in Nat /\ Width[r.e] <= Width[u.xs[i]]
        /\ \A v \in TwoValued : Value(v, r.e) = Value(v, u.xs[i])
    BY <2>3 DEF Returns
  <2>5. u.n + r.n \in Nat
    BY <2>2, <2>4
  <2>6. Within(u, i, call) = [xs |-> With(u.xs, i, r.e), n |-> u.n + r.n]
    BY <1>2, <2>1 DEF Within, With
  <2> QED BY <2>4, <2>5, <2>6, OnTheWayUpdate
<1> QED BY <1>1, <1>2

\* The rules offer a leaf or the negation of one.
LEMMA SymOfPlain ==
    ASSUME NEW e \in Simple
    PROVE  LET x == IF e.op = "not" THEN e.a.s ELSE e.s
           IN  x \in Syms => /\ \A op \in Comparisons, c \in ConstSyms : Cmp(op, x, c) \in Plain
                             /\ SymE(x) \in Plain
<1>1. ASSUME NEW x \in Syms
      PROVE  /\ \A op \in Comparisons, c \in ConstSyms : Cmp(op, x, c) \in Plain
             /\ SymE(x) \in Plain
  <2>1. x # "m"
    BY SymbolNames DEF ConstSyms
  <2>2. SymE(x) \in Leaves /\ SymE(x) # SymE("m")
    <3>1. SymE(x).s = x /\ SymE("m").s = "m"
      BY DEF SymE
    <3> QED BY <2>1, <3>1 DEF Leaves
  <2>3. \A op \in Comparisons, c \in ConstSyms : Cmp(op, x, c) \in Leaves /\ Cmp(op, x, c) # SymE("m")
    <3>1. \A op, c : Cmp(op, x, c).op = op /\ SymE("m").op = "sym"
      BY DEF Cmp, SymE
    <3> QED BY <3>1 DEF Leaves, Comparisons
  <2> QED BY <2>2, <2>3, PlainLeaf
<1> QED BY <1>1

LEMMA ConstPlain ==
    SymE("n") \in Plain /\ SymE("y") \in Plain
<1>1. Unit("or") = "n" /\ Zero("or") = "y" /\ "or" \in Chains
  BY DEF Unit, Zero, Chains
<1> QED BY <1>1, UnitPlain

LEMMA JoinForm ==
    ASSUME NEW e \in Simple, NEW f \in Simple
    PROVE  /\ JoinOr(e, f, FALSE) # None => JoinOr(e, f, FALSE) \in Plain
           /\ JoinAnd(e, f, FALSE) # None => JoinAnd(e, f, FALSE) \in Plain
<1> DEFINE x == IF e.op = "not" THEN e.a.s ELSE e.s
<1>1. CASE ~Joinable(e, f)
  BY <1>1 DEF JoinOr, JoinAnd
<1>2. CASE Joinable(e, f)
  <2>1. x \in Syms
    BY <1>2 DEF Joinable
  <2>2. /\ \A op \in Comparisons, c \in ConstSyms : Cmp(op, x, c) \in Plain
        /\ SymE(x) \in Plain
    BY <2>1, SymOfPlain
  <2>3. JoinOr(e, f, FALSE) \in {Cmp("neq", x, "n"), Cmp("neq", x, "m"), Cmp("neq", x, "y"), SymE("y"), None}
    BY <1>2 DEF JoinOr
  <2>4. e.op = "eq" => e.c \in ConstSyms
    BY TestShape DEF Comparisons
  <2>5. f.op = "eq" => f.c \in ConstSyms
    BY TestShape DEF Comparisons
  <2>6. \/ JoinAnd(e, f, FALSE) \in {Cmp("eq", x, "n"), Cmp("eq", x, "m"), Cmp("eq", x, "y"), SymE(x), SymE("n"), None}
        \/ e.op = "eq" /\ JoinAnd(e, f, FALSE) = Cmp("eq", x, e.c)
        \/ f.op = "eq" /\ JoinAnd(e, f, FALSE) = Cmp("eq", x, f.c)
    BY <1>2 DEF JoinAnd
  <2>7. {"n", "m", "y"} \subseteq ConstSyms /\ {"eq", "neq"} \subseteq Comparisons
    BY DEF ConstSyms, Comparisons
  <2> HIDE DEF x
  <2>8. JoinOr(e, f, FALSE) # None => JoinOr(e, f, FALSE) \in Plain
    BY <2>2, <2>3, <2>7, ConstPlain
  <2>9. JoinAnd(e, f, FALSE) # None => JoinAnd(e, f, FALSE) \in Plain
    BY <2>2, <2>4, <2>5, <2>6, <2>7, ConstPlain
  <2> QED BY <2>8, <2>9
<1> QED BY <1>1, <1>2

LEMMA JoinableSimple ==
    ASSUME NEW e \in Flat, NEW f \in Flat, Joinable(e, f)
    PROVE  e \in Plain /\ f \in Plain
<1>1. e.op \notin Chains /\ f.op \notin Chains
  BY DEF Joinable, IsLeaf, Comparisons, Chains
<1> QED BY <1>1, FlatParts

LEMMA JoinOrNone ==
    ASSUME NEW e, NEW f, ~Joinable(e, f)
    PROVE  JoinOr(e, f, FALSE) = None /\ JoinAnd(e, f, FALSE) = None
BY DEF JoinOr, JoinAnd

LEMMA JoinSame ==
    ASSUME NEW e, NEW f
    PROVE  JoinOr(e, f, TRUE) = e /\ JoinAnd(e, f, TRUE) = e
BY DEF JoinOr, JoinAnd

\* What expr_join_or and expr_join_and offer is no wider than the first operand and
\* without m decides the chain as the two operands do.
LEMMA JoinSound ==
    ASSUME NEW op \in Chains, NEW e \in Flat, NEW f \in Flat, Join(op, e, f) # None
    PROVE  /\ Join(op, e, f) \in Flat /\ Width[Join(op, e, f)] <= Width[e]
           /\ \A v \in TwoValued : Value(v, Join(op, e, f)) = UnitValue(op)
                                     <=> Value(v, e) = UnitValue(op) /\ Value(v, f) = UnitValue(op)
<1>1. Eq[e][f] \in BOOLEAN
  BY EqSound DEF Equalities
<1>2. Join(op, e, f) = IF op = "or" THEN JoinOr(e, f, Eq[e][f]) ELSE JoinAnd(e, f, Eq[e][f])
  BY DEF Join
<1>3. Width[e] \in Nat /\ Width[e] >= 1 /\ Depth >= 1
  BY FlatParts, DepthNat
<1>4. CASE Eq[e][f] = TRUE
  <2>1. Join(op, e, f) = e
    BY <1>2, <1>4, JoinSame
  <2>2. \A v \in TwoValued : Value(v, e) = Value(v, f)
    BY <1>4, EqSound DEF EqualUnder
  <2> QED BY <1>3, <2>1, <2>2
<1>5. CASE Eq[e][f] = FALSE
  <2>1. PICK x : x = Join(op, e, f)
    OBVIOUS
  <2>2. x = IF op = "or" THEN JoinOr(e, f, FALSE) ELSE JoinAnd(e, f, FALSE)
    BY <1>2, <1>5, <2>1
  <2>3. Joinable(e, f)
    BY <2>1, <2>2, JoinOrNone
  <2>4. e \in Plain /\ f \in Plain /\ e \in Simple /\ f \in Simple
    BY <2>3, JoinableSimple DEF Plain
  <2>5. x \in Plain
    BY <2>1, <2>2, <2>4, JoinForm
  <2>6. x \in Flat /\ Width[x] = 1
    BY <1>3, <2>5, PlainFlat
  <2>7. ASSUME NEW v \in TwoValued
        PROVE  Value(v, x) = UnitValue(op) <=> Value(v, e) = UnitValue(op) /\ Value(v, f) = UnitValue(op)
    <3>1. v \in Valuations
      BY TwoValuedIn
    <3>2. Value(v, x) = SimpleValue(v, x) /\ Value(v, e) = SimpleValue(v, e) /\ Value(v, f) = SimpleValue(v, f)
      BY <2>4, <2>5, PlainValue
    <3>3. Value(v, e) \in Tristate /\ Value(v, f) \in Tristate
      BY <2>4, <3>1, <3>2, SimpleValueType
    <3>4. CASE op = "or"
      <4>1. x = JoinOr(e, f, FALSE) /\ x # None
        BY <2>1, <2>2, <3>4
      <4>2. SimpleValue(v, x) = OrT(SimpleValue(v, e), SimpleValue(v, f))
        BY <2>4, <3>1, <4>1, JoinOrSound
      <4> QED BY <3>2, <3>3, <3>4, <4>2, TwoUnit
    <3>5. CASE op = "and"
      <4>1. x = JoinAnd(e, f, FALSE) /\ x # None
        BY <2>1, <2>2, <3>5
      <4>2. SimpleValue(v, x) = AndT(SimpleValue(v, e), SimpleValue(v, f))
        BY <2>4, <3>1, <4>1, JoinAndSound
      <4> QED BY <3>2, <3>3, <3>5, <4>2, TwoUnit
    <3> QED BY <3>4, <3>5 DEF Chains
  <2> QED BY <1>3, <2>1, <2>6, <2>7
<1> QED BY <1>1, <1>4, <1>5

LEMMA JoinAtSound ==
    ASSUME NEW e \in Flat, e.op \in Chains, NEW u \in OnTheWay(e),
           NEW i \in 1..Count(e.op, e), NEW j \in 1..Count(e.op, e), i # j
    PROVE  JoinAt(e.op, u, i, j) \in OnTheWay(e)
<1> DEFINE op == e.op
           W(s) == Filled(op, s, e, 1)
<1>1. PICK x : x = Join(op, u.xs[i], u.xs[j])
  OBVIOUS
<1>2. CASE x = None
  <2>1. JoinAt(op, u, i, j) = u
    BY <1>1, <1>2 DEF JoinAt
  <2> QED BY <2>1
<1>3. CASE x # None
  <2>1. PICK c : c = SymE(Unit(op))
    OBVIOUS
  <2>2. PICK ys : ys = With(u.xs, i, c)
    OBVIOUS
  <2>3. PICK zs : zs = With(ys, j, x)
    OBVIOUS
  <2>4. PICK w : w = [xs |-> zs, n |-> u.n + 1]
    OBVIOUS
  <2>5. JoinAt(op, u, i, j) = w
    <3>1. JoinAt(op, u, i, j) = [xs |-> [u.xs EXCEPT ![i] = SymE(Unit(op)), ![j] = x], n |-> u.n + 1]
      BY <1>1, <1>3 DEF JoinAt
    <3>2. zs = [u.xs EXCEPT ![i] = SymE(Unit(op)), ![j] = x]
      BY <2>1, <2>2, <2>3 DEF With
    <3> QED BY <2>4, <3>1, <3>2
  <2>6. e \in Exprs /\ Fits(op, e, u.xs) /\ Width[W(u.xs)] <= Width[e] /\ u.n \in Nat
    BY DEF OnTheWay, Flat, Chain
  <2>7. u.xs[i] \in Flat /\ u.xs[j] \in Flat
    BY <2>6, FitsOperand
  <2>8. /\ x \in Flat /\ Width[x] <= Width[u.xs[i]]
        /\ \A v \in TwoValued : Value(v, x) = UnitValue(op)
             <=> Value(v, u.xs[i]) = UnitValue(op) /\ Value(v, u.xs[j]) = UnitValue(op)
    BY <1>1, <1>3, <2>7, JoinSound
  <2>9. /\ Fits(op, e, ys)
        /\ Width[W(ys)] + Width[u.xs[i]] = Width[W(u.xs)] + 1
        /\ \A k \in 1..Count(op, e) : ys[k] = IF k = i THEN c ELSE u.xs[k]
    <3>1. c \in {SymE(Unit(op)), SymE(Zero(op))} /\ op \in Chains
      BY <2>1
    <3>2. i \in 1..Count(op, e)
      OBVIOUS
    <3> HIDE DEF op
    <3>3. Fits(op, e, ys)
      BY <2>2, <2>6, <3>1, <3>2, FitsUnit
    <3>4. Width[W(ys)] + Width[u.xs[i]] = Width[W(u.xs)] + 1
      BY <2>2, <2>6, <3>1, <3>2, FitsUnit
    <3>5. \A k \in 1..Count(op, e) : ys[k] = IF k = i THEN c ELSE u.xs[k]
      BY <2>2, <2>6, <3>1, <3>2, FitsUnit
    <3> QED BY <3>3, <3>4, <3>5
  <2>10. W(ys) \in Flat /\ W(u.xs) \in Flat
    BY <2>6, <2>9 DEF Fits
  <2>11. /\ Width[W(ys)] \in Nat /\ Width[W(u.xs)] \in Nat /\ Width[W(u.xs)] <= Depth
         /\ Width[x] \in Nat /\ Width[u.xs[i]] \in Nat /\ Width[u.xs[j]] \in Nat /\ Width[u.xs[j]] >= 1
         /\ Width[e] \in Nat
    BY <2>7, <2>8, <2>10, FlatParts
  <2>12. ys[j] = u.xs[j]
    BY <2>9
  <2>13. Width[W(ys)] + Width[x] <= Depth + Width[ys[j]]
    <3> HIDE DEF W
    <3> QED BY <2>8, <2>9, <2>11, <2>12, DepthNat
  <2>14. /\ Fits(op, e, zs)
         /\ Width[W(zs)] + Width[ys[j]] = Width[W(ys)] + Width[x]
         /\ \A k \in 1..Count(op, e) : zs[k] = IF k = j THEN x ELSE ys[k]
    BY <2>3, <2>6, <2>8, <2>9, <2>13, FitsUpdate
  <2>15. W(zs) \in Flat
    BY <2>14 DEF Fits
  <2>16. Width[W(zs)] \in Nat
    BY <2>15, FlatParts
  <2>17. Width[W(zs)] <= Width[e]
    <3> HIDE DEF W
    <3> QED BY <2>6, <2>8, <2>9, <2>11, <2>12, <2>14, <2>16
  <2>18. ASSUME NEW v \in TwoValued
         PROVE  Value(v, W(zs)) = Value(v, e)
    <3>1. Value(v, c) = UnitValue(op)
      BY <2>1, UnitPlain, TwoValuedIn
    <3>2. \A k \in 1..Count(op, e) : zs[k] = IF k = j THEN x ELSE IF k = i THEN c ELSE u.xs[k]
      BY <2>9, <2>14
    <3>3. (\A k \in 1..Count(op, e) : Value(v, zs[k]) = UnitValue(op))
            <=> (\A k \in 1..Count(op, e) : Value(v, u.xs[k]) = UnitValue(op))
      BY <2>8, <3>1, <3>2
    <3>4. Value(v, W(zs)) = Value(v, W(u.xs))
      BY <2>6, <2>14, <3>3, FitsKeeps
    <3> QED BY <3>4 DEF OnTheWay
  <2>19. w.xs = zs /\ w \in Chain
    BY <2>4, <2>6, <2>14 DEF Fits, Chain
  <2>20. w \in OnTheWay(e)
    BY <2>14, <2>17, <2>18, <2>19 DEF OnTheWay
  <2> QED BY <2>5, <2>20
<1> QED BY <1>2, <1>3

LEMMA SelfReturned ==
    ASSUME NEW e \in Flat
    PROVE  [e |-> e, n |-> 0] \in Returns(e)
<1>1. PICK r : r = [e |-> e, n |-> 0]
  OBVIOUS
<1>2. r \in [e : Flat, n : Nat] /\ r.e = e
  BY <1>1
<1>3. Width[e] <= Width[e]
  BY FlatParts
<1> QED BY <1>1, <1>2, <1>3 DEF Returns

LEMMA ReturnsType ==
    ASSUME NEW e \in Flat, NEW r \in Returns(e)
    PROVE  /\ r \in [e : Flat, n : Nat] /\ r.e \in Flat /\ r.n \in Nat /\ Width[r.e] <= Width[e]
           /\ \A v \in TwoValued : Value(v, r.e) = Value(v, e)
BY DEF Returns

LEMMA CallsFrom ==
    ASSUME NEW c, c = [e \in Flat |-> c[e]], \A e \in Flat : c[e] \in Returns(e)
    PROVE  c \in Calls
BY ReturnsType DEF Calls

LEMMA Dups1BySound ==
    ASSUME NEW call \in Calls, NEW e \in Flat, e.op \in Chains
    PROVE  Dups1By(call, e) \in Returns(e)
<1> DEFINE m == Count(e.op, e)
           do == [i \in 1..m |-> [j \in 1..m |-> [u \in Chain |->
                    IF i = j THEN u ELSE JoinAt(e.op, Within(u, i, call), i, j)]]]
<1>1. Dups1By(call, e) = Rewritten(e, m, do)
  BY DEF Dups1By
<1>2. m \in Nat
  BY OperandsType DEF Flat
<1>3. \A i \in 1..m, j \in 1..m, u \in Chain :
         do[i][j][u] = IF i = j THEN u ELSE JoinAt(e.op, Within(u, i, call), i, j)
  OBVIOUS
<1> HIDE DEF do
<1>4. ASSUME NEW i \in 1..m, NEW j \in 1..m, NEW u \in OnTheWay(e)
      PROVE  do[i][j][u] \in OnTheWay(e)
  <2>1. u \in Chain
    BY DEF OnTheWay
  <2>2. CASE i = j
    BY <1>3, <2>1, <2>2
  <2>3. CASE i # j
    <3>1. PICK w : w = Within(u, i, call)
      OBVIOUS
    <3>2. w \in OnTheWay(e)
      BY <3>1, WithinSound
    <3>3. JoinAt(e.op, w, i, j) \in OnTheWay(e)
      BY <2>3, <3>2, JoinAtSound
    <3>4. do[i][j][u] = JoinAt(e.op, w, i, j)
      BY <1>3, <2>1, <2>3, <3>1
    <3> QED BY <3>3, <3>4
  <2> QED BY <2>2, <2>3
<1>5. Rewritten(e, m, do) \in Returns(e)
  BY <1>2, <1>4, RewrittenSound
<1> QED BY <1>1, <1>5

LEMMA Dups1Recursion ==
    \A n \in Nat : Dups1[n] = [e \in Flat |-> IF n = 0 \/ e.op \notin Chains THEN [e |-> e, n |-> 0]
                                           ELSE Dups1By(Dups1[n - 1], e)]
<1> DEFINE Self(e) == [e |-> e, n |-> 0]
           Y(c) == [e \in Flat |-> IF e.op \notin Chains THEN Self(e) ELSE Dups1By(c, e)]
           F == [c \in Calls |-> Y(c)]
           x == [e \in Flat |-> Self(e)]
           B(g, n) == [e \in Flat |-> IF n = 0 \/ e.op \notin Chains THEN Self(e) ELSE Dups1By(g[n - 1], e)]
<1>1. x \in Calls
  BY SelfReturned, CallsFrom
<1>2. ASSUME NEW c \in Calls
      PROVE  Y(c) \in Calls
  <2>1. PICK y : y = Y(c)
    OBVIOUS
  <2>2. /\ \A e \in Flat : y[e] = IF e.op \notin Chains THEN Self(e) ELSE Dups1By(c, e)
        /\ y = [e \in Flat |-> y[e]]
    BY <2>1
  <2>3. \A e \in Flat : y[e] \in Returns(e)
    BY <2>2, SelfReturned, Dups1BySound
  <2> HIDE DEF Y
  <2> QED BY <2>1, <2>2, <2>3, CallsFrom
<1>3. \A g : B(g, 0) = x
  OBVIOUS
<1>4. \A g : \A n \in Nat : n # 0 => B(g, n) = Y(g[n - 1])
  OBVIOUS
<1> HIDE DEF x, B, Y
<1>5. F \in [Calls -> Calls] /\ \A c \in Calls : F[c] = Y(c)
  BY <1>2
<1> HIDE DEF F
<1>6. PICK g : IsTower(g, Calls, F, x)
  BY <1>1, <1>5, TowerExists
<1>7. g \in [Nat -> Calls] /\ g = [n \in Nat |-> IF n = 0 THEN x ELSE F[g[n - 1]]]
  BY <1>6 DEF IsTower
<1>8. ASSUME NEW n \in Nat
      PROVE  (IF n = 0 THEN x ELSE F[g[n - 1]]) = B(g, n)
  <2>1. CASE n = 0
    BY <1>3, <2>1
  <2>2. CASE n # 0
    <3>1. n - 1 \in Nat
      BY <2>2
    <3>2. g[n - 1] \in Calls
      BY <1>7, <3>1
    <3> QED BY <1>4, <1>5, <2>2, <3>2
  <2> QED BY <2>1, <2>2
<1>9. g = [n \in Nat |-> B(g, n)]
  BY <1>7, <1>8
<1>10. Dups1 = [n \in Nat |-> B(Dups1, n)]
  BY <1>9 DEF Dups1, B
<1> QED BY <1>10 DEF B

\* expr_eliminate_dups1 (expr.c:509): joining operands of a chain keeps its value as
\* long as no symbol is m.
THEOREM Dups1Sound ==
    \A n \in Nat : Dups1[n] \in Calls
<1> DEFINE S == {n \in Nat : Dups1[n] \in Calls}
<1>1. ASSUME NEW c, \A e \in Flat : c[e] = [e |-> e, n |-> 0], c = [e \in Flat |-> c[e]]
      PROVE  c \in Calls
  BY <1>1, SelfReturned, CallsFrom
<1>2. 0 \in S
  <2>1. Dups1[0] = [e \in Flat |-> [e |-> e, n |-> 0]]
    BY Dups1Recursion
  <2> QED BY <1>1, <2>1
<1>3. ASSUME NEW n \in Nat, n \in S
      PROVE  n + 1 \in S
  <2>1. n + 1 \in Nat /\ n + 1 # 0 /\ (n + 1) - 1 = n
    OBVIOUS
  <2>2. PICK c : c = Dups1[n + 1]
    OBVIOUS
  <2>3. c = [e \in Flat |-> IF e.op \notin Chains THEN [e |-> e, n |-> 0] ELSE Dups1By(Dups1[n], e)]
    BY <2>1, <2>2, Dups1Recursion
  <2>4. \A e \in Flat : c[e] = IF e.op \notin Chains THEN [e |-> e, n |-> 0] ELSE Dups1By(Dups1[n], e)
    BY <2>3
  <2>5. \A e \in Flat : c[e] \in Returns(e)
    BY <1>3, <2>4, SelfReturned, Dups1BySound
  <2>6. c = [e \in Flat |-> c[e]]
    BY <2>3, <2>4
  <2> QED BY <2>1, <2>2, <2>5, <2>6, CallsFrom
<1> HIDE DEF S
<1>4. \A n \in Nat : n \in S
  BY <1>2, <1>3, Climb
<1> QED BY <1>4 DEF S

(***************************************************************************)
(* The nodes of a chain.                                                   *)
(***************************************************************************)
AnyNode == [e : Exprs, at : Nat]
NodesBody(op, g, e) ==
    [i \in Nat |-> (IF e.op # op THEN <<>> ELSE g[e.a][i] \o g[e.b][i + Count(op, e.a)]) \o <<[e |-> e, at |-> i]>>]
AreNodes(g, op) == g = [e \in Exprs |-> NodesBody(op, g, e)]

LEMMA NodesExist ==
    ASSUME NEW op \in Chains
    PROVE  \E g : AreNodes(g, op)
<1> DEFINE V == [Nat -> Seq(AnyNode)]
           O(e) == [i \in Nat |-> <<>> \o <<[e |-> e, at |-> i]>>]
           L == [e \in Leaves |-> O(e)]
           N == [e \in Tree[Depth] |-> [x \in V |-> O(e)]]
           Y(e, x, y) == [i \in Nat |-> (IF e.op # op THEN <<>> ELSE x[i] \o y[i + Count(op, e.a)])
                                         \o <<[e |-> e, at |-> i]>>]
           C == [e \in Tree[Depth] |-> [x \in V |-> [y \in V |-> Y(e, x, y)]]]
<1>1. ASSUME NEW e \in Exprs, NEW i \in Nat
      PROVE  <<[e |-> e, at |-> i]>> \in Seq(AnyNode)
  <2>1. [e |-> e, at |-> i] \in AnyNode
    BY DEF AnyNode
  <2> QED BY <2>1
<1>2. ASSUME NEW e \in Exprs
      PROVE  O(e) \in V
  <2>1. <<>> \in Seq(AnyNode)
    OBVIOUS
  <2>2. \A i \in Nat : <<>> \o <<[e |-> e, at |-> i]>> \in Seq(AnyNode)
    BY <1>1, <2>1, ConcatProperties
  <2> QED BY <2>2
<1>3. ASSUME NEW e \in Exprs, NEW x \in V, NEW y \in V
      PROVE  Y(e, x, y) \in V
  <2>1. ASSUME NEW i \in Nat
        PROVE  (IF e.op # op THEN <<>> ELSE x[i] \o y[i + Count(op, e.a)]) \in Seq(AnyNode)
    <3>1. CASE e.op # op
      BY <3>1
    <3>2. CASE e.op = op
      <4>1. i + Count(op, e.a) \in Nat
        BY <3>2, SpanTwo
      <4>2. x[i] \in Seq(AnyNode) /\ y[i + Count(op, e.a)] \in Seq(AnyNode)
        BY <4>1
      <4>3. x[i] \o y[i + Count(op, e.a)] \in Seq(AnyNode)
        BY <4>2, ConcatProperties
      <4> QED BY <3>2, <4>3
    <3> QED BY <3>1, <3>2
  <2>2. \A i \in Nat : (IF e.op # op THEN <<>> ELSE x[i] \o y[i + Count(op, e.a)]) \o <<[e |-> e, at |-> i]>>
                         \in Seq(AnyNode)
    BY <1>1, <2>1, ConcatProperties
  <2> QED BY <2>2
<1>4. \A g, e : e.op # op => NodesBody(op, g, e) = O(e)
  BY DEF NodesBody
<1>5. \A e, x, y : e.op # op => Y(e, x, y) = O(e)
  OBVIOUS
<1>6. \A g, e : e.op = op => NodesBody(op, g, e) = Y(e, g[e.a], g[e.b])
  BY DEF NodesBody
<1> HIDE DEF V, O, Y
<1>7. L \in [Leaves -> V] /\ N \in [Tree[Depth] -> [V -> V]]
  BY <1>2, LeavesInTree, DepthNat DEF Exprs
<1>8. C \in [Tree[Depth] -> [V -> [V -> V]]]
  BY <1>3 DEF Exprs
<1>9. /\ \A e \in Leaves : L[e] = O(e)
      /\ \A e \in Tree[Depth], x \in V : N[e][x] = O(e)
      /\ \A e \in Tree[Depth], x \in V, y \in V : C[e][x][y] = Y(e, x, y)
  OBVIOUS
<1> HIDE DEF L, N, C
<1>10. PICK g : IsFold(g, Depth, L, N, C)
  BY FoldExists, DepthNat
<1>11. \A e \in Tree[Depth] : g[e] \in V
  BY <1>7, <1>8, <1>10, DepthNat, FoldRange
<1>12. ASSUME NEW e \in Exprs
       PROVE  FoldOf(g, e, L, N, C) = NodesBody(op, g, e)
  <2>1. CASE e \in Leaves
    BY <2>1, <1>4, <1>9, LeafOps DEF FoldOf
  <2>2. CASE e.op = "not" /\ e.a \in Exprs
    BY <2>2, <1>4, <1>9, <1>11, NotNotChain DEF FoldOf, Exprs
  <2>3. CASE e.op \in Chains /\ e.a \in Exprs /\ e.b \in Exprs
    <3>1. FoldOf(g, e, L, N, C) = Y(e, g[e.a], g[e.b])
      BY <2>3, <1>9, <1>11 DEF FoldOf, Exprs
    <3> QED BY <1>4, <1>5, <1>6, <3>1
  <2> QED BY <2>1, <2>2, <2>3, Form, DepthNat DEF Exprs
<1>13. g = [e \in Exprs |-> NodesBody(op, g, e)]
  <2>1. g = [e \in Exprs |-> FoldOf(g, e, L, N, C)]
    BY <1>10 DEF IsFold, Exprs
  <2> QED BY <2>1, <1>12
<1> QED BY <1>13 DEF AreNodes

\* The nodes of the chain at e whose first operand is at k.
Below(op, e, k) == {f \in AnyNode : /\ Span(op, f.e, f.at) \subseteq Span(op, e, k)
                                    /\ \A xs : Filled(op, xs, e, k) \in Flat => Filled(op, xs, f.e, f.at) \in Flat}

LEMMA NodesBelow ==
    ASSUME NEW op \in Chains, NEW g, AreNodes(g, op)
    PROVE  \A e \in Exprs : \A k \in Nat : g[e][k] \in Seq(Below(op, e, k))
<1> DEFINE G == {e \in Exprs : \A k \in Nat : g[e][k] \in Seq(Below(op, e, k))}
<1>1. ASSUME NEW e \in Exprs, NEW k \in Nat
      PROVE  g[e][k] = (IF e.op # op THEN <<>> ELSE g[e.a][k] \o g[e.b][k + Count(op, e.a)]) \o <<[e |-> e, at |-> k]>>
  <2>1. g[e] = NodesBody(op, g, e)
    BY DEF AreNodes
  <2> QED BY <2>1 DEF NodesBody
<1>2. ASSUME NEW e \in Exprs, NEW k \in Nat
      PROVE  <<[e |-> e, at |-> k]>> \in Seq(Below(op, e, k))
  <2>1. PICK f : f = [e |-> e, at |-> k]
    OBVIOUS
  <2>2. f \in AnyNode /\ f.e = e /\ f.at = k
    BY <2>1 DEF AnyNode
  <2>3. f \in Below(op, e, k)
    BY <2>2 DEF Below
  <2> QED BY <2>1, <2>3
<1>3. ASSUME NEW e \in Exprs, e.op # op
      PROVE  e \in G
  <2>1. SUFFICES ASSUME NEW k \in Nat
                 PROVE  g[e][k] \in Seq(Below(op, e, k))
    OBVIOUS
  <2>2. g[e][k] = <<>> \o <<[e |-> e, at |-> k]>>
    BY <1>1, <1>3
  <2>3. <<>> \in Seq(Below(op, e, k))
    OBVIOUS
  <2> QED BY <1>2, <2>2, <2>3, ConcatProperties
<1>4. ASSUME NEW e \in Exprs, e.op = op, e.a \in G, e.b \in G
      PROVE  e \in G
  <2>1. SUFFICES ASSUME NEW k \in Nat
                 PROVE  g[e][k] \in Seq(Below(op, e, k))
    OBVIOUS
  <2>2. PICK l : l = k + Count(op, e.a)
    OBVIOUS
  <2>3. l \in Nat /\ Span(op, e, k) = Span(op, e.a, k) \union Span(op, e.b, l)
    BY <1>4, <2>2, SpanTwo
  <2>4. ASSUME NEW xs, Filled(op, xs, e, k) \in Flat
        PROVE  Filled(op, xs, e.a, k) \in Flat /\ Filled(op, xs, e.b, l) \in Flat
    <3>1. PICK w, p, q : w = Filled(op, xs, e, k) /\ p = Filled(op, xs, e.a, k) /\ q = Filled(op, xs, e.b, l)
      OBVIOUS
    <3>2. w = Two(op, p, q)
      BY <1>4, <2>2, <3>1, FilledTwo
    <3>3. w.op = op /\ w.a = p /\ w.b = q
      BY <3>2, TwoForm
    <3> QED BY <2>4, <3>1, <3>3, FlatParts
  <2>5. Below(op, e.a, k) \subseteq Below(op, e, k) /\ Below(op, e.b, l) \subseteq Below(op, e, k)
    BY <2>3, <2>4 DEF Below
  <2>6. g[e.a][k] \in Seq(Below(op, e, k)) /\ g[e.b][l] \in Seq(Below(op, e, k))
    <3>1. g[e.a][k] \in Seq(Below(op, e.a, k)) /\ g[e.b][l] \in Seq(Below(op, e.b, l))
      BY <1>4, <2>3
    <3> QED BY <2>5, <3>1, SeqMonotonic
  <2>7. g[e.a][k] \o g[e.b][l] \in Seq(Below(op, e, k))
    BY <2>6, ConcatProperties
  <2>8. (g[e.a][k] \o g[e.b][l]) \o <<[e |-> e, at |-> k]>> \in Seq(Below(op, e, k))
    BY <1>2, <2>7, ConcatProperties
  <2> QED BY <1>1, <1>4, <2>2, <2>8
<1> HIDE DEF G
<1>5. Exprs \subseteq G
  BY <1>3, <1>4, ExprInduction
<1> QED BY <1>5 DEF G

LEMMA NodesOfChain ==
    ASSUME NEW op \in Chains, NEW e \in Exprs
    PROVE  Nodes(op, e) \in Seq(Below(op, e, 1))
<1> DEFINE nodes == CHOOSE g : AreNodes(g, op)
<1>1. AreNodes(nodes, op)
  BY NodesExist
<1>2. Nodes(op, e) = nodes[e][1]
  BY DEF Nodes, AreNodes, NodesBody
<1> HIDE DEF nodes
<1> QED BY <1>1, <1>2, NodesBelow

(***************************************************************************)
(* expr_transform makes no expression wider.                               *)
(***************************************************************************)
LEMMA TransformStep ==
    \A e \in Exprs : Transform[e] = TransformBody(Transform, e)
BY TransformRecursion DEF IsTransform, Exprs

LEMMA SymLeafPlain ==
    ASSUME NEW x \in Syms
    PROVE  SymE(x) \in Plain /\ NotE(SymE(x)) \in Plain
<1>1. x # "m"
  BY SymbolNames DEF ConstSyms
<1>2. SymE(x).s = x /\ SymE("m").s = "m"
  BY DEF SymE
<1>3. SymE(x) \in Leaves
  BY DEF Leaves
<1> QED BY <1>1, <1>2, <1>3, PlainLeaf

LEMMA LeafTransformPlain ==
    ASSUME NEW e \in Leaves, e # SymE("m")
    PROVE  LeafTransform(e) \in Plain
<1>1. e \in Plain
  BY PlainLeaf
<1>2. CASE \E x \in Syms \union ConstSyms : e = SymE(x)
  <2>1. e.op \notin Comparisons
    BY <1>2 DEF SymE, Comparisons
  <2> QED BY <1>1, <2>1 DEF LeafTransform
<1>3. CASE \E op \in Comparisons, x \in Syms \union ConstSyms, c \in ConstSyms : e = Cmp(op, x, c)
  <2>1. PICK op \in Comparisons, x \in Syms \union ConstSyms, c \in ConstSyms : e = Cmp(op, x, c)
    BY <1>3
  <2>2. e.op = op /\ e.s = x /\ e.c = c
    BY <2>1 DEF Cmp
  <2>3. LeafTransform(e) = TransformTest(e)
    BY <2>2 DEF LeafTransform
  <2>4. CASE x \notin Bools
    BY <1>1, <2>2, <2>3, <2>4 DEF TransformTest
  <2>5. CASE x \in Bools
    <3>1. TransformTest(e) \in {SymE("n"), SymE("y"), SymE(x), NotE(SymE(x))}
      BY <2>2, <2>5 DEF TransformTest
    <3>2. x \in Syms
      BY <2>5 DEF Syms
    <3> QED BY <2>3, <3>1, <3>2, SymLeafPlain, ConstPlain
  <2> QED BY <2>4, <2>5
<1> QED BY <1>2, <1>3, LeafCases

LEMMA TransformNotPlain ==
    ASSUME NEW e \in Leaves, e # SymE("m")
    PROVE  TransformNot(e) \in Plain
<1>1. NotE(e) \in Plain
  BY PlainLeaf
<1>2. CASE \E x \in Syms \union ConstSyms : e = SymE(x)
  <2>1. PICK x \in Syms \union ConstSyms : e = SymE(x)
    BY <1>2
  <2>2. e.op \notin Comparisons /\ e.s = x /\ x # "m"
    BY <2>1 DEF SymE, Comparisons
  <2>3. TransformNot(e) \in {SymE("n"), SymE("y"), NotE(e)}
    BY <2>2 DEF TransformNot
  <2> QED BY <1>1, <2>3, ConstPlain
<1>3. CASE \E op \in Comparisons, x \in Syms \union ConstSyms, c \in ConstSyms : e = Cmp(op, x, c)
  <2>1. PICK op \in Comparisons, x \in Syms \union ConstSyms, c \in ConstSyms : e = Cmp(op, x, c)
    BY <1>3
  <2>2. e.op = op /\ e.s = x /\ e.c = c
    BY <2>1 DEF Cmp
  <2>3. PICK o \in Comparisons : TransformNot(e) = Cmp(o, x, c)
    BY <2>2 DEF TransformNot, Comparisons
  <2>4. Cmp(o, x, c) \in Leaves
    BY DEF Leaves
  <2>5. Cmp(o, x, c) # SymE("m")
    <3>1. Cmp(o, x, c).op = o /\ SymE("m").op = "sym"
      BY DEF Cmp, SymE
    <3> QED BY <3>1 DEF Comparisons
  <2> QED BY <2>3, <2>4, <2>5, PlainLeaf
<1> QED BY <1>2, <1>3, LeafCases

LEMMA NegationPlain ==
    ASSUME NEW f \in Plain
    PROVE  Negation(Transform, f) \in Plain
<1>1. ASSUME f \in Leaves, f # SymE("m")
      PROVE  Negation(Transform, f) \in Plain
  <2>1. Negation(Transform, f) = TransformNot(f)
    BY <1>1, LeafOps DEF Negation
  <2> QED BY <1>1, <2>1, TransformNotPlain
<1>2. ASSUME NEW h \in Leaves, f = NotE(h), h # SymE("m")
      PROVE  Negation(Transform, f) \in Plain
  <2>1. f.op = "not" /\ f.a = h
    BY <1>2, NotForm
  <2>2. Negation(Transform, f) = Transform[h]
    BY <2>1, NotNotChain DEF Negation
  <2>3. h \in Exprs
    BY LeavesInTree, DepthNat DEF Exprs
  <2>4. Transform[h] = LeafTransform(h)
    BY <2>3, TransformStep, BodyLeaf
  <2> QED BY <1>2, <2>2, <2>4, LeafTransformPlain
<1> QED BY <1>1, <1>2, PlainForm

LEMMA TransformPlain ==
    ASSUME NEW e \in Plain
    PROVE  Transform[e] \in Plain
<1>1. e \in Exprs
  BY SimpleInTree, DepthNat DEF Plain, Exprs
<1>2. ASSUME NEW h \in Leaves, h # SymE("m")
      PROVE  Transform[h] \in Plain
  <2>1. h \in Exprs
    BY LeavesInTree, DepthNat DEF Exprs
  <2>2. Transform[h] = LeafTransform(h)
    BY <2>1, TransformStep, BodyLeaf
  <2> QED BY <1>2, <2>2, LeafTransformPlain
<1>3. ASSUME NEW h \in Leaves, e = NotE(h), h # SymE("m")
      PROVE  Transform[e] \in Plain
  <2>1. e.op = "not" /\ e.a = h
    BY <1>3, NotForm
  <2>2. Transform[e] = Negation(Transform, Transform[h])
    BY <1>1, <2>1, TransformStep, BodyNot
  <2> QED BY <1>2, <1>3, <2>2, NegationPlain
<1> QED BY <1>2, <1>3, PlainForm

LEMMA TransformFlat ==
    \A e \in Flat : Transform[e] \in Flat /\ Width[Transform[e]] <= Width[e]
<1> DEFINE G == {e \in Flat : Transform[e] \in Flat /\ Width[Transform[e]] <= Width[e]}
<1>1. ASSUME NEW e \in Flat, e.op \notin Chains
      PROVE  e \in G
  <2>1. e \in Plain /\ Width[e] = 1 /\ Depth >= 1
    BY <1>1, FlatParts, DepthNat
  <2>2. Transform[e] \in Plain
    BY <2>1, TransformPlain
  <2> QED BY <2>1, <2>2, PlainFlat
<1>2. ASSUME NEW e \in Flat, e.op \in Chains, e.a \in G, e.b \in G
      PROVE  e \in G
  <2>1. PICK f, g : f = Transform[e.a] /\ g = Transform[e.b]
    OBVIOUS
  <2>2. f \in Flat /\ Width[f] <= Width[e.a] /\ g \in Flat /\ Width[g] <= Width[e.b]
    BY <1>2, <2>1
  <2>3. /\ e \in Exprs /\ e.a \in Flat /\ e.b \in Flat /\ Width[e] = Width[e.a] + Width[e.b]
        /\ Width[e] <= Depth
    BY <1>2, FlatParts
  <2>4. Width[e.a] \in Nat /\ Width[e.b] \in Nat /\ Width[f] \in Nat /\ Width[g] \in Nat
    BY <2>2, <2>3, FlatParts
  <2>5. Width[f] + Width[g] <= Width[e] /\ Width[f] + Width[g] <= Depth
    BY <2>2, <2>3, <2>4, DepthNat
  <2>6. Transform[e] = Two(e.op, f, g)
    BY <1>2, <2>1, <2>3, TransformStep, BodyChain
  <2>7. Two(e.op, f, g) \in Flat /\ Width[Two(e.op, f, g)] = Width[f] + Width[g]
    BY <1>2, <2>2, <2>5, TwoFlat
  <2> QED BY <1>2, <2>5, <2>6, <2>7
<1> HIDE DEF G
<1>3. Flat \subseteq G
  BY <1>1, <1>2, FlatInduction
<1> QED BY <1>3 DEF G

LEMMA NegatedFlat ==
    \A e \in Flat : Transform[NotE(e)] \in Flat /\ Width[Transform[NotE(e)]] <= Width[e]
<1> DEFINE A == {n \in Nat : \A e \in Flat : Width[e] <= n =>
                    Transform[NotE(e)] \in Flat /\ Width[Transform[NotE(e)]] <= Width[e]}
<1>1. 0 \in A
  BY FlatParts
<1>2. ASSUME NEW n \in Nat, n \in A
      PROVE  n + 1 \in A
  <2>1. SUFFICES ASSUME NEW e \in Flat, Width[e] <= n + 1
                 PROVE  Transform[NotE(e)] \in Flat /\ Width[Transform[NotE(e)]] <= Width[e]
    OBVIOUS
  <2>2. PICK f : f = Transform[e]
    OBVIOUS
  <2>3. f \in Flat /\ Width[f] <= Width[e] /\ NotE(e) \in Exprs
    BY <2>2, TransformFlat, NotInExprs
  <2>4. Transform[NotE(e)] = Negation(Transform, f)
    BY <2>2, <2>3, NotForm, TransformStep, BodyNot
  <2>5. Width[e] \in Nat /\ Width[e] >= 1 /\ Depth >= 1
    BY FlatParts, DepthNat
  <2>6. CASE f.op \notin Chains
    <3>1. Negation(Transform, f) \in Plain
      BY <2>3, <2>6, FlatParts, NegationPlain
    <3> QED BY <2>4, <2>5, <3>1, PlainFlat
  <2>7. CASE f.op \in Chains
    <3>1. /\ f.a \in Flat /\ f.b \in Flat /\ Width[f] = Width[f.a] + Width[f.b]
          /\ Width[f] <= Depth
      BY <2>3, <2>7, FlatParts
    <3>2. /\ Width[f.a] \in Nat /\ Width[f.a] >= 1
          /\ Width[f.b] \in Nat /\ Width[f.b] >= 1
      BY <3>1, FlatParts
    <3>3. Width[f.a] <= n /\ Width[f.b] <= n
      BY <2>1, <2>3, <2>5, <3>1, <3>2
    <3>4. PICK p, q : p = Transform[NotE(f.a)] /\ q = Transform[NotE(f.b)]
      OBVIOUS
    <3>5. p \in Flat /\ Width[p] <= Width[f.a] /\ q \in Flat /\ Width[q] <= Width[f.b]
      BY <1>2, <3>1, <3>3, <3>4
    <3>6. Width[p] \in Nat /\ Width[q] \in Nat
      BY <3>5, FlatParts
    <3>7. PICK w : w = Two(Dual(f.op), NotE(f.a), NotE(f.b))
      OBVIOUS
    <3>8. w \in Exprs
      <4>1. PICK k : k = Depth - 1
        OBVIOUS
      <4>2. k \in Nat /\ k + 1 = Depth /\ Width[f] - 1 \in Nat /\ Width[f] - 1 <= k
        BY <2>5, <3>1, <3>2, <4>1, DepthNat
      <4>3. f \in Tree[k]
        BY <2>3, <4>2, FlatLevels, TreeSubset
      <4> QED BY <2>7, <3>7, <4>2, <4>3, Dualised DEF Exprs
    <3>9. w.op = Dual(f.op) /\ w.a = NotE(f.a) /\ w.b = NotE(f.b) /\ w.op \in Chains
      BY <2>7, <3>7, TwoForm, DualChain
    <3>10. Transform[w] = Two(w.op, p, q)
      BY <3>4, <3>8, <3>9, TransformStep, BodyChain
    <3>11. Negation(Transform, f) = Transform[w]
      BY <2>7, <3>7, NotNotChain DEF Negation
    <3>12. Width[p] + Width[q] <= Depth /\ Width[p] + Width[q] <= Width[e]
      BY <2>3, <2>5, <3>1, <3>2, <3>5, <3>6, DepthNat
    <3>13. Two(w.op, p, q) \in Flat /\ Width[Two(w.op, p, q)] = Width[p] + Width[q]
      BY <3>5, <3>9, <3>12, TwoFlat
    <3> QED BY <2>4, <3>10, <3>11, <3>12, <3>13
  <2> QED BY <2>6, <2>7
<1> HIDE DEF A
<1>3. \A n \in Nat : n \in A
  BY <1>1, <1>2, Climb
<1>4. ASSUME NEW e \in Flat
      PROVE  Transform[NotE(e)] \in Flat /\ Width[Transform[NotE(e)]] <= Width[e]
  <2>1. PICK n : n = Width[e]
    OBVIOUS
  <2>2. n \in Nat /\ Width[e] <= n
    BY <2>1, FlatParts
  <2> QED BY <1>3, <2>2 DEF A
<1> QED BY <1>4

(***************************************************************************)
(* expr_eliminate_dups2.                                                   *)
(***************************************************************************)
\* Two operands of which one, taken from the negation of the other, leaves the unit
\* are not both the unit.
LEMMA ComplementSound ==
    ASSUME NEW op \in Chains, NEW x \in Flat, NEW y \in Flat, IsConst(Complement(op, x, y), Unit(op)),
           NEW v \in TwoValued
    PROVE  ~(Value(v, x) = UnitValue(op) /\ Value(v, y) = UnitValue(op))
<1>1. PICK z : z = Transform[NotE(x)]
  OBVIOUS
<1>2. z \in Flat
  BY <1>1, NegatedFlat
<1>3. PICK t : t = Pair(z, y)
  OBVIOUS
<1>4. t.a = z /\ t.b = y
  BY <1>3, PairForm
<1>5. PICK r : r = ExtractEq(op, t)
  OBVIOUS
<1>6. Kept(Eq, t, r)
  BY <1>2, <1>4, <1>5, ExtractEqKept
<1>7. IsConst(r.a, Unit(op)) /\ r.a \in Flat
  BY <1>1, <1>3, <1>5, <1>6 DEF Complement, Kept
<1>8. v \in Valuations /\ EqualUnder(v, Eq)
  BY TwoValuedIn, EqSound
<1>9. Value(v, r.a) = UnitValue(op)
  <2>1. Unit(op) \in {"n", "y"}
    BY DEF Unit
  <2>2. Value(v, r.a) = v[Unit(op)]
    BY <1>7, <1>8, <2>1, ConstValue
  <2>3. v["n"] = no /\ v["y"] = yes
    BY <1>8 DEF Valuations
  <2> QED BY <2>2, <2>3 DEF Unit, UnitValue
<1>10. Value(v, z) = NotT(Value(v, x))
  <2>1. NotE(x) \in Exprs
    BY NotInExprs
  <2>2. Value(v, z) = Value(v, NotE(x))
    BY <1>1, <1>8, <2>1, TransformSound
  <2> QED BY <1>8, <2>1, <2>2, ValueNot
<1>11. Value(v, x) \in {no, yes} /\ Value(v, y) \in {no, yes}
  BY FlatValue
<1>12. CASE Value(v, z) = Value(v, y)
  BY <1>10, <1>11, <1>12 DEF NotT, UnitValue, no, yes
<1>13. CASE Value(v, z) # Value(v, y)
  <2>1. Value(v, z) = UnitValue(op)
    BY <1>4, <1>6, <1>8, <1>9, <1>13 DEF Kept
  <2> QED BY <2>1, <1>13
<1> QED BY <1>12, <1>13

LEMMA DecideAtSound ==
    ASSUME NEW e \in Flat, e.op \in Chains, NEW w \in OnTheWay(e), NEW i \in 1..Count(e.op, e),
           NEW f \in Below(e.op, e, 1)
    PROVE  DecideAt(e.op, w, i, f) \in OnTheWay(e)
<1> DEFINE op == e.op
           W(s) == Filled(op, s, e, 1)
<1>1. PICK y : y = Filled(op, w.xs, f.e, f.at)
  OBVIOUS
<1>2. /\ e \in Exprs /\ Fits(op, e, w.xs) /\ W(w.xs) \in Flat /\ Width[W(w.xs)] <= Width[e]
      /\ w.n \in Nat
      /\ \A v \in TwoValued : Value(v, W(w.xs)) = Value(v, e)
  BY DEF OnTheWay, Flat, Fits, Chain
<1>3. w.xs[i] \in Flat
  BY <1>2, FitsOperand
<1>4. f.e \in Exprs /\ f.at \in Nat /\ y \in Flat /\ Span(op, f.e, f.at) \subseteq 1..Count(op, e)
  <2>1. Span(op, e, 1) = 1..Count(op, e)
    BY <1>2, SpanAll
  <2> QED BY <1>1, <1>2, <2>1 DEF Below, AnyNode
<1>5. CASE ~IsConst(Complement(op, w.xs[i], y), Unit(op))
  BY <1>1, <1>5 DEF DecideAt
<1>6. CASE IsConst(Complement(op, w.xs[i], y), Unit(op))
  <2>1. PICK ys : ys = With(w.xs, i, SymE(Zero(op)))
    OBVIOUS
  <2>2. /\ Fits(op, e, ys)
        /\ Width[W(ys)] <= Width[W(w.xs)]
        /\ \A j \in 1..Count(op, e) : ys[j] = IF j = i THEN SymE(Zero(op)) ELSE w.xs[j]
    BY <1>2, <2>1, FitsUnit
  <2>3. W(ys) \in Flat
    BY <2>2 DEF Fits
  <2>4. Width[W(ys)] <= Width[e]
    <3>1. Width[W(ys)] \in Nat /\ Width[W(w.xs)] \in Nat /\ Width[e] \in Nat
      BY <1>2, <2>3, FlatParts
    <3> HIDE DEF W
    <3> QED BY <1>2, <2>2, <3>1
  <2>5. ASSUME NEW v \in TwoValued
        PROVE  Value(v, W(ys)) = Value(v, e)
    <3>1. v \in Valuations
      BY TwoValuedIn
    <3>2. Value(v, ys[i]) # UnitValue(op)
      BY <2>2, <3>1, UnitPlain
    <3>3. ASSUME \A j \in 1..Count(op, e) : Value(v, w.xs[j]) = UnitValue(op)
          PROVE  FALSE
      <4>1. Value(v, w.xs[i]) = UnitValue(op)
        BY <3>3
      <4>2. \A j \in Span(op, f.e, f.at) : Value(v, w.xs[j]) = UnitValue(op)
        BY <1>4, <3>3
      <4>3. Value(v, y) = UnitValue(op)
        BY <1>1, <1>4, <3>1, <4>2, FilledValue
      <4> QED BY <1>3, <1>4, <1>6, <4>1, <4>3, ComplementSound
    <3>4. Value(v, W(ys)) = Value(v, W(w.xs))
      BY <1>2, <2>2, <3>2, <3>3, FitsKeeps
    <3> QED BY <1>2, <3>4
  <2>6. PICK u : u = [xs |-> ys, n |-> w.n + 1]
    OBVIOUS
  <2>7. DecideAt(op, w, i, f) = u
    BY <1>1, <1>6, <2>1, <2>6 DEF DecideAt, With
  <2>8. u.xs = ys /\ u \in Chain
    BY <1>2, <2>2, <2>6 DEF Fits, Chain
  <2> QED BY <2>2, <2>4, <2>5, <2>7, <2>8 DEF OnTheWay
<1> QED BY <1>5, <1>6

LEMMA Dups2BySound ==
    ASSUME NEW call \in Calls, NEW e \in Flat, e.op \in Chains
    PROVE  Dups2By(call, e) \in Returns(e)
<1>1. PICK fs : fs = Nodes(e.op, e)
  OBVIOUS
<1> DEFINE m == Count(e.op, e)
           Same(f, i) == f.e.op # e.op /\ f.at = i
           do == [i \in 1..m |-> [j \in 1..Len(fs) |-> [u \in Chain |->
                    IF Same(fs[j], i) \/ u.xs[i].op \notin Chains THEN u
                    ELSE DecideAt(e.op, Within(u, i, call), i, fs[j])]]]
<1>2. Dups2By(call, e) = Rewritten(e, Len(fs), do)
  BY <1>1 DEF Dups2By
<1>3. m \in Nat /\ fs \in Seq(Below(e.op, e, 1))
  BY <1>1, OperandsType, NodesOfChain DEF Flat
<1>4. Len(fs) \in Nat /\ \A j \in 1..Len(fs) : fs[j] \in Below(e.op, e, 1)
  BY <1>3
<1>5. \A i \in 1..m, j \in 1..Len(fs), u \in Chain :
         do[i][j][u] = IF Same(fs[j], i) \/ u.xs[i].op \notin Chains THEN u
                       ELSE DecideAt(e.op, Within(u, i, call), i, fs[j])
  OBVIOUS
<1> HIDE DEF do, Same
<1>6. ASSUME NEW i \in 1..m, NEW j \in 1..Len(fs), NEW u \in OnTheWay(e)
      PROVE  do[i][j][u] \in OnTheWay(e)
  <2>1. u \in Chain
    BY DEF OnTheWay
  <2>2. CASE Same(fs[j], i) \/ u.xs[i].op \notin Chains
    BY <1>5, <2>1, <2>2
  <2>3. CASE ~(Same(fs[j], i) \/ u.xs[i].op \notin Chains)
    <3>1. PICK w : w = Within(u, i, call)
      OBVIOUS
    <3>2. w \in OnTheWay(e)
      BY <3>1, WithinSound
    <3>3. DecideAt(e.op, w, i, fs[j]) \in OnTheWay(e)
      BY <1>4, <3>2, DecideAtSound
    <3>4. do[i][j][u] = DecideAt(e.op, w, i, fs[j])
      BY <1>5, <2>1, <2>3, <3>1
    <3> QED BY <3>3, <3>4
  <2> QED BY <2>2, <2>3
<1>7. Rewritten(e, Len(fs), do) \in Returns(e)
  BY <1>3, <1>4, <1>6, RewrittenSound
<1> QED BY <1>2, <1>7

LEMMA Dups2Recursion ==
    \A n \in Nat : Dups2[n] = [e \in Flat |-> IF n = 0 \/ e.op \notin Chains THEN [e |-> e, n |-> 0]
                                           ELSE Dups2By(Dups2[n - 1], e)]
<1> DEFINE Self(e) == [e |-> e, n |-> 0]
           Y(c) == [e \in Flat |-> IF e.op \notin Chains THEN Self(e) ELSE Dups2By(c, e)]
           F == [c \in Calls |-> Y(c)]
           x == [e \in Flat |-> Self(e)]
           B(g, n) == [e \in Flat |-> IF n = 0 \/ e.op \notin Chains THEN Self(e) ELSE Dups2By(g[n - 1], e)]
<1>1. x \in Calls
  BY SelfReturned, CallsFrom
<1>2. ASSUME NEW c \in Calls
      PROVE  Y(c) \in Calls
  <2>1. PICK y : y = Y(c)
    OBVIOUS
  <2>2. /\ \A e \in Flat : y[e] = IF e.op \notin Chains THEN Self(e) ELSE Dups2By(c, e)
        /\ y = [e \in Flat |-> y[e]]
    BY <2>1
  <2>3. \A e \in Flat : y[e] \in Returns(e)
    BY <2>2, SelfReturned, Dups2BySound
  <2> HIDE DEF Y
  <2> QED BY <2>1, <2>2, <2>3, CallsFrom
<1>3. \A g : B(g, 0) = x
  OBVIOUS
<1>4. \A g : \A n \in Nat : n # 0 => B(g, n) = Y(g[n - 1])
  OBVIOUS
<1> HIDE DEF x, B, Y
<1>5. F \in [Calls -> Calls] /\ \A c \in Calls : F[c] = Y(c)
  BY <1>2
<1> HIDE DEF F
<1>6. PICK g : IsTower(g, Calls, F, x)
  BY <1>1, <1>5, TowerExists
<1>7. g \in [Nat -> Calls] /\ g = [n \in Nat |-> IF n = 0 THEN x ELSE F[g[n - 1]]]
  BY <1>6 DEF IsTower
<1>8. ASSUME NEW n \in Nat
      PROVE  (IF n = 0 THEN x ELSE F[g[n - 1]]) = B(g, n)
  <2>1. CASE n = 0
    BY <1>3, <2>1
  <2>2. CASE n # 0
    <3>1. n - 1 \in Nat
      BY <2>2
    <3>2. g[n - 1] \in Calls
      BY <1>7, <3>1
    <3> QED BY <1>4, <1>5, <2>2, <3>2
  <2> QED BY <2>1, <2>2
<1>9. g = [n \in Nat |-> B(g, n)]
  BY <1>7, <1>8
<1>10. Dups2 = [n \in Nat |-> B(Dups2, n)]
  BY <1>9 DEF Dups2, B
<1> QED BY <1>10 DEF B

\* expr_eliminate_dups2 (expr.c:561): deciding a chain by an operand and its
\* complement keeps its value as long as no symbol is m.
THEOREM Dups2Sound ==
    \A n \in Nat : Dups2[n] \in Calls
<1> DEFINE S == {n \in Nat : Dups2[n] \in Calls}
<1>1. ASSUME NEW c, \A e \in Flat : c[e] = [e |-> e, n |-> 0], c = [e \in Flat |-> c[e]]
      PROVE  c \in Calls
  BY <1>1, SelfReturned, CallsFrom
<1>2. 0 \in S
  <2>1. Dups2[0] = [e \in Flat |-> [e |-> e, n |-> 0]]
    BY Dups2Recursion
  <2> QED BY <1>1, <2>1
<1>3. ASSUME NEW n \in Nat, n \in S
      PROVE  n + 1 \in S
  <2>1. n + 1 \in Nat /\ n + 1 # 0 /\ (n + 1) - 1 = n
    OBVIOUS
  <2>2. PICK c : c = Dups2[n + 1]
    OBVIOUS
  <2>3. c = [e \in Flat |-> IF e.op \notin Chains THEN [e |-> e, n |-> 0] ELSE Dups2By(Dups2[n], e)]
    BY <2>1, <2>2, Dups2Recursion
  <2>4. \A e \in Flat : c[e] = IF e.op \notin Chains THEN [e |-> e, n |-> 0] ELSE Dups2By(Dups2[n], e)
    BY <2>3
  <2>5. \A e \in Flat : c[e] \in Returns(e)
    BY <1>3, <2>4, SelfReturned, Dups2BySound
  <2>6. c = [e \in Flat |-> c[e]]
    BY <2>3, <2>4
  <2> QED BY <2>1, <2>2, <2>5, <2>6, CallsFrom
<1> HIDE DEF S
<1>4. \A n \in Nat : n \in S
  BY <1>2, <1>3, Climb
<1> QED BY <1>4 DEF S

(***************************************************************************)
(* expr_eliminate_dups.                                                    *)
(***************************************************************************)
LEMMA ReturnedRecord ==
    ASSUME NEW e \in Flat, NEW f \in Flat, NEW n \in Nat, Width[f] <= Width[e],
           \A v \in TwoValued : Value(v, f) = Value(v, e)
    PROVE  [e |-> f, n |-> n] \in Returns(e)
<1>1. PICK r : r = [e |-> f, n |-> n]
  OBVIOUS
<1>2. r \in [e : Flat, n : Nat] /\ r.e = f
  BY <1>1
<1> QED BY <1>1, <1>2 DEF Returns

\* What is returned for what was returned for e.
LEMMA ReturnedAgain ==
    ASSUME NEW e \in Flat, NEW f \in Flat, NEW g \in Flat, NEW n \in Nat,
           Width[f] <= Width[e], Width[g] <= Width[f],
           \A v \in TwoValued : Value(v, f) = Value(v, e),
           \A v \in TwoValued : Value(v, g) = Value(v, f)
    PROVE  [e |-> g, n |-> n] \in Returns(e)
<1>1. Width[e] \in Nat /\ Width[f] \in Nat /\ Width[g] \in Nat
  BY FlatParts
<1>2. Width[g] <= Width[e]
  BY <1>1
<1>3. \A v \in TwoValued : Value(v, g) = Value(v, e)
  OBVIOUS
<1> QED BY <1>2, <1>3, ReturnedRecord

LEMMA RoundSound ==
    ASSUME NEW e \in Flat
    PROVE  Round(e) \in Returns(e)
<1>1. PICK r1 : r1 = Dups1[Depth][e]
  OBVIOUS
<1>2. r1 \in Returns(e)
  BY <1>1, Dups1Sound, DepthNat DEF Calls
<1>3. /\ r1.e \in Flat /\ r1.n \in Nat /\ Width[r1.e] <= Width[e]
      /\ \A v \in TwoValued : Value(v, r1.e) = Value(v, e)
  BY <1>2, ReturnsType
<1>4. PICK r2 : r2 = Dups2[Depth][r1.e]
  OBVIOUS
<1>5. r2 \in Returns(r1.e)
  BY <1>3, <1>4, Dups2Sound, DepthNat DEF Calls
<1>6. /\ r2 \in [e : Flat, n : Nat] /\ r2.e \in Flat /\ r2.n \in Nat /\ Width[r2.e] <= Width[r1.e]
      /\ \A v \in TwoValued : Value(v, r2.e) = Value(v, r1.e)
  BY <1>3, <1>5, ReturnsType
<1>7. PICK n : n = r2.n + r1.n
  OBVIOUS
<1>8. n \in Nat
  BY <1>3, <1>6, <1>7
<1>9. PICK r : r = [e |-> r2.e, n |-> n]
  OBVIOUS
<1>10. [r2 EXCEPT !.n = @ + r1.n] = r
  BY <1>6, <1>7, <1>9
<1>11. Round(e) = IF r.n = 0 THEN r ELSE [r EXCEPT !.e = ElimYn[@]]
  BY <1>1, <1>4, <1>10 DEF Round
<1>12. r.n = n /\ r.e = r2.e /\ [r EXCEPT !.e = ElimYn[@]] = [e |-> ElimYn[r2.e], n |-> n]
  BY <1>9
<1>13. CASE n = 0
  <2>1. r \in Returns(e)
    BY <1>3, <1>6, <1>8, <1>9, ReturnedAgain
  <2> QED BY <1>11, <1>12, <1>13, <2>1
<1>14. CASE n # 0
  <2>1. PICK g : g = ElimYn[r2.e]
    OBVIOUS
  <2>2. /\ g \in Flat /\ Width[g] <= Width[r2.e]
        /\ \A v \in TwoValued : Value(v, g) = Value(v, r2.e)
    BY <1>6, <2>1, ElimYnSound, TwoValuedIn
  <2>3. Width[g] <= Width[r1.e]
    <3>1. Width[g] \in Nat /\ Width[r2.e] \in Nat /\ Width[r1.e] \in Nat
      BY <1>3, <1>6, <2>2, FlatParts
    <3> QED BY <1>6, <2>2, <3>1
  <2>4. \A v \in TwoValued : Value(v, g) = Value(v, r1.e)
    BY <1>6, <2>2
  <2>5. [e |-> g, n |-> n] \in Returns(e)
    BY <1>3, <1>8, <2>2, <2>3, <2>4, ReturnedAgain
  <2> QED BY <1>11, <1>12, <1>14, <2>1, <2>5
<1> QED BY <1>13, <1>14

\* expr_eliminate_dups (expr.c:617): what it leaves is no wider and, as long as no
\* symbol is m, evaluates to what the expression evaluated to.
THEOREM ElimDupsSound ==
    \A e \in Flat : /\ ElimDups(e) \in Flat /\ Width[ElimDups(e)] <= Width[e]
                    /\ \A v \in TwoValued : Value(v, ElimDups(e)) = Value(v, e)
<1>1. SUFFICES ASSUME NEW e \in Flat
               PROVE  Rounds(e) \in Returns(e)
  BY ReturnsType DEF ElimDups
<1> DEFINE R(r) == IF r.n = 0 THEN r ELSE Round(r.e)
           do == [k \in 1..Depth + 2 |-> [r \in [e : Exprs, n : Nat] |-> R(r)]]
<1>2. Rounds(e) = Repeated(Depth + 2, do, [e |-> e, n |-> 1])
  BY DEF Rounds
<1>3. [e |-> e, n |-> 1] \in Returns(e)
  <2>1. Width[e] <= Width[e]
    BY FlatParts
  <2> QED BY <2>1, ReturnedRecord
<1>4. \A k \in 1..Depth + 2, r \in [e : Exprs, n : Nat] : do[k][r] = R(r)
  OBVIOUS
<1>5. ASSUME NEW k \in 1..Depth + 2, NEW r \in Returns(e)
      PROVE  do[k][r] \in Returns(e)
  <2>1. /\ r \in [e : Flat, n : Nat] /\ r.e \in Flat /\ Width[r.e] <= Width[e]
        /\ \A v \in TwoValued : Value(v, r.e) = Value(v, e)
    BY ReturnsType
  <2>2. r \in [e : Exprs, n : Nat]
    BY <2>1 DEF Flat
  <2>3. do[k][r] = R(r)
    BY <1>4, <2>2
  <2>4. CASE r.n = 0
    BY <2>3, <2>4
  <2>5. CASE r.n # 0
    <3>1. PICK s : s = Round(r.e)
      OBVIOUS
    <3>2. s \in Returns(r.e)
      BY <2>1, <3>1, RoundSound
    <3>3. /\ s \in [e : Flat, n : Nat] /\ s.e \in Flat /\ s.n \in Nat /\ Width[s.e] <= Width[r.e]
          /\ \A v \in TwoValued : Value(v, s.e) = Value(v, r.e)
      BY <2>1, <3>2, ReturnsType
    <3>4. [e |-> s.e, n |-> s.n] \in Returns(e)
      BY <2>1, <3>3, ReturnedAgain
    <3>5. s = [e |-> s.e, n |-> s.n]
      BY <3>3
    <3> QED BY <2>3, <2>5, <3>1, <3>4, <3>5
  <2> QED BY <2>4, <2>5
<1> HIDE DEF do
<1>6. Depth + 2 \in Nat
  BY DepthNat
<1>7. Repeated(Depth + 2, do, [e |-> e, n |-> 1]) \in Returns(e)
  BY <1>3, <1>5, <1>6, LoopInvariant
<1> QED BY <1>2, <1>7

(***************************************************************************)
(* The loop of expr_eliminate_dups.  A rewrite leaves an operand y or n,   *)
(* which expr_eliminate_yn takes away: spent is what it makes narrower.    *)
(***************************************************************************)
IsYn(e)    == IsConst(e, "y") \/ IsConst(e, "n")
Shrinks(e) == Width[ElimYn[e]] < Width[e]
Spent(e)   == IsYn(e) \/ Shrinks(e)

LEMMA YnLeaf ==
    ASSUME NEW e \in Flat
    PROVE  /\ IsYn(e) => e.op \notin Chains
           /\ e.op \notin Chains => ElimYn[e] = e
<1>1. e \in Exprs
  BY FlatParts
<1>2. IsYn(e) => e.op \notin Chains
  BY DEF IsYn, IsConst, Chains
<1>3. e.op \notin Chains => ElimYn[e] = e
  BY <1>1, ElimYnRecursion
<1> QED BY <1>2, <1>3

LEMMA YnSpent ==
    ASSUME NEW e \in Flat, IsYn(ElimYn[e])
    PROVE  Spent(e)
<1>1. CASE e.op \notin Chains
  BY <1>1, YnLeaf DEF Spent
<1>2. CASE e.op \in Chains
  <2>1. ElimYn[e] \in Flat /\ ElimYn[e].op \notin Chains
    BY ElimYnSound, YnLeaf
  <2>2. Width[ElimYn[e]] = 1
    BY <2>1, FlatParts
  <2>3. e.a \in Flat /\ e.b \in Flat /\ Width[e] = Width[e.a] + Width[e.b]
    BY <1>2, FlatParts
  <2>4. /\ Width[e.a] \in Nat /\ Width[e.a] >= 1
        /\ Width[e.b] \in Nat /\ Width[e.b] >= 1
    BY <2>3, FlatParts
  <2> QED BY <2>2, <2>3, <2>4 DEF Spent, Shrinks
<1> QED BY <1>1, <1>2

LEMMA SpentTwo ==
    ASSUME NEW e \in Flat, e.op \in Chains
    PROVE  Spent(e) <=> Spent(e.a) \/ Spent(e.b)
<1>1. PICK op, p, q, f, g, w : op = e.op /\ p = e.a /\ q = e.b /\ f = ElimYn[p] /\ g = ElimYn[q] /\ w = ElimYn[e]
  OBVIOUS
<1>2. e \in Exprs /\ p \in Flat /\ q \in Flat /\ Width[e] = Width[p] + Width[q] /\ Width[e] <= Depth
  BY <1>1, FlatParts
<1>3. f \in Flat /\ g \in Flat /\ Width[f] <= Width[p] /\ Width[g] <= Width[q]
  BY <1>1, <1>2, ElimYnSound
<1>4. /\ Width[p] \in Nat /\ Width[p] >= 1 /\ Width[q] \in Nat /\ Width[q] >= 1
      /\ Width[f] \in Nat /\ Width[g] \in Nat
  BY <1>2, <1>3, FlatParts
<1>5. w = YnLeft(op, f, g)
  BY <1>1, <1>2, ElimYnRecursion
<1>6. \A x : IsYn(x) <=> IsConst(x, Unit(op)) \/ IsConst(x, Zero(op))
  BY DEF IsYn, Unit, Zero
<1>7. ~IsYn(e)
  BY YnLeaf
<1>8. CASE IsYn(f) \/ IsYn(g)
  <2>1. Depth >= 1
    BY <1>2, <1>4, DepthNat
  <2>2. Width[SymE(Zero(op))] = 1
    BY <1>1, <2>1, UnitPlain, PlainFlat
  <2>3. w \in {SymE(Zero(op)), f, g}
    BY <1>5, <1>6, <1>8 DEF YnLeft
  <2>4. Width[w] < Width[e]
    BY <1>2, <1>3, <1>4, <2>2, <2>3
  <2>5. Spent(p) \/ Spent(q)
    BY <1>1, <1>2, <1>8, YnSpent
  <2> QED BY <1>1, <2>4, <2>5 DEF Spent, Shrinks
<1>9. CASE ~IsYn(f) /\ ~IsYn(g)
  <2>1. w = Two(op, f, g)
    BY <1>5, <1>6, <1>9 DEF YnLeft
  <2>2. Width[f] + Width[g] <= Depth
    BY <1>2, <1>3, <1>4, DepthNat
  <2>3. Width[w] = Width[f] + Width[g]
    BY <1>1, <1>3, <2>1, <2>2, TwoFlat
  <2>4. Width[w] < Width[e] <=> Width[f] < Width[p] \/ Width[g] < Width[q]
    BY <1>2, <1>3, <1>4, <2>3
  <2>5. ~IsYn(p) /\ ~IsYn(q)
    BY <1>1, <1>2, <1>9, YnLeaf
  <2> QED BY <1>1, <1>7, <2>4, <2>5 DEF Spent, Shrinks
<1> QED BY <1>8, <1>9

\* A chain is spent when one of its operands is.
LEMMA FilledSpent ==
    ASSUME NEW op \in Chains, NEW xs
    PROVE  \A e \in Exprs : \A k \in Nat : Filled(op, xs, e, k) \in Flat =>
             (Spent(Filled(op, xs, e, k)) <=> \E i \in Span(op, e, k) : Spent(xs[i]))
<1> DEFINE R(e, k) == Spent(Filled(op, xs, e, k)) <=> \E i \in Span(op, e, k) : Spent(xs[i])
           G == {e \in Exprs : \A k \in Nat : Filled(op, xs, e, k) \in Flat => R(e, k)}
<1>1. ASSUME NEW e \in Exprs, e.op # op
      PROVE  e \in G
  BY <1>1, SpanSingle, FilledSingle
<1>2. ASSUME NEW e \in Exprs, e.op = op, e.a \in G, e.b \in G
      PROVE  e \in G
  <2>1. SUFFICES ASSUME NEW k \in Nat, Filled(op, xs, e, k) \in Flat
                 PROVE  R(e, k)
    OBVIOUS
  <2>2. PICK l : l = k + Count(op, e.a)
    OBVIOUS
  <2>3. l \in Nat /\ Span(op, e, k) = Span(op, e.a, k) \union Span(op, e.b, l)
    BY <1>2, <2>2, SpanTwo
  <2>4. PICK w, p, q : w = Filled(op, xs, e, k) /\ p = Filled(op, xs, e.a, k) /\ q = Filled(op, xs, e.b, l)
    OBVIOUS
  <2>5. w = Two(op, p, q)
    BY <1>2, <2>2, <2>4, FilledTwo
  <2>6. w.op = op /\ w.a = p /\ w.b = q
    BY <2>5, TwoForm
  <2>7. w \in Flat /\ p \in Flat /\ q \in Flat
    BY <2>1, <2>4, <2>6, FlatParts
  <2>8. Spent(w) <=> Spent(p) \/ Spent(q)
    BY <2>6, <2>7, SpentTwo
  <2>9. R(e.a, k) /\ R(e.b, l)
    BY <1>2, <2>3, <2>4, <2>7
  <2> QED BY <2>3, <2>4, <2>8, <2>9
<1> HIDE DEF G
<1>3. Exprs \subseteq G
  BY <1>1, <1>2, ExprInduction
<1> QED BY <1>3 DEF G

LEMMA FitsSpent ==
    ASSUME NEW op \in Chains, NEW e \in Exprs, NEW xs, Fits(op, e, xs)
    PROVE  Spent(Filled(op, xs, e, 1)) <=> \E i \in 1..Count(op, e) : Spent(xs[i])
BY SpanAll, FilledSpent DEF Fits

LEMMA ConstSpent ==
    ASSUME NEW op \in Chains
    PROVE  Spent(SymE(Unit(op))) /\ Spent(SymE(Zero(op)))
BY SymShape DEF Spent, IsYn, IsConst, Unit, Zero, SymE

\* A call that rewrites, or is given what is spent, returns what is spent.
Spending(e, r) == Spent(e) \/ r.n # 0 => Spent(r.e)
SpentCalls     == {c \in Calls : \A e \in Flat : Spending(e, c[e])}
SpentSome(e, u) == \E i \in 1..Count(e.op, e) : Spent(u.xs[i])
SpentOnTheWay(e) == {u \in OnTheWay(e) : Spent(e) \/ u.n # 0 => SpentSome(e, u)}

\* The operands with another for the one at i.
LEMMA OperandsWith ==
    ASSUME NEW e \in Flat, e.op \in Chains, NEW u \in OnTheWay(e), NEW i \in 1..Count(e.op, e), NEW x \in Flat
    PROVE  \A j \in 1..Count(e.op, e) : With(u.xs, i, x)[j] = IF j = i THEN x ELSE u.xs[j]
<1>1. x \in Exprs /\ u.xs \in Seq(Exprs) /\ Len(u.xs) = Count(e.op, e)
  BY DEF Flat, OnTheWay, Fits
<1> QED BY <1>1, ExceptSeq DEF With

LEMMA WithinSpent ==
    ASSUME NEW e \in Flat, e.op \in Chains, NEW u \in SpentOnTheWay(e), NEW i \in 1..Count(e.op, e),
           NEW call \in SpentCalls
    PROVE  Within(u, i, call) \in SpentOnTheWay(e)
<1>1. u \in OnTheWay(e) /\ call \in Calls
  BY DEF SpentOnTheWay, SpentCalls
<1>2. Within(u, i, call) \in OnTheWay(e)
  BY <1>1, WithinSound
<1>3. CASE u.xs[i].op \notin Chains
  BY <1>3 DEF Within
<1>4. CASE u.xs[i].op \in Chains
  <2>1. PICK r : r = call[u.xs[i]]
    OBVIOUS
  <2>2. u.xs[i] \in Flat /\ u.n \in Nat
    BY <1>1, FitsOperand DEF OnTheWay, Flat, Chain
  <2>3. r.e \in Flat /\ r.n \in Nat
    BY <1>1, <2>1, <2>2 DEF Calls, Returns
  <2>4. Spending(u.xs[i], r)
    BY <2>1, <2>2 DEF SpentCalls
  <2>5. PICK w : w = [xs |-> With(u.xs, i, r.e), n |-> u.n + r.n]
    OBVIOUS
  <2>6. Within(u, i, call) = w /\ w.n = u.n + r.n
    BY <1>4, <2>1, <2>5 DEF Within, With
  <2>7. \A j \in 1..Count(e.op, e) : w.xs[j] = IF j = i THEN r.e ELSE u.xs[j]
    BY <1>1, <2>3, <2>5, OperandsWith
  <2>8. ASSUME Spent(e) \/ w.n # 0
        PROVE  SpentSome(e, w)
    <3>1. CASE r.n # 0
      BY <2>4, <2>7, <3>1 DEF Spending, SpentSome
    <3>2. CASE r.n = 0
      <4>1. Spent(e) \/ u.n # 0
        BY <2>2, <2>6, <2>8, <3>2
      <4>2. PICK j \in 1..Count(e.op, e) : Spent(u.xs[j])
        BY <4>1 DEF SpentOnTheWay, SpentSome
      <4>3. Spent(w.xs[j])
        BY <2>4, <2>7, <4>2 DEF Spending
      <4> QED BY <4>3 DEF SpentSome
    <3> QED BY <3>1, <3>2
  <2> QED BY <1>2, <2>6, <2>8 DEF SpentOnTheWay
<1> QED BY <1>3, <1>4

LEMMA JoinAtSpent ==
    ASSUME NEW e \in Flat, e.op \in Chains, NEW u \in SpentOnTheWay(e),
           NEW i \in 1..Count(e.op, e), NEW j \in 1..Count(e.op, e), i # j
    PROVE  JoinAt(e.op, u, i, j) \in SpentOnTheWay(e)
<1>1. u \in OnTheWay(e)
  BY DEF SpentOnTheWay
<1>2. PICK w : w = JoinAt(e.op, u, i, j)
  OBVIOUS
<1>3. w \in OnTheWay(e)
  BY <1>1, <1>2, JoinAtSound
<1>4. PICK x : x = Join(e.op, u.xs[i], u.xs[j])
  OBVIOUS
<1>5. CASE x = None
  <2>1. w = u
    BY <1>2, <1>4, <1>5 DEF JoinAt
  <2> QED BY <1>2, <2>1
<1>6. CASE x # None
  <2>1. w.xs = [u.xs EXCEPT ![i] = SymE(Unit(e.op)), ![j] = x]
    BY <1>2, <1>4, <1>6 DEF JoinAt
  <2>2. u.xs \in Seq(Exprs) /\ Len(u.xs) = Count(e.op, e)
    BY <1>1 DEF OnTheWay, Fits
  <2>3. i \in 1..Len(u.xs) /\ j \in 1..Len(u.xs)
    BY <2>2
  <2>4. w.xs[i] = SymE(Unit(e.op))
    BY <2>1, <2>2, <2>3
  <2>5. SpentSome(e, w)
    BY <2>4, ConstSpent DEF SpentSome
  <2> QED BY <1>2, <1>3, <2>5 DEF SpentOnTheWay
<1> QED BY <1>5, <1>6

LEMMA DecideAtSpent ==
    ASSUME NEW e \in Flat, e.op \in Chains, NEW u \in SpentOnTheWay(e), NEW i \in 1..Count(e.op, e),
           NEW f \in Below(e.op, e, 1)
    PROVE  DecideAt(e.op, u, i, f) \in SpentOnTheWay(e)
<1>1. u \in OnTheWay(e)
  BY DEF SpentOnTheWay
<1>2. PICK w : w = DecideAt(e.op, u, i, f)
  OBVIOUS
<1>3. w \in OnTheWay(e)
  BY <1>1, <1>2, DecideAtSound
<1>4. CASE w = u
  BY <1>2, <1>4
<1>5. CASE w.xs = [u.xs EXCEPT ![i] = SymE(Zero(e.op))]
  <2>1. u.xs \in Seq(Exprs) /\ Len(u.xs) = Count(e.op, e)
    BY <1>1 DEF OnTheWay, Fits
  <2>2. i \in 1..Len(u.xs)
    BY <2>1
  <2>3. w.xs[i] = SymE(Zero(e.op))
    BY <1>5, <2>1, <2>2
  <2>4. SpentSome(e, w)
    BY <2>3, ConstSpent DEF SpentSome
  <2> QED BY <1>2, <1>3, <2>4 DEF SpentOnTheWay
<1> QED BY <1>2, <1>4, <1>5 DEF DecideAt

LEMMA RewrittenSpent ==
    ASSUME NEW e \in Flat, e.op \in Chains, NEW n \in Nat, NEW do,
           \A i \in 1..Count(e.op, e), j \in 1..n : \A u \in SpentOnTheWay(e) : do[i][j][u] \in SpentOnTheWay(e)
    PROVE  Spending(e, Rewritten(e, n, do))
<1> DEFINE u0 == [xs |-> Operands[e][e.op], n |-> 0]
           m == Count(e.op, e)
           last == Pairwise(Chain, m, n, do, u0)
<1>1. e \in Exprs /\ m \in Nat
  BY OperandsType DEF Flat
<1>2. u0 \in SpentOnTheWay(e)
  <2>1. Fits(e.op, e, u0.xs) /\ Filled(e.op, u0.xs, e, 1) = e
    BY FitsOwn
  <2>2. u0 \in Chain
    BY <1>1, OperandsType DEF Chain
  <2>3. Width[e] <= Width[e]
    BY FlatParts
  <2>4. u0.n = 0
    OBVIOUS
  <2> HIDE DEF u0
  <2>5. u0 \in OnTheWay(e)
    BY <2>1, <2>2, <2>3 DEF OnTheWay
  <2>6. Spent(e) => SpentSome(e, u0)
    BY <1>1, <2>1, FitsSpent DEF SpentSome
  <2> QED BY <2>4, <2>5, <2>6 DEF SpentOnTheWay
<1>3. SpentOnTheWay(e) \subseteq Chain
  BY DEF SpentOnTheWay, OnTheWay
<1>4. last \in SpentOnTheWay(e)
  <2> HIDE DEF u0, m
  <2> QED BY <1>1, <1>2, <1>3, PairInvariant DEF m
<1>5. Rewritten(e, n, do) = [e |-> Filled(e.op, last.xs, e, 1), n |-> last.n]
  BY DEF Rewritten
<1> HIDE DEF last
<1>6. Fits(e.op, e, last.xs) /\ (Spent(e) \/ last.n # 0 => SpentSome(e, last))
  BY <1>4 DEF SpentOnTheWay, OnTheWay
<1>7. SpentSome(e, last) => Spent(Filled(e.op, last.xs, e, 1))
  BY <1>1, <1>6, FitsSpent DEF SpentSome
<1> QED BY <1>5, <1>6, <1>7 DEF Spending

LEMMA SelfSpending ==
    ASSUME NEW e
    PROVE  Spending(e, [e |-> e, n |-> 0])
BY DEF Spending

LEMMA Dups1BySpent ==
    ASSUME NEW call \in SpentCalls, NEW e \in Flat, e.op \in Chains
    PROVE  Spending(e, Dups1By(call, e))
<1> DEFINE m == Count(e.op, e)
           do == [i \in 1..m |-> [j \in 1..m |-> [u \in Chain |->
                    IF i = j THEN u ELSE JoinAt(e.op, Within(u, i, call), i, j)]]]
<1>1. Dups1By(call, e) = Rewritten(e, m, do)
  BY DEF Dups1By
<1>2. m \in Nat
  BY OperandsType DEF Flat
<1>3. \A i \in 1..m, j \in 1..m, u \in Chain :
         do[i][j][u] = IF i = j THEN u ELSE JoinAt(e.op, Within(u, i, call), i, j)
  OBVIOUS
<1> HIDE DEF do
<1>4. ASSUME NEW i \in 1..m, NEW j \in 1..m, NEW u \in SpentOnTheWay(e)
      PROVE  do[i][j][u] \in SpentOnTheWay(e)
  <2>1. u \in Chain
    BY DEF SpentOnTheWay, OnTheWay
  <2>2. CASE i = j
    BY <1>3, <2>1, <2>2
  <2>3. CASE i # j
    <3>1. PICK w : w = Within(u, i, call)
      OBVIOUS
    <3>2. w \in SpentOnTheWay(e)
      BY <3>1, WithinSpent
    <3>3. JoinAt(e.op, w, i, j) \in SpentOnTheWay(e)
      BY <2>3, <3>2, JoinAtSpent
    <3>4. do[i][j][u] = JoinAt(e.op, w, i, j)
      BY <1>3, <2>1, <2>3, <3>1
    <3> QED BY <3>3, <3>4
  <2> QED BY <2>2, <2>3
<1>5. Spending(e, Rewritten(e, m, do))
  BY <1>2, <1>4, RewrittenSpent
<1> QED BY <1>1, <1>5

LEMMA Dups2BySpent ==
    ASSUME NEW call \in SpentCalls, NEW e \in Flat, e.op \in Chains
    PROVE  Spending(e, Dups2By(call, e))
<1>1. PICK fs : fs = Nodes(e.op, e)
  OBVIOUS
<1> DEFINE m == Count(e.op, e)
           Same(f, i) == f.e.op # e.op /\ f.at = i
           do == [i \in 1..m |-> [j \in 1..Len(fs) |-> [u \in Chain |->
                    IF Same(fs[j], i) \/ u.xs[i].op \notin Chains THEN u
                    ELSE DecideAt(e.op, Within(u, i, call), i, fs[j])]]]
<1>2. Dups2By(call, e) = Rewritten(e, Len(fs), do)
  BY <1>1 DEF Dups2By
<1>3. m \in Nat /\ fs \in Seq(Below(e.op, e, 1))
  BY <1>1, OperandsType, NodesOfChain DEF Flat
<1>4. Len(fs) \in Nat /\ \A j \in 1..Len(fs) : fs[j] \in Below(e.op, e, 1)
  BY <1>3
<1>5. \A i \in 1..m, j \in 1..Len(fs), u \in Chain :
         do[i][j][u] = IF Same(fs[j], i) \/ u.xs[i].op \notin Chains THEN u
                       ELSE DecideAt(e.op, Within(u, i, call), i, fs[j])
  OBVIOUS
<1> HIDE DEF do, Same
<1>6. ASSUME NEW i \in 1..m, NEW j \in 1..Len(fs), NEW u \in SpentOnTheWay(e)
      PROVE  do[i][j][u] \in SpentOnTheWay(e)
  <2>1. u \in Chain
    BY DEF SpentOnTheWay, OnTheWay
  <2>2. CASE Same(fs[j], i) \/ u.xs[i].op \notin Chains
    BY <1>5, <2>1, <2>2
  <2>3. CASE ~(Same(fs[j], i) \/ u.xs[i].op \notin Chains)
    <3>1. PICK w : w = Within(u, i, call)
      OBVIOUS
    <3>2. w \in SpentOnTheWay(e)
      BY <3>1, WithinSpent
    <3>3. DecideAt(e.op, w, i, fs[j]) \in SpentOnTheWay(e)
      BY <1>4, <3>2, DecideAtSpent
    <3>4. do[i][j][u] = DecideAt(e.op, w, i, fs[j])
      BY <1>5, <2>1, <2>3, <3>1
    <3> QED BY <3>3, <3>4
  <2> QED BY <2>2, <2>3
<1>7. Spending(e, Rewritten(e, Len(fs), do))
  BY <1>3, <1>4, <1>6, RewrittenSpent
<1> QED BY <1>2, <1>7

\* What the two return for one expression.
LEMMA DupsAt ==
    ASSUME NEW n \in Nat, NEW e \in Flat
    PROVE  /\ n = 0 \/ e.op \notin Chains => /\ Dups1[n][e] = [e |-> e, n |-> 0]
                                             /\ Dups2[n][e] = [e |-> e, n |-> 0]
           /\ n # 0 /\ e.op \in Chains => /\ Dups1[n][e] = Dups1By(Dups1[n - 1], e)
                                          /\ Dups2[n][e] = Dups2By(Dups2[n - 1], e)
<1>1. PICK c, d : c = Dups1[n] /\ d = Dups2[n]
  OBVIOUS
<1>2. c = [f \in Flat |-> IF n = 0 \/ f.op \notin Chains THEN [e |-> f, n |-> 0] ELSE Dups1By(Dups1[n - 1], f)]
  BY <1>1, Dups1Recursion
<1>3. d = [f \in Flat |-> IF n = 0 \/ f.op \notin Chains THEN [e |-> f, n |-> 0] ELSE Dups2By(Dups2[n - 1], f)]
  BY <1>1, Dups2Recursion
<1>4. c[e] = IF n = 0 \/ e.op \notin Chains THEN [e |-> e, n |-> 0] ELSE Dups1By(Dups1[n - 1], e)
  BY <1>2
<1>5. d[e] = IF n = 0 \/ e.op \notin Chains THEN [e |-> e, n |-> 0] ELSE Dups2By(Dups2[n - 1], e)
  BY <1>3
<1> QED BY <1>1, <1>4, <1>5

LEMMA DupsSpent ==
    \A n \in Nat : Dups1[n] \in SpentCalls /\ Dups2[n] \in SpentCalls
<1> DEFINE S == {n \in Nat : Dups1[n] \in SpentCalls /\ Dups2[n] \in SpentCalls}
<1>1. ASSUME NEW n \in Nat,
             \A e \in Flat : Spending(e, Dups1[n][e]) /\ Spending(e, Dups2[n][e])
      PROVE  n \in S
  BY <1>1, Dups1Sound, Dups2Sound DEF SpentCalls
<1>2. 0 \in S
  <2>1. ASSUME NEW e \in Flat
        PROVE  Spending(e, Dups1[0][e]) /\ Spending(e, Dups2[0][e])
    <3>1. Dups1[0][e] = [e |-> e, n |-> 0] /\ Dups2[0][e] = [e |-> e, n |-> 0]
      BY DupsAt
    <3> QED BY <3>1, SelfSpending
  <2> HIDE DEF S
  <2> QED BY <1>1, <2>1
<1>3. ASSUME NEW n \in Nat, n \in S
      PROVE  n + 1 \in S
  <2>1. n + 1 \in Nat /\ n + 1 # 0 /\ (n + 1) - 1 = n
    OBVIOUS
  <2>2. ASSUME NEW e \in Flat
        PROVE  Spending(e, Dups1[n + 1][e]) /\ Spending(e, Dups2[n + 1][e])
    <3>1. CASE e.op \notin Chains
      BY <2>1, <3>1, DupsAt, SelfSpending
    <3>2. CASE e.op \in Chains
      <4>1. Dups1[n + 1][e] = Dups1By(Dups1[n], e) /\ Dups2[n + 1][e] = Dups2By(Dups2[n], e)
        BY <2>1, <3>2, DupsAt
      <4> QED BY <1>3, <3>2, <4>1, Dups1BySpent, Dups2BySpent
    <3> QED BY <3>1, <3>2
  <2> HIDE DEF S
  <2> QED BY <1>1, <2>1, <2>2
<1> HIDE DEF S
<1>4. \A n \in Nat : n \in S
  BY <1>2, <1>3, Climb
<1> QED BY <1>4 DEF S

\* A chain that is rewritten stays a chain.
LEMMA RewrittenChain ==
    ASSUME NEW e \in Flat, e.op \in Chains, NEW n, NEW do
    PROVE  Rewritten(e, n, do).e.op = e.op
<1>1. PICK xs : Rewritten(e, n, do).e = Filled(e.op, xs, e, 1)
  BY DEF Rewritten
<1>2. e \in Exprs /\ 1 \in Nat
  BY DEF Flat
<1> QED BY <1>1, <1>2, FilledTwo, TwoForm

LEMMA DupsChain ==
    ASSUME NEW e \in Flat
    PROVE  /\ Dups1[Depth][e].e.op = e.op /\ Dups2[Depth][e].e.op = e.op
           /\ e.op \notin Chains => Dups1[Depth][e].n = 0 /\ Dups2[Depth][e].n = 0
<1>1. CASE e.op \notin Chains \/ Depth = 0
  <2>1. Dups1[Depth][e] = [e |-> e, n |-> 0] /\ Dups2[Depth][e] = [e |-> e, n |-> 0]
    BY <1>1, DupsAt, DepthNat
  <2> QED BY <2>1
<1>2. CASE e.op \in Chains /\ Depth # 0
  <2>1. PICK c, d : c = Dups1[Depth - 1] /\ d = Dups2[Depth - 1]
    OBVIOUS
  <2>2. Dups1[Depth][e] = Dups1By(c, e) /\ Dups2[Depth][e] = Dups2By(d, e)
    BY <1>2, <2>1, DupsAt, DepthNat
  <2>3. Dups1By(c, e).e.op = e.op
    BY <1>2, RewrittenChain DEF Dups1By
  <2>4. Dups2By(d, e).e.op = e.op
    BY <1>2, RewrittenChain DEF Dups2By
  <2> QED BY <1>2, <2>2, <2>3, <2>4
<1> QED BY <1>1, <1>2

\* A round of expr_eliminate_dups (expr.c:617) that rewrites anything leaves fewer
\* operands: the measure its loop has.
THEOREM RoundShrinks ==
    \A e \in Flat : Round(e).n # 0 => Width[Round(e).e] < Width[e]
<1>1. SUFFICES ASSUME NEW e \in Flat, Round(e).n # 0
               PROVE  Width[Round(e).e] < Width[e]
  OBVIOUS
<1>2. PICK r1 : r1 = Dups1[Depth][e]
  OBVIOUS
<1>3. PICK r2 : r2 = Dups2[Depth][r1.e]
  OBVIOUS
<1>4. r1 \in Returns(e)
  BY <1>2, Dups1Sound, DepthNat DEF Calls
<1>5. r1.e \in Flat /\ r1.n \in Nat /\ Width[r1.e] <= Width[e]
  BY <1>4, ReturnsType
<1>6. r2 \in Returns(r1.e)
  BY <1>2, <1>3, <1>5, Dups2Sound, DepthNat DEF Calls
<1>7. r2 \in [e : Flat, n : Nat] /\ r2.e \in Flat /\ r2.n \in Nat /\ Width[r2.e] <= Width[r1.e]
  BY <1>5, <1>6, ReturnsType
<1>8. Spending(e, r1) /\ Spending(r1.e, r2)
  BY <1>2, <1>3, <1>5, DupsSpent, DepthNat DEF SpentCalls
<1>9. PICK n : n = r2.n + r1.n
  OBVIOUS
<1>10. PICK r : r = [e |-> r2.e, n |-> n]
  OBVIOUS
<1>11. [r2 EXCEPT !.n = @ + r1.n] = r
  BY <1>7, <1>9, <1>10
<1>12. r.n = n
  BY <1>10
<1>13. Round(e) = IF r.n = 0 THEN r ELSE [r EXCEPT !.e = ElimYn[@]]
  BY <1>2, <1>3, <1>11 DEF Round
<1>14. n # 0
  BY <1>1, <1>12, <1>13
<1>15. Round(e).e = ElimYn[r2.e]
  BY <1>10, <1>13, <1>14, <1>12
<1>16. Spent(r2.e)
  BY <1>5, <1>7, <1>8, <1>9, <1>14 DEF Spending
<1>17. e.op \in Chains
  <2>1. ASSUME e.op \notin Chains
        PROVE  FALSE
    BY <1>2, <1>3, <1>5, <1>9, <1>14, <2>1, DupsChain
  <2> QED BY <2>1
<1>18. r2.e.op \in Chains
  BY <1>2, <1>3, <1>5, <1>17, DupsChain
<1>19. Width[ElimYn[r2.e]] < Width[r2.e]
  BY <1>7, <1>16, <1>18, YnLeaf DEF Spent, Shrinks
<1>20. /\ Width[r2.e] \in Nat /\ Width[r1.e] \in Nat /\ Width[e] \in Nat
       /\ Width[ElimYn[r2.e]] \in Nat
  BY <1>5, <1>7, FlatParts, ElimYnSound
<1> QED BY <1>5, <1>7, <1>15, <1>19, <1>20

\* The loop of expr_eliminate_dups (expr.c:617), which the code bounds by nothing, ends:
\* the last of the rounds that ElimDups makes rewrote nothing.
THEOREM ElimDupsEnds ==
    \A e \in Flat : Rounds(e).n = 0
<1>1. SUFFICES ASSUME NEW e \in Flat
               PROVE  Rounds(e).n = 0
  OBVIOUS
<1> DEFINE R(r) == IF r.n = 0 THEN r ELSE Round(r.e)
           do == [k \in 1..Depth + 2 |-> [r \in [e : Exprs, n : Nat] |-> R(r)]]
           Left(k) == {r \in [e : Flat, n : Nat] : r.n = 0 \/ Width[r.e] + k <= Depth}
           Good == [k \in 0..Depth + 2 |-> Left(k)]
<1>2. Rounds(e) = Repeated(Depth + 2, do, [e |-> e, n |-> 1])
  BY DEF Rounds
<1>3. Depth \in Nat /\ Depth + 2 \in Nat
  BY DepthNat
<1>4. [e |-> e, n |-> 1] \in Good[0]
  <2>1. Width[e] \in Nat /\ Width[e] <= Depth
    BY FlatParts
  <2>2. Width[e] + 0 <= Depth
    BY <2>1
  <2>3. Good[0] = Left(0)
    BY <1>3
  <2>4. PICK r : r = [e |-> e, n |-> 1]
    OBVIOUS
  <2>5. r \in [e : Flat, n : Nat] /\ r.e = e
    BY <2>4
  <2>6. r \in Left(0)
    BY <2>2, <2>5
  <2> QED BY <2>3, <2>4, <2>6
<1>5. \A k \in 1..Depth + 2, r \in [e : Exprs, n : Nat] : do[k][r] = R(r)
  OBVIOUS
<1>6. ASSUME NEW k \in 1..Depth + 2, NEW r \in Good[k - 1]
      PROVE  do[k][r] \in Good[k]
  <2>1. Good[k - 1] = Left(k - 1) /\ Good[k] = Left(k) /\ k \in Nat
    BY <1>3
  <2>2. /\ r \in [e : Flat, n : Nat] /\ r.e \in Flat
        /\ r.n = 0 \/ Width[r.e] + (k - 1) <= Depth
    BY <2>1
  <2>3. r \in [e : Exprs, n : Nat]
    BY <2>2 DEF Flat
  <2>4. do[k][r] = R(r)
    BY <1>5, <2>3
  <2> HIDE DEF do, Good
  <2>5. CASE r.n = 0
    BY <2>1, <2>2, <2>4, <2>5
  <2>6. CASE r.n # 0
    <3>1. PICK s : s = Round(r.e)
      OBVIOUS
    <3>2. s \in Returns(r.e)
      BY <2>2, <3>1, RoundSound
    <3>3. s \in [e : Flat, n : Nat] /\ s.e \in Flat
      BY <2>2, <3>2, ReturnsType
    <3>4. s.n # 0 => Width[s.e] < Width[r.e]
      BY <2>2, <3>1, RoundShrinks
    <3>5. Width[s.e] \in Nat /\ Width[r.e] \in Nat
      BY <2>2, <3>3, FlatParts
    <3>6. s.n = 0 \/ Width[s.e] + k <= Depth
      BY <1>3, <2>1, <2>2, <2>6, <3>4, <3>5
    <3> QED BY <2>1, <2>4, <2>6, <3>1, <3>3, <3>6
  <2> QED BY <2>5, <2>6
<1>7. Good[Depth + 2] = Left(Depth + 2)
  BY <1>3
<1> HIDE DEF do, Good
<1>8. Repeated(Depth + 2, do, [e |-> e, n |-> 1]) \in Good[Depth + 2]
  BY <1>3, <1>4, <1>6, LoopSteps
<1>9. PICK r : r = Rounds(e)
  OBVIOUS
<1>10. r \in [e : Flat, n : Nat] /\ (r.n = 0 \/ Width[r.e] + (Depth + 2) <= Depth)
  BY <1>2, <1>7, <1>8, <1>9
<1>11. Width[r.e] \in Nat
  BY <1>10, FlatParts
<1> QED BY <1>3, <1>9, <1>10, <1>11

(***************************************************************************)
(* expr_trans_bool.                                                        *)
(***************************************************************************)
TransBoolBody(g, e) == CASE e.op \in Chains -> Two(e.op, g[e.a], g[e.b])
                         [] e.op = "not"    -> NotE(g[e.a])
                         [] OTHER           -> Shortened(e)

LEMMA ShortenedLeaf ==
    ASSUME NEW e \in Leaves
    PROVE  /\ Shortened(e) \in Leaves
           /\ e # SymE("m") => /\ Shortened(e) # SymE("m")
                               /\ \A v \in TwoValued : LeafValue(v, Shortened(e)) = LeafValue(v, e)
<1>1. CASE ~(Tests(e, "neq", "n") /\ e.s \in Tris)
  BY <1>1 DEF Shortened
<1>2. CASE Tests(e, "neq", "n") /\ e.s \in Tris
  <2>1. e.op = "neq" /\ e.c = "n" /\ Shortened(e) = SymE(e.s)
    BY <1>2 DEF Tests, Shortened
  <2>2. e.s \in Syms
    BY <1>2 DEF Syms
  <2>3. SymE(e.s) # SymE("m") /\ SymE(e.s) \in Leaves
    <3>1. e.s # "m"
      BY <2>2, SymbolNames DEF ConstSyms
    <3> QED BY <2>2, <3>1, SymLeaf DEF SymE
  <2>4. ASSUME NEW v \in TwoValued
        PROVE  LeafValue(v, SymE(e.s)) = LeafValue(v, e)
    <3>1. LeafValue(v, SymE(e.s)) = v[e.s]
      BY DEF LeafValue, SymE
    <3>2. LeafValue(v, e) = IF v[e.s] = v["n"] THEN no ELSE yes
      BY <2>1 DEF LeafValue
    <3>3. v["n"] = no /\ v[e.s] \in {no, yes}
      BY <2>2 DEF TwoValued, Valuations, Tristate
    <3> QED BY <3>1, <3>2, <3>3
  <2> QED BY <2>1, <2>3, <2>4
<1> QED BY <1>1, <1>2

LEMMA TransBoolExists ==
    \E g : g = [e \in Exprs |-> TransBoolBody(g, e)]
<1> DEFINE L == [e \in Leaves |-> Shortened(e)]
           N == [e \in Tree[Depth] |-> [x \in Trees |-> NotE(x)]]
           Y(e, x, y) == IF e.op \in Chains THEN Two(e.op, x, y) ELSE e
           C == [e \in Tree[Depth] |-> [x \in Trees |-> [y \in Trees |-> Y(e, x, y)]]]
<1>1. Exprs \subseteq Trees /\ Leaves \subseteq Trees /\ Tree[Depth] \subseteq Trees
  BY TreesClosed, LeavesInTree, DepthNat DEF Exprs
<1>2. L \in [Leaves -> Trees] /\ N \in [Tree[Depth] -> [Trees -> Trees]]
  BY <1>1, ShortenedLeaf, TreesClosed
<1>3. ASSUME NEW e \in Tree[Depth], NEW x \in Trees, NEW y \in Trees
      PROVE  Y(e, x, y) \in Trees
  BY <1>1, TreesClosed
<1> HIDE DEF Y
<1>4. C \in [Tree[Depth] -> [Trees -> [Trees -> Trees]]]
  BY <1>3
<1>5. /\ \A e \in Leaves : L[e] = Shortened(e)
      /\ \A e \in Tree[Depth], x \in Trees : N[e][x] = NotE(x)
      /\ \A e \in Tree[Depth], x \in Trees, y \in Trees : C[e][x][y] = Y(e, x, y)
  OBVIOUS
<1> HIDE DEF L, N, C
<1>6. PICK g : IsFold(g, Depth, L, N, C)
  BY FoldExists, DepthNat
<1>7. \A e \in Tree[Depth] : g[e] \in Trees
  BY <1>2, <1>4, <1>6, DepthNat, FoldRange
<1>8. ASSUME NEW e \in Exprs
      PROVE  FoldOf(g, e, L, N, C) = TransBoolBody(g, e)
  <2>1. CASE e \in Leaves
    BY <2>1, <1>5, LeafOps DEF FoldOf, TransBoolBody
  <2>2. CASE e.op = "not" /\ e.a \in Exprs
    BY <2>2, <1>5, <1>7, NotNotChain DEF FoldOf, Exprs, TransBoolBody
  <2>3. CASE e.op \in Chains /\ e.a \in Exprs /\ e.b \in Exprs
    BY <2>3, <1>5, <1>7, NotNotChain DEF FoldOf, Exprs, TransBoolBody, Y
  <2> QED BY <2>1, <2>2, <2>3, Form, DepthNat DEF Exprs
<1>9. g = [e \in Exprs |-> TransBoolBody(g, e)]
  <2>1. g = [e \in Exprs |-> FoldOf(g, e, L, N, C)]
    BY <1>6 DEF IsFold, Exprs
  <2> QED BY <2>1, <1>8
<1> QED BY <1>9

LEMMA TransBoolRecursion ==
    \A e \in Exprs : TransBool[e] = TransBoolBody(TransBool, e)
<1>1. \E g : g = [e \in Exprs |-> TransBoolBody(g, e)]
  BY TransBoolExists
<1>2. TransBool = [e \in Exprs |-> TransBoolBody(TransBool, e)]
  BY <1>1 DEF TransBool, TransBoolBody
<1> QED BY <1>2

LEMMA TransBoolPlain ==
    ASSUME NEW e \in Plain
    PROVE  /\ TransBool[e] \in Plain
           /\ \A v \in TwoValued : Value(v, TransBool[e]) = Value(v, e)
<1>1. e \in Exprs /\ \A h \in Leaves : h \in Exprs
  BY SimpleInTree, LeavesInTree, DepthNat DEF Plain, Exprs
<1>2. ASSUME NEW h \in Leaves, h # SymE("m")
      PROVE  /\ TransBool[h] \in Leaves /\ TransBool[h] # SymE("m")
             /\ \A v \in TwoValued : LeafValue(v, TransBool[h]) = LeafValue(v, h)
  <2>1. TransBool[h] = TransBoolBody(TransBool, h)
    BY <1>1, TransBoolRecursion
  <2>2. TransBool[h] = Shortened(h)
    BY <2>1, LeafOps DEF TransBoolBody
  <2> QED BY <1>2, <2>2, ShortenedLeaf
<1>3. ASSUME e \in Leaves, e # SymE("m")
      PROVE  /\ TransBool[e] \in Plain
             /\ \A v \in TwoValued : Value(v, TransBool[e]) = Value(v, e)
  <2>1. TransBool[e] \in Plain
    BY <1>2, <1>3, PlainLeaf
  <2>2. \A v \in TwoValued : Value(v, TransBool[e]) = LeafValue(v, TransBool[e]) /\ Value(v, e) = LeafValue(v, e)
    BY <1>2, <1>3, ValueLeaf, TwoValuedIn
  <2> QED BY <1>2, <1>3, <2>1, <2>2
<1>4. ASSUME NEW h \in Leaves, e = NotE(h), h # SymE("m")
      PROVE  /\ TransBool[e] \in Plain
             /\ \A v \in TwoValued : Value(v, TransBool[e]) = Value(v, e)
  <2>1. e.op = "not" /\ e.a = h
    BY <1>4, NotForm
  <2>2. TransBool[e] = TransBoolBody(TransBool, e)
    BY <1>1, TransBoolRecursion
  <2>3. PICK k : k = TransBool[h]
    OBVIOUS
  <2>4. TransBool[e] = NotE(k)
    BY <2>1, <2>2, <2>3, NotNotChain DEF TransBoolBody
  <2>5. k \in Leaves /\ k # SymE("m") /\ \A v \in TwoValued : LeafValue(v, k) = LeafValue(v, h)
    BY <1>2, <1>4, <2>3
  <2>6. NotE(k) \in Plain
    BY <2>5, PlainLeaf
  <2>7. ASSUME NEW v \in TwoValued
        PROVE  Value(v, NotE(k)) = Value(v, e)
    <3>1. v \in Valuations /\ NotE(k) \in Exprs
      BY <2>6, TwoValuedIn, SimpleInTree, DepthNat DEF Plain, Exprs
    <3>2. Value(v, NotE(k)) = NotT(Value(v, k)) /\ Value(v, e) = NotT(Value(v, h))
      BY <1>1, <1>4, <3>1, ValueNot
    <3>3. Value(v, k) = LeafValue(v, k) /\ Value(v, h) = LeafValue(v, h)
      BY <2>5, <3>1, ValueLeaf
    <3> QED BY <2>5, <3>2, <3>3
  <2> QED BY <2>4, <2>6, <2>7
<1> QED BY <1>3, <1>4, PlainForm

\* expr_trans_bool (expr.c:322): as long as no symbol is m, FOO for FOO!=n changes no
\* value.
THEOREM TransBoolSound ==
    \A e \in Flat : /\ TransBool[e] \in Flat /\ Width[TransBool[e]] = Width[e]
                    /\ \A v \in TwoValued : Value(v, TransBool[e]) = Value(v, e)
<1> DEFINE G == {e \in Flat : /\ TransBool[e] \in Flat /\ Width[TransBool[e]] = Width[e]
                              /\ \A v \in TwoValued : Value(v, TransBool[e]) = Value(v, e)}
<1>1. ASSUME NEW e \in Flat, e.op \notin Chains
      PROVE  e \in G
  <2>1. e \in Plain /\ Width[e] = 1 /\ Depth >= 1
    BY <1>1, FlatParts, DepthNat
  <2> QED BY <2>1, TransBoolPlain, PlainFlat
<1>2. ASSUME NEW e \in Flat, e.op \in Chains, e.a \in G, e.b \in G
      PROVE  e \in G
  <2>1. PICK f, g : f = TransBool[e.a] /\ g = TransBool[e.b]
    OBVIOUS
  <2>2. /\ f \in Flat /\ Width[f] = Width[e.a] /\ g \in Flat /\ Width[g] = Width[e.b]
        /\ \A v \in TwoValued : Value(v, f) = Value(v, e.a) /\ Value(v, g) = Value(v, e.b)
    BY <1>2, <2>1
  <2>3. /\ e \in Exprs /\ e.a \in Flat /\ e.b \in Flat /\ Width[e] = Width[e.a] + Width[e.b]
        /\ Width[e] <= Depth
    BY <1>2, FlatParts
  <2>4. TransBool[e] = TransBoolBody(TransBool, e)
    BY <2>3, TransBoolRecursion
  <2>5. TransBool[e] = Two(e.op, f, g)
    BY <1>2, <2>1, <2>4, NotNotChain DEF TransBoolBody
  <2>6. PICK w : w = Two(e.op, f, g)
    OBVIOUS
  <2>7. w \in Flat /\ Width[w] = Width[e]
    BY <1>2, <2>2, <2>3, <2>6, TwoFlat
  <2>8. ASSUME NEW v \in TwoValued
        PROVE  Value(v, w) = Value(v, e)
    <3>1. v \in Valuations /\ w.op = e.op /\ w.a = f /\ w.b = g
      BY <2>6, TwoValuedIn, TwoForm
    <3>2. Value(v, w) = IF e.op = "and" THEN AndT(Value(v, f), Value(v, g)) ELSE OrT(Value(v, f), Value(v, g))
      BY <1>2, <2>7, <3>1, FlatTwo
    <3>3. Value(v, e) = IF e.op = "and" THEN AndT(Value(v, e.a), Value(v, e.b)) ELSE OrT(Value(v, e.a), Value(v, e.b))
      BY <1>2, <3>1, FlatTwo
    <3> QED BY <2>2, <3>2, <3>3
  <2> QED BY <2>5, <2>6, <2>7, <2>8
<1> HIDE DEF G
<1>3. Flat \subseteq G
  BY <1>1, <1>2, FlatInduction
<1> QED BY <1>3 DEF G

(***************************************************************************)
(* expr_trans_compare with n.                                              *)
(***************************************************************************)
Opposite(o) == IF o = "eq" THEN "neq" ELSE "eq"
NegatedIf(o, f) == IF o = "neq" THEN NotE(f) ELSE f
CompareLeaf(f, o) == IF f.op = "sym" THEN Cmp(o, f.s, "n") ELSE IF o = "neq" THEN f ELSE NotE(f)
CompareBody(g, f, o) ==
    CASE f.op = "and"  -> NegatedIf(o, Two("or", g[f.a]["eq"], g[f.b]["eq"]))
      [] f.op = "or"   -> NegatedIf(o, Two("and", g[f.a]["eq"], g[f.b]["eq"]))
      [] f.op = "not"  -> g[f.a][Opposite(o)]
      [] OTHER         -> CompareLeaf(f, o)
IsCompare(g) == g = [f \in Exprs |-> [o \in Comparisons |-> CompareBody(g, f, o)]]

LEMMA BothCompared == "eq" \in Comparisons /\ "neq" \in Comparisons /\ \A o : Opposite(o) \in Comparisons
BY DEF Comparisons, Opposite

LEMMA CompareLeafForm ==
    ASSUME NEW h \in Leaves
    PROVE  /\ h.op = "sym" => h.s \in Syms \union ConstSyms
           /\ h.op # "sym" => h.op \in Comparisons
           /\ \A o \in Comparisons : CompareLeaf(h, o) \in Simple
<1>1. CASE \E x \in Syms \union ConstSyms : h = SymE(x)
  <2>1. PICK x \in Syms \union ConstSyms : h = SymE(x)
    BY <1>1
  <2>2. h.op = "sym" /\ h.s = x
    BY <2>1 DEF SymE
  <2>3. \A o \in Comparisons : Cmp(o, x, "n") \in Leaves
    BY DEF Leaves, ConstSyms
  <2> QED BY <2>2, <2>3 DEF CompareLeaf, Simple
<1>2. CASE \E op \in Comparisons, x \in Syms \union ConstSyms, c \in ConstSyms : h = Cmp(op, x, c)
  <2>1. h.op \in Comparisons /\ h.op # "sym"
    BY <1>2 DEF Cmp, Comparisons
  <2> QED BY <2>1 DEF CompareLeaf, Simple
<1> QED BY <1>1, <1>2, LeafCases

LEMMA CompareExists ==
    \E g : IsCompare(g)
<1> DEFINE V == [Comparisons -> Trees]
           K(f) == [o \in Comparisons |-> CompareLeaf(f, o)]
           O(x) == [o \in Comparisons |-> x[Opposite(o)]]
           Y(f, x, y) == [o \in Comparisons |-> NegatedIf(o, Two(IF f.op = "and" THEN "or" ELSE "and", x["eq"], y["eq"]))]
           L == [f \in Leaves |-> K(f)]
           N == [f \in Tree[Depth] |-> [x \in V |-> O(x)]]
           C == [f \in Tree[Depth] |-> [x \in V |-> [y \in V |-> Y(f, x, y)]]]
<1>1. Exprs \subseteq Trees /\ Simple \subseteq Trees
  BY TreesClosed, SimpleInTree, DepthNat DEF Exprs
<1>2. \A f \in Leaves : K(f) \in V
  BY <1>1, CompareLeafForm
<1>3. \A x \in V : O(x) \in V
  BY BothCompared
<1>4. ASSUME NEW f, NEW x \in V, NEW y \in V
      PROVE  Y(f, x, y) \in V
  <2>1. x["eq"] \in Trees /\ y["eq"] \in Trees
    BY BothCompared
  <2>2. PICK p : p = IF f.op = "and" THEN "or" ELSE "and"
    OBVIOUS
  <2>3. p \in Chains
    BY <2>2 DEF Chains
  <2>4. Two(p, x["eq"], y["eq"]) \in Trees
    BY <2>1, <2>3, TreesClosed
  <2>5. \A o \in Comparisons : NegatedIf(o, Two(p, x["eq"], y["eq"])) \in Trees
    BY <2>4, TreesClosed DEF NegatedIf
  <2> QED BY <2>2, <2>5
<1>5. \A g : \A f \in Leaves : [o \in Comparisons |-> CompareBody(g, f, o)] = K(f)
  BY LeafOps DEF CompareBody, Chains
<1>6. \A g : \A f : f.op = "not" => [o \in Comparisons |-> CompareBody(g, f, o)] = O(g[f.a])
  BY DEF CompareBody
<1>7. \A g : \A f : f.op \in Chains => [o \in Comparisons |-> CompareBody(g, f, o)] = Y(f, g[f.a], g[f.b])
  BY DEF CompareBody, Chains
<1> HIDE DEF V, K, O, Y
<1>8. L \in [Leaves -> V] /\ N \in [Tree[Depth] -> [V -> V]] /\ C \in [Tree[Depth] -> [V -> [V -> V]]]
  BY <1>2, <1>3, <1>4
<1>9. /\ \A f \in Leaves : L[f] = K(f)
      /\ \A f \in Tree[Depth], x \in V : N[f][x] = O(x)
      /\ \A f \in Tree[Depth], x \in V, y \in V : C[f][x][y] = Y(f, x, y)
  OBVIOUS
<1> HIDE DEF L, N, C
<1>10. PICK g : IsFold(g, Depth, L, N, C)
  BY FoldExists, DepthNat
<1>11. \A f \in Tree[Depth] : g[f] \in V
  BY <1>8, <1>10, DepthNat, FoldRange
<1>12. ASSUME NEW f \in Exprs
       PROVE  FoldOf(g, f, L, N, C) = [o \in Comparisons |-> CompareBody(g, f, o)]
  <2>1. CASE f \in Leaves
    <3>1. FoldOf(g, f, L, N, C) = K(f)
      BY <2>1, <1>9, LeafOps DEF FoldOf
    <3> QED BY <2>1, <1>5, <3>1
  <2>2. CASE f.op = "not" /\ f.a \in Exprs
    <3>1. FoldOf(g, f, L, N, C) = O(g[f.a])
      BY <2>2, <1>9, <1>11, NotNotChain DEF FoldOf, Exprs
    <3> QED BY <2>2, <1>6, <3>1
  <2>3. CASE f.op \in Chains /\ f.a \in Exprs /\ f.b \in Exprs
    <3>1. FoldOf(g, f, L, N, C) = Y(f, g[f.a], g[f.b])
      BY <2>3, <1>9, <1>11 DEF FoldOf, Exprs
    <3> QED BY <2>3, <1>7, <3>1
  <2> QED BY <2>1, <2>2, <2>3, Form, DepthNat DEF Exprs
<1>13. g = [f \in Exprs |-> [o \in Comparisons |-> CompareBody(g, f, o)]]
  <2>1. g = [f \in Exprs |-> FoldOf(g, f, L, N, C)]
    BY <1>10 DEF IsFold, Exprs
  <2> QED BY <2>1, <1>12
<1> QED BY <1>13 DEF IsCompare

\* An expression for e = n, or for e != n, about the chain or leaf e.
ComparedEq(e, f) == /\ f \in Flat /\ Width[f] = Width[e]
                    /\ \A v \in TwoValued : Value(v, f) = NotT(Value(v, e))
ComparedNeq(e, f) == \/ /\ f \in Flat /\ Width[f] = Width[e]
                        /\ \A v \in TwoValued : Value(v, f) = Value(v, e)
                     \/ \E h \in Flat : f = NotE(h) /\ ComparedEq(e, h)

LEMMA CompareLeafSound ==
    ASSUME NEW h \in Leaves, h # SymE("m"), NEW v \in TwoValued
    PROVE  /\ CompareLeaf(h, "eq") \in Plain /\ CompareLeaf(h, "neq") \in Plain
           /\ Value(v, CompareLeaf(h, "eq")) = NotT(LeafValue(v, h))
           /\ Value(v, CompareLeaf(h, "neq")) = LeafValue(v, h)
<1>1. v \in Valuations
  BY TwoValuedIn
<1>2. LeafValue(v, h) \in {no, yes}
  BY TwoValuesLeaf
<1>3. CASE h.op = "sym"
  <2>1. PICK x : x = h.s
    OBVIOUS
  <2>2. x \in Syms \union ConstSyms /\ LeafValue(v, h) = v[x]
    BY <1>3, <2>1, CompareLeafForm DEF LeafValue
  <2>3. CompareLeaf(h, "eq") = Cmp("eq", x, "n") /\ CompareLeaf(h, "neq") = Cmp("neq", x, "n")
    BY <1>3, <2>1 DEF CompareLeaf
  <2>4. \A o \in Comparisons : Cmp(o, x, "n") \in Leaves /\ Cmp(o, x, "n") # SymE("m")
    <3>1. \A o \in Comparisons : Cmp(o, x, "n") \in Leaves
      BY <2>2 DEF Leaves, ConstSyms
    <3>2. \A o \in Comparisons : Cmp(o, x, "n").op = o /\ SymE("m").op = "sym" /\ o # "sym"
      BY DEF Cmp, SymE, Comparisons
    <3> QED BY <3>1, <3>2
  <2>5. \A o \in Comparisons : Cmp(o, x, "n") \in Plain /\ Value(v, Cmp(o, x, "n")) = LeafValue(v, Cmp(o, x, "n"))
    BY <1>1, <2>4, PlainLeaf, ValueLeaf
  <2>6. /\ LeafValue(v, Cmp("eq", x, "n")) = IF v[x] = v["n"] THEN yes ELSE no
        /\ LeafValue(v, Cmp("neq", x, "n")) = IF v[x] = v["n"] THEN no ELSE yes
    BY DEF LeafValue, Cmp
  <2>7. v["n"] = no
    BY <1>1 DEF Valuations
  <2> QED BY <1>2, <2>2, <2>3, <2>5, <2>6, <2>7, BothCompared DEF NotT, no, yes
<1>4. CASE h.op # "sym"
  <2>1. CompareLeaf(h, "eq") = NotE(h) /\ CompareLeaf(h, "neq") = h
    BY <1>4 DEF CompareLeaf
  <2>2. h \in Plain /\ NotE(h) \in Plain
    BY PlainLeaf
  <2>3. NotE(h) \in Exprs
    BY <2>2, SimpleInTree, DepthNat DEF Plain, Exprs
  <2>4. Value(v, h) = LeafValue(v, h) /\ Value(v, NotE(h)) = NotT(Value(v, h))
    BY <1>1, <2>3, ValueLeaf, ValueNot
  <2> QED BY <2>1, <2>2, <2>4
<1> QED BY <1>3, <1>4

LEMMA NoneNotExpr ==
    None \notin Exprs
<1>1. ASSUME None \in Exprs
      PROVE  FALSE
  <2>1. None.op = "none"
    BY DEF None
  <2>2. None \in Leaves \/ None.op = "not" \/ None.op \in Chains
    BY <1>1, Form, DepthNat DEF Exprs
  <2> QED BY <2>1, <2>2, LeafOps DEF Chains
<1> QED BY <1>1

LEMMA CompareLeafForms ==
    ASSUME NEW h \in Leaves, h # SymE("m")
    PROVE  CompareLeaf(h, "eq") \in Plain /\ CompareLeaf(h, "neq") \in Plain
<1>1. CASE h.op = "sym"
  <2>1. ASSUME NEW o \in Comparisons
        PROVE  Cmp(o, h.s, "n") \in Plain
    <3>1. Cmp(o, h.s, "n") \in Leaves
      BY <1>1, CompareLeafForm DEF Leaves, ConstSyms
    <3>2. Cmp(o, h.s, "n").op = o /\ SymE("m").op = "sym" /\ o # "sym"
      BY DEF Cmp, SymE, Comparisons
    <3>3. Cmp(o, h.s, "n") # SymE("m")
      BY <3>2
    <3> QED BY <3>1, <3>3, PlainLeaf
  <2> QED BY <1>1, <2>1, BothCompared DEF CompareLeaf
<1>2. CASE h.op # "sym"
  BY <1>2, PlainLeaf DEF CompareLeaf
<1> QED BY <1>1, <1>2

LEMMA ComparePlain ==
    ASSUME NEW g, IsCompare(g), NEW e \in Plain, Depth >= 1
    PROVE  ComparedEq(e, g[e]["eq"]) /\ ComparedNeq(e, g[e]["neq"])
<1>1. \A f \in Exprs, o \in Comparisons : g[f][o] = CompareBody(g, f, o)
  BY DEF IsCompare
<1>2. e \in Exprs /\ \A h \in Leaves : h \in Exprs
  BY SimpleInTree, LeavesInTree, DepthNat DEF Plain, Exprs
<1>3. ASSUME NEW h \in Leaves, NEW o \in Comparisons
      PROVE  g[h][o] = CompareLeaf(h, o)
  <2>1. g[h][o] = CompareBody(g, h, o)
    BY <1>1, <1>2
  <2> QED BY <2>1, LeafOps DEF CompareBody, Chains
<1>4. ASSUME NEW p \in Plain, NEW q \in Plain,
             \A v \in TwoValued : Value(v, p) = NotT(Value(v, e)) /\ Value(v, q) = Value(v, e)
      PROVE  ComparedEq(e, p) /\ ComparedNeq(e, q)
  <2>1. /\ p \in Flat /\ Width[p] = 1 /\ q \in Flat /\ Width[q] = 1 /\ Width[e] = 1
    BY PlainFlat
  <2> QED BY <1>4, <2>1 DEF ComparedEq, ComparedNeq
<1>5. CASE e \in Leaves /\ e # SymE("m")
  <2>1. PICK p, q : p = CompareLeaf(e, "eq") /\ q = CompareLeaf(e, "neq")
    OBVIOUS
  <2>2. g[e]["eq"] = p /\ g[e]["neq"] = q
    BY <1>3, <1>5, <2>1, BothCompared
  <2>3. \A v \in TwoValued : Value(v, e) = LeafValue(v, e)
    BY <1>5, ValueLeaf, TwoValuedIn
  <2>4. \A v \in TwoValued : /\ p \in Plain /\ q \in Plain
                             /\ Value(v, p) = NotT(Value(v, e)) /\ Value(v, q) = Value(v, e)
    BY <1>5, <2>1, <2>3, CompareLeafSound
  <2>5. p \in Plain /\ q \in Plain
    BY <1>5, <2>1, CompareLeafForms
  <2> QED BY <1>4, <2>2, <2>4, <2>5
<1>6. CASE \E h \in Leaves : e = NotE(h) /\ h # SymE("m")
  <2>1. PICK h \in Leaves : e = NotE(h) /\ h # SymE("m")
    BY <1>6
  <2>2. e.op = "not" /\ e.a = h
    BY <2>1, NotForm
  <2>3. PICK p, q : p = CompareLeaf(h, "neq") /\ q = CompareLeaf(h, "eq")
    OBVIOUS
  <2>4. g[h]["neq"] = p /\ g[h]["eq"] = q
    BY <1>3, <2>3, BothCompared
  <2>5. g[e]["eq"] = CompareBody(g, e, "eq") /\ g[e]["neq"] = CompareBody(g, e, "neq")
    BY <1>1, <1>2, BothCompared
  <2>6. g[e]["eq"] = p /\ g[e]["neq"] = q
    BY <2>2, <2>4, <2>5 DEF CompareBody, Opposite
  <2>7. p \in Plain /\ q \in Plain
    BY <2>1, <2>3, CompareLeafForms
  <2>8. ASSUME NEW v \in TwoValued
        PROVE  Value(v, p) = NotT(Value(v, e)) /\ Value(v, q) = Value(v, e)
    <3>1. v \in Valuations
      BY TwoValuedIn
    <3>2. Value(v, e) = NotT(Value(v, h)) /\ Value(v, h) = LeafValue(v, h)
      BY <1>2, <2>1, <3>1, ValueNot, ValueLeaf
    <3>3. Value(v, p) = LeafValue(v, h) /\ Value(v, q) = NotT(LeafValue(v, h))
      BY <2>1, <2>3, CompareLeafSound
    <3>4. LeafValue(v, h) \in {no, yes}
      BY <2>1, TwoValuesLeaf
    <3> QED BY <3>2, <3>3, <3>4 DEF NotT, no, yes
  <2> QED BY <1>4, <2>6, <2>7, <2>8
<1> QED BY <1>5, <1>6, PlainForm

\* expr_trans_compare (expr.c:890) with n: an expression that holds when e does.
LEMMA CompareSound ==
    ASSUME NEW g, IsCompare(g)
    PROVE  \A e \in Flat : ComparedEq(e, g[e]["eq"]) /\ ComparedNeq(e, g[e]["neq"])
<1> DEFINE G == {e \in Flat : ComparedEq(e, g[e]["eq"]) /\ ComparedNeq(e, g[e]["neq"])}
<1>1. ASSUME NEW e \in Flat, e.op \notin Chains
      PROVE  e \in G
  <2>1. e \in Plain /\ Width[e] = 1 /\ Depth >= 1
    BY <1>1, FlatParts, DepthNat
  <2> QED BY <2>1, ComparePlain
<1>2. ASSUME NEW e \in Flat, e.op \in Chains, e.a \in G, e.b \in G
      PROVE  e \in G
  <2>1. PICK p, q : p = g[e.a]["eq"] /\ q = g[e.b]["eq"]
    OBVIOUS
  <2>2. /\ p \in Flat /\ Width[p] = Width[e.a] /\ q \in Flat /\ Width[q] = Width[e.b]
        /\ \A v \in TwoValued : Value(v, p) = NotT(Value(v, e.a)) /\ Value(v, q) = NotT(Value(v, e.b))
    BY <1>2, <2>1 DEF ComparedEq
  <2>3. /\ e \in Exprs /\ e.a \in Flat /\ e.b \in Flat /\ Width[e] = Width[e.a] + Width[e.b]
        /\ Width[e] <= Depth
    BY <1>2, FlatParts
  <2>4. PICK op : op = IF e.op = "and" THEN "or" ELSE "and"
    OBVIOUS
  <2>5. op \in Chains
    BY <2>4 DEF Chains
  <2>6. PICK w : w = Two(op, p, q)
    OBVIOUS
  <2>7. w \in Flat /\ Width[w] = Width[e] /\ w.op = op /\ w.a = p /\ w.b = q
    BY <2>2, <2>3, <2>5, <2>6, TwoFlat, TwoForm
  <2>8. ASSUME NEW v \in TwoValued
        PROVE  Value(v, w) = NotT(Value(v, e))
    <3>1. v \in Valuations
      BY TwoValuedIn
    <3>2. Value(v, w) = IF op = "and" THEN AndT(Value(v, p), Value(v, q)) ELSE OrT(Value(v, p), Value(v, q))
      BY <2>5, <2>7, <3>1, FlatTwo
    <3>3. Value(v, e) = IF e.op = "and" THEN AndT(Value(v, e.a), Value(v, e.b)) ELSE OrT(Value(v, e.a), Value(v, e.b))
      BY <1>2, <3>1, FlatTwo
    <3>4. Value(v, e.a) \in {no, yes} /\ Value(v, e.b) \in {no, yes}
      BY <2>3, FlatValue
    <3> QED BY <2>2, <2>4, <3>2, <3>3, <3>4 DEF AndT, OrT, NotT, no, yes
  <2>9. ComparedEq(e, w)
    BY <2>7, <2>8 DEF ComparedEq
  <2>10. ComparedNeq(e, NotE(w))
    BY <2>7, <2>9 DEF ComparedNeq
  <2>11. \A o \in Comparisons : g[e][o] = CompareBody(g, e, o)
    BY <2>3 DEF IsCompare
  <2>12. \A o \in Comparisons : g[e][o] = NegatedIf(o, w)
    BY <1>2, <2>1, <2>4, <2>6, <2>11 DEF CompareBody, Chains
  <2>13. g[e]["eq"] = w /\ g[e]["neq"] = NotE(w)
    BY <2>12, BothCompared DEF NegatedIf
  <2> QED BY <1>2, <2>9, <2>10, <2>13
<1> HIDE DEF G
<1>3. Flat \subseteq G
  BY <1>1, <1>2, FlatInduction
<1> QED BY <1>3 DEF G

CompareCode(g, f, o) ==
    LET Negate(p, h) == IF p = "neq" THEN NotE(h) ELSE h
        Both(p) == Negate(o, Two(p, g[f.a]["eq"], g[f.b]["eq"]))
    IN  CASE f.op = "and"  -> Both(IF "n" = "y" THEN "and" ELSE "or")
          [] f.op = "or"   -> Both(IF "n" = "y" THEN "or" ELSE "and")
          [] f.op = "not"  -> g[f.a][IF o = "eq" THEN "neq" ELSE "eq"]
          [] f.op = "sym"  -> Cmp(o, f.s, "n")
          [] OTHER         -> IF (o = "eq") = ("n" = "y") THEN f ELSE NotE(f)
IsCode(g) == g = [f \in Exprs |-> [o \in Comparisons |-> CompareCode(g, f, o)]]

LEMMA CodeCompared ==
    \A g : IsCode(g) <=> IsCompare(g)
<1>1. \A g : \A f \in Exprs, o \in Comparisons : CompareCode(g, f, o) = CompareBody(g, f, o)
  BY DEF CompareCode, CompareBody, CompareLeaf, NegatedIf, Opposite, Comparisons
<1> QED BY <1>1 DEF IsCode, IsCompare

LEMMA TransCompared ==
    ASSUME NEW e \in Flat
    PROVE  ComparedNeq(e, TransCompare(e, "neq", "n"))
<1> DEFINE compare == CHOOSE g : IsCode(g)
<1>1. IsCompare(compare)
  BY CompareExists, CodeCompared
<1>2. e # None
  BY FlatParts, NoneNotExpr
<1>3. TransCompare(e, "neq", "n") = compare[e]["neq"]
  BY <1>2 DEF TransCompare, IsCode, CompareCode
<1> HIDE DEF compare
<1> QED BY <1>1, <1>3, CompareSound

\* e != n after the passes, for what two dependencies are compared by (menu.c:299).
LEMMA HoldsSound ==
    ASSUME NEW e \in Flat \union {None}, Depth >= 1
    PROVE  Holds(e) \in Flat /\ \A v \in TwoValued : Value(v, Holds(e)) = ValueOf(v, e)
<1>1. PICK c : c = TransCompare(e, "neq", "n")
  OBVIOUS
<1>2. PICK t : t = Transform[c]
  OBVIOUS
<1>3. Holds(e) = ElimDups(t)
  BY <1>1, <1>2 DEF Holds
<1>4. SUFFICES t \in Flat /\ \A v \in TwoValued : Value(v, t) = ValueOf(v, e)
  BY <1>3, ElimDupsSound
<1>5. ASSUME NEW h \in Flat, c = NotE(h), \A v \in TwoValued : NotT(Value(v, h)) = ValueOf(v, e)
      PROVE  t \in Flat /\ \A v \in TwoValued : Value(v, t) = ValueOf(v, e)
  <2>1. t \in Flat /\ c \in Exprs
    BY <1>2, <1>5, NegatedFlat, NotInExprs
  <2>2. ASSUME NEW v \in TwoValued
        PROVE  Value(v, t) = ValueOf(v, e)
    <3>1. Value(v, t) = Value(v, c)
      BY <1>2, <2>1, TransformSound, TwoValuedIn
    <3>2. Value(v, c) = NotT(Value(v, h))
      BY <1>5, <2>1, ValueNot, TwoValuedIn
    <3> QED BY <1>5, <3>1, <3>2
  <2> QED BY <2>1, <2>2
<1>6. CASE e = None
  <2>1. c = NotE(SymE("n"))
    BY <1>1, <1>6 DEF TransCompare
  <2>2. SymE("n") \in Flat
    BY ConstPlain, PlainFlat
  <2>3. ASSUME NEW v \in TwoValued
        PROVE  NotT(Value(v, SymE("n"))) = ValueOf(v, e)
    <3>1. v \in Valuations /\ SymE("n") \in Leaves
      BY TwoValuedIn, SymLeaf DEF ConstSyms
    <3>2. Value(v, SymE("n")) = no
      BY <3>1, ValueLeaf DEF LeafValue, SymE, Valuations
    <3> QED BY <1>6, <3>2 DEF ValueOf, NotT, no, yes
  <2> QED BY <1>5, <2>1, <2>2, <2>3
<1>7. CASE e \in Flat
  <2>1. e # None
    BY <1>7, FlatParts, NoneNotExpr
  <2>2. \A v \in TwoValued : ValueOf(v, e) = Value(v, e) /\ Value(v, e) \in {no, yes}
    BY <1>7, <2>1, FlatValue DEF ValueOf
  <2>3. CASE c \in Flat /\ \A v \in TwoValued : Value(v, c) = Value(v, e)
    <3>1. t \in Flat
      BY <1>2, <2>3, TransformFlat
    <3>2. \A v \in TwoValued : Value(v, t) = Value(v, c)
      BY <1>2, <2>3, FlatParts, TransformSound, TwoValuedIn
    <3> QED BY <2>2, <2>3, <3>1, <3>2
  <2>4. CASE \E h \in Flat : c = NotE(h) /\ ComparedEq(e, h)
    <3>1. PICK h \in Flat : c = NotE(h) /\ ComparedEq(e, h)
      BY <2>4
    <3>2. \A v \in TwoValued : NotT(Value(v, h)) = ValueOf(v, e)
      BY <2>2, <3>1 DEF ComparedEq, NotT, no, yes
    <3> QED BY <1>5, <3>1, <3>2
  <2> QED BY <1>1, <1>7, <2>3, <2>4, TransCompared DEF ComparedNeq
<1> QED BY <1>6, <1>7

(***************************************************************************)
(* expr_depends_symbol.                                                    *)
(***************************************************************************)
DependsLeaf(f, x) == CASE f.op = "eq"  -> f.s = x /\ f.c \in {"y", "m"}
                       [] f.op = "neq" -> f.s = x /\ f.c = "n"
                       [] OTHER        -> f.op = "sym" /\ f.s = x
DependsBody(g, f, x) == CASE f.op = "and" -> g[f.a] \/ g[f.b]
                          [] f.op = "eq"  -> f.s = x /\ f.c \in {"y", "m"}
                          [] f.op = "neq" -> f.s = x /\ f.c = "n"
                          [] OTHER        -> f.op = "sym" /\ f.s = x
IsDepends(g, x) == g = [f \in Exprs |-> DependsBody(g, f, x)]

LEMMA DependsExists ==
    ASSUME NEW x
    PROVE  \E g : IsDepends(g, x) /\ \A f \in Exprs : g[f] \in BOOLEAN
<1> DEFINE K(f) == DependsLeaf(f, x)
           Y(f, p, q) == IF f.op = "and" THEN p \/ q ELSE K(f)
           L == [f \in Leaves |-> K(f)]
           N == [f \in Tree[Depth] |-> [p \in BOOLEAN |-> K(f)]]
           C == [f \in Tree[Depth] |-> [p \in BOOLEAN |-> [q \in BOOLEAN |-> Y(f, p, q)]]]
<1>1. \A f : K(f) \in BOOLEAN
  BY DEF DependsLeaf
<1>2. \A g : \A f : f.op # "and" => DependsBody(g, f, x) = K(f)
  BY DEF DependsBody, DependsLeaf
<1>3. \A g : \A f : f.op = "and" => DependsBody(g, f, x) = (g[f.a] \/ g[f.b])
  BY DEF DependsBody
<1> HIDE DEF K
<1>4. \A f : \A p \in BOOLEAN, q \in BOOLEAN : Y(f, p, q) \in BOOLEAN
  BY <1>1
<1> HIDE DEF Y
<1>5. L \in [Leaves -> BOOLEAN] /\ N \in [Tree[Depth] -> [BOOLEAN -> BOOLEAN]]
  BY <1>1
<1>6. C \in [Tree[Depth] -> [BOOLEAN -> [BOOLEAN -> BOOLEAN]]]
  BY <1>4
<1>7. /\ \A f \in Leaves : L[f] = K(f)
      /\ \A f \in Tree[Depth], p \in BOOLEAN : N[f][p] = K(f)
      /\ \A f \in Tree[Depth], p \in BOOLEAN, q \in BOOLEAN : C[f][p][q] = Y(f, p, q)
  OBVIOUS
<1> HIDE DEF L, N, C
<1>8. PICK g : IsFold(g, Depth, L, N, C)
  BY FoldExists, DepthNat
<1>9. \A f \in Tree[Depth] : g[f] \in BOOLEAN
  BY <1>5, <1>6, <1>8, DepthNat, FoldRange
<1>10. ASSUME NEW f \in Exprs
       PROVE  FoldOf(g, f, L, N, C) = DependsBody(g, f, x)
  <2>1. CASE f \in Leaves
    <3>1. FoldOf(g, f, L, N, C) = K(f)
      BY <2>1, <1>7, LeafOps DEF FoldOf
    <3> QED BY <2>1, <3>1, <1>2, LeafOps DEF Chains
  <2>2. CASE f.op = "not" /\ f.a \in Exprs
    <3>1. FoldOf(g, f, L, N, C) = K(f)
      BY <2>2, <1>7, <1>9, NotNotChain DEF FoldOf, Exprs
    <3> QED BY <2>2, <3>1, <1>2
  <2>3. CASE f.op \in Chains /\ f.a \in Exprs /\ f.b \in Exprs
    <3>1. FoldOf(g, f, L, N, C) = Y(f, g[f.a], g[f.b])
      BY <2>3, <1>7, <1>9 DEF FoldOf, Exprs
    <3>2. CASE f.op = "and"
      BY <3>1, <3>2, <1>3 DEF Y
    <3>3. CASE f.op # "and"
      BY <3>1, <3>3, <1>2 DEF Y
    <3> QED BY <3>2, <3>3
  <2> QED BY <2>1, <2>2, <2>3, Form, DepthNat DEF Exprs
<1>11. g = [f \in Exprs |-> DependsBody(g, f, x)]
  <2>1. g = [f \in Exprs |-> FoldOf(g, f, L, N, C)]
    BY <1>8 DEF IsFold, Exprs
  <2> QED BY <2>1, <1>10
<1> QED BY <1>9, <1>11 DEF IsDepends, Exprs

LEMMA DependsLeafSound ==
    ASSUME NEW v \in Valuations, NEW e \in Leaves, NEW x \in Syms, DependsLeaf(e, x), v[x] = no
    PROVE  LeafValue(v, e) = no
<1>1. v["n"] = no /\ v["m"] = mod /\ v["y"] = yes
  BY DEF Valuations
<1>2. CASE e.op = "eq"
  <2>1. e.s = x /\ e.c \in {"y", "m"}
    BY <1>2 DEF DependsLeaf
  <2>2. v[e.c] # no
    BY <1>1, <2>1 DEF no, mod, yes
  <2> QED BY <1>2, <2>1, <2>2 DEF LeafValue
<1>3. CASE e.op = "neq"
  <2>1. e.s = x /\ e.c = "n"
    BY <1>3 DEF DependsLeaf
  <2> QED BY <1>1, <1>3, <2>1 DEF LeafValue
<1>4. CASE e.op \notin {"eq", "neq"}
  <2>1. e.op = "sym" /\ e.s = x
    BY <1>4 DEF DependsLeaf
  <2> QED BY <2>1 DEF LeafValue
<1> QED BY <1>2, <1>3, <1>4

\* expr_depends_symbol (expr.c:777): a dependency that depends on a symbol is n
\* whenever the symbol is.
THEOREM DependsOnSound ==
    ASSUME NEW v \in Valuations, NEW x \in Syms, v[x] = no
    PROVE  \A e \in Exprs : DependsOn(e, x) => Value(v, e) = no
<1> DEFINE depends == CHOOSE g : IsDepends(g, x)
<1>1. IsDepends(depends, x)
  BY DependsExists
<1>2. \A e : DependsOn(e, x) = depends[e]
  BY DEF DependsOn, IsDepends, DependsBody
<1> HIDE DEF depends
<1>3. \A e \in Exprs : depends[e] = DependsBody(depends, e, x)
  BY <1>1 DEF IsDepends
<1> DEFINE G == {e \in Exprs : depends[e] => Value(v, e) = no}
<1>4. ASSUME NEW e \in Exprs, e.op \notin Chains
      PROVE  e \in G
  <2>1. CASE e \in Leaves
    <3>1. Value(v, e) = LeafValue(v, e)
      BY <2>1, ValueLeaf
    <3>2. DependsBody(depends, e, x) = DependsLeaf(e, x)
      BY <2>1, LeafOps DEF DependsBody, DependsLeaf, Chains
    <3> QED BY <1>3, <2>1, <3>1, <3>2, DependsLeafSound
  <2>2. CASE e.op = "not"
    <3>1. DependsBody(depends, e, x) = FALSE
      BY <2>2 DEF DependsBody
    <3> QED BY <1>3, <3>1
  <2> QED BY <1>4, <2>1, <2>2, Form, DepthNat DEF Exprs
<1>5. ASSUME NEW e \in Exprs, e.op \in Chains, e.a \in Exprs, e.b \in Exprs, e.a \in G, e.b \in G
      PROVE  e \in G
  <2>1. CASE e.op = "or"
    <3>1. DependsBody(depends, e, x) = FALSE
      BY <2>1 DEF DependsBody
    <3> QED BY <1>3, <3>1
  <2>2. CASE e.op = "and"
    <3>1. SUFFICES ASSUME depends[e]
                   PROVE  Value(v, e) = no
      OBVIOUS
    <3>2. depends[e] = DependsBody(depends, e, x)
      BY <1>3
    <3>3. DependsBody(depends, e, x) = (depends[e.a] \/ depends[e.b])
      BY <2>2 DEF DependsBody
    <3>4. Value(v, e.a) = no \/ Value(v, e.b) = no
      BY <1>5, <3>1, <3>2, <3>3
    <3>5. e = Two(e.op, e.a, e.b)
      BY <1>5, Form, DepthNat, LeafOps, NotNotChain DEF Exprs
    <3>6. Value(v, e) = AndT(Value(v, e.a), Value(v, e.b))
      BY <1>5, <2>2, <3>5, ValueTwo
    <3>7. Value(v, e.a) \in Tristate /\ Value(v, e.b) \in Tristate
      BY <1>5, ValueType
    <3> QED BY <3>4, <3>6, <3>7 DEF AndT, Tristate, no, mod, yes
  <2> QED BY <1>5, <2>1, <2>2 DEF Chains
<1> HIDE DEF G
<1>6. Exprs \subseteq G
  BY <1>4, <1>5, ExprInduction
<1> QED BY <1>2, <1>6 DEF G

LEMMA ValueOfParts ==
    /\ \A v : ValueOf(v, None) = yes
    /\ \A v : \A e \in Exprs : ValueOf(v, e) = Value(v, e)
BY NoneNotExpr DEF ValueOf

\* What an entry depends on together with its menu, when the menu is finalized.
LEMMA JoinedSound ==
    ASSUME NEW p \in ParentDeps, NEW d \in EntryDeps \union FrontDeps
    PROVE  /\ AndE(p, Transformed(d)) \in Flat \union {None}
           /\ \A v \in TwoValued : ValueOf(v, AndE(p, Transformed(d))) = AndT(ValueOf(v, p), ValueOf(v, d))
<1>1. /\ AndE(p, Transformed(d)) \in Flat \union {None}
      /\ p \in Flat \union {None} /\ d \in Exprs \union {None}
  BY DepsAssumption
<1>2. p \in Exprs \union {None}
  BY <1>1 DEF Flat
<1>3. SUFFICES ASSUME NEW v \in TwoValued
               PROVE  ValueOf(v, AndE(p, Transformed(d))) = AndT(ValueOf(v, p), ValueOf(v, d))
  BY <1>1
<1>4. v \in Valuations
  BY TwoValuedIn
<1>5. PICK a, b : a = ValueOf(v, p) /\ b = ValueOf(v, d)
  OBVIOUS
<1>6. a \in Tristate /\ b \in Tristate
  <2>1. yes \in Tristate
    BY DEF Tristate
  <2> QED BY <1>1, <1>2, <1>4, <1>5, <2>1, ValueOfParts, ValueType
<1>7. AndT(yes, b) = b /\ AndT(a, yes) = a
  BY <1>6 DEF AndT, Tristate, no, mod, yes
<1>8. CASE d = None
  <2>1. Transformed(d) = None /\ b = yes
    BY <1>5, <1>8, ValueOfParts DEF Transformed, NullOr
  <2>2. AndE(p, Transformed(d)) = p
    BY <2>1 DEF AndE
  <2> QED BY <1>5, <1>7, <2>1, <2>2
<1>9. CASE d # None
  <2>1. PICK t : t = Transform[d]
    OBVIOUS
  <2>2. d \in Exprs /\ Transformed(d) = t
    BY <1>1, <1>9, <2>1 DEF Transformed, NullOr
  <2>3. t \in Exprs /\ Value(v, t) = Value(v, d)
    BY <1>4, <2>1, <2>2, TransformSound
  <2>4. ValueOf(v, t) = b /\ Value(v, t) = b /\ t # None
    BY <1>5, <2>2, <2>3, ValueOfParts, NoneNotExpr
  <2>5. CASE p = None
    <3>1. AndE(p, t) = t /\ a = yes
      BY <1>5, <2>5, ValueOfParts DEF AndE
    <3> QED BY <1>5, <1>7, <2>2, <2>4, <3>1
  <2>6. CASE p # None
    <3>1. PICK w : w = Two("and", p, t)
      OBVIOUS
    <3>2. AndE(p, t) = w /\ w.op = "and" /\ w.a = p /\ w.b = t
      BY <2>4, <2>6, <3>1, TwoForm DEF AndE
    <3>3. w \in Flat
      <4>1. None.op = "none"
        BY DEF None
      <4> QED BY <1>1, <2>2, <3>2, <4>1
    <3>4. Value(v, w) = AndT(Value(v, p), Value(v, t))
      BY <1>4, <3>2, <3>3, FlatTwo DEF Chains
    <3>5. Value(v, p) = a /\ ValueOf(v, w) = Value(v, w)
      BY <1>2, <1>5, <2>6, <3>3, FlatParts, ValueOfParts
    <3> QED BY <1>5, <2>2, <2>4, <3>2, <3>4, <3>5
  <2> QED BY <2>5, <2>6
<1> QED BY <1>8, <1>9

\* The reduction of a dependency, or of none, and of it as a prompt's.
LEMMA MenuDepSound ==
    ASSUME NEW e \in Flat \union {None}
    PROVE  /\ MenuDep(e) \in Flat \union {None}
           /\ \A v \in TwoValued : ValueOf(v, MenuDep(e)) = ValueOf(v, e)
<1>1. CASE e = None
  BY <1>1 DEF MenuDep, NullOr
<1>2. CASE e # None
  <2>1. e \in Flat /\ MenuDep(e) = ElimDups(e)
    BY <1>2 DEF MenuDep, NullOr
  <2>2. ElimDups(e) \in Flat /\ \A v \in TwoValued : Value(v, ElimDups(e)) = Value(v, e)
    BY <2>1, ElimDupsSound
  <2>3. e \in Exprs /\ ElimDups(e) \in Exprs
    BY <2>1, <2>2, FlatParts
  <2> QED BY <2>1, <2>2, <2>3, ValueOfParts
<1> QED BY <1>1, <1>2

LEMMA PromptDepSound ==
    ASSUME NEW e \in Flat \union {None}
    PROVE  /\ PromptDep(e) \in Flat \union {None}
           /\ \A v \in TwoValued : ValueOf(v, PromptDep(e)) = ValueOf(v, e)
<1>1. CASE e = None
  BY <1>1 DEF PromptDep, NullOr
<1>2. CASE e # None
  <2>1. PICK f : f = ElimDups(e)
    OBVIOUS
  <2>2. e \in Flat /\ PromptDep(e) = TransBool[f]
    BY <1>2, <2>1 DEF PromptDep, NullOr
  <2>3. f \in Flat /\ \A v \in TwoValued : Value(v, f) = Value(v, e)
    BY <2>1, <2>2, ElimDupsSound
  <2>4. TransBool[f] \in Flat /\ \A v \in TwoValued : Value(v, TransBool[f]) = Value(v, f)
    BY <2>3, TransBoolSound
  <2>5. e \in Exprs /\ TransBool[f] \in Exprs
    BY <2>2, <2>4, FlatParts
  <2> QED BY <2>2, <2>3, <2>4, <2>5, ValueOfParts
<1> QED BY <1>1, <1>2

\* menu_finalize takes a dependency d for one that follows from f when d != n and
\* f != n leave y of the second (menu.c:299).
LEMMA FollowsSound ==
    ASSUME NEW d \in Flat, NEW f \in Flat \union {None}, IsConst(ElimEq(Eq, Pair(Holds(d), Holds(f))).b, "y"),
           NEW v \in TwoValued, ValueOf(v, f) = no
    PROVE  Value(v, d) = no
<1>1. PICK p, q : p = Holds(d) /\ q = Holds(f)
  OBVIOUS
<1>2. Depth >= 1 /\ d \in Exprs /\ Value(v, d) \in {no, yes}
  BY FlatParts, DepthNat, FlatValue
<1>3. p \in Flat /\ Value(v, p) = Value(v, d) /\ q \in Flat /\ Value(v, q) = no
  BY <1>1, <1>2, HoldsSound, ValueOfParts
<1>4. PICK t : t = Pair(p, q)
  OBVIOUS
<1>5. t.a = p /\ t.b = q
  BY <1>4, PairForm
<1>6. PICK r : r = ElimEq(Eq, t)
  OBVIOUS
<1>7. Kept(Eq, t, r) /\ EqualUnder(v, Eq)
  BY <1>3, <1>5, <1>6, EqSound, ElimEqKept
<1>8. SUFFICES ASSUME Value(v, p) # Value(v, q)
               PROVE  FALSE
  BY <1>2, <1>3
<1>9. Value(v, r.b) = no
  BY <1>3, <1>5, <1>7, <1>8 DEF Kept
<1>10. Value(v, r.b) = yes
  <2>1. IsConst(r.b, "y") /\ r.b \in Flat
    BY <1>1, <1>4, <1>6, <1>7 DEF Kept
  <2>2. v \in Valuations
    BY TwoValuedIn
  <2>3. Value(v, r.b) = v["y"]
    BY <2>1, <2>2, ConstValue
  <2> QED BY <2>2, <2>3 DEF Valuations
<1> QED BY <1>9, <1>10 DEF no, yes

(***************************************************************************)
(* menu_finalize.                                                          *)
(***************************************************************************)
\* A joined dependency is one that can be reduced, and what is known of it besides is
\* its value: that of the two dependencies as they were written.  Nothing is nested
\* before the entry in front was looked at.
FinalizeInv == /\ parent \in ParentDeps /\ own \in EntryDeps
               /\ pc = "transformed" => dep = Transformed(own)
               /\ pc \in {"joined", "reduced", "prompt"} =>
                    /\ dep \in Flat \union {None}
                    /\ \A v \in TwoValued : ValueOf(v, dep) = Written(v)
               /\ pc # "done" => ~nested
               /\ NestedFollows

LEMMA FinalizeInit == Init => FinalizeInv
BY DEF Init, FinalizeInv, NestedFollows

\* A step from one dependency to the next that keeps its value.
LEMMA FinalizeKept ==
    ASSUME FinalizeInv, parent' = parent, own' = own, nested' = nested, ~nested,
           pc' \in {"joined", "reduced", "prompt"}, dep' \in Flat \union {None},
           \A v \in TwoValued : ValueOf(v, dep') = Written(v)
    PROVE  FinalizeInv'
<1>1. \A v \in TwoValued : Written(v)' = Written(v) /\ ValueOf(v, dep)' = ValueOf(v, dep')
  BY DEF Written, ValueOf
<1>2. pc' # "transformed" /\ NestedFollows'
  BY DEF NestedFollows
<1> QED BY <1>1, <1>2 DEF FinalizeInv

LEMMA FinalizeNest ==
    ASSUME FinalizeInv, pc = "prompt", Nest
    PROVE  FinalizeInv'
<1>1. PICK x \in Syms, f \in FrontDeps :
         front' = [sym |-> x, dep |-> PromptDep(MenuDep(AndE(parent, Transformed(f))))]
  BY DEF Nest
<1>2. PICK d, p : d = dep /\ p = PromptDep(MenuDep(AndE(parent, Transformed(f))))
  OBVIOUS
<1>3. p \in Flat \union {None} /\ d \in Flat \union {None}
  BY <1>2, JoinedSound, MenuDepSound, PromptDepSound DEF FinalizeInv
<1>4. front'.sym = x /\ front'.dep = p /\ dep' = d /\ parent' = parent /\ own' = own /\ pc' = "done"
  BY <1>1, <1>2 DEF Nest
<1>5. ASSUME nested'
      PROVE  \/ \A v \in TwoValued : v[x] = no => ValueOf(v, d) = no
             \/ \A v \in TwoValued : ValueOf(v, p) = no => ValueOf(v, d) = no
  <2>1. /\ d # None
        /\ DependsOn(d, x) \/ IsConst(ElimEq(Eq, Pair(Holds(d), Holds(p))).b, "y")
    BY <1>2, <1>4, <1>5 DEF Nest
  <2>2. d \in Flat /\ d \in Exprs
    BY <1>3, <2>1, FlatParts
  <2>3. \A v : ValueOf(v, d) = Value(v, d)
    BY <2>2, ValueOfParts
  <2>4. CASE DependsOn(d, x)
    BY <2>2, <2>3, <2>4, DependsOnSound, TwoValuedIn
  <2>5. CASE IsConst(ElimEq(Eq, Pair(Holds(d), Holds(p))).b, "y")
    BY <1>3, <2>2, <2>3, <2>5, FollowsSound
  <2> QED BY <2>1, <2>4, <2>5
<1>6. NestedFollows'
  BY <1>4, <1>5 DEF NestedFollows, ValueOf
<1> QED BY <1>4, <1>6 DEF FinalizeInv

LEMMA FinalizeStep ==
    ASSUME FinalizeInv, [Next]_vars
    PROVE  FinalizeInv'
<1>1. CASE TransformDep
  <2>1. pc' = "transformed" /\ dep' = Transformed(own) /\ parent' = parent /\ own' = own /\ ~nested'
    BY <1>1 DEF TransformDep, FinalizeInv
  <2>2. Transformed(own)' = Transformed(own)
    BY <2>1 DEF Transformed, NullOr
  <2>3. NestedFollows'
    BY <2>1 DEF NestedFollows
  <2> QED BY <2>1, <2>2, <2>3 DEF FinalizeInv
<1>2. CASE JoinParent
  <2>1. dep' = AndE(parent, Transformed(own)) /\ parent \in ParentDeps /\ own \in EntryDeps /\ ~nested
    BY <1>2 DEF JoinParent, FinalizeInv
  <2>2. dep' \in Flat \union {None} /\ \A v \in TwoValued : ValueOf(v, dep') = Written(v)
    BY <2>1, JoinedSound DEF Written
  <2> QED BY <1>2, <2>1, <2>2, FinalizeKept DEF JoinParent
<1>3. CASE Reduce
  <2>1. /\ dep' = MenuDep(dep) /\ dep \in Flat \union {None} /\ ~nested
        /\ \A v \in TwoValued : ValueOf(v, dep) = Written(v)
    BY <1>3 DEF Reduce, FinalizeInv
  <2>2. dep' \in Flat \union {None} /\ \A v \in TwoValued : ValueOf(v, dep') = Written(v)
    BY <2>1, MenuDepSound
  <2> QED BY <1>3, <2>1, <2>2, FinalizeKept DEF Reduce
<1>4. CASE Prompt
  <2>1. /\ dep' = PromptDep(dep) /\ dep \in Flat \union {None} /\ ~nested
        /\ \A v \in TwoValued : ValueOf(v, dep) = Written(v)
    BY <1>4 DEF Prompt, FinalizeInv
  <2>2. dep' \in Flat \union {None} /\ \A v \in TwoValued : ValueOf(v, dep') = Written(v)
    BY <2>1, PromptDepSound
  <2> QED BY <1>4, <2>1, <2>2, FinalizeKept DEF Prompt
<1>5. CASE Nest
  BY <1>5, FinalizeNest DEF Nest
<1>6. CASE UNCHANGED vars
  <2>1. \A v : ValueOf(v, dep)' = ValueOf(v, dep) /\ Written(v)' = Written(v)
    BY <1>6 DEF vars, ValueOf, Written
  <2>2. Transformed(own)' = Transformed(own) /\ NestedFollows'
    BY <1>6 DEF vars, Transformed, NullOr, FinalizeInv, NestedFollows, ValueOf
  <2> QED BY <1>6, <2>1, <2>2 DEF vars, FinalizeInv
<1> QED BY <1>1, <1>2, <1>3, <1>4, <1>5, <1>6 DEF Next

LEMMA FinalizeAlways == Spec => []FinalizeInv
BY FinalizeInit, FinalizeStep, PTL DEF Spec

\* Whatever the menus, the entries, the symbols and the depth of the dependencies
\* are, what menu_finalize keeps of a "depends on" after expr_transform
\* (menu.c:264) evaluates to what was written, m included.
THEOREM TransformKeepsCorrect == Spec => []TransformKeepsValue
<1>1. FinalizeInv => TransformKeepsValue
  <2>1. SUFFICES ASSUME FinalizeInv, pc = "transformed", NEW v \in Valuations
                 PROVE  ValueOf(v, dep) = ValueOf(v, own)
    BY DEF TransformKeepsValue
  <2>2. own \in Exprs \union {None} /\ dep = Transformed(own)
    BY <2>1, DepsAssumption DEF FinalizeInv
  <2>3. CASE own = None
    BY <2>2, <2>3 DEF Transformed, NullOr
  <2>4. CASE own # None
    <3>1. own \in Exprs /\ dep = Transform[own]
      BY <2>2, <2>4 DEF Transformed, NullOr
    <3>2. dep \in Exprs /\ Value(v, dep) = Value(v, own)
      BY <3>1, TransformSound
    <3> QED BY <3>1, <3>2, ValueOfParts
  <2> QED BY <2>3, <2>4
<1> QED BY <1>1, FinalizeAlways, PTL

\* Whatever menu, entry and symbols there are, and however the dependencies nest,
\* menu_finalize reduces them (expr.c:617) to one that evaluates to the conjunction of
\* the two as they were written, as long as no symbol is m.
THEOREM ReduceKeepsCorrect == Spec => []ReduceKeepsValue
<1>1. FinalizeInv => ReduceKeepsValue
  BY DEF FinalizeInv, ReduceKeepsValue
<1> QED BY <1>1, FinalizeAlways, PTL

\* What becomes of it as the visibility of a bool's prompt (menu.c:279) is n exactly
\* when the dependencies as written are.
THEOREM PromptKeepsCorrect == Spec => []PromptKeepsVisibility
<1>1. FinalizeInv => PromptKeepsVisibility
  BY DEF FinalizeInv, PromptKeepsVisibility
<1> QED BY <1>1, FinalizeAlways, PTL

\* An entry that menu_finalize puts below the config in front of it (menu.c:299)
\* cannot be visible while that config is n, or else while it is not visible itself,
\* whatever the two dependencies are.
THEOREM NestedFollowsCorrect == Spec => []NestedFollows
<1>1. FinalizeInv => NestedFollows
  BY DEF FinalizeInv
<1> QED BY <1>1, FinalizeAlways, PTL
=============================================================================
