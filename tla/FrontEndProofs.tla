---------------------------- MODULE FrontEndProofs ----------------------------
(***************************************************************************)
(* What sym_calc_value leaves in the symbol database, whatever the Kconfig *)
(* is, and what follows for the front ends.                                *)
(***************************************************************************)
EXTENDS Menuconfig, Oldconfig, KconfigRulesProofs, FiniteSetTheorems, SequenceTheorems, TLAPS

(***************************************************************************)
(* Databases.                                                              *)
(***************************************************************************)
LEMMA DbParts ==
    ASSUME NEW d \in Dbs
    PROVE  /\ d.modval \in Tristate
           /\ \A s \in Syms :
                /\ d.sym[s] \in SymRecs
                /\ {d.sym[s].tri, d.sym[s].vis, d.sym[s].rev, d.sym[s].utri} \subseteq Tristate
                /\ {d.sym[s].sel, d.sym[s].usel} \subseteq Syms \union {Nobody}
                /\ {d.sym[s].valid, d.sym[s].write, d.sym[s].user} \subseteq BOOLEAN
BY DEF Dbs, SymRecs

\* Only the record of s differs.
But(s, d, e) == /\ e \in Dbs /\ e.modval = d.modval
                /\ \A x \in Syms : x # s => e.sym[x] = d.sym[x]

LEMMA SetVis ==
    ASSUME NEW d \in Dbs, NEW s \in Syms, NEW v \in Tristate
    PROVE  LET e == [d EXCEPT !.sym[s].vis = v]
           IN  /\ But(s, d, e)
               /\ e.sym[s] = [d.sym[s] EXCEPT !.vis = v]
BY DEF Dbs, SymRecs, But

LEMMA SetRev ==
    ASSUME NEW d \in Dbs, NEW s \in Syms, NEW v \in Tristate
    PROVE  LET e == [d EXCEPT !.sym[s].rev = v]
           IN  /\ But(s, d, e)
               /\ e.sym[s] = [d.sym[s] EXCEPT !.rev = v]
BY DEF Dbs, SymRecs, But

LEMMA SetTriField ==
    ASSUME NEW d \in Dbs, NEW s \in Syms, NEW v \in Tristate
    PROVE  LET e == [d EXCEPT !.sym[s].tri = v]
           IN  /\ But(s, d, e)
               /\ e.sym[s] = [d.sym[s] EXCEPT !.tri = v]
BY DEF Dbs, SymRecs, But

LEMMA SetSel ==
    ASSUME NEW d \in Dbs, NEW s \in Syms, NEW p \in Syms \union {Nobody}
    PROVE  LET e == [d EXCEPT !.sym[s].sel = p]
           IN  /\ But(s, d, e)
               /\ e.sym[s] = [d.sym[s] EXCEPT !.sel = p]
BY DEF Dbs, SymRecs, But

LEMMA SetWrite ==
    ASSUME NEW d \in Dbs, NEW s \in Syms, NEW w \in BOOLEAN
    PROVE  LET e == [d EXCEPT !.sym[s].write = w]
           IN  /\ But(s, d, e)
               /\ e.sym[s] = [d.sym[s] EXCEPT !.write = w]
BY DEF Dbs, SymRecs, But

LEMMA SetValid ==
    ASSUME NEW d \in Dbs, NEW s \in Syms, NEW b \in BOOLEAN
    PROVE  LET e == [d EXCEPT !.sym[s].valid = b]
           IN  /\ But(s, d, e)
               /\ e.sym[s] = [d.sym[s] EXCEPT !.valid = b]
BY DEF Dbs, SymRecs, But

(***************************************************************************)
(* expr_calc_value, given what sym_calc_value does.                        *)
(***************************************************************************)
Calcs == [Dbs -> [Syms -> Dbs]]

EvalBody(calc, g, f) ==
    [d1 \in Dbs |-> IF f.op \in Chains THEN Chained(f, g[f.a][d1], g[f.b])
                    ELSE IF f.op = "not" THEN Negated(g[f.a][d1])
                    ELSE Compared(f, ConstOrSym(calc, d1, f.s))]
IsEval(g, calc) == g = [f \in Exprs |-> EvalBody(calc, g, f)]

LEMMA NegatedType ==
    ASSUME NEW r \in Results
    PROVE  /\ Negated(r) \in Results
           /\ Negated(r).d = r.d /\ Negated(r).val = NotT(r.val)
<1>1. r.d \in Dbs /\ r.val \in Tristate /\ r = [d |-> r.d, val |-> r.val]
  BY DEF Results
<1>2. NotT(r.val) \in Tristate
  BY <1>1, TristateClosed
<1>3. Negated(r) = [d |-> r.d, val |-> NotT(r.val)]
  BY <1>1 DEF Negated
<1> QED BY <1>1, <1>2, <1>3 DEF Results

LEMMA JoinedType ==
    ASSUME NEW op, NEW l \in Results, NEW r \in Results
    PROVE  /\ Joined(op, l, r) \in Results
           /\ Joined(op, l, r).d = r.d
           /\ Joined(op, l, r).val = IF op = "and" THEN AndT(l.val, r.val) ELSE OrT(l.val, r.val)
<1>1. r.d \in Dbs /\ r.val \in Tristate /\ l.val \in Tristate /\ r = [d |-> r.d, val |-> r.val]
  BY DEF Results
<1> DEFINE v == IF op = "and" THEN AndT(l.val, r.val) ELSE OrT(l.val, r.val)
<1>2. v \in Tristate
  BY <1>1, TristateClosed
<1>3. Joined(op, l, r) = [d |-> r.d, val |-> v]
  BY <1>1 DEF Joined
<1> QED BY <1>1, <1>2, <1>3 DEF Results

LEMMA LeafParts ==
    ASSUME NEW e \in Leaves
    PROVE  /\ e.op \notin Chains /\ e.op # "not"
           /\ e.s \in Syms \union ConstSyms
           /\ e.op # "sym" => e.op \in Comparisons /\ e.c \in ConstSyms
           /\ e.op = "sym" => e = SymE(e.s)
BY DEF Leaves, SymE, Cmp, Comparisons, Chains

LEMMA ConstTriType ==
    \A c \in ConstSyms : ConstTri[c] \in Tristate
BY DEF ConstTri, ConstSyms, Tristate, no, mod, yes

\* What a leaf makes of the symbol in it.
LEMMA LeafType ==
    ASSUME NEW calc \in Calcs, NEW d \in Dbs, NEW e \in Leaves
    PROVE  LET r == Compared(e, ConstOrSym(calc, d, e.s))
               w == IF e.s \in ConstSyms THEN ConstTri[e.s] ELSE r.d.sym[e.s].tri
           IN  /\ r \in Results
               /\ r.d = IF e.s \in ConstSyms THEN d ELSE calc[d][e.s]
               /\ r.val = IF e.op = "sym" THEN w
                          ELSE IF (e.op = "eq") = (w = ConstTri[e.c]) THEN yes ELSE no
<1> DEFINE b == IF e.s \in ConstSyms THEN d ELSE calc[d][e.s]
           w == IF e.s \in ConstSyms THEN ConstTri[e.s] ELSE b.sym[e.s].tri
           c == ConstOrSym(calc, d, e.s)
<1>1. b \in Dbs /\ w \in Tristate
  <2>1. CASE e.s \in ConstSyms
    BY <2>1, ConstTriType
  <2>2. CASE e.s \notin ConstSyms
    <3>1. e.s \in Syms
      BY <2>2, LeafParts
    <3>2. calc[d][e.s] \in Dbs
      BY <3>1 DEF Calcs
    <3> QED BY <2>2, <3>1, <3>2, DbParts
  <2> QED BY <2>1, <2>2
<1>2. c = [d |-> b, val |-> w]
  BY DEF ConstOrSym
<1> HIDE DEF b, w, c
<1> DEFINE r == Compared(e, c)
<1>3. CASE e.op = "sym"
  <2>1. r = [d |-> b, val |-> w]
    BY <1>2, <1>3 DEF Compared
  <2> QED BY <1>1, <1>3, <2>1 DEF Results, b, w, c
<1>4. CASE e.op # "sym"
  <2> DEFINE v == IF (e.op = "eq") = (w = ConstTri[e.c]) THEN yes ELSE no
  <2>1. r = [d |-> b, val |-> v]
    BY <1>2, <1>4 DEF Compared
  <2>2. v \in Tristate
    BY DEF Tristate
  <2>3. r \in Results /\ r.d = b /\ r.val = v
    BY <1>1, <2>1, <2>2 DEF Results
  <2> QED BY <1>4, <2>3 DEF b, w, c
<1> QED BY <1>3, <1>4

LEMMA EvalExists ==
    ASSUME NEW calc \in Calcs
    PROVE  \E g \in [Exprs -> [Dbs -> Results]] : IsEval(g, calc)
<1> DEFINE V == [Dbs -> Results]
           L == [e \in Leaves |-> [d \in Dbs |-> Compared(e, ConstOrSym(calc, d, e.s))]]
           N == [e \in Tree[Depth] |-> [x \in V |-> [d \in Dbs |-> Negated(x[d])]]]
           C == [e \in Tree[Depth] |-> [x \in V |-> [y \in V |-> [d \in Dbs |-> Chained(e, x[d], y)]]]]
<1>1. L \in [Leaves -> V]
  BY LeafType
<1>2. N \in [Tree[Depth] -> [V -> V]]
  <2>1. ASSUME NEW x \in V
        PROVE  [d \in Dbs |-> Negated(x[d])] \in V
    BY NegatedType
  <2> QED BY <2>1
<1>3. C \in [Tree[Depth] -> [V -> [V -> V]]]
  <2>1. ASSUME NEW e \in Tree[Depth], NEW x \in V, NEW y \in V, NEW d \in Dbs
        PROVE  Chained(e, x[d], y) \in Results
    <3>1. x[d] \in Results /\ x[d].d \in Dbs
      BY DEF Results
    <3>2. y[x[d].d] \in Results
      BY <3>1
    <3> QED BY <3>1, <3>2, JoinedType DEF Chained
  <2>2. ASSUME NEW e \in Tree[Depth], NEW x \in V, NEW y \in V
        PROVE  [d \in Dbs |-> Chained(e, x[d], y)] \in V
    BY <2>1
  <2>3. ASSUME NEW e \in Tree[Depth], NEW x \in V
        PROVE  [y \in V |-> [d \in Dbs |-> Chained(e, x[d], y)]] \in [V -> V]
    BY <2>2
  <2>4. ASSUME NEW e \in Tree[Depth]
        PROVE  [x \in V |-> [y \in V |-> [d \in Dbs |-> Chained(e, x[d], y)]]] \in [V -> [V -> V]]
    BY <2>3
  <2> QED BY <2>4
<1>4. /\ \A e \in Leaves : L[e] = [d \in Dbs |-> Compared(e, ConstOrSym(calc, d, e.s))]
      /\ \A e \in Tree[Depth], x \in V : N[e][x] = [d \in Dbs |-> Negated(x[d])]
      /\ \A e \in Tree[Depth], x \in V, y \in V : C[e][x][y] = [d \in Dbs |-> Chained(e, x[d], y)]
  OBVIOUS
<1> HIDE DEF L, N, C
<1>5. PICK g : IsFold(g, Depth, L, N, C)
  BY FoldExists, DepthNat
<1> HIDE DEF V
<1>6. \A e \in Tree[Depth] : g[e] \in V
  BY <1>1, <1>2, <1>3, <1>5, DepthNat, FoldRange
<1>7. ASSUME NEW e \in Exprs
      PROVE  FoldOf(g, e, L, N, C) = EvalBody(calc, g, e)
  <2>1. CASE e \in Leaves
    <3>1. e.op \notin Chains /\ e.op # "not"
      BY <2>1, LeafOps
    <3>2. FoldOf(g, e, L, N, C) = L[e]
      BY <3>1 DEF FoldOf
    <3> QED BY <2>1, <3>1, <3>2, <1>4 DEF EvalBody
  <2>2. CASE e.op = "not" /\ e.a \in Exprs
    <3>1. N[e][g[e.a]] = [d \in Dbs |-> Negated(g[e.a][d])]
      BY <2>2, <1>4, <1>6 DEF Exprs
    <3>2. FoldOf(g, e, L, N, C) = N[e][g[e.a]]
      BY <2>2, NotNotChain DEF FoldOf
    <3> QED BY <2>2, <3>1, <3>2, NotNotChain DEF EvalBody
  <2>3. CASE e.op \in Chains /\ e.a \in Exprs /\ e.b \in Exprs
    <3>1. g[e.a] \in V /\ g[e.b] \in V
      BY <2>3, <1>6 DEF Exprs
    <3>2. C[e][g[e.a]][g[e.b]] = [d \in Dbs |-> Chained(e, g[e.a][d], g[e.b])]
      BY <3>1, <1>4 DEF Exprs
    <3>3. FoldOf(g, e, L, N, C) = C[e][g[e.a]][g[e.b]]
      BY <2>3 DEF FoldOf
    <3> QED BY <2>3, <3>2, <3>3 DEF EvalBody
  <2> QED BY <2>1, <2>2, <2>3, Form, DepthNat DEF Exprs
<1>8. g = [e \in Exprs |-> FoldOf(g, e, L, N, C)]
  BY <1>5 DEF IsFold, Exprs
<1>9. IsEval(g, calc)
  BY <1>7, <1>8 DEF IsEval
<1>10. g \in [Exprs -> V]
  BY <1>6, <1>8 DEF Exprs
<1> QED BY <1>9, <1>10 DEF V

LEMMA EvalRecursion ==
    ASSUME NEW calc \in Calcs, NEW d \in Dbs, NEW e \in Exprs
    PROVE  /\ EvalBy(calc, d, e) \in Results
           /\ e \in Leaves => EvalBy(calc, d, e) = Compared(e, ConstOrSym(calc, d, e.s))
           /\ e.op = "not" => EvalBy(calc, d, e) = Negated(EvalBy(calc, d, e.a))
           /\ e.op \in Chains =>
                EvalBy(calc, d, e) = Joined(e.op, EvalBy(calc, d, e.a), EvalBy(calc, EvalBy(calc, d, e.a).d, e.b))
<1> DEFINE eval == CHOOSE g : IsEval(g, calc)
<1>1. IsEval(eval, calc)
  BY EvalExists
<1>2. PICK g \in [Exprs -> [Dbs -> Results]] : IsEval(g, calc)
  BY EvalExists
<1>3. \A f, d1 : EvalBy(calc, d1, f) = eval[f][d1]
  BY DEF EvalBy, IsEval, EvalBody
<1> HIDE DEF eval
<1>4. \A f \in Exprs : eval[f] = EvalBody(calc, eval, f)
  BY <1>1 DEF IsEval
<1>5. \A f \in Exprs, d1 \in Dbs :
        eval[f][d1] = IF f.op \in Chains THEN Chained(f, eval[f.a][d1], eval[f.b])
                      ELSE IF f.op = "not" THEN Negated(eval[f.a][d1])
                      ELSE Compared(f, ConstOrSym(calc, d1, f.s))
  BY <1>4 DEF EvalBody
<1>6. \A f \in Exprs : \A d1 \in Dbs : eval[f][d1] \in Results
  <2> DEFINE G == {f \in Exprs : \A d1 \in Dbs : eval[f][d1] \in Results}
  <2>1. \A f \in Leaves : f \in Exprs => f \in G
    BY <1>5, LeafType, LeafOps
  <2>2. ASSUME NEW f \in Exprs, f.op = "not", f.a \in G
        PROVE  f \in G
    BY <1>5, <2>2, NegatedType, NotNotChain
  <2>3. ASSUME NEW f \in Exprs, f.op \in Chains, f.a \in G, f.b \in G
        PROVE  f \in G
    <3>1. SUFFICES ASSUME NEW d1 \in Dbs
                   PROVE  eval[f][d1] \in Results
      OBVIOUS
    <3>2. eval[f.a][d1] \in Results /\ eval[f.a][d1].d \in Dbs
      BY <2>3 DEF Results
    <3>3. eval[f.b][eval[f.a][d1].d] \in Results
      BY <2>3, <3>2
    <3> QED BY <1>5, <2>3, <3>2, <3>3, JoinedType DEF Chained
  <2> HIDE DEF G
  <2>4. Exprs \subseteq G
    BY <2>1, <2>2, <2>3, ShapeInduction
  <2> QED BY <2>4 DEF G
<1>7. EvalBy(calc, d, e) \in Results
  BY <1>3, <1>6
<1>8. ASSUME e \in Leaves
      PROVE  EvalBy(calc, d, e) = Compared(e, ConstOrSym(calc, d, e.s))
  BY <1>3, <1>5, <1>8, LeafOps
<1>9. ASSUME e.op = "not"
      PROVE  EvalBy(calc, d, e) = Negated(EvalBy(calc, d, e.a))
  BY <1>3, <1>5, <1>9, NotNotChain
<1>10. ASSUME e.op \in Chains
       PROVE  EvalBy(calc, d, e) = Joined(e.op, EvalBy(calc, d, e.a), EvalBy(calc, EvalBy(calc, d, e.a).d, e.b))
  BY <1>3, <1>5, <1>10 DEF Chained
<1> QED BY <1>7, <1>8, <1>9, <1>10

(***************************************************************************)
(* What an expression mentions.                                            *)
(***************************************************************************)
MentionsBody(g, x, f) == CASE f.op \in Chains      -> g[f.a] \/ g[f.b]
                           [] f.op = "not"         -> g[f.a]
                           [] f.op \in Comparisons -> f.s = x \/ f.c = x
                           [] OTHER                -> f.s = x
IsMentions(g, x) == g = [f \in Exprs |-> MentionsBody(g, x, f)]

LEMMA OpsDiffer ==
    /\ "not" \notin Chains /\ "not" \notin Comparisons
    /\ Chains \intersect Comparisons = {}
BY DEF Chains, Comparisons

LEMMA MentionsExists ==
    ASSUME NEW x
    PROVE  \E g : IsMentions(g, x)
<1> DEFINE L == [e \in Leaves |-> IF e.op \in Comparisons THEN e.s = x \/ e.c = x ELSE e.s = x]
           N == [e \in Tree[Depth] |-> [b \in BOOLEAN |-> b]]
           C == [e \in Tree[Depth] |-> [b \in BOOLEAN |-> [c \in BOOLEAN |-> b \/ c]]]
<1>1. L \in [Leaves -> BOOLEAN] /\ N \in [Tree[Depth] -> [BOOLEAN -> BOOLEAN]]
  OBVIOUS
<1>2. C \in [Tree[Depth] -> [BOOLEAN -> [BOOLEAN -> BOOLEAN]]]
  <2>1. ASSUME NEW b \in BOOLEAN
        PROVE  [c \in BOOLEAN |-> b \/ c] \in [BOOLEAN -> BOOLEAN]
    OBVIOUS
  <2> QED BY <2>1
<1>3. /\ \A e \in Leaves : L[e] = IF e.op \in Comparisons THEN e.s = x \/ e.c = x ELSE e.s = x
      /\ \A e \in Tree[Depth], b \in BOOLEAN : N[e][b] = b
      /\ \A e \in Tree[Depth], b \in BOOLEAN, c \in BOOLEAN : C[e][b][c] = (b \/ c)
  OBVIOUS
<1> HIDE DEF L, N, C
<1>4. PICK g : IsFold(g, Depth, L, N, C)
  BY FoldExists, DepthNat
<1>5. \A e \in Tree[Depth] : g[e] \in BOOLEAN
  BY <1>1, <1>2, <1>4, DepthNat, FoldRange
<1>6. ASSUME NEW e \in Exprs
      PROVE  FoldOf(g, e, L, N, C) = MentionsBody(g, x, e)
  <2>1. CASE e \in Leaves
    <3>1. FoldOf(g, e, L, N, C) = L[e]
      BY <2>1, LeafOps DEF FoldOf
    <3> QED BY <2>1, <3>1, <1>3, LeafOps DEF MentionsBody
  <2>2. CASE e.op = "not" /\ e.a \in Exprs
    <3>1. N[e][g[e.a]] = g[e.a]
      BY <2>2, <1>3, <1>5 DEF Exprs
    <3>2. FoldOf(g, e, L, N, C) = N[e][g[e.a]]
      BY <2>2, NotNotChain DEF FoldOf
    <3> QED BY <2>2, <3>1, <3>2, OpsDiffer DEF MentionsBody
  <2>3. CASE e.op \in Chains /\ e.a \in Exprs /\ e.b \in Exprs
    <3>1. g[e.a] \in BOOLEAN /\ g[e.b] \in BOOLEAN
      BY <2>3, <1>5 DEF Exprs
    <3>2. C[e][g[e.a]][g[e.b]] = (g[e.a] \/ g[e.b])
      BY <3>1, <1>3 DEF Exprs
    <3>3. FoldOf(g, e, L, N, C) = C[e][g[e.a]][g[e.b]]
      BY <2>3 DEF FoldOf
    <3>4. e.op # "not" /\ e.op \notin Comparisons
      BY <2>3 DEF Chains, Comparisons
    <3> QED BY <2>3, <3>2, <3>3, <3>4 DEF MentionsBody
  <2> QED BY <2>1, <2>2, <2>3, Form, DepthNat DEF Exprs
<1>7. g = [e \in Exprs |-> FoldOf(g, e, L, N, C)]
  BY <1>4 DEF IsFold, Exprs
<1>8. IsMentions(g, x)
  BY <1>6, <1>7 DEF IsMentions
<1> QED BY <1>8

LEMMA MentionsRecursion ==
    ASSUME NEW x, NEW e \in Exprs
    PROVE  /\ e.op \in Chains => Mentions(e, x) = (Mentions(e.a, x) \/ Mentions(e.b, x))
           /\ e.op = "not" => Mentions(e, x) = Mentions(e.a, x)
           /\ e \in Leaves => Mentions(e, x) = (e.s = x \/ (e.op \in Comparisons /\ e.c = x))
<1> DEFINE mentions == CHOOSE g : IsMentions(g, x)
<1>1. IsMentions(mentions, x)
  BY MentionsExists
<1>2. \A f : Mentions(f, x) = mentions[f]
  BY DEF Mentions, IsMentions, MentionsBody
<1> HIDE DEF mentions
<1>3. mentions[e] = MentionsBody(mentions, x, e)
  BY <1>1 DEF IsMentions
<1>4. e.op \in Chains => e.op # "not"
  BY NotNotChain
<1>5. e \in Leaves => e.op \notin Chains /\ e.op # "not"
  BY LeafOps
<1>6. ASSUME e.op \in Chains
      PROVE  mentions[e] = (mentions[e.a] \/ mentions[e.b])
  BY <1>3, <1>6, OpsDiffer DEF MentionsBody
<1>7. ASSUME e.op = "not"
      PROVE  mentions[e] = mentions[e.a]
  BY <1>3, <1>7, OpsDiffer DEF MentionsBody
<1>8. ASSUME e \in Leaves
      PROVE  mentions[e] = (e.s = x \/ (e.op \in Comparisons /\ e.c = x))
  BY <1>3, <1>5, <1>8 DEF MentionsBody
<1> QED BY <1>2, <1>6, <1>7, <1>8

\* The symbols of an expression are those of its operands.
LEMMA NeedsParts ==
    ASSUME NEW e \in Exprs
    PROVE  /\ Needs(e) \subseteq Syms
           /\ e.op \in Chains => Needs(e) = Needs(e.a) \union Needs(e.b)
           /\ e.op = "not" => Needs(e) = Needs(e.a)
           /\ e \in Leaves => (e.s \in Syms => Needs(e) = {e.s}) /\ (e.s \in ConstSyms => Needs(e) = {})
<1>1. e.op \in Chains => Needs(e) = Needs(e.a) \union Needs(e.b)
  BY MentionsRecursion DEF Needs
<1>2. e.op = "not" => Needs(e) = Needs(e.a)
  BY MentionsRecursion DEF Needs
<1>3. ASSUME e \in Leaves
      PROVE  (e.s \in Syms => Needs(e) = {e.s}) /\ (e.s \in ConstSyms => Needs(e) = {})
  <2>1. e.op \in Comparisons => e.c \in ConstSyms
    BY <1>3, LeafParts DEF Comparisons
  <2>2. \A x \in Syms : e.op \in Comparisons => e.c # x
    BY <2>1, SymbolNames
  <2>3. \A x \in Syms : Mentions(e, x) <=> e.s = x
    BY <1>3, <2>2, MentionsRecursion
  <2> QED BY <2>3, SymbolNames DEF Needs
<1> QED BY <1>1, <1>2, <1>3 DEF Needs

(***************************************************************************)
(* The databases there are: a bool is not m, a choice picks and is given   *)
(* its own values, and what selects a choice value is not looked at.       *)
(***************************************************************************)
OwnValues(c) == Range(Members[c]) \union {Nobody}
Sound == {d \in Dbs : \A s \in Syms :
            /\ s \in Bools => d.sym[s].tri # mod
            /\ d.sym[s].sel \in OwnValues(s) /\ d.sym[s].usel \in OwnValues(s)
            /\ IsChoiceVal(s) => d.sym[s].rev = no}

LEMMA TrisType ==
    ASSUME NEW d \in Sound
    PROVE  /\ TrisOf(d) \in Valuations
           /\ \A x \in Syms : TrisOf(d)[x] = d.sym[x].tri
           /\ \A c \in ConstSyms : TrisOf(d)[c] = ConstTri[c]
<1> DEFINE v == TrisOf(d)
<1>1. v = [x \in Syms \union ConstSyms |-> IF x \in ConstSyms THEN ConstTri[x] ELSE d.sym[x].tri]
  BY DEF TrisOf
<1> HIDE DEF v
<1>2. \A x \in Syms : v[x] = d.sym[x].tri
  BY <1>1, SymbolNames
<1>3. \A c \in ConstSyms : v[c] = ConstTri[c]
  BY <1>1
<1>4. v \in [Syms \union ConstSyms -> Tristate]
  BY <1>1, ConstTriType, DbParts DEF Sound
<1>5. \A b \in Bools : v[b] # mod
  BY <1>2 DEF Sound, Syms
<1>6. v["n"] = no /\ v["m"] = mod /\ v["y"] = yes
  BY <1>3 DEF ConstTri, ConstSyms
<1>7. v \in Valuations
  BY <1>4, <1>5, <1>6 DEF Valuations
<1> QED BY <1>2, <1>3, <1>7 DEF v

\* An expression has one value where the symbols in it have.
LEMMA ValueSame ==
    ASSUME NEW v \in Valuations, NEW w \in Valuations, NEW e \in Exprs,
           \A x \in Needs(e) : v[x] = w[x]
    PROVE  Value(v, e) = Value(w, e)
<1> DEFINE G == {f \in Exprs : (\A x \in Needs(f) : v[x] = w[x]) => Value(v, f) = Value(w, f)}
<1>1. ASSUME NEW f \in Leaves, f \in Exprs, \A x \in Needs(f) : v[x] = w[x]
      PROVE  Value(v, f) = Value(w, f)
  <2>1. v[f.s] = w[f.s]
    <3>1. CASE f.s \in Syms
      BY <1>1, <3>1, NeedsParts
    <3>2. CASE f.s \in ConstSyms
      BY <3>2 DEF Valuations, ConstSyms
    <3> QED BY <3>1, <3>2, LeafParts
  <2>2. f.op # "sym" => v[f.c] = w[f.c]
    BY LeafParts DEF Valuations, ConstSyms
  <2>3. LeafValue(v, f) = LeafValue(w, f)
    BY <2>1, <2>2 DEF LeafValue
  <2> QED BY <2>3, ValueLeaf
<1>2. ASSUME NEW f \in Exprs, f.op = "not", f.a \in G, \A x \in Needs(f) : v[x] = w[x]
      PROVE  Value(v, f) = Value(w, f)
  <2>1. Value(v, f.a) = Value(w, f.a)
    BY <1>2, NeedsParts
  <2> QED BY <1>2, <2>1, ValueRecursion
<1>3. ASSUME NEW f \in Exprs, f.op \in Chains, f.a \in G, f.b \in G, \A x \in Needs(f) : v[x] = w[x]
      PROVE  Value(v, f) = Value(w, f)
  <2>1. Value(v, f.a) = Value(w, f.a) /\ Value(v, f.b) = Value(w, f.b)
    BY <1>3, NeedsParts
  <2> QED BY <1>3, <2>1, ValueRecursion DEF Chains
<1>4. \A f \in Leaves : f \in Exprs => f \in G
  BY <1>1
<1>5. \A f \in Exprs : f.op = "not" /\ f.a \in G => f \in G
  BY <1>2
<1>6. \A f \in Exprs : f.op \in Chains /\ f.a \in G /\ f.b \in G => f \in G
  BY <1>3
<1> HIDE DEF G
<1>7. Exprs \subseteq G
  BY <1>4, <1>5, <1>6, ShapeInduction
<1> QED BY <1>7 DEF G

(***************************************************************************)
(* Where calculating the symbols of N leads from databases of S to         *)
(* databases of S that R relates to them, evaluating does; and where each  *)
(* symbol then is known (in K), and remains what it is, the result is the  *)
(* value of the expression.                                                *)
(***************************************************************************)
Leads(calc, S, N, R) ==
    /\ S \subseteq Dbs
    /\ \A d \in S : <<d, d>> \in R
    /\ \A a \in S, b \in S, c \in S : <<a, b>> \in R /\ <<b, c>> \in R => <<a, c>> \in R
    /\ \A d \in S, x \in N : calc[d][x] \in S /\ <<d, calc[d][x]>> \in R
Knows(calc, S, N, R, K) ==
    /\ \A d \in S, x \in N : x \in K[calc[d][x]]
    /\ \A a \in S, b \in S : <<a, b>> \in R => K[a] \subseteq K[b] /\ \A x \in K[a] : a.sym[x].tri = b.sym[x].tri

LEMMA EvalLeads ==
    ASSUME NEW calc \in Calcs, NEW S, NEW N, NEW R, Leads(calc, S, N, R)
    PROVE  \A e \in Exprs : Needs(e) \subseteq N =>
               \A d \in S : /\ EvalBy(calc, d, e).d \in S
                            /\ <<d, EvalBy(calc, d, e).d>> \in R
<1> DEFINE G == {e \in Exprs : Needs(e) \subseteq N =>
                     \A d \in S : EvalBy(calc, d, e).d \in S /\ <<d, EvalBy(calc, d, e).d>> \in R}
<1>1. ASSUME NEW e \in Leaves, e \in Exprs, Needs(e) \subseteq N, NEW d \in S
      PROVE  EvalBy(calc, d, e).d \in S /\ <<d, EvalBy(calc, d, e).d>> \in R
  <2>1. d \in Dbs
    BY DEF Leads
  <2>2. EvalBy(calc, d, e).d = IF e.s \in ConstSyms THEN d ELSE calc[d][e.s]
    BY <1>1, <2>1, EvalRecursion, LeafType
  <2>3. e.s \notin ConstSyms => e.s \in N
    BY <1>1, LeafParts, NeedsParts
  <2> QED BY <2>2, <2>3 DEF Leads
<1>2. ASSUME NEW e \in Exprs, e.op = "not", e.a \in G, Needs(e) \subseteq N, NEW d \in S
      PROVE  EvalBy(calc, d, e).d \in S /\ <<d, EvalBy(calc, d, e).d>> \in R
  <2>1. d \in Dbs /\ e.a \in Exprs /\ Needs(e.a) \subseteq N
    BY <1>2, NeedsParts DEF Leads
  <2>2. EvalBy(calc, d, e).d = EvalBy(calc, d, e.a).d
    BY <1>2, <2>1, EvalRecursion, NegatedType
  <2> QED BY <1>2, <2>1, <2>2
<1>3. ASSUME NEW e \in Exprs, e.op \in Chains, e.a \in G, e.b \in G, Needs(e) \subseteq N, NEW d \in S
      PROVE  EvalBy(calc, d, e).d \in S /\ <<d, EvalBy(calc, d, e).d>> \in R
  <2> DEFINE l == EvalBy(calc, d, e.a)
             r == EvalBy(calc, l.d, e.b)
  <2>1. d \in Dbs /\ e.a \in Exprs /\ e.b \in Exprs /\ Needs(e.a) \subseteq N /\ Needs(e.b) \subseteq N
    BY <1>3, NeedsParts DEF Leads
  <2>2. l.d \in S /\ <<d, l.d>> \in R /\ l \in Results
    BY <1>3, <2>1, EvalRecursion
  <2>3. r.d \in S /\ <<l.d, r.d>> \in R /\ r \in Results
    <3>1. l.d \in Dbs
      BY <2>2 DEF Leads
    <3> QED BY <1>3, <2>1, <2>2, <3>1, EvalRecursion
  <2>4. EvalBy(calc, d, e).d = r.d
    BY <1>3, <2>1, <2>2, <2>3, EvalRecursion, JoinedType
  <2> HIDE DEF l, r
  <2> QED BY <2>2, <2>3, <2>4 DEF Leads
<1>4. \A e \in Leaves : e \in Exprs => e \in G
  BY <1>1
<1>5. \A e \in Exprs : e.op = "not" /\ e.a \in G => e \in G
  BY <1>2
<1>6. \A e \in Exprs : e.op \in Chains /\ e.a \in G /\ e.b \in G => e \in G
  BY <1>3
<1> HIDE DEF G
<1>7. Exprs \subseteq G
  BY <1>4, <1>5, <1>6, ShapeInduction
<1> QED BY <1>7 DEF G

\* An expression has been given its value, and its symbols are known.
ValueKnown(K, e, r) == Needs(e) \subseteq K[r.d] /\ r.val = Value(TrisOf(r.d), e)

LEMMA EvalIsValue ==
    ASSUME NEW calc \in Calcs, NEW S \in SUBSET Sound, NEW N, NEW R, NEW K,
           Leads(calc, S, N, R), Knows(calc, S, N, R, K),
           NEW e0 \in Exprs, Needs(e0) \subseteq N, NEW d0 \in S
    PROVE  ValueKnown(K, e0, EvalBy(calc, d0, e0))
<1> DEFINE Holding(e, r) == Needs(e) \subseteq K[r.d] /\ r.val = Value(TrisOf(r.d), e)
           G == {e \in Exprs : Needs(e) \subseteq N => \A d \in S : Holding(e, EvalBy(calc, d, e))}
<1>0. S \subseteq Dbs
  BY DEF Sound
<1>1. ASSUME NEW e \in Leaves, e \in Exprs, Needs(e) \subseteq N, NEW d \in S
      PROVE  Holding(e, EvalBy(calc, d, e))
  <2> DEFINE r == EvalBy(calc, d, e)
  <2>1. /\ r.d = IF e.s \in ConstSyms THEN d ELSE calc[d][e.s]
        /\ r.val = LET w == IF e.s \in ConstSyms THEN ConstTri[e.s] ELSE r.d.sym[e.s].tri
                   IN  IF e.op = "sym" THEN w ELSE IF (e.op = "eq") = (w = ConstTri[e.c]) THEN yes ELSE no
    BY <1>0, <1>1, EvalRecursion, LeafType
  <2>2. r.d \in S
    BY <1>1, EvalLeads
  <2> HIDE DEF r
  <2>3. Needs(e) \subseteq K[r.d]
    BY <1>1, <2>1, NeedsParts, LeafParts DEF Knows
  <2>4. (IF e.s \in ConstSyms THEN ConstTri[e.s] ELSE r.d.sym[e.s].tri) = TrisOf(r.d)[e.s]
    BY <2>2, TrisType, LeafParts
  <2>5. e.op # "sym" => ConstTri[e.c] = TrisOf(r.d)[e.c]
    BY <2>2, TrisType, LeafParts
  <2>6. r.val = LeafValue(TrisOf(r.d), e)
    BY <2>1, <2>4, <2>5 DEF LeafValue
  <2>7. TrisOf(r.d) \in Valuations
    BY <2>2, TrisType
  <2> QED BY <2>3, <2>6, <2>7, ValueLeaf DEF r
<1>2. ASSUME NEW e \in Exprs, e.op = "not", e.a \in G, Needs(e) \subseteq N, NEW d \in S
      PROVE  Holding(e, EvalBy(calc, d, e))
  <2>1. d \in Dbs /\ e.a \in Exprs /\ Needs(e) = Needs(e.a)
    BY <1>0, <1>2, NeedsParts
  <2> DEFINE q == EvalBy(calc, d, e.a)
             r == EvalBy(calc, d, e)
  <2>2. q.d \in S /\ Holding(e.a, q) /\ q \in Results
    BY <1>2, <2>1, EvalLeads, EvalRecursion
  <2>3. r.d = q.d /\ r.val = NotT(q.val)
    BY <1>2, <2>1, <2>2, EvalRecursion, NegatedType
  <2>4. TrisOf(q.d) \in Valuations
    BY <2>2, TrisType
  <2> HIDE DEF q, r
  <2>5. Value(TrisOf(q.d), e) = NotT(Value(TrisOf(q.d), e.a))
    BY <1>2, <2>4, ValueRecursion
  <2> QED BY <2>1, <2>2, <2>3, <2>5 DEF r
<1>3. ASSUME NEW e \in Exprs, e.op \in Chains, e.a \in G, e.b \in G, Needs(e) \subseteq N, NEW d \in S
      PROVE  Holding(e, EvalBy(calc, d, e))
  <2> DEFINE l == EvalBy(calc, d, e.a)
             q == EvalBy(calc, l.d, e.b)
             r == EvalBy(calc, d, e)
  <2>1. d \in Dbs /\ e.a \in Exprs /\ e.b \in Exprs /\ Needs(e) = Needs(e.a) \union Needs(e.b)
    BY <1>0, <1>3, NeedsParts
  <2>2. l.d \in S /\ l.d \in Dbs /\ Holding(e.a, l) /\ l \in Results
    BY <1>0, <1>3, <2>1, EvalLeads, EvalRecursion
  <2>3. q.d \in S /\ Holding(e.b, q) /\ <<l.d, q.d>> \in R /\ q \in Results
    BY <1>3, <2>1, <2>2, EvalLeads, EvalRecursion
  <2>4. r = Joined(e.op, l, q)
    BY <1>3, <2>1, EvalRecursion
  <2> HIDE DEF l, q, r
  <2>5. r.d = q.d /\ r.val = IF e.op = "and" THEN AndT(l.val, q.val) ELSE OrT(l.val, q.val)
    BY <2>2, <2>3, <2>4, JoinedType
  <2>6. K[l.d] \subseteq K[q.d] /\ \A x \in K[l.d] : l.d.sym[x].tri = q.d.sym[x].tri
    BY <2>2, <2>3 DEF Knows
  <2>7. Needs(e) \subseteq K[q.d]
    BY <2>1, <2>2, <2>3, <2>6
  <2>8. TrisOf(l.d) \in Valuations /\ TrisOf(q.d) \in Valuations
    BY <2>2, <2>3, TrisType
  <2>9. \A x \in Needs(e.a) : TrisOf(l.d)[x] = TrisOf(q.d)[x]
    <3>1. Needs(e.a) \subseteq Syms /\ Needs(e.a) \subseteq K[l.d]
      BY <2>1, <2>2, NeedsParts
    <3> QED BY <2>2, <2>3, <2>6, <3>1, TrisType
  <2>10. l.val = Value(TrisOf(q.d), e.a)
    BY <2>1, <2>2, <2>8, <2>9, ValueSame
  <2>11. Value(TrisOf(q.d), e) = IF e.op = "and" THEN AndT(l.val, q.val) ELSE OrT(l.val, q.val)
    BY <1>3, <2>3, <2>8, <2>10, ValueRecursion DEF Chains
  <2> QED BY <2>5, <2>7, <2>11 DEF r
<1>4. \A e \in Leaves : e \in Exprs => e \in G
  BY <1>1
<1>5. \A e \in Exprs : e.op = "not" /\ e.a \in G => e \in G
  BY <1>2
<1>6. \A e \in Exprs : e.op \in Chains /\ e.a \in G /\ e.b \in G => e \in G
  BY <1>3
<1> HIDE DEF G
<1>7. Exprs \subseteq G
  BY <1>4, <1>5, <1>6, ShapeInduction
<1>8. Holding(e0, EvalBy(calc, d0, e0))
  <2> HIDE DEF Holding
  <2> QED BY <1>7 DEF G
<1> QED BY <1>8 DEF ValueKnown

(***************************************************************************)
(* What each step of sym_calc_value writes.                                *)
(***************************************************************************)
LEMMA PromotedType ==
    ASSUME NEW v \in Tristate, NEW b \in BOOLEAN
    PROVE  Promoted(v, b) \in Tristate /\ (~b => Promoted(v, b) # mod) /\ (Promoted(v, b) = no <=> v = no)
BY DEF Promoted, Tristate, no, mod, yes

LEMMA NowTristateType ==
    ASSUME NEW d \in Dbs, NEW s \in Syms
    PROVE  NowTristate(d, s) \in BOOLEAN /\ (s \in Bools => ~NowTristate(d, s))
BY SymbolNames DEF NowTristate

LEMMA ExprOf ==
    ASSUME NEW s \in Syms
    PROVE  /\ Prompt[s] # NoPrompt => Prompt[s] \in Exprs
           /\ RevDep[s] \in Exprs
           /\ Len(Defaults[s]) \in Nat
           /\ \A i \in 1..Len(Defaults[s]) : Defaults[s][i].value \in Exprs /\ Defaults[s][i].cond \in Exprs
<1> DEFINE T == [value : Exprs, cond : Exprs]
<1>1. Defaults[s] \in Seq(T)
  BY SymbolsAssumption
<1>2. \A p \in T : p.value \in Exprs /\ p.cond \in Exprs
  OBVIOUS
<1> HIDE DEF T
<1>3. Len(Defaults[s]) \in Nat /\ \A i \in 1..Len(Defaults[s]) : Defaults[s][i] \in T
  BY <1>1, ElementOfSeq, LenProperties
<1> QED BY <1>2, <1>3, SymbolsAssumption

PromptResult(calc, d, s) == IF Prompt[s] = NoPrompt THEN [d |-> d, val |-> no] ELSE EvalBy(calc, d, Prompt[s])

LEMMA PromptShape ==
    ASSUME NEW calc \in Calcs, NEW d \in Dbs, NEW s \in Syms
    PROVE  LET r == PromptResult(calc, d, s)
               e == PromptVisibility(calc, d, s)
           IN  /\ r \in Results /\ But(s, r.d, e)
               /\ e.sym[s] = [r.d.sym[s] EXCEPT !.vis = Promoted(r.val, s \in Tris /\ r.d.modval # no)]
<1> DEFINE r == PromptResult(calc, d, s)
<1>1. r \in Results /\ r.d \in Dbs /\ r.val \in Tristate
  BY ExprOf, EvalRecursion DEF PromptResult, Results, Tristate
<1>2. PromptVisibility(calc, d, s) = [r.d EXCEPT !.sym[s].vis = Promoted(r.val, s \in Tris /\ r.d.modval # no)]
  BY DEF PromptVisibility, PromptResult
<1> HIDE DEF r
<1>3. Promoted(r.val, s \in Tris /\ r.d.modval # no) \in Tristate
  BY <1>1, PromotedType
<1> QED BY <1>1, <1>2, <1>3, SetVis DEF r

LEMMA SelectsShape ==
    ASSUME NEW calc \in Calcs, NEW d \in Dbs, NEW s \in Syms
    PROVE  LET q == EvalBy(calc, d, RevDep[s])
               e == Selects(calc, d, s)
           IN  /\ IsChoiceVal(s) => e = d
               /\ ~IsChoiceVal(s) => /\ q \in Results /\ But(s, q.d, e)
                                     /\ e.sym[s] = [q.d.sym[s] EXCEPT !.rev = Promoted(q.val, NowTristate(q.d, s))]
<1> DEFINE q == EvalBy(calc, d, RevDep[s])
<1>1. q \in Results /\ q.d \in Dbs /\ q.val \in Tristate
  BY ExprOf, EvalRecursion DEF Results
<1>2. ASSUME ~IsChoiceVal(s)
      PROVE  Selects(calc, d, s) = [q.d EXCEPT !.sym[s].rev = Promoted(q.val, NowTristate(q.d, s))]
  BY <1>2 DEF Selects
<1>3. IsChoiceVal(s) => Selects(calc, d, s) = d
  BY DEF Selects
<1> HIDE DEF q
<1> DEFINE v == Promoted(q.val, NowTristate(q.d, s))
           e == [q.d EXCEPT !.sym[s].rev = v]
<1>4. v \in Tristate
  BY <1>1, PromotedType, NowTristateType
<1> HIDE DEF v
<1>5. But(s, q.d, e) /\ e.sym[s] = [q.d.sym[s] EXCEPT !.rev = v]
  BY <1>1, <1>4, SetRev
<1> HIDE DEF e
<1>6. ~IsChoiceVal(s) => Selects(calc, d, s) = e
  BY <1>2 DEF e, v
<1>7. ~IsChoiceVal(s) => /\ But(s, q.d, Selects(calc, d, s))
                         /\ Selects(calc, d, s).sym[s] = [q.d.sym[s] EXCEPT !.rev = v]
  BY <1>5, <1>6
<1> QED BY <1>1, <1>3, <1>7 DEF q, v

BegunAs(d, e, s) ==
    /\ But(s, d, e)
    /\ e.sym[s] = [d.sym[s] EXCEPT !.valid = TRUE, !.write = IsChoiceVal(s) /\ @]
ResetAs(d, e, s) ==
    /\ But(s, d, e)
    /\ e.sym[s] = [d.sym[s] EXCEPT !.tri = no, !.sel = Nobody]

LEMMA BegunShape ==
    ASSUME NEW d \in Dbs, NEW s \in Syms
    PROVE  BegunAs(d, Begun(d, s), s)
<1> DEFINE d1 == [d EXCEPT !.sym[s].valid = TRUE]
           w == IsChoiceVal(s) /\ d1.sym[s].write
           e == [d1 EXCEPT !.sym[s].write = w]
<1>1. But(s, d, d1) /\ d1.sym[s] = [d.sym[s] EXCEPT !.valid = TRUE]
  BY SetValid
<1>2. w \in BOOLEAN
  BY DEF IsChoiceVal
<1>3. Begun(d, s) = e
  BY DEF Begun, Dbs, SymRecs
<1>4. d.sym[s].write = d1.sym[s].write
  BY DEF Dbs, SymRecs
<1>5. d1 \in Dbs
  BY <1>1 DEF But
<1> HIDE DEF d1, w
<1>6. But(s, d1, e) /\ e.sym[s] = [d1.sym[s] EXCEPT !.write = w]
  BY <1>2, <1>5, SetWrite
<1> HIDE DEF e
<1> QED BY <1>1, <1>3, <1>4, <1>6 DEF But, BegunAs, w

LEMMA ResetShape ==
    ASSUME NEW d \in Dbs, NEW s \in Syms
    PROVE  ResetAs(d, Reset(d, s), s)
<1> DEFINE d1 == [d EXCEPT !.sym[s].tri = no]
           e == [d1 EXCEPT !.sym[s].sel = Nobody]
<1>1. But(s, d, d1) /\ d1.sym[s] = [d.sym[s] EXCEPT !.tri = no]
  BY SetTriField DEF Tristate
<1>2. Reset(d, s) = e
  BY DEF Reset, Dbs, SymRecs
<1>3. d1 \in Dbs
  BY <1>1 DEF But
<1> HIDE DEF d1
<1>4. But(s, d1, e) /\ e.sym[s] = [d1.sym[s] EXCEPT !.sel = Nobody]
  BY <1>3, SetSel
<1> HIDE DEF e
<1> QED BY <1>1, <1>2, <1>4 DEF But, ResetAs

LEMMA OwnShape ==
    ASSUME NEW r \in Results, NEW s \in Syms, NEW w \in BOOLEAN
    PROVE  LET o == Own(r, s, w)
           IN  /\ o \in Results /\ But(s, r.d, o.d)
               /\ o.val = OrT(r.val, r.d.sym[s].rev)
               /\ \E b \in BOOLEAN : o.d.sym[s] = [r.d.sym[s] EXCEPT !.write = b]
<1>1. r.d \in Dbs /\ r.val \in Tristate /\ r.d.sym[s].rev \in Tristate /\ r.d.sym[s].write \in BOOLEAN
  BY DbParts DEF Results
<1> DEFINE e == [r.d EXCEPT !.sym[s].write = r.d.sym[s].write \/ w]
<1>2. But(s, r.d, e) /\ e.sym[s] = [r.d.sym[s] EXCEPT !.write = r.d.sym[s].write \/ w]
  BY <1>1, SetWrite
<1>3. OrT(r.val, r.d.sym[s].rev) \in Tristate
  BY <1>1, TristateClosed
<1>4. Own(r, s, w) = [d |-> e, val |-> OrT(r.val, r.d.sym[s].rev)]
  BY DEF Own
<1>5. e \in Dbs
  BY <1>2 DEF But
<1> HIDE DEF e
<1> QED BY <1>1, <1>2, <1>3, <1>4, <1>5 DEF Results

(***************************************************************************)
(* The value a symbol has by itself.                                       *)
(***************************************************************************)
\* The symbols that are looked at for a default.
CondNeeds(s)    == UNION {Needs(Defaults[s][i].cond) : i \in 1..Len(Defaults[s])}
DefaultNeeds(s) == CondNeeds(s) \union UNION {Needs(Defaults[s][i].value) : i \in 1..Len(Defaults[s])}

LEMMA DefaultPropLeads ==
    ASSUME NEW calc \in Calcs, NEW S, NEW N, NEW R, Leads(calc, S, N, R),
           NEW s \in Syms, DefaultNeeds(s) \subseteq N, NEW d \in S
    PROVE  LET r == DefaultProp(calc, d, s)
           IN  /\ r \in Found(Len(Defaults[s]))
               /\ r.d \in S /\ <<d, r.d>> \in R
<1> DEFINE n == Len(Defaults[s])
           do == [i \in 1..n |-> [r \in Found(n) |-> TryDefault(calc, s, r, i)]]
           Fine == {r \in Found(n) : r.d \in S /\ <<d, r.d>> \in R}
           start == [d |-> d, at |-> 0, val |-> no]
<1>1. n \in Nat
  BY ExprOf
<1>2. S \subseteq Dbs
  BY DEF Leads
<1> HIDE DEF n
<1>3. start \in Fine
  BY <1>1, <1>2 DEF Leads, Found, Tristate
<1>4. ASSUME NEW i \in 1..n, NEW r \in Fine
      PROVE  do[i][r] \in Fine
  <2>1. do[i][r] = TryDefault(calc, s, r, i)
    OBVIOUS
  <2> HIDE DEF do
  <2>2. CASE r.at # 0
    BY <2>1, <2>2 DEF TryDefault
  <2>3. CASE r.at = 0
    <3> DEFINE c == EvalBy(calc, r.d, Defaults[s][i].cond)
    <3>1. Defaults[s][i].cond \in Exprs /\ Needs(Defaults[s][i].cond) \subseteq N
      BY ExprOf DEF DefaultNeeds, CondNeeds, n
    <3>2. c \in Results /\ c.d \in S /\ <<r.d, c.d>> \in R
      BY <1>2, <3>1, EvalLeads, EvalRecursion
    <3>3. do[i][r] = [d |-> c.d, at |-> IF c.val = no THEN 0 ELSE i, val |-> c.val]
      BY <2>1, <2>3 DEF TryDefault
    <3> HIDE DEF c
    <3>4. <<d, c.d>> \in R
      BY <3>2 DEF Leads
    <3>5. i \in 0..n /\ 0 \in 0..n
      BY <1>1
    <3> QED BY <1>2, <3>2, <3>3, <3>4, <3>5 DEF Found, Results
  <2> QED BY <2>2, <2>3
<1>5. DefaultProp(calc, d, s) = Repeated(n, do, start)
  BY DEF DefaultProp, n
<1> HIDE DEF do, Fine, start
<1>6. Repeated(n, do, start) \in Fine
  BY <1>1, <1>3, <1>4, LoopInvariant
<1> QED BY <1>5, <1>6 DEF Fine, n

LEMMA DefaultValueLeads ==
    ASSUME NEW calc \in Calcs, NEW S, NEW N, NEW R, Leads(calc, S, N, R),
           NEW s \in Syms, DefaultNeeds(s) \subseteq N,
           NEW r \in Found(Len(Defaults[s])), r.d \in S
    PROVE  LET v == DefaultValue(calc, s, r)
           IN  /\ v \in Results /\ v.d \in S /\ <<r.d, v.d>> \in R
               /\ Defaults[s] = <<>> => v.val = no
<1>1. S \subseteq Dbs
  BY DEF Leads
<1>2. CASE r.at = 0
  <2>1. DefaultValue(calc, s, r) = [d |-> r.d, val |-> no]
    BY <1>2 DEF DefaultValue
  <2> QED BY <1>1, <2>1 DEF Results, Leads, Tristate
<1>3. CASE r.at # 0
  <2> DEFINE q == EvalBy(calc, r.d, Defaults[s][r.at].value)
  <2>1. r.at \in 1..Len(Defaults[s]) /\ r.val \in Tristate
    BY <1>3, ExprOf DEF Found
  <2>2. Defaults[s][r.at].value \in Exprs /\ Needs(Defaults[s][r.at].value) \subseteq N
    BY <2>1, ExprOf DEF DefaultNeeds
  <2>3. q \in Results /\ q.d \in S /\ <<r.d, q.d>> \in R
    BY <1>1, <2>2, EvalLeads, EvalRecursion
  <2>4. DefaultValue(calc, s, r) = [q EXCEPT !.val = AndT(@, r.val)]
    BY <1>3 DEF DefaultValue
  <2> HIDE DEF q
  <2>5. AndT(q.val, r.val) \in Tristate
    BY <2>1, <2>3, TristateClosed DEF Results
  <2>6. q = [d |-> q.d, val |-> q.val]
    BY <2>3 DEF Results
  <2>7. DefaultValue(calc, s, r) = [d |-> q.d, val |-> AndT(q.val, r.val)]
    BY <2>4, <2>6
  <2>8. Defaults[s] # <<>>
    BY <2>1
  <2> QED BY <1>1, <2>3, <2>5, <2>7, <2>8 DEF Results
<1> QED BY <1>2, <1>3

\* A value of its own: the user's as far as visible, a default, or n; and the selects.
LEMMA OwnValueShape ==
    ASSUME NEW calc \in Calcs, NEW S, NEW N, NEW R, Leads(calc, S, N, R),
           NEW s \in Syms, ~IsChoice(s) => DefaultNeeds(s) \subseteq N, NEW d \in S
    PROVE  \E r \in Results, w \in BOOLEAN :
               /\ OwnValue(calc, d, s) = Own(r, s, w)
               /\ r.d \in S /\ <<d, r.d>> \in R
               /\ Defaults[s] = <<>> => r.val <= d.sym[s].vis
<1>1. d \in Dbs /\ <<d, d>> \in R
  BY DEF Leads
<1>2. {d.sym[s].vis, d.sym[s].utri} \subseteq Tristate
  BY <1>1, DbParts
<1>3. CASE ByUser(d, s)
  <2> DEFINE r == [d |-> d, val |-> AndT(d.sym[s].utri, d.sym[s].vis)]
  <2>1. r \in Results /\ r.val <= d.sym[s].vis
    BY <1>1, <1>2, TristateClosed DEF Results, AndT, Tristate, no, mod, yes
  <2>2. OwnValue(calc, d, s) = Own(r, s, TRUE)
    BY <1>3 DEF OwnValue
  <2> QED BY <1>1, <2>1, <2>2
<1>4. CASE ~ByUser(d, s) /\ IsChoice(s)
  <2> DEFINE r == [d |-> d, val |-> no]
  <2>1. r \in Results /\ r.val <= d.sym[s].vis
    BY <1>1, <1>2 DEF Results, Tristate, no, mod, yes
  <2>2. OwnValue(calc, d, s) = Own(r, s, Reachable(d, s))
    BY <1>4 DEF OwnValue
  <2>3. Reachable(d, s) \in BOOLEAN
    BY DEF Reachable
  <2> QED BY <1>1, <2>1, <2>2, <2>3
<1>5. CASE ~ByUser(d, s) /\ ~IsChoice(s)
  <2> DEFINE p == DefaultProp(calc, d, s)
             r == DefaultValue(calc, s, p)
             w == Reachable(d, s) \/ p.at # 0
  <2>1. p \in Found(Len(Defaults[s])) /\ p.d \in S /\ <<d, p.d>> \in R
    BY <1>5, DefaultPropLeads
  <2>2. OwnValue(calc, d, s) = Own(r, s, w)
    BY <1>5 DEF OwnValue, DefaultOwn, OwnDefault
  <2>3. w \in BOOLEAN
    BY DEF Reachable
  <2> HIDE DEF p, w
  <2>4. r \in Results /\ r.d \in S /\ <<p.d, r.d>> \in R /\ (Defaults[s] = <<>> => r.val = no)
    BY <1>5, <2>1, DefaultValueLeads
  <2> HIDE DEF r
  <2>5. <<d, r.d>> \in R
    BY <2>1, <2>4 DEF Leads
  <2>6. Defaults[s] = <<>> => r.val <= d.sym[s].vis
    BY <1>2, <2>4 DEF Tristate, no, mod, yes
  <2> QED BY <2>2, <2>3, <2>4, <2>5, <2>6
<1> QED BY <1>3, <1>4, <1>5

\* What the value of s is taken from: b is the database when it is set.
ValueFrom(d, b, s, u) ==
    \/ IsChoiceVal(s) /\ d.sym[s].vis = yes /\ b = d /\ u = MemberValue(d, s)
    \/ /\ ~(IsChoiceVal(s) /\ d.sym[s].vis = yes)
       /\ \E v \in Tristate : u = OrT(v, b.sym[s].rev) /\ (Defaults[s] = <<>> => v <= d.sym[s].vis)

ValuedAs(d, e, s, b, w, u) ==
    /\ ValueFrom(d, b, s, u)
    /\ But(s, b, e)
    /\ e.sym[s] = [b.sym[s] EXCEPT !.write = w, !.tri = Promoted(u, NowTristate(b, s))]

ValuedTo(S, R, d, e, s) ==
    \E b \in S, w \in BOOLEAN, u \in Tristate : <<d, b>> \in R /\ ValuedAs(d, e, s, b, w, u)

LEMMA ValuedShape ==
    ASSUME NEW calc \in Calcs, NEW S, NEW N, NEW R, Leads(calc, S, N, R),
           NEW s \in Syms, ~IsChoice(s) => DefaultNeeds(s) \subseteq N, NEW d \in S
    PROVE  ValuedTo(S, R, d, Valued(calc, d, s), s)
<1> DEFINE e == Valued(calc, d, s)
<1>1. d \in Dbs /\ S \subseteq Dbs /\ <<d, d>> \in R
  BY DEF Leads
<1>2. CASE IsChoiceVal(s) /\ d.sym[s].vis = yes
  <2> DEFINE u == MemberValue(d, s)
             t == Promoted(u, NowTristate(d, s))
  <2>1. u \in Tristate
    BY DEF MemberValue, Tristate
  <2>2. t \in Tristate
    BY <1>1, <2>1, PromotedType, NowTristateType
  <2>3. e = [d EXCEPT !.sym[s].tri = t]
    BY <1>2 DEF Valued
  <2>4. ValueFrom(d, d, s, u)
    BY <1>2 DEF ValueFrom
  <2> HIDE DEF e, u
  <2>5. But(s, d, e) /\ e.sym[s] = [d.sym[s] EXCEPT !.tri = t]
    BY <1>1, <2>2, <2>3, SetTriField
  <2>6. d.sym[s].write \in BOOLEAN
    BY <1>1, DbParts
  <2>7. e.sym[s] = [d.sym[s] EXCEPT !.write = d.sym[s].write, !.tri = t]
    <3>1. d.sym[s] \in SymRecs
      BY <1>1, DbParts
    <3> HIDE DEF t
    <3> QED BY <2>5, <3>1 DEF SymRecs
  <2>8. ValuedAs(d, e, s, d, d.sym[s].write, u)
    BY <2>4, <2>5, <2>7 DEF ValuedAs
  <2> QED BY <1>1, <2>1, <2>6, <2>8 DEF e, ValuedTo
<1>3. CASE ~(IsChoiceVal(s) /\ d.sym[s].vis = yes)
  <2>1. PICK r \in Results, w \in BOOLEAN :
               /\ OwnValue(calc, d, s) = Own(r, s, w)
               /\ r.d \in S /\ <<d, r.d>> \in R
               /\ Defaults[s] = <<>> => r.val <= d.sym[s].vis
    BY OwnValueShape
  <2> DEFINE o == Own(r, s, w)
             u == OrT(r.val, r.d.sym[s].rev)
             t == Promoted(u, NowTristate(o.d, s))
  <2>2. /\ o \in Results /\ But(s, r.d, o.d) /\ o.val = u
        /\ \E b \in BOOLEAN : o.d.sym[s] = [r.d.sym[s] EXCEPT !.write = b]
    BY OwnShape
  <2>3. PICK b \in BOOLEAN : o.d.sym[s] = [r.d.sym[s] EXCEPT !.write = b]
    BY <2>2
  <2>4. e = [o.d EXCEPT !.sym[s].tri = Promoted(o.val, NowTristate(o.d, s))]
    BY <1>3, <2>1 DEF Valued
  <2>5. r.d \in Dbs /\ r.val \in Tristate /\ o.d \in Dbs /\ u \in Tristate
    BY <2>2 DEF Results
  <2> HIDE DEF e, o
  <2>6. t \in Tristate
    BY <2>5, PromotedType, NowTristateType
  <2>7. NowTristate(o.d, s) = NowTristate(r.d, s)
    BY <2>2, <2>3, <2>5, DbParts DEF NowTristate, But, SymRecs
  <2>8. But(s, o.d, e) /\ e.sym[s] = [o.d.sym[s] EXCEPT !.tri = t]
    <3>1. e = [o.d EXCEPT !.sym[s].tri = t]
      BY <2>2, <2>4
    <3> HIDE DEF t
    <3> QED BY <2>5, <2>6, <3>1, SetTriField
  <2>9. But(s, r.d, e)
    BY <2>2, <2>8 DEF But
  <2>10. e.sym[s] = [r.d.sym[s] EXCEPT !.write = b, !.tri = Promoted(u, NowTristate(r.d, s))]
    BY <2>3, <2>7, <2>8
  <2>11. ValueFrom(d, r.d, s, u)
    BY <1>3, <2>1, <2>5 DEF ValueFrom
  <2>12. ValuedAs(d, e, s, r.d, b, u)
    BY <2>9, <2>10, <2>11 DEF ValuedAs
  <2> HIDE DEF u
  <2> QED BY <2>1, <2>5, <2>12 DEF e, ValuedTo
<1> QED BY <1>2, <1>3

(***************************************************************************)
(* What a choice picks.                                                    *)
(***************************************************************************)
\* The conditions under which a choice picks by default.
LEMMA CandidateParts ==
    ASSUME NEW d \in Dbs, NEW s \in Syms, IsChoice(s)
    PROVE  LET ps == Candidates(d, s)
           IN  /\ Len(ps) \in Nat
               /\ \A i \in 1..Len(ps) :
                    /\ ps[i].cond \in Exprs
                    /\ \/ Needs(ps[i].cond) = {} /\ ps[i].value = SymE(d.sym[s].usel) /\ d.sym[s].usel \in Syms
                       \/ /\ Needs(ps[i].cond) \subseteq CondNeeds(s)
                          /\ \E x \in Range(Members[s]) : ps[i].value = SymE(x)
<1> DEFINE u == d.sym[s].usel
           us == IF u = Nobody THEN <<>> ELSE Always(<<u>>)
           ms == Always(Members[s])
           T == [value : Exprs, cond : Exprs]
           IsOne(p) == /\ p.cond \in Exprs
                       /\ \/ Needs(p.cond) = {} /\ p.value = SymE(u) /\ u \in Syms
                          \/ /\ Needs(p.cond) \subseteq CondNeeds(s)
                             /\ \E x \in Range(Members[s]) : p.value = SymE(x)
<1>1. SymE("y") \in Leaves /\ SymE("y") \in Exprs /\ Needs(SymE("y")) = {}
  <2>1. SymE("y") \in Leaves
    BY DEF Leaves, ConstSyms
  <2>2. SymE("y") \in Exprs
    BY <2>1, LeavesInTree, DepthNat DEF Exprs
  <2> QED BY <2>1, <2>2, NeedsParts DEF SymE, ConstSyms
<1>2. \A x \in Syms : SymE(x) \in Exprs
  <2>1. \A x \in Syms : SymE(x) \in Leaves
    BY DEF Leaves
  <2> QED BY <2>1, LeavesInTree, DepthNat DEF Exprs
<1>3. Members[s] \in Seq(Syms) /\ u \in Syms \union {Nobody}
  BY ChoiceAssumption, DbParts
<1>4. us \in Seq(T) /\ \A i \in 1..Len(us) : IsOne(us[i])
  <2>1. CASE u = Nobody
    BY <2>1
  <2>2. CASE u # Nobody
    <3> DEFINE p == [value |-> SymE(u), cond |-> SymE("y")]
    <3>1. us = <<p>>
      BY <2>2 DEF Always
    <3>2. p \in T /\ IsOne(p)
      BY <1>1, <1>2, <1>3, <2>2
    <3> HIDE DEF p, us, T, IsOne
    <3>3. us \in Seq(T) /\ Len(us) = 1 /\ us[1] = p
      BY <3>1, <3>2
    <3> QED BY <3>2, <3>3
  <2> QED BY <2>1, <2>2
<1>5. ms \in Seq(T) /\ \A i \in 1..Len(ms) : IsOne(ms[i])
  <2>1. DOMAIN Members[s] = 1..Len(Members[s]) /\ Len(Members[s]) \in Nat
    BY <1>3, LenProperties
  <2>2. ms = [i \in 1..Len(Members[s]) |-> [value |-> SymE(Members[s][i]), cond |-> SymE("y")]]
    BY <2>1 DEF Always
  <2>3. \A i \in 1..Len(Members[s]) : Members[s][i] \in Syms /\ Members[s][i] \in Range(Members[s])
    BY <1>3, <2>1, ElementOfSeq DEF Range
  <2>4. Len(ms) = Len(Members[s])
    BY <2>1, <2>2
  <2>5. \A i \in 1..Len(ms) : IsOne(ms[i])
    BY <1>1, <2>2, <2>3, <2>4
  <2>6. \A i \in 1..Len(Members[s]) : [value |-> SymE(Members[s][i]), cond |-> SymE("y")] \in T
    BY <1>1, <1>2, <2>3
  <2>7. ms \in [1..Len(Members[s]) -> T]
    BY <2>2, <2>6
  <2> HIDE DEF ms, T
  <2>8. ms \in Seq(T)
    BY <2>1, <2>7
  <2> QED BY <2>5, <2>8
<1>6. Defaults[s] \in Seq(T) /\ \A i \in 1..Len(Defaults[s]) : IsOne(Defaults[s][i])
  <2>1. \A i \in 1..Len(Defaults[s]) : Defaults[s][i] \in Range(Defaults[s])
    BY SymbolsAssumption, LenProperties DEF Range
  <2>2. \A p \in Range(Defaults[s]) : \E x \in Range(Members[s]) : p.value = SymE(x)
    BY ChoiceAssumption
  <2>3. ASSUME NEW i \in 1..Len(Defaults[s])
        PROVE  IsOne(Defaults[s][i])
    <3>1. Defaults[s][i].cond \in Exprs
      BY ExprOf
    <3>2. Needs(Defaults[s][i].cond) \subseteq CondNeeds(s)
      BY DEF CondNeeds
    <3> QED BY <2>1, <2>2, <3>1, <3>2
  <2> QED BY <2>3, SymbolsAssumption
<1>7. Candidates(d, s) = (us \o Defaults[s]) \o ms
  BY DEF Candidates
<1> HIDE DEF us, ms, T, IsOne
<1> DEFINE G == {p \in T : IsOne(p)}
<1>8. us \in Seq(G) /\ ms \in Seq(G) /\ Defaults[s] \in Seq(G)
  <2>1. ASSUME NEW xs \in Seq(T), \A i \in 1..Len(xs) : IsOne(xs[i])
        PROVE  xs \in Seq(G)
    <3>1. xs \in [1..Len(xs) -> T] /\ Len(xs) \in Nat
      BY LenProperties
    <3>2. xs \in [1..Len(xs) -> G]
      BY <2>1, <3>1
    <3> HIDE DEF G
    <3> QED BY <3>1, <3>2
  <2> QED BY <1>4, <1>5, <1>6, <2>1
<1> HIDE DEF G
<1>9. (us \o Defaults[s]) \o ms \in Seq(G)
  BY <1>8, ConcatProperties
<1>10. Len(Candidates(d, s)) \in Nat /\ \A i \in 1..Len(Candidates(d, s)) : Candidates(d, s)[i] \in G
  BY <1>7, <1>9, LenProperties, ElementOfSeq
<1>11. \A i \in 1..Len(Candidates(d, s)) : IsOne(Candidates(d, s)[i])
  BY <1>10 DEF G
<1> QED BY <1>10, <1>11 DEF IsOne

\* The loop over the candidates, whatever looking at one of them is known to do: T
\* is what is known of a database and a value of the choice found visible in it.
LooksAt(calc, S, R, X, T) ==
    \A a \in S, x \in X : /\ CalcVisibility(calc, a, x) \in S
                          /\ <<a, CalcVisibility(calc, a, x)>> \in R
                          /\ CalcVisibility(calc, a, x).sym[x].vis # no => <<CalcVisibility(calc, a, x), x>> \in T
PickIn(S, R, X, T, d, r) ==
    /\ r \in Picks /\ r.d \in S /\ <<d, r.d>> \in R /\ r.pick \in X \union {Nobody}
    /\ r.pick # Nobody => <<r.d, r.pick>> \in T

LEMMA PickLeads ==
    ASSUME NEW calc \in Calcs, NEW S, NEW N, NEW R, Leads(calc, S, N, R),
           NEW s \in Syms, IsChoice(s), CondNeeds(s) \subseteq N, NEW d \in S,
           NEW X \in SUBSET Syms, Range(Members[s]) \subseteq X, d.sym[s].usel \in X \union {Nobody},
           NEW T, LooksAt(calc, S, R, X, T)
    PROVE  PickIn(S, R, X, T, d, PickBy(calc, d, s))
<1> DEFINE ps == Candidates(d, s)
           n == Len(ps)
           do == [i \in 1..n |-> [r \in Picks |-> TryCandidate(calc, r, ps[i])]]
           start == [d |-> d, pick |-> Nobody]
           Fine == {r \in Picks : PickIn(S, R, X, T, d, r)}
<1>1. S \subseteq Dbs /\ Nobody \notin Syms
  BY SymbolsAssumption DEF Leads
<1>2. /\ n \in Nat
      /\ \A i \in 1..n : ps[i].cond \in Exprs /\ Needs(ps[i].cond) \subseteq N /\ \E x \in X : ps[i].value = SymE(x)
  BY <1>1, CandidateParts
<1>3. PickBy(calc, d, s) = Repeated(n, do, start)
  BY DEF PickBy
<1> HIDE DEF ps, n
<1>4. start \in Fine
  BY <1>1 DEF Picks, PickIn, Leads
<1>5. ASSUME NEW i \in 1..n, NEW r \in Fine
      PROVE  do[i][r] \in Fine
  <2>1. do[i][r] = TryCandidate(calc, r, ps[i])
    OBVIOUS
  <2> HIDE DEF do
  <2>2. CASE r.pick # Nobody
    BY <2>1, <2>2 DEF TryCandidate
  <2>3. CASE r.pick = Nobody
    <3> DEFINE c == EvalBy(calc, r.d, ps[i].cond)
    <3>1. PICK x \in X : ps[i].value = SymE(x)
      BY <1>2
    <3>2. c \in Results /\ c.d \in S /\ <<r.d, c.d>> \in R
      BY <1>1, <1>2, EvalLeads, EvalRecursion DEF PickIn
    <3>3. <<d, c.d>> \in R
      BY <3>2 DEF Leads, PickIn
    <3>4. do[i][r] = TryMember(calc, c, x)
      BY <2>1, <2>3, <3>1 DEF TryCandidate, SymE
    <3> HIDE DEF c
    <3>5. CASE c.val = no
      <4>1. do[i][r] = [d |-> c.d, pick |-> Nobody]
        BY <3>4, <3>5 DEF TryMember
      <4> QED BY <1>1, <3>2, <3>3, <4>1 DEF Picks, PickIn
    <3>6. CASE c.val # no
      <4> DEFINE b == CalcVisibility(calc, c.d, x)
      <4>1. b \in S /\ <<c.d, b>> \in R /\ (b.sym[x].vis # no => <<b, x>> \in T)
        BY <3>2 DEF LooksAt
      <4>2. do[i][r] = IfVisible(b, x)
        BY <3>4, <3>6 DEF TryMember
      <4> HIDE DEF b
      <4>3. <<d, b>> \in R
        BY <3>2, <3>3, <4>1 DEF Leads
      <4>4. do[i][r] = [d |-> b, pick |-> IF b.sym[x].vis = no THEN Nobody ELSE x]
        BY <4>2 DEF IfVisible
      <4> QED BY <1>1, <4>1, <4>3, <4>4 DEF Picks, PickIn
    <3> QED BY <3>5, <3>6
  <2> QED BY <2>2, <2>3
<1> HIDE DEF do, start, Fine
<1>6. Repeated(n, do, start) \in Fine
  BY <1>2, <1>4, <1>5, LoopInvariant
<1> QED BY <1>3, <1>6 DEF Fine

LEMMA MarkedShape ==
    ASSUME NEW d \in Dbs, NEW s \in Syms
    PROVE  LET e == Marked(d, s)
           IN  /\ e \in Dbs
               /\ s # ModulesSym => e.modval = d.modval
               /\ s = ModulesSym => e.modval = d.sym[s].tri
               /\ \A x \in Syms : \E w \in BOOLEAN : e.sym[x] = [d.sym[x] EXCEPT !.write = w]
<1> DEFINE e == Marked(d, s)
<1>1. \A x \in Syms : d.sym[x] \in SymRecs /\ d.sym[x].write \in BOOLEAN /\ d.sym[x].tri \in Tristate
  BY DbParts
<1>2. \A x \in Syms : d.sym[x] = [d.sym[x] EXCEPT !.write = d.sym[x].write]
  BY <1>1 DEF SymRecs
<1>3. CASE s = ModulesSym
  <2> DEFINE b == [d EXCEPT !.modval = d.sym[s].tri]
  <2>1. b \in Dbs /\ b.modval = d.sym[s].tri /\ b.sym = d.sym
    BY <1>1 DEF Dbs
  <2>2. e = [b EXCEPT !.sym[s].write = FALSE]
    BY <1>3 DEF Marked, Dbs
  <2> HIDE DEF b, e
  <2>3. But(s, b, e) /\ e.sym[s] = [b.sym[s] EXCEPT !.write = FALSE]
    BY <2>1, <2>2, SetWrite
  <2>4. e \in Dbs /\ e.modval = d.sym[s].tri
    BY <2>1, <2>3 DEF But
  <2>5. \A x \in Syms : e.sym[x] = IF x = s THEN [d.sym[x] EXCEPT !.write = FALSE]
                                  ELSE [d.sym[x] EXCEPT !.write = d.sym[x].write]
    BY <1>2, <2>1, <2>3 DEF But
  <2>6. \A x \in Syms : \E w \in BOOLEAN : e.sym[x] = [d.sym[x] EXCEPT !.write = w]
    BY <1>1, <2>5
  <2> QED BY <1>3, <2>4, <2>6 DEF e
<1>4. CASE s # ModulesSym
  <2> DEFINE w(x) == d.sym[x].write \/ (x \in Range(Members[s]) /\ d.sym[s].write)
             g == [x \in Syms |-> [d.sym[x] EXCEPT !.write = w(x)]]
  <2>1. \A x \in Syms : w(x) \in BOOLEAN
    BY <1>1
  <2>2. e = [d EXCEPT !.sym = g]
    <3>1. g = [x \in Syms |-> [d.sym[x] EXCEPT !.write = @ \/ (x \in Range(Members[s]) /\ d.sym[s].write)]]
      OBVIOUS
    <3> HIDE DEF g
    <3> QED BY <1>4, <3>1 DEF Marked
  <2> HIDE DEF w
  <2>3. \A x \in Syms : g[x] \in SymRecs
    BY <1>1, <2>1 DEF SymRecs
  <2>4. g \in [Syms -> SymRecs] /\ \A x \in Syms : g[x] = [d.sym[x] EXCEPT !.write = w(x)]
    BY <2>3
  <2> HIDE DEF g, e
  <2>5. e \in Dbs /\ e.sym = g /\ e.modval = d.modval
    BY <2>2, <2>4 DEF Dbs
  <2> QED BY <1>4, <2>1, <2>4, <2>5 DEF e
<1> QED BY <1>3, <1>4

(***************************************************************************)
(* What sym_calc_value leaves alone.                                       *)
(***************************************************************************)
\* What the user has set is as it was, and what is valid stays so.
SameUser(a, b) == \A x \in Syms : /\ b.sym[x].user = a.sym[x].user
                                  /\ b.sym[x].utri = a.sym[x].utri
                                  /\ b.sym[x].usel = a.sym[x].usel
                                  /\ a.sym[x].valid => b.sym[x].valid
Frames == {p \in Dbs \X Dbs : SameUser(p[1], p[2])}

LEMMA FramesOrder ==
    /\ \A a \in Dbs : <<a, a>> \in Frames
    /\ \A a, b, c : <<a, b>> \in Frames /\ <<b, c>> \in Frames => <<a, c>> \in Frames
<1>1. \A a \in Dbs : SameUser(a, a)
  BY DEF SameUser
<1>2. \A a, b, c : SameUser(a, b) /\ SameUser(b, c) => SameUser(a, c)
  BY DEF SameUser
<1>3. \A a, b : <<a, b>> \in Frames <=> a \in Dbs /\ b \in Dbs /\ SameUser(a, b)
  BY DEF Frames
<1> QED BY <1>1, <1>2, <1>3

\* Where one symbol was written, and not what the user has set.
LEMMA ButFrame ==
    ASSUME NEW d \in Dbs, NEW s \in Syms, NEW e, But(s, d, e),
           e.sym[s].user = d.sym[s].user, e.sym[s].utri = d.sym[s].utri, e.sym[s].usel = d.sym[s].usel,
           d.sym[s].valid => e.sym[s].valid
    PROVE  <<d, e>> \in Frames
BY DEF But, Frames, SameUser

LEMMA ButSound ==
    ASSUME NEW d \in Sound, NEW s \in Syms, NEW e, But(s, d, e),
           s \in Bools => e.sym[s].tri # mod,
           e.sym[s].sel \in OwnValues(s), e.sym[s].usel \in OwnValues(s),
           IsChoiceVal(s) => e.sym[s].rev = no
    PROVE  e \in Sound
BY DEF But, Sound

LEMMA SoundParts ==
    ASSUME NEW d \in Sound, NEW s \in Syms
    PROVE  /\ d \in Dbs
           /\ s \in Bools => d.sym[s].tri # mod
           /\ d.sym[s].sel \in OwnValues(s) /\ d.sym[s].usel \in OwnValues(s)
           /\ IsChoiceVal(s) => d.sym[s].rev = no
BY DEF Sound

\* A write that is one of sym_calc_value's.
Plain(S, d, s, e) == /\ But(s, d, e)
                     /\ \A field \in {"user", "utri", "usel"} : e.sym[s][field] = d.sym[s][field]
                     /\ d.sym[s].valid => e.sym[s].valid
                     /\ S = Sound => /\ s \in Bools => e.sym[s].tri # mod
                                     /\ e.sym[s].sel \in OwnValues(s)
                                     /\ IsChoiceVal(s) => e.sym[s].rev = no

LEMMA PlainWrite ==
    ASSUME NEW S \in {Dbs, Sound}, NEW d \in S, NEW s \in Syms, NEW e, Plain(S, d, s, e)
    PROVE  e \in S /\ <<d, e>> \in Frames
<1>1. d \in Dbs /\ But(s, d, e)
  BY DEF Sound, Plain
<1>2. <<d, e>> \in Frames
  BY <1>1, ButFrame DEF Plain
<1>3. CASE S = Dbs
  BY <1>1, <1>2, <1>3 DEF But
<1>4. CASE S = Sound
  <2>1. e.sym[s].usel = d.sym[s].usel
    BY DEF Plain
  <2>2. e.sym[s].usel \in OwnValues(s)
    BY <1>4, <2>1, SoundParts
  <2> QED BY <1>1, <1>2, <1>4, <2>2, ButSound DEF Plain
<1> QED BY <1>3, <1>4

LEMMA NeedsSyms ==
    ASSUME NEW s \in Syms
    PROVE  CondNeeds(s) \subseteq Syms /\ DefaultNeeds(s) \subseteq Syms
BY DEF CondNeeds, DefaultNeeds, Needs

\* Each step of sym_calc_value, where what it calls stays in S.
LEMMA VisibilityStays ==
    ASSUME NEW S \in {Dbs, Sound}, NEW calc \in Calcs, Leads(calc, S, Syms, Frames), NEW d \in S, NEW s \in Syms
    PROVE  CalcVisibility(calc, d, s) \in S /\ <<d, CalcVisibility(calc, d, s)>> \in Frames
<1>1. S \subseteq Dbs
  BY DEF Sound
<1> DEFINE a == PromptVisibility(calc, d, s)
           r == PromptResult(calc, d, s)
           v == Promoted(r.val, s \in Tris /\ r.d.modval # no)
<1>2. r.d \in S /\ <<d, r.d>> \in Frames
  BY <1>1, ExprOf, EvalLeads, NeedsParts, FramesOrder DEF PromptResult
<1>3. But(s, r.d, a) /\ a.sym[s] = [r.d.sym[s] EXCEPT !.vis = v]
  BY <1>1, PromptShape
<1> HIDE DEF a, r, v
<1>4. a \in S /\ <<r.d, a>> \in Frames
  <2>1. r.d.sym[s] \in SymRecs
    BY <1>1, <1>2, DbParts
  <2>2. Plain(S, r.d, s, a)
    BY <1>2, <1>3, <2>1, SoundParts DEF Plain, SymRecs
  <2> QED BY <1>2, <2>2, PlainWrite
<1> DEFINE b == Selects(calc, a, s)
           q == EvalBy(calc, a, RevDep[s])
           w == Promoted(q.val, NowTristate(q.d, s))
<1>5. b \in S /\ <<a, b>> \in Frames
  <2>1. CASE IsChoiceVal(s)
    <3>1. b = a
      BY <1>1, <1>4, <2>1, SelectsShape
    <3> QED BY <1>1, <1>4, <3>1, FramesOrder
  <2>2. CASE ~IsChoiceVal(s)
    <3>1. q.d \in S /\ <<a, q.d>> \in Frames
      BY <1>1, <1>4, ExprOf, EvalLeads, NeedsParts
    <3>2. But(s, q.d, b) /\ b.sym[s] = [q.d.sym[s] EXCEPT !.rev = w]
      BY <1>1, <1>4, <2>2, SelectsShape
    <3> HIDE DEF b, q, w
    <3>3. q.d.sym[s] \in SymRecs
      BY <1>1, <3>1, DbParts
    <3>4. Plain(S, q.d, s, b)
      BY <2>2, <3>1, <3>2, <3>3, SoundParts DEF Plain, SymRecs
    <3>5. b \in S /\ <<q.d, b>> \in Frames
      BY <3>1, <3>4, PlainWrite
    <3> QED BY <3>1, <3>5, FramesOrder
  <2> QED BY <2>1, <2>2
<1>6. CalcVisibility(calc, d, s) = b
  BY DEF CalcVisibility, a
<1> HIDE DEF b
<1> QED BY <1>2, <1>4, <1>5, <1>6, FramesOrder

LEMMA MembersIn ==
    ASSUME NEW c \in Syms
    PROVE  /\ Range(Members[c]) \subseteq Syms
           /\ \A x \in Range(Members[c]) : IsChoiceVal(x) /\ ChoiceOf[x] = c
           /\ ~IsChoice(c) => Range(Members[c]) = {}
           /\ Nobody \notin Syms
<1>1. Members[c] \in Seq(Syms)
  BY ChoiceAssumption
<1>2. Range(Members[c]) \subseteq Syms
  BY <1>1, LenProperties DEF Range
<1>3. \A x \in Range(Members[c]) : IsChoiceVal(x) /\ ChoiceOf[x] = c
  BY <1>2, ChoiceAssumption
<1>4. ~IsChoice(c) => Range(Members[c]) = {}
  BY DEF IsChoice, Range
<1> QED BY <1>2, <1>3, <1>4, SymbolsAssumption

LEMMA BegunStays ==
    ASSUME NEW S \in {Dbs, Sound}, NEW d \in S, NEW s \in Syms
    PROVE  Begun(d, s) \in S /\ <<d, Begun(d, s)>> \in Frames /\ Begun(d, s).sym[s].valid
<1> DEFINE e == Begun(d, s)
<1>1. d \in Dbs /\ d.sym[s] \in SymRecs
  BY DbParts DEF Sound
<1>2. BegunAs(d, e, s)
  BY <1>1, BegunShape
<1> HIDE DEF e
<1>3. e.sym[s].valid /\ Plain(S, d, s, e)
  BY <1>1, <1>2, SoundParts DEF Plain, SymRecs, BegunAs
<1> QED BY <1>3, PlainWrite DEF e

LEMMA ResetStays ==
    ASSUME NEW S \in {Dbs, Sound}, NEW d \in S, NEW s \in Syms
    PROVE  Reset(d, s) \in S /\ <<d, Reset(d, s)>> \in Frames
<1> DEFINE e == Reset(d, s)
<1>1. d \in Dbs /\ d.sym[s] \in SymRecs
  BY DbParts DEF Sound
<1>2. ResetAs(d, e, s)
  BY <1>1, ResetShape
<1>3. no # mod /\ Nobody \in OwnValues(s)
  BY DEF OwnValues, no, mod
<1> HIDE DEF e
<1>4. Plain(S, d, s, e)
  BY <1>1, <1>2, <1>3, SoundParts DEF Plain, SymRecs, ResetAs
<1> QED BY <1>4, PlainWrite DEF e

LEMMA ValuedStays ==
    ASSUME NEW S \in {Dbs, Sound}, NEW calc \in Calcs, NEW N, NEW R, Leads(calc, S, N, R), R \subseteq Frames,
           NEW d \in S, NEW s \in Syms, ~IsChoice(s) => DefaultNeeds(s) \subseteq N
    PROVE  Valued(calc, d, s) \in S /\ <<d, Valued(calc, d, s)>> \in Frames
<1> DEFINE e == Valued(calc, d, s)
<1>0. ValuedTo(S, R, d, e, s)
  BY ValuedShape, Zenon
<1>1. PICK b \in S, w \in BOOLEAN, u \in Tristate : <<d, b>> \in R /\ ValuedAs(d, e, s, b, w, u)
  BY <1>0 DEF ValuedTo
<1> DEFINE t == Promoted(u, NowTristate(b, s))
<1>2. b \in Dbs /\ b.sym[s] \in SymRecs
  BY DbParts DEF Sound
<1>3. s \in Bools => t # mod
  BY <1>2, PromotedType, NowTristateType
<1> HIDE DEF e, t
<1>4. But(s, b, e) /\ e.sym[s] = [b.sym[s] EXCEPT !.write = w, !.tri = t]
  BY <1>1 DEF ValuedAs, t
<1>5. Plain(S, b, s, e)
  BY <1>2, <1>3, <1>4, SoundParts DEF Plain, SymRecs
<1>6. e \in S /\ <<b, e>> \in Frames
  BY <1>5, PlainWrite
<1> QED BY <1>1, <1>6, FramesOrder DEF e

\* Choosing without what is picked: S and R are what looking at a value keeps.
ChosenAs(d, e, s, r) ==
    /\ But(s, r.d, e)
    /\ e.sym[s] = IF r.pick = Nobody THEN [r.d.sym[s] EXCEPT !.tri = no] ELSE [r.d.sym[s] EXCEPT !.sel = r.pick]

LEMMA ChoosingShape ==
    ASSUME NEW calc \in Calcs, NEW d \in Dbs, NEW s \in Syms, PickBy(calc, d, s) \in Picks
    PROVE  LET e == Choosing(calc, d, s)
           IN  IF IsChoice(s) /\ d.sym[s].tri = yes THEN ChosenAs(d, e, s, PickBy(calc, d, s)) ELSE e = d
<1> DEFINE e == Choosing(calc, d, s)
           r == PickBy(calc, d, s)
<1>1. CASE IsChoice(s) /\ d.sym[s].tri = yes
  <2>1. r.d \in Dbs /\ r.pick \in Syms \union {Nobody}
    BY DEF Picks
  <2>2. e = IF r.pick = Nobody THEN [r.d EXCEPT !.sym[s].tri = no] ELSE [r.d EXCEPT !.sym[s].sel = r.pick]
    BY <1>1 DEF Choosing
  <2> HIDE DEF e, r
  <2>3. CASE r.pick = Nobody
    <3>1. no \in Tristate
      BY DEF Tristate
    <3>2. But(s, r.d, e) /\ e.sym[s] = [r.d.sym[s] EXCEPT !.tri = no]
      BY <2>1, <2>2, <2>3, <3>1, SetTriField
    <3> QED BY <1>1, <2>3, <3>2 DEF ChosenAs, e, r
  <2>4. CASE r.pick # Nobody
    <3>1. But(s, r.d, e) /\ e.sym[s] = [r.d.sym[s] EXCEPT !.sel = r.pick]
      BY <2>1, <2>2, <2>4, SetSel
    <3> QED BY <1>1, <2>4, <3>1 DEF ChosenAs, e, r
  <2> QED BY <2>3, <2>4
<1>2. CASE ~(IsChoice(s) /\ d.sym[s].tri = yes)
  BY <1>2 DEF Choosing
<1> QED BY <1>1, <1>2

LEMMA ChoosingStays ==
    ASSUME NEW S \in {Dbs, Sound}, NEW calc \in Calcs, Leads(calc, S, Syms, Frames), NEW d \in S, NEW s \in Syms
    PROVE  Choosing(calc, d, s) \in S /\ <<d, Choosing(calc, d, s)>> \in Frames
<1> DEFINE e == Choosing(calc, d, s)
           r == PickBy(calc, d, s)
           X == IF S = Sound THEN Range(Members[s]) ELSE Syms
<1>1. d \in Dbs /\ d.sym[s].usel \in Syms \union {Nobody}
  BY DbParts DEF Sound
<1>2. CASE IsChoice(s) /\ d.sym[s].tri = yes
  <2>1. X \in SUBSET Syms /\ Range(Members[s]) \subseteq X
    BY MembersIn
  <2>2. d.sym[s].usel \in X \union {Nobody}
    BY <1>1, SoundParts DEF OwnValues
  <2>3. LooksAt(calc, S, Frames, X, Dbs \X Syms)
    BY <2>1, VisibilityStays DEF Frames, LooksAt
  <2> HIDE DEF X
  <2>4. r \in Picks /\ r.d \in S /\ <<d, r.d>> \in Frames /\ r.pick \in X \union {Nobody}
    <3>1. CondNeeds(s) \subseteq Syms
      BY NeedsSyms
    <3>2. PickIn(S, Frames, X, Dbs \X Syms, d, r)
      BY <1>2, <2>1, <2>2, <2>3, <3>1, PickLeads, Zenon
    <3> QED BY <3>2 DEF PickIn
  <2>5. ChosenAs(d, e, s, r)
    BY <1>1, <1>2, <2>4, ChoosingShape
  <2>6. r.d.sym[s] \in SymRecs /\ S = Sound => r.pick \in OwnValues(s)
    BY <2>4, DbParts DEF Picks, X, OwnValues
  <2> HIDE DEF e, r
  <2>7. r.d.sym[s] \in SymRecs /\ no # mod
    BY <2>4, DbParts DEF Picks, no, mod
  <2>8. Plain(S, r.d, s, e)
    BY <2>4, <2>5, <2>6, <2>7, SoundParts DEF Plain, SymRecs, ChosenAs
  <2>9. e \in S /\ <<r.d, e>> \in Frames
    BY <2>4, <2>8, PlainWrite
  <2> QED BY <2>4, <2>9, FramesOrder DEF e
<1>3. CASE ~(IsChoice(s) /\ d.sym[s].tri = yes)
  BY <1>1, <1>3, FramesOrder DEF Choosing
<1> QED BY <1>2, <1>3

LEMMA MarkedStays ==
    ASSUME NEW S \in {Dbs, Sound}, NEW d \in S, NEW s \in Syms
    PROVE  Marked(d, s) \in S /\ <<d, Marked(d, s)>> \in Frames
<1> DEFINE e == Marked(d, s)
<1>1. d \in Dbs /\ \A x \in Syms : d.sym[x] \in SymRecs
  BY DbParts DEF Sound
<1>2. e \in Dbs /\ \A x \in Syms : \E w \in BOOLEAN : e.sym[x] = [d.sym[x] EXCEPT !.write = w]
  BY <1>1, MarkedShape
<1> HIDE DEF e
<1>3. \A x \in Syms : \A field \in {"tri", "sel", "rev", "user", "utri", "usel", "valid"} :
          e.sym[x][field] = d.sym[x][field]
  <2>1. SUFFICES ASSUME NEW x \in Syms
                 PROVE  \A field \in {"tri", "sel", "rev", "user", "utri", "usel", "valid"} :
                            e.sym[x][field] = d.sym[x][field]
    OBVIOUS
  <2>2. PICK w \in BOOLEAN : e.sym[x] = [d.sym[x] EXCEPT !.write = w]
    BY <1>2
  <2>3. d.sym[x] \in SymRecs
    BY <1>1
  <2> QED BY <2>2, <2>3 DEF SymRecs
<1>4. <<d, e>> \in Frames
  BY <1>1, <1>2, <1>3 DEF Frames, SameUser
<1>5. d \in Sound => e \in Sound
  BY <1>2, <1>3 DEF Sound
<1>6. e \in S
  BY <1>2, <1>5
<1> QED BY <1>4, <1>6 DEF e

LEMMA CalcByStays ==
    ASSUME NEW S \in {Dbs, Sound}, NEW calc \in Calcs, Leads(calc, S, Syms, Frames), NEW d \in S, NEW s \in Syms
    PROVE  /\ CalcBy(calc, d, s) \in S /\ <<d, CalcBy(calc, d, s)>> \in Frames
           /\ CalcBy(calc, d, s).sym[s].valid
<1> DEFINE a == Begun(d, s)
           b == CalcVisibility(calc, a, s)
           c == Reset(b, s)
           f == Valued(calc, c, s)
           g == Choosing(calc, f, s)
           h == Marked(g, s)
<1>1. a \in S /\ <<d, a>> \in Frames /\ a.sym[s].valid
  BY BegunStays
<1> HIDE DEF a
<1>2. b \in S /\ <<a, b>> \in Frames
  BY <1>1, VisibilityStays
<1> HIDE DEF b
<1>3. c \in S /\ <<b, c>> \in Frames
  BY <1>2, ResetStays
<1> HIDE DEF c
<1>4. f \in S /\ <<c, f>> \in Frames
  <2>1. DefaultNeeds(s) \subseteq Syms /\ Frames \subseteq Frames
    BY NeedsSyms
  <2> QED BY <1>3, <2>1, ValuedStays
<1> HIDE DEF f
<1>5. g \in S /\ <<f, g>> \in Frames
  BY <1>4, ChoosingStays
<1> HIDE DEF g
<1>6. h \in S /\ <<g, h>> \in Frames
  BY <1>5, MarkedStays
<1>7. h = CalcBy(calc, d, s)
  BY DEF CalcBy, a, b, c, f, g
<1> HIDE DEF h
<1>8. <<d, h>> \in Frames /\ <<a, h>> \in Frames
  BY <1>1, <1>2, <1>3, <1>4, <1>5, <1>6, FramesOrder
<1>9. h.sym[s].valid
  BY <1>1, <1>8 DEF Frames, SameUser
<1> QED BY <1>6, <1>7, <1>8, <1>9

\* What is known of sym_calc_value at every depth.
Calm(calc) == /\ calc \in Calcs
              /\ \A S \in {Dbs, Sound} : Leads(calc, S, Syms, Frames)
              /\ \A d \in Dbs, s \in Syms : d.sym[s].valid => calc[d][s] = d

LEMMA LeadsFrames ==
    ASSUME NEW S \in {Dbs, Sound}, NEW calc
    PROVE  Leads(calc, S, Syms, Frames) <=> \A d \in S, s \in Syms : calc[d][s] \in S /\ <<d, calc[d][s]>> \in Frames
BY FramesOrder DEF Leads, Sound

Deeper(calc) == [d \in Dbs |-> [s \in Syms |-> IF d.sym[s].valid THEN d ELSE CalcBy(calc, d, s)]]

LEMMA DeeperCalm ==
    ASSUME NEW calc, Calm(calc)
    PROVE  Calm(Deeper(calc))
<1>1. ASSUME NEW S \in {Dbs, Sound}, NEW d \in S, NEW s \in Syms
      PROVE  Deeper(calc)[d][s] \in S /\ <<d, Deeper(calc)[d][s]>> \in Frames
  <2>1. d \in Dbs
    BY DEF Sound
  <2>2. Deeper(calc)[d][s] = IF d.sym[s].valid THEN d ELSE CalcBy(calc, d, s)
    BY <2>1 DEF Deeper
  <2>3. CalcBy(calc, d, s) \in S /\ <<d, CalcBy(calc, d, s)>> \in Frames
    BY CalcByStays DEF Calm
  <2> QED BY <2>1, <2>2, <2>3, FramesOrder
<1>2. Deeper(calc) \in Calcs
  <2>1. ASSUME NEW d \in Dbs, NEW s \in Syms
        PROVE  (IF d.sym[s].valid THEN d ELSE CalcBy(calc, d, s)) \in Dbs
    BY <1>1 DEF Deeper
  <2> QED BY <2>1 DEF Deeper, Calcs
<1>3. \A d \in Dbs, s \in Syms : d.sym[s].valid => Deeper(calc)[d][s] = d
  BY DEF Deeper
<1>4. \A S \in {Dbs, Sound} : Leads(Deeper(calc), S, Syms, Frames)
  BY <1>1, LeadsFrames
<1> QED BY <1>2, <1>3, <1>4 DEF Calm

\* sym_calc_value, for as many invalid symbols as there may be.
LEMMA CalcAtDef ==
    /\ CalcAt[0] = [d \in Dbs |-> [s \in Syms |-> d]]
    /\ \A n \in Nat : CalcAt[n + 1] = Deeper(CalcAt[n])
    /\ \A n \in Nat : Calm(CalcAt[n])
<1> DEFINE X == {calc \in Calcs : Calm(calc)}
           zero == [d \in Dbs |-> [s \in Syms |-> d]]
           F == [calc \in X |-> Deeper(calc)]
           IsCalcAt(g) == g = [n \in Nat |-> [d \in Dbs |-> [s \in Syms |->
                               IF d.sym[s].valid \/ n = 0 THEN d ELSE CalcBy(g[n - 1], d, s)]]]
<1>1. zero \in X
  <2>1. zero \in Calcs
    BY DEF Calcs
  <2>2. \A S \in {Dbs, Sound} : Leads(zero, S, Syms, Frames)
    <3>1. ASSUME NEW S \in {Dbs, Sound}, NEW d \in S, NEW s \in Syms
          PROVE  zero[d][s] \in S /\ <<d, zero[d][s]>> \in Frames
      <4>1. d \in Dbs
        BY DEF Sound
      <4>2. zero[d][s] = d
        BY <4>1
      <4> HIDE DEF zero
      <4> QED BY <4>1, <4>2, FramesOrder
    <3> HIDE DEF zero
    <3> QED BY <3>1, LeadsFrames
  <2> QED BY <2>1, <2>2 DEF Calm
<1>2. F \in [X -> X]
  BY DeeperCalm DEF Calm
<1> HIDE DEF X
<1>3. PICK g : IsTower(g, X, F, zero)
  BY <1>1, <1>2, TowerExists
<1>4. g \in [Nat -> X] /\ g = [n \in Nat |-> IF n = 0 THEN zero ELSE F[g[n - 1]]]
  BY <1>3 DEF IsTower
<1>5. IsCalcAt(g)
  <2>1. ASSUME NEW n \in Nat
        PROVE  g[n] = [d \in Dbs |-> [s \in Syms |-> IF d.sym[s].valid \/ n = 0 THEN d ELSE CalcBy(g[n - 1], d, s)]]
    <3>1. CASE n = 0
      BY <1>4, <3>1
    <3>2. CASE n # 0
      <4>1. n - 1 \in Nat
        BY <3>2
      <4>2. g[n] = Deeper(g[n - 1])
        BY <1>4, <3>2, <4>1
      <4> QED BY <3>2, <4>2 DEF Deeper
    <3> QED BY <3>1, <3>2
  <2> HIDE DEF F, zero
  <2> QED BY <1>4, <2>1
<1>6. IsCalcAt(CalcAt)
  <2>1. CalcAt = CHOOSE f : IsCalcAt(f)
    BY DEF CalcAt
  <2> HIDE DEF IsCalcAt
  <2> QED BY <1>5, <2>1
<1>7. CalcAt[0] = zero
  BY <1>6
<1>8. ASSUME NEW n \in Nat
      PROVE  CalcAt[n + 1] = Deeper(CalcAt[n])
  <2>1. n + 1 \in Nat /\ (n + 1) - 1 = n /\ n + 1 # 0
    OBVIOUS
  <2>2. CalcAt[n + 1] = [d \in Dbs |-> [s \in Syms |-> IF d.sym[s].valid \/ n + 1 = 0 THEN d ELSE CalcBy(CalcAt[(n + 1) - 1], d, s)]]
    BY <1>6, <2>1
  <2> QED BY <2>1, <2>2 DEF Deeper
<1> DEFINE A == {n \in Nat : Calm(CalcAt[n])}
<1>9. 0 \in A
  BY <1>1, <1>7 DEF X
<1>10. \A n \in Nat : n \in A => n + 1 \in A
  BY <1>8, DeeperCalm
<1> HIDE DEF A
<1>11. \A n \in Nat : n \in A
  BY <1>9, <1>10, Climb
<1> QED BY <1>7, <1>8, <1>11 DEF A

LEMMA CalcStays ==
    /\ SymCalc \in Calcs
    /\ \A S \in {Dbs, Sound} : Leads(SymCalc, S, Syms, Frames)
    /\ \A S \in {Dbs, Sound} : \A d \in S, s \in Syms : Calc(d, s) \in S /\ <<d, Calc(d, s)>> \in Frames
<1>1. Cardinality(Syms) \in Nat
  BY SymbolsAssumption, FS_CardinalityType
<1>2. Calm(SymCalc)
  BY <1>1, CalcAtDef DEF SymCalc
<1> QED BY <1>2, LeadsFrames DEF Calm, Calc

LEMMA CalcIdle ==
    ASSUME NEW d \in Dbs, NEW s \in Syms, d.sym[s].valid
    PROVE  Calc(d, s) = d
<1>1. Cardinality(Syms) \in Nat
  BY SymbolsAssumption, FS_CardinalityType
<1> QED BY <1>1, CalcAtDef DEF SymCalc, Calm, Calc

(***************************************************************************)
(* The order that sym_check_deps leaves.                                   *)
(***************************************************************************)
Nodes == {Node(s) : s \in Syms}

LEMMA NodesInSyms ==
    /\ \A s \in Syms : Node(s) \in Nodes /\ Node(s) \in Syms
    /\ \A a : Uses(a) \subseteq Nodes
    /\ \A s \in Syms : Node(s) # s => IsChoiceVal(s) /\ Node(s) = ChoiceOf[s] /\ Node(Node(s)) = Node(s)
<1>1. \A s \in Syms : IsChoiceVal(s) => ChoiceOf[s] \in Syms
  BY ChoiceAssumption DEF IsChoiceVal
<1>2. \A s \in Syms : DependsOnSyms(s) \subseteq Syms
  BY DEF DependsOnSyms, Needs
<1>3. ASSUME NEW s \in Syms, Node(s) # s
      PROVE  IsChoiceVal(s) /\ Node(s) = ChoiceOf[s] /\ ~IsChoiceVal(ChoiceOf[s])
  <2>1. IsChoiceVal(s) /\ Node(s) = ChoiceOf[s]
    BY <1>3 DEF Node
  <2>2. s \in Range(Members[ChoiceOf[s]])
    BY <1>1, <2>1, ChoiceAssumption
  <2>3. IsChoice(ChoiceOf[s])
    BY <1>1, <2>1, <2>2, MembersIn
  <2>4. ~IsChoiceVal(ChoiceOf[s])
    BY <2>3, ChoiceAssumption DEF IsChoiceVal
  <2> QED BY <2>1, <2>4
<1>4. \A s \in Syms : Node(s) # s => Node(Node(s)) = Node(s)
  BY <1>3 DEF Node
<1>5. \A s \in Syms : Node(s) \in Nodes /\ Node(s) \in Syms
  BY <1>1 DEF Node, Nodes
<1>6. \A a : Uses(a) \subseteq Nodes
  BY <1>2 DEF Uses, Nodes
<1> QED BY <1>3, <1>4, <1>5, <1>6

\* What is used by what is used, and so on.
Closed(C) == \A u \in C : Uses(u) \subseteq C
Below(a) == {b \in Nodes : \A C \in SUBSET Nodes : Uses(a) \subseteq C /\ Closed(C) => b \in C}

LEMMA BelowFacts ==
    /\ \A a : Uses(a) \subseteq Below(a)
    /\ \A a, b : b \in Below(a) => Below(b) \subseteq Below(a) /\ Uses(b) \subseteq Below(a)
<1>1. ASSUME NEW a
      PROVE  Uses(a) \subseteq Below(a)
  BY NodesInSyms DEF Below
<1>2. ASSUME NEW a, NEW b \in Below(a)
      PROVE  Below(b) \subseteq Below(a) /\ Uses(b) \subseteq Below(a)
  <2>1. SUFFICES ASSUME NEW C \in SUBSET Nodes, Uses(a) \subseteq C, Closed(C)
                 PROVE  Below(b) \subseteq C /\ Uses(b) \subseteq C
    <3>1. Below(b) \subseteq Nodes /\ Uses(b) \subseteq Nodes
      BY NodesInSyms DEF Below
    <3> QED BY <3>1 DEF Below
  <2>2. b \in C
    BY <2>1 DEF Below
  <2>3. Uses(b) \subseteq C
    BY <2>1, <2>2 DEF Closed
  <2> QED BY <2>1, <2>3 DEF Below
<1> QED BY <1>1, <1>2

LEMMA NotBelowItself ==
    ASSUME NEW a \in Nodes
    PROVE  a \notin Below(a)
<1>1. SUFFICES ASSUME a \in Below(a)
               PROVE  FALSE
  OBVIOUS
<1> DEFINE Z == {b \in Nodes : b \in Below(a) /\ a \in Below(b)}
<1>2. a \in Z
  BY <1>1
<1>3. PICK b \in Z : Uses(b) \intersect Z = {}
  <2>1. Z \in (SUBSET Nodes) \ {{}}
    BY <1>2
  <2> QED BY <2>1, NoCircleAssumption DEF Nodes
<1> DEFINE C == {x \in Nodes : x \in Uses(b) \/ \E u \in Uses(b) : x \in Below(u)}
<1>4. Uses(b) \subseteq C
  BY NodesInSyms
<1>5. Closed(C)
  <2>1. SUFFICES ASSUME NEW x \in C
                 PROVE  Uses(x) \subseteq C
    BY DEF Closed
  <2>2. Uses(x) \subseteq Nodes /\ Uses(x) \subseteq Below(x)
    BY NodesInSyms, BelowFacts
  <2>3. CASE x \in Uses(b)
    BY <2>2, <2>3
  <2>4. CASE \E u \in Uses(b) : x \in Below(u)
    BY <2>2, <2>4, BelowFacts
  <2> QED BY <2>3, <2>4
<1>6. a \in C
  <2>1. C \in SUBSET Nodes
    OBVIOUS
  <2> HIDE DEF C
  <2> QED BY <1>4, <1>5, <2>1 DEF Below
<1>7. PICK u \in Uses(b) : a = u \/ a \in Below(u)
  BY <1>6
<1>8. u \in Below(a) /\ u \in Nodes
  BY NodesInSyms, BelowFacts
<1>9. a \in Below(u)
  BY <1>1, <1>7
<1> QED BY <1>3, <1>8, <1>9

\* What the value of s is calculated from is a node below that of s, or the choice of s.
LEMMA DependsBelow ==
    ASSUME NEW s \in Syms, NEW x \in DependsOnSyms(s)
    PROVE  x \in Syms /\ (Node(x) \in Uses(Node(s)) \/ (x = Node(s) /\ x # s))
<1>1. x \in Syms
  BY DEF DependsOnSyms, Needs
<1>2. CASE s = Node(s)
  BY <1>1, <1>2 DEF Uses
<1>3. CASE s # Node(s) /\ x # Node(s)
  BY <1>1, <1>3 DEF Uses
<1> QED BY <1>1, <1>2, <1>3

(***************************************************************************)
(* What is right of the symbols that are calculated: D is the set of those *)
(* a database d has calculated to the end.                                 *)
(***************************************************************************)
PromptValue(d, s) == IF Prompt[s] = NoPrompt THEN no ELSE Value(TrisOf(d), Prompt[s])
PromptNeeds(s)    == IF Prompt[s] = NoPrompt THEN {} ELSE Needs(Prompt[s])

\* The visibility is the prompt's, and the selects are what they come to.
Seen1(D, d, s) == /\ PromptNeeds(s) \subseteq D
                  /\ d.sym[s].vis = Promoted(PromptValue(d, s), s \in Tris /\ d.modval # no)
Pulled(D, d, s) == ~IsChoiceVal(s) =>
                      /\ Needs(RevDep[s]) \subseteq D
                      /\ d.sym[s].rev = Promoted(Value(TrisOf(d), RevDep[s]), NowTristate(d, s))
\* A value of a choice that is y is y if it is picked and else n; any other symbol is at
\* least what selects it, and without a default no more than visible; a choice may be n.
Given1(d, s) ==
    IF IsChoiceVal(s) /\ d.sym[s].vis = yes THEN d.sym[s].tri = MemberValue(d, s)
    ELSE \/ IsChoice(s) /\ d.sym[s].tri = no
         \/ \E v \in Tristate : /\ d.sym[s].tri = Promoted(OrT(v, d.sym[s].rev), NowTristate(d, s))
                                /\ Defaults[s] = <<>> => v <= d.sym[s].vis
\* What a choice picks can be seen, and the choice is y.
CanBeSeen(D, d, x) == /\ Prompt[x] # NoPrompt /\ Needs(Prompt[x]) \subseteq D
                      /\ Value(TrisOf(d), Prompt[x]) # no
Chosen(D, d, s) == d.sym[s].sel # Nobody => d.sym[s].tri = yes /\ CanBeSeen(D, d, d.sym[s].sel)
Steady(D, s) == s \in Tris => ModulesSym \in D

\* What the value of s is, to the letter.  No condition of the first k defaults holds:
NoDefault(D, d, s, k) ==
    \A j \in 1..k : Needs(Defaults[s][j].cond) \subseteq D /\ Value(TrisOf(d), Defaults[s][j].cond) = no
\* ... that of the i-th is the first that does:
FirstHolds(D, d, s, i) ==
    /\ NoDefault(D, d, s, i - 1)
    /\ Needs(Defaults[s][i].cond) \subseteq D /\ Value(TrisOf(d), Defaults[s][i].cond) # no
DefaultSays(D, d, s, v) ==
    \/ \E i \in 1..Len(Defaults[s]) :
         /\ FirstHolds(D, d, s, i) /\ Needs(Defaults[s][i].value) \subseteq D
         /\ v = AndT(Value(TrisOf(d), Defaults[s][i].value), Value(TrisOf(d), Defaults[s][i].cond))
    \/ NoDefault(D, d, s, Len(Defaults[s])) /\ v = no
\* ... the user's value, or the default:
OwnSays(D, d, s, v) ==
    IF ByUser(d, s) THEN v = AndT(d.sym[s].utri, d.sym[s].vis)
    ELSE IF IsChoice(s) THEN v = no ELSE DefaultSays(D, d, s, v)

\* A choice looks at its candidates while it is y.
AsYes(d, s) == [TrisOf(d) EXCEPT ![s] = yes]
PromptIn(w, x) == IF Prompt[x] = NoPrompt THEN no ELSE Value(w, Prompt[x])
Hits(D, d, s, p) ==
    /\ Needs(p.cond) \subseteq D /\ PromptNeeds(p.value.s) \subseteq D
    /\ Value(AsYes(d, s), p.cond) # no /\ PromptIn(AsYes(d, s), p.value.s) # no
Misses(D, d, s, p) ==
    /\ Needs(p.cond) \subseteq D
    /\ \/ Value(AsYes(d, s), p.cond) = no
       \/ PromptNeeds(p.value.s) \subseteq D /\ PromptIn(AsYes(d, s), p.value.s) = no
\* Of the first k candidates x is the first that can be seen; Nobody, if there is none.
FoundAmong(D, d, s, k, x) ==
    \/ x = Nobody /\ \A j \in 1..k : Misses(D, d, s, Candidates(d, s)[j])
    \/ \E i \in 1..k : /\ x = Candidates(d, s)[i].value.s /\ Hits(D, d, s, Candidates(d, s)[i])
                       /\ \A j \in 1..(i - 1) : Misses(D, d, s, Candidates(d, s)[j])

\* t is what the value comes to; a choice that is y then has to find what to pick.
Comes(D, d, s, t) ==
    IF IsChoice(s) /\ t = yes
    THEN /\ FoundAmong(D, d, s, Len(Candidates(d, s)), d.sym[s].sel)
         /\ d.sym[s].tri = IF d.sym[s].sel = Nobody THEN no ELSE yes
    ELSE d.sym[s].tri = t /\ d.sym[s].sel = Nobody
Exact(D, d, s) ==
    ~(IsChoiceVal(s) /\ d.sym[s].vis = yes) =>
        \E v \in Tristate : /\ OwnSays(D, d, s, v)
                           /\ Comes(D, d, s, Promoted(OrT(v, d.sym[s].rev), NowTristate(d, s)))
Modal(d, s) == s = ModulesSym => d.modval = d.sym[s].tri

Done(D, d, s) == /\ Seen1(D, d, s) /\ Pulled(D, d, s) /\ Given1(d, s) /\ Chosen(D, d, s) /\ Steady(D, s)
                 /\ Exact(D, d, s) /\ Modal(d, s)
Good(D, d)    == \A s \in D : Done(D, d, s)

\* Two databases agree on what the user has set, and on what is calculated.
SetAt(a, b, x) == \A field \in {"user", "utri", "usel"} : b.sym[x][field] = a.sym[x][field]
AsSet(a, b) == \A x \in Syms : \A field \in {"user", "utri", "usel"} : b.sym[x][field] = a.sym[x][field]
Same(D, a, b) == /\ AsSet(a, b)
                 /\ \A s \in D : /\ b.sym[s].tri = a.sym[s].tri /\ b.sym[s].sel = a.sym[s].sel
                                 /\ b.sym[s].vis = a.sym[s].vis /\ b.sym[s].rev = a.sym[s].rev
                 /\ ModulesSym \in D => b.modval = a.modval

LEMMA AsSetAt ==
    \A a, b : AsSet(a, b) => \A x \in Syms : SetAt(a, b, x)
BY DEF AsSet, SetAt

\* An expression over symbols that are the same.
LEMMA ValueAgrees ==
    ASSUME NEW a \in Sound, NEW b \in Sound, NEW e \in Exprs, \A x \in Needs(e) : b.sym[x].tri = a.sym[x].tri
    PROVE  Value(TrisOf(b), e) = Value(TrisOf(a), e)
<1>1. \A x \in Needs(e) : TrisOf(a)[x] = TrisOf(b)[x]
  BY TrisType, NeedsParts
<1> QED BY <1>1, ValueSame, TrisType

LEMMA SeenCarries ==
    ASSUME NEW D, NEW E, D \subseteq E, NEW a \in Sound, NEW b \in Sound, Same(D, a, b), NEW s \in Syms,
           Seen1(D, a, s), b.sym[s].vis = a.sym[s].vis, s \in Tris => b.modval = a.modval
    PROVE  Seen1(E, b, s)
<1>1. PromptValue(b, s) = PromptValue(a, s)
  <2>1. CASE Prompt[s] = NoPrompt
    BY <2>1 DEF PromptValue
  <2>2. CASE Prompt[s] # NoPrompt
    <3>1. \A x \in Needs(Prompt[s]) : b.sym[x].tri = a.sym[x].tri
      BY <2>2 DEF Seen1, PromptNeeds, Same
    <3> QED BY <2>2, <3>1, ExprOf, ValueAgrees DEF PromptValue
  <2> QED BY <2>1, <2>2
<1> QED BY <1>1 DEF Seen1

LEMMA PulledCarries ==
    ASSUME NEW D, NEW E, D \subseteq E, NEW a \in Sound, NEW b \in Sound, Same(D, a, b), NEW s \in Syms,
           Pulled(D, a, s), b.sym[s].rev = a.sym[s].rev, s \in Tris => b.modval = a.modval
    PROVE  Pulled(E, b, s)
<1>1. SUFFICES ASSUME ~IsChoiceVal(s)
               PROVE  Pulled(E, b, s)
  BY DEF Pulled
<1>2. \A x \in Needs(RevDep[s]) : b.sym[x].tri = a.sym[x].tri
  BY <1>1 DEF Pulled, Same
<1>3. Value(TrisOf(b), RevDep[s]) = Value(TrisOf(a), RevDep[s])
  BY <1>2, ExprOf, ValueAgrees
<1>4. NowTristate(b, s) = NowTristate(a, s)
  BY <1>1 DEF NowTristate
<1> QED BY <1>1, <1>3, <1>4 DEF Pulled

LEMMA CanBeSeenCarries ==
    ASSUME NEW D, NEW E, D \subseteq E, NEW a \in Sound, NEW b \in Sound, NEW x \in Syms,
           \A y \in D : b.sym[y].tri = a.sym[y].tri, CanBeSeen(D, a, x)
    PROVE  CanBeSeen(E, b, x)
<1>1. \A y \in Needs(Prompt[x]) : b.sym[y].tri = a.sym[y].tri
  BY DEF CanBeSeen
<1>2. Value(TrisOf(b), Prompt[x]) = Value(TrisOf(a), Prompt[x])
  BY <1>1, ExprOf, ValueAgrees DEF CanBeSeen
<1> QED BY <1>2 DEF CanBeSeen

\* The same for the parts of a value.
LEMMA NoDefaultCarries ==
    ASSUME NEW D, NEW E, D \subseteq E, NEW a \in Sound, NEW b \in Sound, NEW s \in Syms,
           \A y \in D : b.sym[y].tri = a.sym[y].tri,
           NEW k \in 0..Len(Defaults[s]), NoDefault(D, a, s, k)
    PROVE  NoDefault(E, b, s, k)
<1>1. SUFFICES ASSUME NEW j \in 1..k
               PROVE  /\ Needs(Defaults[s][j].cond) \subseteq E
                      /\ Value(TrisOf(b), Defaults[s][j].cond) = no
  BY DEF NoDefault
<1>2. j \in 1..Len(Defaults[s])
  BY ExprOf
<1>3. Defaults[s][j].cond \in Exprs
  BY <1>2, ExprOf
<1>4. Needs(Defaults[s][j].cond) \subseteq D /\ Value(TrisOf(a), Defaults[s][j].cond) = no
  BY DEF NoDefault
<1>5. Value(TrisOf(b), Defaults[s][j].cond) = Value(TrisOf(a), Defaults[s][j].cond)
  BY <1>3, <1>4, ValueAgrees
<1> QED BY <1>4, <1>5

LEMMA FirstHoldsCarries ==
    ASSUME NEW D, NEW E, D \subseteq E, NEW a \in Sound, NEW b \in Sound, NEW s \in Syms,
           \A y \in D : b.sym[y].tri = a.sym[y].tri,
           NEW i \in 1..Len(Defaults[s]), FirstHolds(D, a, s, i)
    PROVE  FirstHolds(E, b, s, i)
<1>1. i - 1 \in 0..Len(Defaults[s]) /\ Defaults[s][i].cond \in Exprs
  BY ExprOf
<1>2. /\ NoDefault(D, a, s, i - 1)
      /\ Needs(Defaults[s][i].cond) \subseteq D /\ Value(TrisOf(a), Defaults[s][i].cond) # no
  BY DEF FirstHolds
<1>3. Value(TrisOf(b), Defaults[s][i].cond) = Value(TrisOf(a), Defaults[s][i].cond)
  BY <1>1, <1>2, ValueAgrees
<1>4. NoDefault(E, b, s, i - 1)
  BY <1>1, <1>2, NoDefaultCarries
<1> QED BY <1>2, <1>3, <1>4 DEF FirstHolds

LEMMA DefaultSaysCarries ==
    ASSUME NEW D, NEW E, D \subseteq E, NEW a \in Sound, NEW b \in Sound, NEW s \in Syms,
           \A y \in D : b.sym[y].tri = a.sym[y].tri,
           NEW v, DefaultSays(D, a, s, v)
    PROVE  DefaultSays(E, b, s, v)
<1> DEFINE n == Len(Defaults[s])
<1>1. n \in Nat /\ n \in 0..n /\ \A i \in 1..n : Defaults[s][i].value \in Exprs /\ Defaults[s][i].cond \in Exprs
  BY ExprOf
<1>2. CASE NoDefault(D, a, s, n) /\ v = no
  <2>1. NoDefault(E, b, s, n)
    BY <1>1, <1>2, NoDefaultCarries
  <2> QED BY <1>2, <2>1 DEF DefaultSays
<1>3. ASSUME NEW i \in 1..n, FirstHolds(D, a, s, i), Needs(Defaults[s][i].value) \subseteq D,
             v = AndT(Value(TrisOf(a), Defaults[s][i].value), Value(TrisOf(a), Defaults[s][i].cond))
      PROVE  DefaultSays(E, b, s, v)
  <2>1. Value(TrisOf(b), Defaults[s][i].value) = Value(TrisOf(a), Defaults[s][i].value)
    BY <1>1, <1>3, ValueAgrees
  <2>2. FirstHolds(E, b, s, i)
    BY <1>3, FirstHoldsCarries
  <2>3. Needs(Defaults[s][i].value) \subseteq E /\ Needs(Defaults[s][i].cond) \subseteq D
    BY <1>3 DEF FirstHolds
  <2>4. Value(TrisOf(b), Defaults[s][i].cond) = Value(TrisOf(a), Defaults[s][i].cond)
    BY <1>1, <2>3, ValueAgrees
  <2> QED BY <1>3, <2>1, <2>2, <2>3, <2>4 DEF DefaultSays
<1> QED BY <1>2, <1>3 DEF DefaultSays

LEMMA OwnSaysCarries ==
    ASSUME NEW D, NEW E, D \subseteq E, NEW a \in Sound, NEW b \in Sound, NEW s \in Syms,
           \A y \in D : b.sym[y].tri = a.sym[y].tri, SetAt(a, b, s), b.sym[s].vis = a.sym[s].vis,
           NEW v, OwnSays(D, a, s, v)
    PROVE  OwnSays(E, b, s, v)
<1>1. b.sym[s].user = a.sym[s].user /\ b.sym[s].utri = a.sym[s].utri
  BY DEF SetAt
<1>2. ByUser(b, s) <=> ByUser(a, s)
  BY <1>1 DEF ByUser
<1>3. DefaultSays(D, a, s, v) => DefaultSays(E, b, s, v)
  BY DefaultSaysCarries
<1> QED BY <1>1, <1>2, <1>3 DEF OwnSays

\* It is only asked for what is needed.
LEMMA OwnSaysOf ==
    ASSUME NEW D, NEW d, NEW s \in Syms, NEW v, OwnSays(D, d, s, v),
           NEW A, ~IsChoice(s) => DefaultNeeds(s) \subseteq A
    PROVE  OwnSays(D \intersect A, d, s, v)
<1> DEFINE n == Len(Defaults[s])
           E == D \intersect A
<1>1. SUFFICES ASSUME ~ByUser(d, s), ~IsChoice(s)
               PROVE  DefaultSays(E, d, s, v)
  BY DEF OwnSays
<1>2. n \in Nat
  BY ExprOf
<1>3. \A i \in 1..n : Needs(Defaults[s][i].cond) \subseteq A /\ Needs(Defaults[s][i].value) \subseteq A
  BY <1>1 DEF DefaultNeeds, CondNeeds
<1>4. \A k \in 0..n : NoDefault(D, d, s, k) => NoDefault(E, d, s, k)
  BY <1>2, <1>3 DEF NoDefault
<1>5. DefaultSays(D, d, s, v)
  BY <1>1 DEF OwnSays
<1>6. CASE NoDefault(D, d, s, n) /\ v = no
  <2>1. n \in 0..n
    BY <1>2
  <2> QED BY <1>4, <1>6, <2>1 DEF DefaultSays
<1>7. ASSUME NEW i \in 1..n, FirstHolds(D, d, s, i), Needs(Defaults[s][i].value) \subseteq D,
             v = AndT(Value(TrisOf(d), Defaults[s][i].value), Value(TrisOf(d), Defaults[s][i].cond))
      PROVE  DefaultSays(E, d, s, v)
  <2>1. i - 1 \in 0..n
    BY <1>2
  <2>2. FirstHolds(E, d, s, i) /\ Needs(Defaults[s][i].value) \subseteq E
    BY <1>3, <1>4, <1>7, <2>1 DEF FirstHolds
  <2> QED BY <1>7, <2>2 DEF DefaultSays
<1> QED BY <1>5, <1>6, <1>7 DEF DefaultSays

LEMMA AsYesType ==
    ASSUME NEW d \in Sound, NEW s \in Syms
    PROVE  /\ AsYes(d, s) \in Valuations
           /\ \A x \in Syms : AsYes(d, s)[x] = IF x = s THEN yes ELSE d.sym[x].tri
           /\ d.sym[s].tri = yes => AsYes(d, s) = TrisOf(d)
<1> DEFINE v == TrisOf(d)
           w == AsYes(d, s)
<1>1. v \in Valuations /\ \A x \in Syms : v[x] = d.sym[x].tri
  BY TrisType
<1>2. w = [v EXCEPT ![s] = yes]
  BY DEF AsYes
<1> HIDE DEF v, w
<1>3. v \in [Syms \union ConstSyms -> Tristate] /\ s \notin ConstSyms /\ yes \in Tristate
  BY <1>1, SymbolNames DEF Valuations, Tristate
<1>4. w \in [Syms \union ConstSyms -> Tristate] /\ \A x \in Syms \union ConstSyms : w[x] = IF x = s THEN yes ELSE v[x]
  BY <1>2, <1>3
<1>5. w \in Valuations
  <2>1. \A x \in Bools : w[x] # mod
    BY <1>1, <1>4 DEF Valuations, Syms, mod, yes
  <2>2. w["n"] = no /\ w["m"] = mod /\ w["y"] = yes
    BY <1>1, <1>3, <1>4 DEF Valuations, ConstSyms
  <2> QED BY <1>4, <2>1, <2>2 DEF Valuations
<1>6. d.sym[s].tri = yes => w = v
  BY <1>1, <1>2, <1>3
<1> QED BY <1>1, <1>4, <1>5, <1>6 DEF v, w

LEMMA AsYesAgrees ==
    ASSUME NEW a \in Sound, NEW b \in Sound, NEW s \in Syms, NEW e \in Exprs,
           \A x \in Needs(e) \ {s} : b.sym[x].tri = a.sym[x].tri
    PROVE  Value(AsYes(b, s), e) = Value(AsYes(a, s), e)
<1>1. \A x \in Needs(e) : AsYes(b, s)[x] = AsYes(a, s)[x]
  BY AsYesType, NeedsParts
<1> QED BY <1>1, AsYesType, ValueSame

\* The candidates are those of the user and of the Kconfig.
LEMMA CandidatesOf ==
    ASSUME NEW d \in Sound, NEW s \in Syms, IsChoice(s), NEW i \in 1..Len(Candidates(d, s))
    PROVE  LET p == Candidates(d, s)[i]
           IN  /\ p.cond \in Exprs /\ Needs(p.cond) \subseteq CondNeeds(s)
               /\ p.value.s \in Range(Members[s]) /\ p.value.s \in Syms
<1> DEFINE p == Candidates(d, s)[i]
<1>1. d \in Dbs /\ d.sym[s].usel \in Range(Members[s]) \union {Nobody} /\ Nobody \notin Syms
  BY SoundParts, SymbolsAssumption DEF OwnValues
<1>2. p.cond \in Exprs /\ Needs(p.cond) \subseteq CondNeeds(s) /\ \E x \in Range(Members[s]) : p.value = SymE(x)
  BY <1>1, CandidateParts
<1> HIDE DEF p
<1>3. p.value.s \in Range(Members[s])
  BY <1>2 DEF SymE
<1> QED BY <1>2, <1>3, MembersIn DEF p

LEMMA PromptInAgrees ==
    ASSUME NEW a \in Sound, NEW b \in Sound, NEW s \in Syms, NEW x \in Syms,
           \A y \in PromptNeeds(x) \ {s} : b.sym[y].tri = a.sym[y].tri
    PROVE  PromptIn(AsYes(b, s), x) = PromptIn(AsYes(a, s), x)
<1>1. CASE Prompt[x] = NoPrompt
  BY <1>1 DEF PromptIn
<1>2. CASE Prompt[x] # NoPrompt
  BY <1>2, ExprOf, AsYesAgrees DEF PromptIn, PromptNeeds
<1> QED BY <1>1, <1>2

LEMMA FoundCarries ==
    ASSUME NEW D, NEW E, D \subseteq E, NEW a \in Sound, NEW b \in Sound, NEW s \in Syms, IsChoice(s),
           \A y \in D \ {s} : b.sym[y].tri = a.sym[y].tri, SetAt(a, b, s),
           NEW k \in 0..Len(Candidates(a, s)), NEW x, FoundAmong(D, a, s, k, x)
    PROVE  FoundAmong(E, b, s, k, x) /\ Candidates(b, s) = Candidates(a, s)
<1> DEFINE ps == Candidates(a, s)
<1>1. Candidates(b, s) = ps
  BY DEF Candidates, SetAt
<1>2. Len(ps) \in Nat
  BY CandidateParts DEF Sound
<1>3. ASSUME NEW i \in 1..Len(ps)
      PROVE  (Hits(D, a, s, ps[i]) => Hits(E, b, s, ps[i])) /\ (Misses(D, a, s, ps[i]) => Misses(E, b, s, ps[i]))
  <2> DEFINE q == ps[i]
  <2>1. q.cond \in Exprs /\ q.value.s \in Syms
    BY CandidatesOf
  <2> HIDE DEF q
  <2>2. Needs(q.cond) \subseteq D => Value(AsYes(b, s), q.cond) = Value(AsYes(a, s), q.cond)
    BY <2>1, AsYesAgrees
  <2>3. PromptNeeds(q.value.s) \subseteq D => PromptIn(AsYes(b, s), q.value.s) = PromptIn(AsYes(a, s), q.value.s)
    BY <2>1, PromptInAgrees
  <2>4. (Hits(D, a, s, q) => Hits(E, b, s, q)) /\ (Misses(D, a, s, q) => Misses(E, b, s, q))
    BY <2>2, <2>3 DEF Hits, Misses
  <2> QED BY <2>4 DEF q
<1> HIDE DEF ps
<1>4. \A j \in 1..k : j \in 1..Len(ps) /\ \A m \in 1..(j - 1) : m \in 1..Len(ps)
  BY <1>2 DEF ps
<1>5. FoundAmong(E, b, s, k, x)
  <2>1. CASE x = Nobody /\ \A j \in 1..k : Misses(D, a, s, ps[j])
    BY <1>1, <1>3, <1>4, <2>1 DEF FoundAmong, ps
  <2>2. ASSUME NEW i \in 1..k, x = ps[i].value.s, Hits(D, a, s, ps[i]),
               \A j \in 1..(i - 1) : Misses(D, a, s, ps[j])
        PROVE  FoundAmong(E, b, s, k, x)
    <3>1. Hits(E, b, s, ps[i]) /\ \A j \in 1..(i - 1) : Misses(E, b, s, ps[j])
      BY <1>3, <1>4, <2>2
    <3> QED BY <1>1, <2>2, <3>1 DEF FoundAmong
  <2> QED BY <2>1, <2>2 DEF FoundAmong, ps
<1> QED BY <1>1, <1>5 DEF ps

\* One candidate more.
LEMMA FoundMore ==
    ASSUME NEW D, NEW d \in Sound, NEW s \in Syms, IsChoice(s),
           NEW k \in 1..Len(Candidates(d, s)), NEW x, FoundAmong(D, d, s, k - 1, x)
    PROVE  LET p == Candidates(d, s)[k]
           IN  /\ x # Nobody => FoundAmong(D, d, s, k, x)
               /\ x = Nobody /\ Misses(D, d, s, p) => FoundAmong(D, d, s, k, Nobody)
               /\ x = Nobody /\ Hits(D, d, s, p) => FoundAmong(D, d, s, k, p.value.s)
<1> DEFINE ps == Candidates(d, s)
<1>1. \A j \in 1..Len(ps) : ps[j].value.s # Nobody
  BY CandidatesOf, SymbolsAssumption
<1>2. Len(ps) \in Nat
  BY CandidateParts DEF Sound
<1>3. \A j \in 1..k : j = k \/ j \in 1..(k - 1)
  BY <1>2
<1>4. \A j \in 1..(k - 1) : j \in 1..k /\ j \in 1..Len(ps)
  BY <1>2
<1>5. k \in 1..k
  BY <1>2
<1> HIDE DEF ps
<1>6. x = Nobody => \A j \in 1..(k - 1) : Misses(D, d, s, ps[j])
  BY <1>1, <1>4 DEF FoundAmong, ps
<1>7. x # Nobody => FoundAmong(D, d, s, k, x)
  BY <1>4 DEF FoundAmong
<1>8. x = Nobody /\ Misses(D, d, s, ps[k]) => FoundAmong(D, d, s, k, Nobody)
  BY <1>3, <1>6 DEF FoundAmong, ps
<1>9. x = Nobody /\ Hits(D, d, s, ps[k]) => FoundAmong(D, d, s, k, ps[k].value.s)
  BY <1>5, <1>6 DEF FoundAmong, ps
<1> QED BY <1>7, <1>8, <1>9 DEF ps

\* The value to the letter, where all that it comes from is the same.
LEMMA ExactCarries ==
    ASSUME NEW D, NEW E, D \subseteq E, NEW a \in Sound, NEW b \in Sound, NEW s \in Syms,
           \A y \in D : b.sym[y].tri = a.sym[y].tri, AsSet(a, b),
           \A field \in {"tri", "sel", "vis", "rev"} : b.sym[s][field] = a.sym[s][field],
           NowTristate(b, s) = NowTristate(a, s), Exact(D, a, s)
    PROVE  Exact(E, b, s)
<1>1. /\ b.sym[s].tri = a.sym[s].tri /\ b.sym[s].sel = a.sym[s].sel
      /\ b.sym[s].vis = a.sym[s].vis /\ b.sym[s].rev = a.sym[s].rev
  OBVIOUS
<1>2. SUFFICES ASSUME ~(IsChoiceVal(s) /\ a.sym[s].vis = yes)
               PROVE  Exact(E, b, s)
  BY <1>1 DEF Exact
<1> DEFINE t(v) == Promoted(OrT(v, a.sym[s].rev), NowTristate(a, s))
<1>3. PICK v \in Tristate : OwnSays(D, a, s, v) /\ Comes(D, a, s, t(v))
  BY <1>2 DEF Exact
<1>4. OwnSays(E, b, s, v)
  BY <1>1, <1>3, OwnSaysCarries, AsSetAt
<1>5. t(v) = Promoted(OrT(v, b.sym[s].rev), NowTristate(b, s))
  BY <1>1
<1> HIDE DEF t
<1>6. Comes(E, b, s, t(v))
  <2>1. CASE IsChoice(s) /\ t(v) = yes
    <3>1. /\ FoundAmong(D, a, s, Len(Candidates(a, s)), a.sym[s].sel)
          /\ a.sym[s].tri = IF a.sym[s].sel = Nobody THEN no ELSE yes
      BY <1>3, <2>1 DEF Comes
    <3>2. Len(Candidates(a, s)) \in 0..Len(Candidates(a, s))
      BY <2>1, CandidateParts DEF Sound
    <3> DEFINE n == Len(Candidates(a, s))
               x == a.sym[s].sel
    <3>3. /\ n \in 0..Len(Candidates(a, s)) /\ FoundAmong(D, a, s, n, x)
          /\ \A y \in D \ {s} : b.sym[y].tri = a.sym[y].tri
          /\ SetAt(a, b, s)
      BY <3>1, <3>2, AsSetAt
    <3> HIDE DEF n, x
    <3>4. FoundAmong(E, b, s, n, x) /\ Candidates(b, s) = Candidates(a, s)
      BY ONLY D \subseteq E, a \in Sound, b \in Sound, s \in Syms, <2>1, <3>3, FoundCarries
    <3> QED BY <1>1, <2>1, <3>1, <3>4 DEF Comes, n, x
  <2>2. CASE ~(IsChoice(s) /\ t(v) = yes)
    BY <1>1, <1>3, <2>2 DEF Comes
  <2> QED BY <2>1, <2>2
<1> QED BY <1>4, <1>5, <1>6 DEF Exact

\* The prompt of a choice value that can be seen mentions its choice.
LEMMA SeesChoice ==
    ASSUME NEW x \in Syms, IsChoiceVal(x)
    PROVE  /\ ChoiceOf[x] \in Syms /\ x \in Range(Members[ChoiceOf[x]])
           /\ \/ ChoiceOf[x] \in PromptNeeds(x)
              \/ /\ PromptNeeds(x) = {}
                 /\ \A d \in Sound : PromptValue(d, x) = no
<1>1. ChoiceOf[x] \in Syms /\ (Prompt[x] \in {NoPrompt, SymE("n")} \/ Mentions(Prompt[x], ChoiceOf[x]))
  BY ChoiceAssumption DEF IsChoiceVal
<1>2. x \in Range(Members[ChoiceOf[x]])
  BY <1>1, ChoiceAssumption
<1>3. CASE Prompt[x] = NoPrompt
  BY <1>1, <1>2, <1>3 DEF PromptNeeds, PromptValue
<1>4. CASE Prompt[x] # NoPrompt /\ Prompt[x] = SymE("n")
  <2>1. SymE("n") \in Leaves /\ SymE("n") \in Exprs /\ Needs(SymE("n")) = {}
    <3>1. SymE("n") \in Leaves
      BY DEF Leaves, ConstSyms
    <3>2. SymE("n") \in Exprs
      BY <3>1, LeavesInTree, DepthNat DEF Exprs
    <3> QED BY <3>1, <3>2, NeedsParts DEF SymE, ConstSyms
  <2>2. \A d \in Sound : Value(TrisOf(d), SymE("n")) = no
    <3>1. \A v \in Valuations : LeafValue(v, SymE("n")) = no
      BY DEF LeafValue, SymE, Valuations
    <3> QED BY <2>1, <3>1, ValueLeaf, TrisType
  <2> QED BY <1>1, <1>2, <1>4, <2>1, <2>2 DEF PromptNeeds, PromptValue
<1>5. CASE Prompt[x] # NoPrompt /\ Mentions(Prompt[x], ChoiceOf[x])
  BY <1>1, <1>2, <1>5 DEF PromptNeeds, Needs
<1> QED BY <1>1, <1>3, <1>4, <1>5

\* What is done stays done.
LEMMA DoneCarries ==
    ASSUME NEW D \in SUBSET Syms, NEW E, D \subseteq E, NEW a \in Sound, NEW b \in Sound, Same(D, a, b),
           NEW s \in D, Done(D, a, s)
    PROVE  Done(E, b, s)
<1>1. /\ b.sym[s].tri = a.sym[s].tri /\ b.sym[s].sel = a.sym[s].sel
      /\ b.sym[s].vis = a.sym[s].vis /\ b.sym[s].rev = a.sym[s].rev
  BY DEF Same
<1>2. s \in Tris => b.modval = a.modval
  BY DEF Done, Steady, Same
<1>3. Seen1(E, b, s) /\ Pulled(E, b, s)
  BY <1>1, <1>2, SeenCarries, PulledCarries DEF Done
<1>4. NowTristate(b, s) = NowTristate(a, s)
  BY <1>1, <1>2 DEF NowTristate
<1>5. Given1(b, s)
  <2>1. CASE IsChoiceVal(s) /\ a.sym[s].vis = yes
    <3>1. ChoiceOf[s] \in D
      <4>1. PromptValue(a, s) # no
        BY <2>1 DEF Done, Seen1, Promoted, no, mod, yes
      <4> QED BY <2>1, <4>1, SeesChoice DEF Done, Seen1
    <3>2. MemberValue(b, s) = MemberValue(a, s)
      BY <3>1 DEF MemberValue, Same
    <3> QED BY <1>1, <2>1, <3>2 DEF Done, Given1
  <2>2. CASE ~(IsChoiceVal(s) /\ a.sym[s].vis = yes)
    BY <1>1, <1>4, <2>2 DEF Done, Given1
  <2> QED BY <2>1, <2>2
<1>6. Chosen(E, b, s)
  <2>1. a.sym[s].sel # Nobody => a.sym[s].sel \in Syms
    BY DbParts DEF Sound
  <2>2. \A y \in D : b.sym[y].tri = a.sym[y].tri
    BY DEF Same
  <2> QED BY <1>1, <2>1, <2>2, CanBeSeenCarries DEF Done, Chosen
<1>7. Steady(E, s)
  BY DEF Done, Steady
<1>8. Exact(E, b, s)
  <2>1. \A field \in {"tri", "sel", "vis", "rev"} : b.sym[s][field] = a.sym[s][field]
    BY <1>1
  <2>2. (\A y \in D : b.sym[y].tri = a.sym[y].tri) /\ AsSet(a, b)
    BY DEF Same
  <2> QED BY <1>4, <2>1, <2>2, ExactCarries DEF Done
<1>9. Modal(b, s)
  BY <1>1 DEF Done, Modal, Same
<1> QED BY <1>3, <1>5, <1>6, <1>7, <1>8, <1>9 DEF Done

LEMMA GoodCarries ==
    ASSUME NEW D \in SUBSET Syms, NEW a \in Sound, NEW b \in Sound, Same(D, a, b), Good(D, a)
    PROVE  Good(D, b)
BY DoneCarries DEF Good

(***************************************************************************)
(* Calculating, while the symbols of P are being calculated.               *)
(***************************************************************************)
Valids(d) == {x \in Syms : d.sym[x].valid}
Inner(P, n) == {d \in Sound : /\ P \subseteq Valids(d)
                              /\ Good(Valids(d) \ P, d)
                              /\ Cardinality(Syms \ Valids(d)) <= n}

\* What was valid has not changed, but for the symbols of X and the visibility of a
\* choice value that is being calculated, which looking for what to pick sets.
GrownFrom(P, X, a, b) ==
    /\ AsSet(a, b) /\ Valids(a) \subseteq Valids(b)
    /\ \A y \in Valids(a) \ X :
         /\ b.sym[y].tri = a.sym[y].tri /\ b.sym[y].sel = a.sym[y].sel /\ b.sym[y].rev = a.sym[y].rev
         /\ (y \in P /\ IsChoiceVal(y)) \/ b.sym[y].vis = a.sym[y].vis
    /\ ModulesSym \in Valids(a) \ X => b.modval = a.modval
Grown(P, X) == {p \in Dbs \X Dbs : GrownFrom(P, X, p[1], p[2])}

\* Nothing that is being calculated depends on x, and x not on its own node.
Free(P, x) == \A y \in P : /\ Node(y) \notin Below(Node(x)) /\ y # x
                           /\ Node(y) = Node(x) => x = Node(x)

\* What decides whether there are modules, and whether that is known.
IsKernel(K) == /\ ModulesSym \in K
               /\ \A s \in K : {x \in Syms : Node(x) \in Uses(Node(s)) \union {Node(s)}} \subseteq K
Kernel == CHOOSE K \in SUBSET Bools : IsKernel(K)
Settled1(P, d, s) == s \in Kernel \/ ModulesSym \in Valids(d) \ P

\* What there is to prove of sym_calc_value with at most n symbols that are not valid.
Right(calc, n) ==
    \A P \in SUBSET Syms, x \in Syms : Free(P, x) =>
        \A d \in Inner(P, n) : Settled1(P, d, x) =>
            /\ calc[d][x] \in Inner(P, n) /\ <<d, calc[d][x]>> \in Grown(P, {})
            /\ x \in Valids(calc[d][x]) \ P

LEMMA KernelFacts ==
    /\ Kernel \subseteq Bools /\ ModulesSym \in Kernel
    /\ \A s \in Kernel, x \in Syms : Node(x) \in Uses(Node(s)) \union {Node(s)} => x \in Kernel
    /\ \A s \in Kernel : s \notin Tris
<1>1. \E K \in SUBSET Bools : IsKernel(K)
  BY ModulesAssumption DEF IsKernel
<1>2. Kernel \in SUBSET Bools /\ IsKernel(Kernel)
  BY <1>1, Zenon DEF Kernel
<1> HIDE DEF Kernel
<1> QED BY <1>2, SymbolNames DEF IsKernel

LEMMA GrownOrder ==
    ASSUME NEW P, NEW X
    PROVE  /\ \A a \in Dbs : <<a, a>> \in Grown(P, X)
           /\ \A a, b, c : <<a, b>> \in Grown(P, X) /\ <<b, c>> \in Grown(P, X) => <<a, c>> \in Grown(P, X)
           /\ \A a, b : <<a, b>> \in Grown(P, {}) => <<a, b>> \in Grown(P, X)
           /\ \A a, b : <<a, b>> \in Grown(P, X) <=> a \in Dbs /\ b \in Dbs /\ GrownFrom(P, X, a, b)
<1>1. \A a, b, Y : <<a, b>> \in Grown(P, Y) <=> a \in Dbs /\ b \in Dbs /\ GrownFrom(P, Y, a, b)
  BY DEF Grown
<1> DEFINE Asks == \A a, b, c : AsSet(a, a) /\ (AsSet(a, b) /\ AsSet(b, c) => AsSet(a, c))
<1>5. Asks
  BY DEF AsSet
<1> HIDE DEF Asks
<1>2. \A a : GrownFrom(P, X, a, a)
  BY <1>5 DEF GrownFrom, Asks
<1>3. \A a, b, c : GrownFrom(P, X, a, b) /\ GrownFrom(P, X, b, c) => GrownFrom(P, X, a, c)
  <2>1. SUFFICES ASSUME NEW a, NEW b, NEW c, GrownFrom(P, X, a, b), GrownFrom(P, X, b, c)
                 PROVE  GrownFrom(P, X, a, c)
    OBVIOUS
  <2>2. AsSet(a, c)
    BY <1>5, <2>1 DEF GrownFrom, Asks
  <2> QED BY <2>1, <2>2 DEF GrownFrom
<1>4. \A a, b : GrownFrom(P, {}, a, b) => GrownFrom(P, X, a, b)
  BY DEF GrownFrom
<1> QED BY <1>1, <1>2, <1>3, <1>4

LEMMA GrownSame ==
    ASSUME NEW P, NEW X, X \subseteq P, NEW a, NEW b, <<a, b>> \in Grown(P, X)
    PROVE  /\ Same(Valids(a) \ P, a, b)
           /\ Valids(a) \ P \subseteq Valids(b) \ P
BY GrownOrder DEF GrownFrom, Same

\* The symbols that the calculation of s asks for.
Ahead(s) == {x \in Syms : Node(x) \in Uses(Node(s)) \/ (x = Node(s) /\ x # s)}

LEMMA AheadFacts ==
    ASSUME NEW s \in Syms
    PROVE  /\ PromptNeeds(s) \subseteq Ahead(s) /\ Needs(RevDep[s]) \subseteq Ahead(s)
           /\ CondNeeds(s) \subseteq Ahead(s) /\ (~IsChoice(s) => DefaultNeeds(s) \subseteq Ahead(s))
           /\ s \notin Ahead(s)
           /\ s \in Kernel => Ahead(s) \subseteq Kernel
           /\ \A P \in SUBSET Syms : Free(P, s) => \A x \in Ahead(s) : Free(P \union {s}, x)
           /\ \A x \in Range(Members[s]) : PromptNeeds(x) \subseteq Ahead(s) \union {s}
<1>1. \A z \in Syms : DependsOnSyms(z) \subseteq Ahead(z)
  BY DependsBelow DEF Ahead
<1>2. PromptNeeds(s) \subseteq DependsOnSyms(s) /\ Needs(RevDep[s]) \subseteq DependsOnSyms(s)
  BY DEF DependsOnSyms, PromptNeeds
<1>3. \A i \in 1..Len(Defaults[s]) : Defaults[s][i] \in Range(Defaults[s])
  BY SymbolsAssumption, LenProperties DEF Range
<1>4. CondNeeds(s) \subseteq DependsOnSyms(s) /\ (~IsChoice(s) => DefaultNeeds(s) \subseteq DependsOnSyms(s))
  BY <1>3 DEF CondNeeds, DefaultNeeds, DependsOnSyms
<1>5. Node(s) \in Nodes /\ Node(s) \notin Below(Node(s)) /\ Uses(Node(s)) \subseteq Below(Node(s))
  BY NodesInSyms, NotBelowItself, BelowFacts
<1>6. s \notin Ahead(s)
  BY <1>5 DEF Ahead
<1>7. s \in Kernel => Ahead(s) \subseteq Kernel
  BY KernelFacts, NodesInSyms DEF Ahead
<1>8. ASSUME NEW P \in SUBSET Syms, Free(P, s), NEW x \in Ahead(s)
      PROVE  Free(P \union {s}, x)
  <2>1. SUFFICES ASSUME NEW y \in P \union {s}
                 PROVE  Node(y) \notin Below(Node(x)) /\ y # x /\ (Node(y) = Node(x) => x = Node(x))
    BY DEF Free
  <2>2. CASE Node(x) \in Uses(Node(s))
    <3>1. Node(x) \in Below(Node(s)) /\ Below(Node(x)) \subseteq Below(Node(s))
      BY <1>5, <2>2, BelowFacts
    <3>2. Node(y) \notin Below(Node(s))
      BY <1>5, <1>8 DEF Free
    <3> QED BY <3>1, <3>2
  <2>3. CASE x = Node(s) /\ x # s
    <3>1. Node(x) = Node(s) /\ IsChoiceVal(s)
      BY <2>3, NodesInSyms
    <3>2. Node(y) \notin Below(Node(s))
      BY <1>5, <1>8 DEF Free
    <3>3. y # x
      BY <1>8, <2>3, <3>1 DEF Free
    <3> QED BY <2>3, <3>1, <3>2, <3>3
  <2> QED BY <2>2, <2>3 DEF Ahead
<1>9. ASSUME NEW x \in Range(Members[s])
      PROVE  PromptNeeds(x) \subseteq Ahead(s) \union {s}
  <2>1. x \in Syms /\ IsChoiceVal(x) /\ ChoiceOf[x] = s
    BY MembersIn
  <2>2. Node(x) = s
    BY <2>1 DEF Node
  <2>3. Node(s) = s
    BY <2>1, <2>2, NodesInSyms
  <2>4. Ahead(x) \subseteq Ahead(s) \union {s}
    BY <2>2, <2>3 DEF Ahead
  <2>5. PromptNeeds(x) \subseteq DependsOnSyms(x)
    BY DEF DependsOnSyms, PromptNeeds
  <2> QED BY <1>1, <2>1, <2>4, <2>5
<1> QED BY <1>1, <1>2, <1>4, <1>6, <1>7, <1>8, <1>9

\* The databases there are while s is calculated, in the course of calculating P.
Around(P, n, s) == {d \in Inner(P \union {s}, n) : Settled1(P \union {s}, d, s)}

LEMMA AroundParts ==
    ASSUME NEW P, NEW n, NEW s \in Syms, NEW d \in Around(P, n, s)
    PROVE  /\ d \in Sound /\ d \in Dbs /\ d \in Inner(P \union {s}, n)
           /\ s \in Valids(d) /\ P \union {s} \subseteq Valids(d)
           /\ Good(Valids(d) \ (P \union {s}), d)
           /\ Cardinality(Syms \ Valids(d)) <= n
           /\ s \in Kernel \/ ModulesSym \in Valids(d) \ (P \union {s})
           /\ s \in Tris => ModulesSym \in Valids(d) \ (P \union {s})
<1>1. s \in Tris => s \notin Kernel
  BY KernelFacts
<1>2. d \in Inner(P \union {s}, n) /\ Settled1(P \union {s}, d, s)
  BY DEF Around
<1> QED BY <1>1, <1>2 DEF Inner, Settled1, Sound

LEMMA AroundGrows ==
    ASSUME NEW P \in SUBSET Syms, NEW n, NEW s \in Syms, NEW d \in Around(P, n, s), NEW e \in Sound,
           Valids(e) = Valids(d), <<d, e>> \in Grown(P \union {s}, {s})
    PROVE  e \in Around(P, n, s)
<1> DEFINE Q == P \union {s}
           D == Valids(d) \ Q
<1>1. Same(D, d, e)
  BY GrownSame
<1>2. D \in SUBSET Syms
  BY DEF Valids
<1>3. Good(D, d) /\ d \in Sound /\ Q \subseteq Valids(d) /\ Cardinality(Syms \ Valids(d)) <= n /\ Settled1(Q, d, s)
  BY AroundParts DEF Settled1
<1>4. Good(Valids(e) \ Q, e)
  BY <1>1, <1>2, <1>3, GoodCarries
<1>5. Settled1(Q, e, s)
  BY <1>3 DEF Settled1
<1>6. e \in Inner(Q, n)
  BY <1>3, <1>4 DEF Inner
<1> QED BY <1>5, <1>6 DEF Around

LEMMA ButGrown ==
    ASSUME NEW d \in Dbs, NEW s \in Syms, NEW e, But(s, d, e), NEW Q,
           \A field \in {"user", "utri", "usel", "valid"} : e.sym[s][field] = d.sym[s][field]
    PROVE  <<d, e>> \in Grown(Q, {s}) /\ Valids(e) = Valids(d) /\ AsSet(d, e)
<1>4. AsSet(d, e)
  BY DEF But, AsSet
<1>1. Valids(e) = Valids(d)
  BY DEF But, Valids
<1>2. \A y \in Valids(d) \ {s} : e.sym[y] = d.sym[y]
  BY DEF But, Valids
<1>3. GrownFrom(Q, {s}, d, e)
  BY <1>1, <1>2, <1>4 DEF GrownFrom, But
<1> QED BY <1>1, <1>3, <1>4, GrownOrder DEF But

\* Calculating what s asks for leads around s, and makes it known.
Known1(P, s) == [d \in Dbs |-> (Valids(d) \ (P \union {s})) \union {s}]

LEMMA AroundLeads ==
    ASSUME NEW calc, Calm(calc), NEW n \in Nat, Right(calc, n),
           NEW P \in SUBSET Syms, NEW s \in Syms, Free(P, s)
    PROVE  /\ calc \in Calcs
           /\ Leads(calc, Around(P, n, s), Ahead(s) \union {s}, Grown(P \union {s}, {}))
           /\ Knows(calc, Around(P, n, s), Ahead(s) \union {s}, Grown(P \union {s}, {}), Known1(P, s))
<1> DEFINE Q == P \union {s}
           S == Around(P, n, s)
           R == Grown(Q, {})
           N == Ahead(s) \union {s}
           K == Known1(P, s)
<1>1. calc \in Calcs /\ \A d \in Dbs, x \in Syms : d.sym[x].valid => calc[d][x] = d
  BY DEF Calm
<1>2. S \subseteq Dbs
  BY AroundParts
<1>3. /\ \A d \in S : <<d, d>> \in R
      /\ \A a \in S, b \in S, c \in S : <<a, b>> \in R /\ <<b, c>> \in R => <<a, c>> \in R
  BY <1>2, GrownOrder
<1>4. ASSUME NEW d \in S, NEW x \in N
      PROVE  calc[d][x] \in S /\ <<d, calc[d][x]>> \in R /\ x \in K[calc[d][x]]
  <2>1. d \in Dbs /\ d \in Inner(Q, n) /\ s \in Valids(d)
    BY AroundParts
  <2>2. CASE x = s
    <3>1. calc[d][x] = d
      BY <1>1, <2>1, <2>2 DEF Valids
    <3> QED BY <1>3, <2>1, <2>2, <3>1 DEF Known1
  <2>3. CASE x \in Ahead(s)
    <3> DEFINE e == calc[d][x]
    <3>1. Free(Q, x) /\ x \in Syms /\ Q \in SUBSET Syms
      BY <2>3, AheadFacts DEF Ahead
    <3>2. Settled1(Q, d, x)
      <4>1. s \in Kernel \/ ModulesSym \in Valids(d) \ Q
        BY AroundParts
      <4>2. s \in Kernel => x \in Kernel
        BY <2>3, AheadFacts
      <4> QED BY <4>1, <4>2 DEF Settled1
    <3>3. e \in Inner(Q, n) /\ <<d, e>> \in R /\ x \in Valids(e) \ Q
      BY <2>1, <3>1, <3>2 DEF Right
    <3> HIDE DEF e
    <3>4. Valids(d) \subseteq Valids(e)
      BY <3>3, GrownOrder DEF GrownFrom
    <3>5. Settled1(Q, e, s)
      <4>1. s \in Kernel \/ ModulesSym \in Valids(d) \ Q
        BY AroundParts
      <4> QED BY <3>4, <4>1 DEF Settled1
    <3>6. e \in S
      BY <3>3, <3>5 DEF Around
    <3>7. x \in K[e]
      BY <1>2, <3>3, <3>6 DEF Known1
    <3> QED BY <3>3, <3>6, <3>7 DEF e
  <2> QED BY <2>2, <2>3
<1>5. Leads(calc, S, N, R)
  BY <1>2, <1>3, <1>4 DEF Leads
<1>6. ASSUME NEW a \in S, NEW b \in S, <<a, b>> \in R
      PROVE  K[a] \subseteq K[b] /\ \A x \in K[a] : a.sym[x].tri = b.sym[x].tri
  <2>1. a \in Dbs /\ b \in Dbs /\ s \in Valids(a)
    BY AroundParts
  <2>2. GrownFrom(Q, {}, a, b)
    BY <1>6, GrownOrder
  <2>3. K[a] = (Valids(a) \ Q) \union {s} /\ K[b] = (Valids(b) \ Q) \union {s}
    BY <2>1 DEF Known1
  <2> QED BY <2>1, <2>2, <2>3 DEF GrownFrom
<1>7. Knows(calc, S, N, R, K)
  BY <1>4, <1>6 DEF Knows
<1> QED BY <1>1, <1>5, <1>7

\* What sym_calc_visibility has found of s, and that it stays.
SeenNow(P, d, s) == LET D == Valids(d) \ (P \union {s}) IN Seen1(D, d, s) /\ Pulled(D, d, s)

LEMMA SeenStays ==
    ASSUME NEW P \in SUBSET Syms, NEW n, NEW s \in Syms, NEW a \in Around(P, n, s), NEW b \in Around(P, n, s),
           <<a, b>> \in Grown(P \union {s}, {s}), SeenNow(P, a, s),
           b.sym[s].vis = a.sym[s].vis, b.sym[s].rev = a.sym[s].rev
    PROVE  SeenNow(P, b, s)
<1> DEFINE Q == P \union {s}
           D == Valids(a) \ Q
           E == Valids(b) \ Q
<1>1. Same(D, a, b) /\ D \subseteq E
  BY GrownSame
<1>2. a \in Sound /\ b \in Sound /\ (s \in Tris => ModulesSym \in D)
  BY AroundParts
<1>3. s \in Tris => b.modval = a.modval
  BY <1>1, <1>2 DEF Same
<1>4. Seen1(D, a, s) /\ Pulled(D, a, s)
  BY DEF SeenNow
<1> HIDE DEF D, E
<1>5. Seen1(E, b, s) /\ Pulled(E, b, s)
  BY <1>1, <1>2, <1>3, <1>4, SeenCarries, PulledCarries
<1> QED BY <1>5 DEF SeenNow, D, E

PromptKnown(P, n, s, d, x, r) ==
    /\ r \in Results /\ r.d \in Around(P, n, s) /\ <<d, r.d>> \in Grown(P \union {s}, {})
    /\ PromptNeeds(x) \subseteq Known1(P, s)[r.d]
    /\ r.val = PromptValue(r.d, x)

\* The prompt's part of sym_calc_visibility, for s or a value of the choice s.
LEMMA PromptRight ==
    ASSUME NEW calc, Calm(calc), NEW n \in Nat, Right(calc, n),
           NEW P \in SUBSET Syms, NEW s \in Syms, Free(P, s), NEW d \in Around(P, n, s),
           NEW x \in Syms, PromptNeeds(x) \subseteq Ahead(s) \union {s}
    PROVE  PromptKnown(P, n, s, d, x, PromptResult(calc, d, x))
<1> DEFINE S == Around(P, n, s)
           R == Grown(P \union {s}, {})
           N == Ahead(s) \union {s}
           K == Known1(P, s)
           r == PromptResult(calc, d, x)
<1>1. calc \in Calcs /\ Leads(calc, S, N, R) /\ Knows(calc, S, N, R, K)
  BY AroundLeads
<1>2. S \in SUBSET Sound /\ d \in Dbs /\ <<d, d>> \in R
  BY AroundParts, GrownOrder
<1>3. CASE Prompt[x] = NoPrompt
  BY <1>2, <1>3 DEF PromptResult, PromptNeeds, PromptValue, Results, Tristate, PromptKnown
<1>4. CASE Prompt[x] # NoPrompt
  <2>1. Prompt[x] \in Exprs /\ Needs(Prompt[x]) \subseteq N
    BY <1>4, ExprOf DEF PromptNeeds
  <2>2. r = EvalBy(calc, d, Prompt[x])
    BY <1>4 DEF PromptResult
  <2> HIDE DEF S, R, N, K, r
  <2>3. r \in Results
    BY <1>1, <1>2, <2>1, <2>2, EvalRecursion
  <2>4. r.d \in S /\ <<d, r.d>> \in R
    BY <1>1, <2>1, <2>2, EvalLeads DEF S
  <2>5. Needs(Prompt[x]) \subseteq K[r.d] /\ r.val = Value(TrisOf(r.d), Prompt[x])
    <3>1. ValueKnown(K, Prompt[x], r)
      BY <1>1, <1>2, <2>1, <2>2, EvalIsValue DEF S
    <3> QED BY <3>1 DEF ValueKnown
  <2> QED BY <1>4, <2>3, <2>4, <2>5 DEF PromptNeeds, PromptValue, PromptKnown, S, R, K, r
<1> QED BY <1>3, <1>4

\* What the steps of calculating s write is in the record of s.
Wrote(P, n, s, d, e) ==
    /\ e \in Around(P, n, s) /\ <<d, e>> \in Grown(P \union {s}, {s})
    /\ Valids(e) = Valids(d) /\ Same(Valids(d) \ (P \union {s}), d, e)

LEMMA AroundWrite ==
    ASSUME NEW P \in SUBSET Syms, NEW n, NEW s \in Syms, NEW d \in Around(P, n, s), NEW e, But(s, d, e),
           e \in Sound, \A field \in {"user", "utri", "usel", "valid"} : e.sym[s][field] = d.sym[s][field]
    PROVE  Wrote(P, n, s, d, e)
<1>1. d \in Dbs
  BY AroundParts
<1>2. <<d, e>> \in Grown(P \union {s}, {s}) /\ Valids(e) = Valids(d)
  BY <1>1, ButGrown
<1>3. e \in Around(P, n, s)
  BY <1>2, AroundGrows
<1>4. Same(Valids(d) \ (P \union {s}), d, e)
  BY <1>2, GrownSame
<1> QED BY <1>2, <1>3, <1>4 DEF Wrote

LEMMA VisibilityRight ==
    ASSUME NEW calc, Calm(calc), NEW n \in Nat, Right(calc, n),
           NEW P \in SUBSET Syms, NEW s \in Syms, Free(P, s), NEW d \in Around(P, n, s)
    PROVE  LET e == CalcVisibility(calc, d, s)
           IN  /\ e \in Around(P, n, s) /\ <<d, e>> \in Grown(P \union {s}, {s})
               /\ SeenNow(P, e, s)
<1> DEFINE S == Around(P, n, s)
           Q == P \union {s}
           R == Grown(Q, {s})
           R0 == Grown(Q, {})
           N == Ahead(s) \union {s}
           r == PromptResult(calc, d, s)
           a == PromptVisibility(calc, d, s)
           b == Selects(calc, a, s)
           q == EvalBy(calc, a, RevDep[s])
<1>1. calc \in Calcs /\ Leads(calc, S, N, R0) /\ Knows(calc, S, N, R0, Known1(P, s))
  BY AroundLeads
<1>2. S \in SUBSET Sound /\ S \subseteq Dbs
  BY AroundParts
<1>3. PromptNeeds(s) \subseteq Ahead(s) /\ Needs(RevDep[s]) \subseteq Ahead(s) /\ s \notin Ahead(s) /\ RevDep[s] \in Exprs
  BY AheadFacts, ExprOf
<1>4. \A c \in S : \A X : X \subseteq Ahead(s) /\ X \subseteq Known1(P, s)[c] => X \subseteq Valids(c) \ Q
  BY <1>2, <1>3 DEF Known1
<1>5. r \in Results /\ r.d \in S /\ <<d, r.d>> \in R0 /\ PromptNeeds(s) \subseteq Valids(r.d) \ Q /\ r.val = PromptValue(r.d, s)
  <2>1. PromptNeeds(s) \subseteq Ahead(s) \union {s}
    BY <1>3
  <2>2. r \in Results /\ r.d \in S /\ <<d, r.d>> \in R0 /\ PromptNeeds(s) \subseteq Known1(P, s)[r.d] /\ r.val = PromptValue(r.d, s)
    <3>1. PromptKnown(P, n, s, d, s, r)
      BY <2>1, PromptRight
    <3> QED BY <3>1 DEF PromptKnown
  <2> HIDE DEF r
  <2> QED BY <1>3, <1>4, <2>2
<1> DEFINE v == Promoted(r.val, s \in Tris /\ r.d.modval # no)
<1>6. But(s, r.d, a) /\ a.sym[s] = [r.d.sym[s] EXCEPT !.vis = v]
  BY <1>1, <1>2, PromptShape
<1> HIDE DEF r, a, v
<1>7. /\ a \in Sound /\ a.sym[s].vis = v /\ a.sym[s].rev = r.d.sym[s].rev
      /\ \A field \in {"user", "utri", "usel", "valid"} : a.sym[s][field] = r.d.sym[s][field]
  <2>1. r.d \in Sound /\ r.d.sym[s] \in SymRecs
    BY <1>2, <1>5, DbParts
  <2>2. a.sym[s].vis = v /\ \A field \in {"tri", "sel", "user", "utri", "usel", "rev", "valid"} : a.sym[s][field] = r.d.sym[s][field]
    BY <1>6, <2>1 DEF SymRecs
  <2>3. a \in Sound
    BY <1>6, <2>1, <2>2, SoundParts, ButSound
  <2> QED BY <2>2, <2>3
<1>8. a \in S /\ <<r.d, a>> \in R /\ Valids(a) = Valids(r.d) /\ Same(Valids(r.d) \ Q, r.d, a)
  <2>1. Wrote(P, n, s, r.d, a)
    BY <1>5, <1>6, <1>7, AroundWrite
  <2> QED BY <2>1 DEF Wrote
<1>9. Seen1(Valids(a) \ Q, a, s)
  <2>1. PromptValue(a, s) = PromptValue(r.d, s)
    <3>1. CASE Prompt[s] = NoPrompt
      BY <3>1 DEF PromptValue
    <3>2. CASE Prompt[s] # NoPrompt
      <4>1. \A x \in Needs(Prompt[s]) : a.sym[x].tri = r.d.sym[x].tri
        BY <1>5, <1>8, <3>2 DEF PromptNeeds, Same
      <4> QED BY <1>2, <1>5, <1>7, <3>2, <4>1, ExprOf, ValueAgrees DEF PromptValue
    <3> QED BY <3>1, <3>2
  <2>2. a.modval = r.d.modval
    BY <1>6 DEF But
  <2> QED BY <1>5, <1>7, <1>8, <2>1, <2>2 DEF Seen1, v
<1>10. b \in S /\ <<a, b>> \in R /\ SeenNow(P, b, s)
  <2>1. CASE IsChoiceVal(s)
    <3>1. b = a
      BY <1>1, <1>2, <1>8, <2>1, SelectsShape
    <3>2. <<a, a>> \in R
      BY <1>2, <1>8, GrownOrder
    <3> QED BY <1>8, <1>9, <2>1, <3>1, <3>2 DEF SeenNow, Pulled
  <2>2. CASE ~IsChoiceVal(s)
    <3> DEFINE w == Promoted(q.val, NowTristate(q.d, s))
    <3>1. Needs(RevDep[s]) \subseteq N
      BY <1>3
    <3>2. q.d \in S /\ <<a, q.d>> \in R0
      BY <1>1, <1>3, <1>8, <3>1, EvalLeads
    <3>3. Needs(RevDep[s]) \subseteq Known1(P, s)[q.d] /\ q.val = Value(TrisOf(q.d), RevDep[s])
      <4>1. ValueKnown(Known1(P, s), RevDep[s], q)
        <5> HIDE DEF S, R0, N
        <5> QED BY <1>1, <1>2, <1>3, <1>8, <3>1, EvalIsValue
      <4> QED BY <4>1 DEF ValueKnown
    <3>4. But(s, q.d, b) /\ b.sym[s] = [q.d.sym[s] EXCEPT !.rev = w]
      BY <1>1, <1>2, <1>8, <2>2, SelectsShape
    <3> HIDE DEF b, q, w
    <3>5. Needs(RevDep[s]) \subseteq Valids(q.d) \ Q
      BY <1>3, <1>4, <3>2, <3>3
    <3>6. /\ b \in Sound
          /\ \A field \in {"user", "utri", "usel", "valid"} : b.sym[s][field] = q.d.sym[s][field]
          /\ b.sym[s].vis = q.d.sym[s].vis /\ b.sym[s].rev = w
      <4>1. q.d \in Sound /\ q.d.sym[s] \in SymRecs
        BY <1>2, <3>2, DbParts
      <4>2. b.sym[s].rev = w /\ \A field \in {"tri", "sel", "user", "utri", "usel", "vis", "valid"} : b.sym[s][field] = q.d.sym[s][field]
        BY <3>4, <4>1 DEF SymRecs
      <4>3. b \in Sound
        BY <2>2, <3>4, <4>1, <4>2, SoundParts, ButSound
      <4> QED BY <4>2, <4>3
    <3>7. b \in S /\ <<q.d, b>> \in R /\ Valids(b) = Valids(q.d) /\ Same(Valids(q.d) \ Q, q.d, b)
      <4>1. Wrote(P, n, s, q.d, b)
        BY <3>2, <3>4, <3>6, AroundWrite
      <4> QED BY <4>1 DEF Wrote
    <3>8. <<a, b>> \in R /\ <<a, q.d>> \in R
      BY <3>2, <3>7, GrownOrder
    <3>9. q.d.sym[s].vis = a.sym[s].vis
      <4>1. s \in Valids(a) /\ GrownFrom(Q, {}, a, q.d)
        BY <1>8, <3>2, GrownOrder, AroundParts
      <4> QED BY <2>2, <4>1 DEF GrownFrom
    <3>10. Seen1(Valids(b) \ Q, b, s)
      <4>1. Same(Valids(a) \ Q, a, b) /\ Valids(a) \ Q \subseteq Valids(b) \ Q
        BY <3>8, GrownSame
      <4>2. s \in Tris => ModulesSym \in Valids(a) \ Q
        BY <1>8, AroundParts
      <4>3. s \in Tris => b.modval = a.modval
        BY <4>1, <4>2 DEF Same
      <4>4. b.sym[s].vis = a.sym[s].vis
        BY <3>6, <3>9
      <4> QED BY <1>7, <1>9, <3>6, <4>1, <4>3, <4>4, SeenCarries
    <3>11. Pulled(Valids(b) \ Q, b, s)
      <4>1. \A x \in Needs(RevDep[s]) : b.sym[x].tri = q.d.sym[x].tri
        BY <3>5, <3>7 DEF Same
      <4>2. Value(TrisOf(b), RevDep[s]) = Value(TrisOf(q.d), RevDep[s])
        BY <1>2, <1>3, <3>2, <3>6, <4>1, ValueAgrees
      <4>3. NowTristate(b, s) = NowTristate(q.d, s)
        BY <2>2, <3>4 DEF NowTristate, But
      <4> QED BY <3>3, <3>5, <3>6, <3>7, <4>2, <4>3 DEF Pulled, w
    <3> QED BY <3>7, <3>8, <3>10, <3>11 DEF SeenNow
  <2> QED BY <2>1, <2>2
<1>11. CalcVisibility(calc, d, s) = b
  BY DEF CalcVisibility, a
<1> HIDE DEF b
<1>12. <<d, b>> \in R
  BY <1>5, <1>8, <1>10, GrownOrder
<1> QED BY <1>10, <1>11, <1>12

\* A record that only differs in what is written of it.
LEMMA ChoiceNotValue ==
    ASSUME NEW s \in Syms
    PROVE  /\ IsChoice(s) => ~IsChoiceVal(s)
           /\ IsChoiceVal(s) => /\ ChoiceOf[s] \in Syms /\ ChoiceOf[s] # s
                                /\ Defaults[s] = <<>> /\ DefaultNeeds(s) = {}
<1>1. IsChoice(s) => ~IsChoiceVal(s)
  BY ChoiceAssumption DEF IsChoiceVal
<1>2. ASSUME IsChoiceVal(s)
      PROVE  ChoiceOf[s] \in Syms /\ ChoiceOf[s] # s /\ Defaults[s] = <<>>
  <2>1. ChoiceOf[s] \in Syms /\ s \in Range(Members[ChoiceOf[s]])
    BY <1>2, SeesChoice
  <2>2. IsChoice(ChoiceOf[s])
    BY <2>1, MembersIn
  <2> QED BY <1>1, <1>2, <2>1, <2>2, ChoiceAssumption DEF IsChoiceVal
<1>3. Defaults[s] = <<>> => DefaultNeeds(s) = {}
  BY DEF DefaultNeeds, CondNeeds
<1> QED BY <1>1, <1>2, <1>3

\* Reset and the value: what the selects and the visibility allow.
GivenNow(P, n, s, d, e) ==
    /\ e \in Around(P, n, s) /\ <<d, e>> \in Grown(P \union {s}, {s})
    /\ SeenNow(P, e, s) /\ Given1(e, s) /\ e.sym[s].sel = Nobody

ResetNow(P, n, s, d, e) == Wrote(P, n, s, d, e) /\ SeenNow(P, e, s) /\ e.sym[s].sel = Nobody

LEMMA ResetRight ==
    ASSUME NEW n, NEW P \in SUBSET Syms, NEW s \in Syms, NEW d \in Around(P, n, s), SeenNow(P, d, s)
    PROVE  ResetNow(P, n, s, d, Reset(d, s))
<1> DEFINE e == Reset(d, s)
<1>1. d \in Dbs /\ d \in Sound /\ d.sym[s] \in SymRecs
  BY AroundParts, DbParts
<1>2. ResetAs(d, e, s)
  BY <1>1, ResetShape
<1> HIDE DEF e
<1>3. /\ e.sym[s].tri = no /\ e.sym[s].sel = Nobody
      /\ \A field \in {"user", "utri", "usel", "rev", "vis", "valid"} : e.sym[s][field] = d.sym[s][field]
  BY <1>1, <1>2 DEF ResetAs, SymRecs
<1>4. e \in Sound
  <2>1. no # mod /\ Nobody \in OwnValues(s)
    BY DEF OwnValues, no, mod
  <2> QED BY <1>1, <1>2, <1>3, <2>1, SoundParts, ButSound DEF ResetAs
<1>5. Wrote(P, n, s, d, e)
  BY <1>2, <1>3, <1>4, AroundWrite DEF ResetAs
<1>6. SeenNow(P, e, s)
  BY <1>3, <1>5, SeenStays DEF Wrote
<1> QED BY <1>3, <1>5, <1>6 DEF ResetNow, e

\* The default that sym_get_default_prop finds, and what it says.
DefaultFound(K, s, r, k) ==
    /\ r.at = 0 => NoDefault(K[r.d], r.d, s, k)
    /\ r.at # 0 => /\ FirstHolds(K[r.d], r.d, s, r.at)
                   /\ r.val = Value(TrisOf(r.d), Defaults[s][r.at].cond)

LEMMA DefaultPropSays ==
    ASSUME NEW calc \in Calcs, NEW S \in SUBSET Sound, NEW N, NEW R, NEW K,
           Leads(calc, S, N, R), Knows(calc, S, N, R, K),
           NEW s \in Syms, DefaultNeeds(s) \subseteq N, NEW d \in S
    PROVE  LET r == DefaultProp(calc, d, s)
           IN  /\ r \in Found(Len(Defaults[s])) /\ r.d \in S /\ <<d, r.d>> \in R
               /\ DefaultFound(K, s, r, Len(Defaults[s]))
<1> DEFINE n == Len(Defaults[s])
           do == [i \in 1..n |-> [r \in Found(n) |-> TryDefault(calc, s, r, i)]]
           G == [k \in 0..n |-> {r \in Found(n) : r.d \in S /\ <<d, r.d>> \in R /\ DefaultFound(K, s, r, k)}]
           start == [d |-> d, at |-> 0, val |-> no]
<1>1. n \in Nat /\ \A i \in 1..n : Defaults[s][i].cond \in Exprs /\ Needs(Defaults[s][i].cond) \subseteq N
  BY ExprOf DEF DefaultNeeds, CondNeeds
<1>2. S \subseteq Dbs
  BY DEF Leads
<1> HIDE DEF n
<1>3. start \in G[0]
  <2>1. start \in Found(n) /\ start.d = d /\ start.at = 0
    BY <1>1, <1>2 DEF Found, Tristate
  <2>2. DefaultFound(K, s, start, 0)
    BY <2>1 DEF DefaultFound, NoDefault
  <2>3. 0 \in 0..n /\ <<d, d>> \in R
    BY <1>1 DEF Leads
  <2> HIDE DEF start
  <2> QED BY <2>1, <2>2, <2>3
<1>4. ASSUME NEW k \in 1..n, NEW r \in G[k - 1]
      PROVE  do[k][r] \in G[k]
  <2>1. k - 1 \in 0..n /\ k \in 0..n /\ 0 \in 0..n /\ k \in Nat /\ k # 0
    BY <1>1
  <2>2. r \in Found(n) /\ r.d \in S /\ <<d, r.d>> \in R /\ DefaultFound(K, s, r, k - 1)
    BY <2>1
  <2>3. do[k][r] = TryDefault(calc, s, r, k)
    BY <2>2
  <2> HIDE DEF do
  <2>4. CASE r.at # 0
    <3>1. do[k][r] = r
      BY <2>3, <2>4 DEF TryDefault
    <3>2. DefaultFound(K, s, r, k)
      BY <2>2, <2>4 DEF DefaultFound
    <3> QED BY <2>1, <2>2, <3>1, <3>2
  <2>5. CASE r.at = 0
    <3> DEFINE e == Defaults[s][k].cond
               c == EvalBy(calc, r.d, e)
               q == [d |-> c.d, at |-> IF c.val = no THEN 0 ELSE k, val |-> c.val]
    <3>1. e \in Exprs /\ Needs(e) \subseteq N
      BY <1>1
    <3>2. c \in Results /\ c.d \in S /\ <<r.d, c.d>> \in R
      BY <1>2, <2>2, <3>1, EvalLeads, EvalRecursion
    <3>3. do[k][r] = q
      BY <2>3, <2>5 DEF TryDefault
    <3>4. ValueKnown(K, e, c)
      BY <2>2, <3>1, EvalIsValue
    <3> HIDE DEF c, q
    <3>5. Needs(e) \subseteq K[c.d] /\ c.val = Value(TrisOf(c.d), e)
      BY <3>4 DEF ValueKnown
    <3>6. <<d, c.d>> \in R
      BY <2>2, <3>2 DEF Leads
    <3>7. K[r.d] \subseteq K[c.d] /\ \A y \in K[r.d] : c.d.sym[y].tri = r.d.sym[y].tri
      BY <2>2, <3>2 DEF Knows
    <3>8. NoDefault(K[r.d], r.d, s, k - 1)
      BY <2>2, <2>5 DEF DefaultFound
    <3>9. NoDefault(K[c.d], c.d, s, k - 1)
      <4>1. k - 1 \in 0..Len(Defaults[s])
        BY <2>1 DEF n
      <4>2. r.d \in Sound /\ c.d \in Sound
        BY <2>2, <3>2
      <4> DEFINE D == K[r.d]
                 E == K[c.d]
                 a == r.d
                 b == c.d
      <4>3. D \subseteq E /\ (\A y \in D : b.sym[y].tri = a.sym[y].tri) /\ a \in Sound /\ b \in Sound
        BY <3>7, <4>2
      <4> HIDE DEF D, E, a, b
      <4>4. NoDefault(D, a, s, k - 1) => NoDefault(E, b, s, k - 1)
        BY <4>1, <4>3, NoDefaultCarries
      <4> QED BY <3>8, <4>4 DEF D, E, a, b
    <3>10. q \in Found(n) /\ q.d = c.d /\ q.val = c.val /\ q.at = IF c.val = no THEN 0 ELSE k
      BY <1>2, <2>1, <3>2 DEF Found, Results, q
    <3>11. DefaultFound(K, s, q, k)
      <4>1. CASE c.val = no
        <5>1. \A j \in 1..k : j = k \/ j \in 1..(k - 1)
          BY <2>1
        <5>2. NoDefault(K[c.d], c.d, s, k)
          BY <3>5, <3>9, <4>1, <5>1 DEF NoDefault
        <5> QED BY <3>10, <4>1, <5>2 DEF DefaultFound
      <4>2. CASE c.val # no
        <5>1. FirstHolds(K[c.d], c.d, s, k)
          BY <3>5, <3>9, <4>2 DEF FirstHolds
        <5> QED BY <2>1, <3>5, <3>10, <4>2, <5>1 DEF DefaultFound
      <4> QED BY <4>1, <4>2
    <3> HIDE DEF e
    <3> QED BY <2>1, <3>2, <3>3, <3>6, <3>10, <3>11
  <2> QED BY <2>4, <2>5
<1>5. DefaultProp(calc, d, s) = Repeated(n, do, start)
  BY DEF DefaultProp, n
<1> HIDE DEF do, start, G
<1>6. DefaultProp(calc, d, s) \in G[n]
  BY <1>1, <1>3, <1>4, <1>5, LoopSteps
<1>7. n \in 0..n
  BY <1>1
<1> QED BY <1>6, <1>7 DEF G, n

LEMMA DefaultValueSays ==
    ASSUME NEW calc \in Calcs, NEW S \in SUBSET Sound, NEW N, NEW R, NEW K,
           Leads(calc, S, N, R), Knows(calc, S, N, R, K),
           NEW s \in Syms, DefaultNeeds(s) \subseteq N,
           NEW r \in Found(Len(Defaults[s])), r.d \in S, DefaultFound(K, s, r, Len(Defaults[s]))
    PROVE  LET q == DefaultValue(calc, s, r)
           IN  DefaultSays(K[q.d], q.d, s, q.val)
<1> DEFINE n == Len(Defaults[s])
<1>1. CASE r.at = 0
  <2>1. DefaultValue(calc, s, r) = [d |-> r.d, val |-> no]
    BY <1>1 DEF DefaultValue
  <2> QED BY <1>1, <2>1 DEF DefaultFound, DefaultSays
<1>2. CASE r.at # 0
  <2> DEFINE i == r.at
             e == Defaults[s][i].value
             q == EvalBy(calc, r.d, e)
             w == AndT(q.val, r.val)
  <2>1. i \in 1..n /\ S \subseteq Dbs
    BY <1>2, ExprOf DEF Found, Leads
  <2>2. e \in Exprs /\ Needs(e) \subseteq N
    BY <2>1, ExprOf DEF DefaultNeeds
  <2>3. q \in Results /\ q.d \in S /\ <<r.d, q.d>> \in R /\ ValueKnown(K, e, q)
    BY <2>1, <2>2, EvalLeads, EvalRecursion, EvalIsValue
  <2>4. DefaultValue(calc, s, r) = [q EXCEPT !.val = AndT(@, r.val)]
    BY <1>2 DEF DefaultValue
  <2>5. FirstHolds(K[r.d], r.d, s, i) /\ r.val = Value(TrisOf(r.d), Defaults[s][i].cond)
    BY <1>2 DEF DefaultFound
  <2> HIDE DEF q, i
  <2>6. q = [d |-> q.d, val |-> q.val]
    BY <2>3 DEF Results
  <2>7. DefaultValue(calc, s, r) = [d |-> q.d, val |-> AndT(q.val, r.val)]
    BY <2>4, <2>6
  <2>8. Needs(e) \subseteq K[q.d] /\ q.val = Value(TrisOf(q.d), e)
    BY <2>3 DEF ValueKnown
  <2>9. FirstHolds(K[q.d], q.d, s, i) /\ Value(TrisOf(q.d), Defaults[s][i].cond) = Value(TrisOf(r.d), Defaults[s][i].cond)
    <3> DEFINE D == K[r.d]
               E == K[q.d]
               a == r.d
               b == q.d
    <3>1. D \subseteq E /\ (\A y \in D : b.sym[y].tri = a.sym[y].tri) /\ a \in Sound /\ b \in Sound
      BY <2>3 DEF Knows
    <3> HIDE DEF D, E, a, b
    <3>2. FirstHolds(D, a, s, i) => FirstHolds(E, b, s, i)
      BY <2>1, <3>1, FirstHoldsCarries
    <3>3. FirstHolds(D, a, s, i) => Value(TrisOf(b), Defaults[s][i].cond) = Value(TrisOf(a), Defaults[s][i].cond)
      BY <2>1, <3>1, ExprOf, ValueAgrees DEF FirstHolds
    <3> QED BY <2>5, <3>2, <3>3 DEF D, E, a, b
  <2>10. w = AndT(Value(TrisOf(q.d), e), Value(TrisOf(q.d), Defaults[s][i].cond))
    BY <2>5, <2>8, <2>9
  <2> HIDE DEF w
  <2>11. DefaultSays(K[q.d], q.d, s, w)
    BY <2>1, <2>8, <2>9, <2>10 DEF DefaultSays
  <2> QED BY <2>7, <2>11 DEF w
<1> QED BY <1>1, <1>2

\* A value of its own, to the letter.
OwnTo(S, R, K, d, o, s) ==
    \E r \in Results, w \in BOOLEAN :
        /\ o = Own(r, s, w)
        /\ r.d \in S /\ <<d, r.d>> \in R
        /\ OwnSays(K[r.d], r.d, s, r.val)

LEMMA OwnValueSays ==
    ASSUME NEW calc \in Calcs, NEW S \in SUBSET Sound, NEW N, NEW R, NEW K,
           Leads(calc, S, N, R), Knows(calc, S, N, R, K),
           NEW s \in Syms, ~IsChoice(s) => DefaultNeeds(s) \subseteq N, NEW d \in S,
           \A b \in S : <<d, b>> \in R => AsSet(d, b) /\ b.sym[s].vis = d.sym[s].vis
    PROVE  OwnTo(S, R, K, d, OwnValue(calc, d, s), s)
<1>1. d \in Dbs /\ <<d, d>> \in R
  BY DEF Leads
<1>2. {d.sym[s].vis, d.sym[s].utri} \subseteq Tristate
  BY <1>1, DbParts
<1>3. CASE ByUser(d, s)
  <2> DEFINE r == [d |-> d, val |-> AndT(d.sym[s].utri, d.sym[s].vis)]
  <2>1. r \in Results
    BY <1>1, <1>2, TristateClosed DEF Results
  <2>2. OwnValue(calc, d, s) = Own(r, s, TRUE)
    BY <1>3 DEF OwnValue
  <2>3. OwnSays(K[r.d], r.d, s, r.val)
    BY <1>3 DEF OwnSays
  <2> QED BY <1>1, <2>1, <2>2, <2>3 DEF OwnTo
<1>4. CASE ~ByUser(d, s) /\ IsChoice(s)
  <2> DEFINE r == [d |-> d, val |-> no]
  <2>1. r \in Results
    BY <1>1 DEF Results, Tristate
  <2>2. OwnValue(calc, d, s) = Own(r, s, Reachable(d, s))
    BY <1>4 DEF OwnValue
  <2>3. Reachable(d, s) \in BOOLEAN
    BY DEF Reachable
  <2>4. OwnSays(K[r.d], r.d, s, r.val)
    BY <1>4 DEF OwnSays
  <2> QED BY <1>1, <2>1, <2>2, <2>3, <2>4 DEF OwnTo
<1>5. CASE ~ByUser(d, s) /\ ~IsChoice(s)
  <2> DEFINE p == DefaultProp(calc, d, s)
             r == DefaultValue(calc, s, p)
             w == Reachable(d, s) \/ p.at # 0
  <2>1. p \in Found(Len(Defaults[s])) /\ p.d \in S /\ <<d, p.d>> \in R /\ DefaultFound(K, s, p, Len(Defaults[s]))
    BY <1>5, DefaultPropSays
  <2>2. OwnValue(calc, d, s) = Own(r, s, w)
    BY <1>5 DEF OwnValue, DefaultOwn, OwnDefault
  <2>3. w \in BOOLEAN
    BY DEF Reachable
  <2> HIDE DEF p, w
  <2>4. r \in Results /\ r.d \in S /\ <<p.d, r.d>> \in R
    BY <1>5, <2>1, DefaultValueLeads
  <2>5. DefaultSays(K[r.d], r.d, s, r.val)
    BY <1>5, <2>1, DefaultValueSays
  <2> HIDE DEF r
  <2>6. <<d, r.d>> \in R
    BY <2>1, <2>4 DEF Leads
  <2>7. ~ByUser(r.d, s)
    BY <1>5, <2>4, <2>6 DEF ByUser, AsSet
  <2>8. OwnSays(K[r.d], r.d, s, r.val)
    BY <1>5, <2>5, <2>7 DEF OwnSays
  <2> QED BY <2>2, <2>3, <2>4, <2>6, <2>8 DEF OwnTo
<1> QED BY <1>3, <1>4, <1>5

\* Where the value comes from leaves s as it is.
ValuedFrom(P, n, s, d, e, b, w, u) ==
    /\ b \in Around(P, n, s) /\ <<d, b>> \in Grown(P \union {s}, {}) /\ w \in BOOLEAN /\ u \in Tristate
    /\ b.sym[s].vis = d.sym[s].vis /\ (IsChoiceVal(s) => b = d)
    /\ ValuedAs(d, e, s, b, w, u)

LEMMA ValuedSource ==
    ASSUME NEW calc, Calm(calc), NEW n \in Nat, Right(calc, n),
           NEW P \in SUBSET Syms, NEW s \in Syms, Free(P, s), NEW d \in Around(P, n, s)
    PROVE  \E b, w, u : ValuedFrom(P, n, s, d, Valued(calc, d, s), b, w, u)
<1> DEFINE S == Around(P, n, s)
           R0 == Grown(P \union {s}, {})
           N == Ahead(s) \union {s}
           e == Valued(calc, d, s)
           I == {<<x, x>> : x \in Dbs}
<1>1. calc \in Calcs /\ Leads(calc, S, N, R0)
  BY AroundLeads
<1>2. S \subseteq Dbs
  BY AroundParts
<1>3. CASE IsChoiceVal(s)
  <2>1. Leads(calc, S, {}, I)
    BY <1>2 DEF Leads
  <2>2. DefaultNeeds(s) \subseteq {}
    BY <1>3, ChoiceNotValue
  <2> HIDE DEF S, I, e
  <2>3. ValuedTo(S, I, d, Valued(calc, d, s), s)
    BY <1>1, <2>1, <2>2, ValuedShape, Zenon DEF S
  <2>4. PICK b \in S, w \in BOOLEAN, u \in Tristate : <<d, b>> \in I /\ ValuedAs(d, e, s, b, w, u)
    BY <2>3 DEF ValuedTo, e
  <2>5. b = d /\ <<d, d>> \in R0
    BY <1>2, <2>4, GrownOrder DEF I
  <2> QED BY <2>4, <2>5 DEF ValuedFrom, S, e
<1>4. CASE ~IsChoiceVal(s)
  <2>1. ~IsChoice(s) => DefaultNeeds(s) \subseteq N
    BY AheadFacts
  <2> HIDE DEF S, R0, N, e
  <2>2. ValuedTo(S, R0, d, Valued(calc, d, s), s)
    BY <1>1, <2>1, ValuedShape, Zenon DEF S
  <2>3. PICK b \in S, w \in BOOLEAN, u \in Tristate : <<d, b>> \in R0 /\ ValuedAs(d, e, s, b, w, u)
    BY <2>2 DEF ValuedTo, e
  <2>4. b.sym[s].vis = d.sym[s].vis
    <3>1. GrownFrom(P \union {s}, {}, d, b) /\ s \in Valids(d)
      BY <2>3, GrownOrder, AroundParts DEF R0
    <3> QED BY <1>4, <3>1 DEF GrownFrom
  <2> QED BY <1>4, <2>3, <2>4 DEF ValuedFrom, S, R0, e
<1> QED BY <1>3, <1>4

LEMMA ValuedRight ==
    ASSUME NEW calc, Calm(calc), NEW n \in Nat, Right(calc, n),
           NEW P \in SUBSET Syms, NEW s \in Syms, Free(P, s), NEW d \in Around(P, n, s),
           SeenNow(P, d, s), d.sym[s].sel = Nobody
    PROVE  GivenNow(P, n, s, d, Valued(calc, d, s))
<1> DEFINE e == Valued(calc, d, s)
<1>1. PICK b, w, u : ValuedFrom(P, n, s, d, e, b, w, u)
  BY ValuedSource
<1>2. /\ b \in Around(P, n, s) /\ <<d, b>> \in Grown(P \union {s}, {}) /\ w \in BOOLEAN /\ u \in Tristate
      /\ b.sym[s].vis = d.sym[s].vis /\ (IsChoiceVal(s) => b = d)
      /\ ValueFrom(d, b, s, u) /\ But(s, b, e)
      /\ e.sym[s] = [b.sym[s] EXCEPT !.write = w, !.tri = Promoted(u, NowTristate(b, s))]
  BY <1>1 DEF ValuedFrom, ValuedAs
<1>3. b \in Sound /\ b \in Dbs /\ b.sym[s] \in SymRecs /\ d \in Dbs /\ s \in Valids(d)
  BY <1>2, AroundParts, DbParts
<1> DEFINE t == Promoted(u, NowTristate(b, s))
<1>4. t \in Tristate /\ (s \in Bools => t # mod)
  BY <1>2, <1>3, PromotedType, NowTristateType
<1> HIDE DEF e, t
<1>5. e.sym[s].tri = t /\ \A field \in {"sel", "user", "utri", "usel", "rev", "vis", "valid"} : e.sym[s][field] = b.sym[s][field]
  <2>1. e.sym[s] = [b.sym[s] EXCEPT !.write = w, !.tri = t]
    BY <1>2 DEF t
  <2> QED BY <1>3, <2>1 DEF SymRecs
<1>6. e \in Sound
  BY <1>2, <1>3, <1>4, <1>5, SoundParts, ButSound
<1>7. Wrote(P, n, s, b, e)
  BY <1>2, <1>5, <1>6, AroundWrite
<1>8. GrownFrom(P \union {s}, {}, d, b)
  BY <1>2, GrownOrder
<1>9. b.sym[s].sel = Nobody /\ b.sym[s].rev = d.sym[s].rev
  BY <1>3, <1>8 DEF GrownFrom
<1>10. <<d, b>> \in Grown(P \union {s}, {s}) /\ <<b, e>> \in Grown(P \union {s}, {s}) /\ <<d, e>> \in Grown(P \union {s}, {s})
  BY <1>2, <1>7, GrownOrder DEF Wrote
<1>11. SeenNow(P, e, s)
  BY <1>2, <1>5, <1>7, <1>9, <1>10, SeenStays DEF Wrote
<1>12. NowTristate(e, s) = NowTristate(b, s)
  BY <1>2, <1>5 DEF NowTristate, But
<1>13. Given1(e, s)
  <2>1. CASE IsChoiceVal(s) /\ e.sym[s].vis = yes
    <3>1. u = MemberValue(d, s)
      BY <1>2, <1>5, <2>1 DEF ValueFrom
    <3>2. MemberValue(e, s) = MemberValue(d, s)
      BY <1>2, <2>1, ChoiceNotValue DEF MemberValue, But
    <3>3. t = u
      BY <3>1 DEF t, MemberValue, Promoted, no, mod, yes
    <3> QED BY <1>5, <2>1, <3>1, <3>2, <3>3 DEF Given1
  <2>2. CASE ~(IsChoiceVal(s) /\ e.sym[s].vis = yes)
    <3>1. PICK v \in Tristate : u = OrT(v, b.sym[s].rev) /\ (Defaults[s] = <<>> => v <= d.sym[s].vis)
      BY <1>2, <1>5, <2>2 DEF ValueFrom
    <3>2. e.sym[s].tri = Promoted(OrT(v, e.sym[s].rev), NowTristate(e, s))
      BY <1>5, <1>12, <3>1 DEF t
    <3>3. Defaults[s] = <<>> => v <= e.sym[s].vis
      BY <1>2, <1>5, <3>1
    <3> QED BY <2>2, <3>2, <3>3 DEF Given1
  <2> QED BY <2>1, <2>2
<1> QED BY <1>5, <1>7, <1>9, <1>10, <1>11, <1>13 DEF GivenNow, Wrote, e

\* The value to the letter, but for what a choice picks.
OwnFrom(P, n, s, d, o, r, w) ==
    /\ r \in Results /\ w \in BOOLEAN /\ o = Own(r, s, w) /\ r.d \in Around(P, n, s)
    /\ r.d.sym[s].vis = d.sym[s].vis
    /\ OwnSays(Known1(P, s)[r.d], r.d, s, r.val)

LEMMA OwnExact ==
    ASSUME NEW calc, Calm(calc), NEW n \in Nat, Right(calc, n),
           NEW P \in SUBSET Syms, NEW s \in Syms, Free(P, s), NEW d \in Around(P, n, s)
    PROVE  \E r, w : OwnFrom(P, n, s, d, OwnValue(calc, d, s), r, w)
<1> DEFINE S == Around(P, n, s)
           R0 == Grown(P \union {s}, {})
           N == Ahead(s) \union {s}
           K == Known1(P, s)
           I == {<<x, x>> : x \in Dbs}
<1>1. calc \in Calcs /\ Leads(calc, S, N, R0) /\ Knows(calc, S, N, R0, K)
  BY AroundLeads
<1>2. S \in SUBSET Sound /\ S \subseteq Dbs
  BY AroundParts
<1>3. CASE IsChoiceVal(s)
  <2>1. Leads(calc, S, {}, I)
    BY <1>2 DEF Leads
  <2>2. Knows(calc, S, {}, I, K)
    BY DEF Knows
  <2>3. DefaultNeeds(s) \subseteq {}
    BY <1>3, ChoiceNotValue
  <2>4. \A b \in S : <<d, b>> \in I => AsSet(d, b) /\ b.sym[s].vis = d.sym[s].vis
    BY DEF AsSet
  <2> HIDE DEF S, I, K
  <2>5. OwnTo(S, I, K, d, OwnValue(calc, d, s), s)
    BY <1>1, <1>2, <2>1, <2>2, <2>3, <2>4, OwnValueSays DEF S
  <2>6. PICK r \in Results, w \in BOOLEAN :
               /\ OwnValue(calc, d, s) = Own(r, s, w)
               /\ r.d \in S /\ <<d, r.d>> \in I
               /\ OwnSays(K[r.d], r.d, s, r.val)
    BY <2>5 DEF OwnTo
  <2>7. r.d = d
    BY <2>6 DEF I
  <2> QED BY <2>6, <2>7 DEF OwnFrom, S, K
<1>4. CASE ~IsChoiceVal(s)
  <2>1. ~IsChoice(s) => DefaultNeeds(s) \subseteq N
    BY AheadFacts
  <2>2. ASSUME NEW b \in S, <<d, b>> \in R0
        PROVE  AsSet(d, b) /\ b.sym[s].vis = d.sym[s].vis
    <3>1. GrownFrom(P \union {s}, {}, d, b) /\ s \in Valids(d)
      BY <2>2, GrownOrder, AroundParts
    <3> QED BY <1>4, <3>1 DEF GrownFrom
  <2> HIDE DEF S, R0, N, K
  <2>3. OwnTo(S, R0, K, d, OwnValue(calc, d, s), s)
    BY <1>1, <1>2, <2>1, <2>2, OwnValueSays DEF S
  <2>4. PICK r \in Results, w \in BOOLEAN :
               /\ OwnValue(calc, d, s) = Own(r, s, w)
               /\ r.d \in S /\ <<d, r.d>> \in R0
               /\ OwnSays(K[r.d], r.d, s, r.val)
    BY <2>3 DEF OwnTo
  <2> QED BY <2>2, <2>4 DEF OwnFrom, S, K
<1> QED BY <1>3, <1>4

ValuesNow(P, e, s) ==
    ~(IsChoiceVal(s) /\ e.sym[s].vis = yes) =>
        \E v \in Tristate : /\ OwnSays(Valids(e) \ (P \union {s}), e, s, v)
                           /\ e.sym[s].tri = Promoted(OrT(v, e.sym[s].rev), NowTristate(e, s))

LEMMA ValuedExact ==
    ASSUME NEW calc, Calm(calc), NEW n \in Nat, Right(calc, n),
           NEW P \in SUBSET Syms, NEW s \in Syms, Free(P, s), NEW d \in Around(P, n, s)
    PROVE  ValuesNow(P, Valued(calc, d, s), s)
<1> DEFINE e == Valued(calc, d, s)
           Q == P \union {s}
<1>1. d \in Dbs /\ d \in Sound
  BY AroundParts
<1>2. CASE IsChoiceVal(s) /\ d.sym[s].vis = yes
  <2> DEFINE t == Promoted(MemberValue(d, s), NowTristate(d, s))
  <2>1. t \in Tristate
    <3>1. MemberValue(d, s) \in Tristate
      BY DEF MemberValue, Tristate
    <3> QED BY <1>1, <3>1, PromotedType, NowTristateType
  <2>2. e = [d EXCEPT !.sym[s].tri = t]
    BY <1>2 DEF Valued
  <2> HIDE DEF e, t
  <2>3. e.sym[s] = [d.sym[s] EXCEPT !.tri = t]
    BY <1>1, <2>1, <2>2, SetTriField
  <2>4. e.sym[s].vis = yes
    <3>1. d.sym[s] \in SymRecs
      BY <1>1, DbParts
    <3> QED BY <1>2, <2>3, <3>1 DEF SymRecs
  <2> QED BY <1>2, <2>4 DEF ValuesNow, e
<1>3. CASE ~(IsChoiceVal(s) /\ d.sym[s].vis = yes)
  <2>1. PICK r, w : OwnFrom(P, n, s, d, OwnValue(calc, d, s), r, w)
    BY OwnExact
  <2> DEFINE o == Own(r, s, w)
             u == OrT(r.val, r.d.sym[s].rev)
             t == Promoted(u, NowTristate(o.d, s))
             K == Known1(P, s)[r.d]
  <2>2. /\ r \in Results /\ w \in BOOLEAN /\ r.d \in Around(P, n, s) /\ r.d.sym[s].vis = d.sym[s].vis
        /\ OwnValue(calc, d, s) = o /\ OwnSays(K, r.d, s, r.val)
    BY <2>1 DEF OwnFrom
  <2>3. /\ o \in Results /\ But(s, r.d, o.d) /\ o.val = u
        /\ \E b \in BOOLEAN : o.d.sym[s] = [r.d.sym[s] EXCEPT !.write = b]
    BY <2>2, OwnShape
  <2>4. PICK b \in BOOLEAN : o.d.sym[s] = [r.d.sym[s] EXCEPT !.write = b]
    BY <2>3
  <2>5. e = [o.d EXCEPT !.sym[s].tri = Promoted(o.val, NowTristate(o.d, s))]
    BY <1>3, <2>2 DEF Valued
  <2>6. r.d \in Dbs /\ r.d \in Sound /\ r.val \in Tristate /\ o.d \in Dbs /\ u \in Tristate /\ r.d.sym[s] \in SymRecs
    BY <2>2, <2>3, AroundParts, DbParts DEF Results
  <2> HIDE DEF e, o
  <2>7. t \in Tristate /\ (s \in Bools => t # mod)
    BY <2>6, PromotedType, NowTristateType
  <2>8. NowTristate(o.d, s) = NowTristate(r.d, s)
    BY <2>3, <2>4, <2>6 DEF NowTristate, But, SymRecs
  <2>9. But(s, o.d, e) /\ e.sym[s] = [o.d.sym[s] EXCEPT !.tri = t]
    <3>1. e = [o.d EXCEPT !.sym[s].tri = t]
      BY <2>3, <2>5
    <3> HIDE DEF t
    <3> QED BY <2>6, <2>7, <3>1, SetTriField
  <2> HIDE DEF t
  <2>10. e.sym[s].tri = t /\ \A field \in {"sel", "user", "utri", "usel", "rev", "vis", "valid"} : e.sym[s][field] = r.d.sym[s][field]
    BY <2>4, <2>6, <2>9 DEF SymRecs
  <2>11. But(s, r.d, e)
    BY <2>3, <2>9 DEF But
  <2>12. e \in Sound
    BY <2>6, <2>7, <2>10, <2>11, SoundParts, ButSound
  <2>13. Wrote(P, n, s, r.d, e)
    BY <2>2, <2>10, <2>11, <2>12, AroundWrite
  <2>14. NowTristate(e, s) = NowTristate(o.d, s)
    BY <2>8, <2>10, <2>11 DEF NowTristate, But
  <2>15. OwnSays(Valids(e) \ Q, e, s, r.val)
    <3> DEFINE A == Ahead(s)
               D == K \intersect A
               E == Valids(e) \ Q
    <3>1. (~IsChoice(s) => DefaultNeeds(s) \subseteq A) /\ s \notin A
      BY AheadFacts
    <3>2. K = (Valids(r.d) \ Q) \union {s}
      BY <2>6 DEF Known1
    <3>3. AsSet(r.d, e) /\ Valids(e) = Valids(r.d) /\ \A y \in Valids(r.d) \ Q : e.sym[y].tri = r.d.sym[y].tri
      BY <2>13 DEF Wrote, Same
    <3>4. D \subseteq E /\ \A y \in D : e.sym[y].tri = r.d.sym[y].tri
      BY <3>1, <3>2, <3>3
    <3> HIDE DEF A, K
    <3>5. OwnSays(D, r.d, s, r.val)
      BY <2>2, <3>1, OwnSaysOf
    <3>6. e.sym[s].vis = r.d.sym[s].vis
      BY <2>10
    <3> HIDE DEF D, E
    <3>7. OwnSays(E, e, s, r.val)
      BY <2>6, <2>12, <3>3, <3>4, <3>5, <3>6, OwnSaysCarries, AsSetAt
    <3> QED BY <3>7 DEF E
  <2>16. e.sym[s].tri = Promoted(OrT(r.val, e.sym[s].rev), NowTristate(e, s))
    <3>1. u = OrT(r.val, e.sym[s].rev)
      BY <2>10
    <3> HIDE DEF u
    <3> QED BY <2>10, <2>14, <3>1 DEF t
  <2> QED BY <2>6, <2>15, <2>16 DEF ValuesNow, e
<1> QED BY <1>2, <1>3

\* Looking at a value of the choice s, while s is being calculated.
CanBePicked(P, s) == {p \in Dbs \X Syms : CanBeSeen(Known1(P, s)[p[1]], p[1], p[2])}
LookedInto(P, s, e, x) == /\ PromptNeeds(x) \subseteq Known1(P, s)[e]
                          /\ e.sym[x].vis = no <=> PromptValue(e, x) = no

LEMMA LooksRight ==
    ASSUME NEW calc, Calm(calc), NEW n \in Nat, Right(calc, n),
           NEW P \in SUBSET Syms, NEW s \in Syms, Free(P, s)
    PROVE  /\ LooksAt(calc, Around(P, n, s), Grown(P \union {s}, {}), Range(Members[s]), CanBePicked(P, s))
           /\ \A a \in Around(P, n, s), x \in Range(Members[s]) : LookedInto(P, s, CalcVisibility(calc, a, x), x)
<1> DEFINE S == Around(P, n, s)
           Q == P \union {s}
           R0 == Grown(Q, {})
           K == Known1(P, s)
<1>1. SUFFICES ASSUME NEW a \in S, NEW x \in Range(Members[s])
               PROVE  /\ CalcVisibility(calc, a, x) \in S
                      /\ <<a, CalcVisibility(calc, a, x)>> \in R0
                      /\ CalcVisibility(calc, a, x).sym[x].vis # no =>
                           <<CalcVisibility(calc, a, x), x>> \in CanBePicked(P, s)
                      /\ LookedInto(P, s, CalcVisibility(calc, a, x), x)
  BY DEF LooksAt
<1>2. x \in Syms /\ IsChoiceVal(x) /\ ChoiceOf[x] = s /\ PromptNeeds(x) \subseteq Ahead(s) \union {s}
  BY MembersIn, AheadFacts
<1> DEFINE r == PromptResult(calc, a, x)
           e == PromptVisibility(calc, a, x)
           v == Promoted(r.val, x \in Tris /\ r.d.modval # no)
<1>3. PromptKnown(P, n, s, a, x, r)
  BY <1>2, PromptRight
<1>4. calc \in Calcs /\ a \in Dbs
  BY AroundParts DEF Calm
<1>5. r \in Results /\ But(x, r.d, e) /\ e.sym[x] = [r.d.sym[x] EXCEPT !.vis = v]
  BY <1>2, <1>4, PromptShape
<1>6. CalcVisibility(calc, a, x) = e
  <2>1. e \in Dbs
    BY <1>5 DEF But
  <2>2. Selects(calc, e, x) = e
    BY <1>2, <1>4, <2>1, SelectsShape
  <2> QED BY <2>2 DEF CalcVisibility
<1>7. v = no <=> r.val = no
  <2>1. r.val \in Tristate
    BY <1>5 DEF Results
  <2> QED BY <2>1, PromotedType
<1> HIDE DEF r, e, v
<1>8. r.d \in S /\ <<a, r.d>> \in R0 /\ PromptNeeds(x) \subseteq K[r.d] /\ r.val = PromptValue(r.d, x)
  BY <1>3 DEF PromptKnown
<1>9. r.d \in Sound /\ r.d \in Dbs /\ r.d.sym[x] \in SymRecs /\ s \in Valids(r.d)
  BY <1>2, <1>8, AroundParts, DbParts
<1>10. /\ e.sym[x].vis = v
       /\ \A field \in {"tri", "sel", "user", "utri", "usel", "rev", "valid"} : e.sym[x][field] = r.d.sym[x][field]
  <2> DEFINE q == r.d.sym[x]
             w == [q EXCEPT !.vis = v]
  <2>1. q \in SymRecs /\ e.sym[x] = w
    BY <1>5, <1>9
  <2> HIDE DEF q
  <2>2. /\ w.vis = v
        /\ \A field \in {"tri", "sel", "user", "utri", "usel", "rev", "valid"} : w[field] = q[field]
    BY <2>1 DEF SymRecs
  <2> QED BY <2>1, <2>2 DEF q
<1>11. e \in Sound
  BY <1>2, <1>5, <1>9, <1>10, SoundParts, ButSound
<1>12. Valids(e) = Valids(r.d) /\ AsSet(r.d, e)
  <2>1. \A field \in {"user", "utri", "usel", "valid"} : e.sym[x][field] = r.d.sym[x][field]
    BY <1>10
  <2>2. x \in Syms /\ r.d \in Dbs /\ But(x, r.d, e)
    BY <1>2, <1>5, <1>9
  <2>3. <<r.d, e>> \in Grown(Q, {x}) /\ Valids(e) = Valids(r.d) /\ AsSet(r.d, e)
    BY <2>1, <2>2, ButGrown
  <2> QED BY <2>3
<1>13. x \in Valids(r.d) \ Q => e.sym[x].vis = r.d.sym[x].vis
  <2>1. SUFFICES ASSUME x \in Valids(r.d) \ Q
                 PROVE  e.sym[x].vis = r.d.sym[x].vis
    OBVIOUS
  <2>2. Seen1(Valids(r.d) \ Q, r.d, x)
    BY <1>8, <2>1, AroundParts DEF Good, Done
  <2>3. s \notin PromptNeeds(x)
    BY <2>2 DEF Seen1
  <2>4. PromptValue(r.d, x) = no
    BY <1>2, <1>9, <2>3, SeesChoice
  <2>5. r.d.sym[x].vis = no
    BY <2>2, <2>4 DEF Seen1, Promoted, no, mod
  <2> QED BY <1>7, <1>8, <1>10, <2>4, <2>5
<1>14. GrownFrom(Q, {}, r.d, e)
  <2>1. Valids(r.d) \subseteq Valids(e) /\ AsSet(r.d, e)
    BY <1>12
  <2>2. ASSUME NEW y \in Valids(r.d)
        PROVE  /\ e.sym[y].tri = r.d.sym[y].tri /\ e.sym[y].sel = r.d.sym[y].sel /\ e.sym[y].rev = r.d.sym[y].rev
               /\ (y \in Q /\ IsChoiceVal(y)) \/ e.sym[y].vis = r.d.sym[y].vis
    <3>1. CASE y = x
      BY <1>2, <1>10, <1>13, <2>2, <3>1
    <3>2. CASE y # x
      BY <1>5, <2>2, <3>2 DEF But, Valids
    <3> QED BY <3>1, <3>2
  <2> QED BY <1>5, <2>1, <2>2 DEF GrownFrom, But
<1>15. <<r.d, e>> \in R0 /\ <<a, e>> \in R0 /\ <<r.d, e>> \in Grown(Q, {s})
  BY <1>5, <1>8, <1>9, <1>14, GrownOrder DEF But
<1>16. e \in S
  BY <1>8, <1>11, <1>12, <1>15, AroundGrows
<1>17. e \in Dbs /\ K[e] = K[r.d] /\ \A y \in K[r.d] : e.sym[y].tri = r.d.sym[y].tri
  <2>1. K[r.d] = (Valids(r.d) \ Q) \union {s} /\ e \in Dbs /\ K[e] = K[r.d]
    BY <1>5, <1>9, <1>12 DEF Known1, But
  <2> QED BY <1>9, <1>14, <2>1 DEF GrownFrom
<1>18. e.sym[x].vis # no => <<e, x>> \in CanBePicked(P, s)
  <2>1. SUFFICES ASSUME e.sym[x].vis # no
                 PROVE  <<e, x>> \in CanBePicked(P, s)
    OBVIOUS
  <2>2. PromptValue(r.d, x) # no
    BY <1>7, <1>8, <1>10, <2>1
  <2>3. CanBeSeen(K[r.d], r.d, x)
    BY <1>8, <2>2 DEF CanBeSeen, PromptValue, PromptNeeds
  <2>4. CanBeSeen(K[e], e, x)
    BY <1>2, <1>9, <1>11, <1>17, <2>3, CanBeSeenCarries
  <2> QED BY <1>2, <1>17, <2>4 DEF CanBePicked
<1>19. LookedInto(P, s, e, x)
  <2>1. PromptValue(e, x) = PromptValue(r.d, x)
    <3>1. CASE Prompt[x] = NoPrompt
      BY <3>1 DEF PromptValue
    <3>2. CASE Prompt[x] # NoPrompt
      BY <1>2, <1>8, <1>9, <1>11, <1>17, <3>2, ExprOf, ValueAgrees DEF PromptValue, PromptNeeds
    <3> QED BY <3>1, <3>2
  <2> QED BY <1>7, <1>8, <1>10, <1>17, <2>1 DEF LookedInto
<1> QED BY <1>6, <1>15, <1>16, <1>18, <1>19

\* What a choice that is y picks, to the letter.
LEMMA PickExact ==
    ASSUME NEW calc, Calm(calc), NEW n \in Nat, Right(calc, n),
           NEW P \in SUBSET Syms, NEW s \in Syms, Free(P, s), NEW d \in Around(P, n, s),
           IsChoice(s), d.sym[s].tri = yes
    PROVE  LET r == PickBy(calc, d, s)
           IN  FoundAmong(Known1(P, s)[r.d], r.d, s, Len(Candidates(d, s)), r.pick)
<1> DEFINE S == Around(P, n, s)
           Q == P \union {s}
           R == Grown(Q, {})
           N == Ahead(s) \union {s}
           K == Known1(P, s)
           ps == Candidates(d, s)
           m == Len(ps)
           do == [i \in 1..m |-> [r \in Picks |-> TryCandidate(calc, r, ps[i])]]
           start == [d |-> d, pick |-> Nobody]
           G == [k \in 0..m |-> {r \in Picks : /\ r.d \in S /\ <<d, r.d>> \in R
                                                /\ FoundAmong(K[r.d], r.d, s, k, r.pick)}]
<1>1. calc \in Calcs /\ Leads(calc, S, N, R) /\ Knows(calc, S, N, R, K)
  BY AroundLeads
<1>2. S \in SUBSET Sound /\ S \subseteq Dbs /\ d \in S /\ d \in Sound
  BY AroundParts
<1>3. /\ LooksAt(calc, S, R, Range(Members[s]), CanBePicked(P, s))
      /\ \A a \in S, x \in Range(Members[s]) : LookedInto(P, s, CalcVisibility(calc, a, x), x)
  BY LooksRight, Zenon
<1>4. /\ m \in Nat
      /\ \A i \in 1..m : /\ ps[i].cond \in Exprs /\ Needs(ps[i].cond) \subseteq N
                         /\ ps[i].value.s \in Range(Members[s]) /\ ps[i].value.s \in Syms
  BY <1>2, CandidateParts, CandidatesOf, AheadFacts
<1>5. ASSUME NEW b \in S, <<d, b>> \in R
      PROVE  Candidates(b, s) = ps /\ AsYes(b, s) = TrisOf(b) /\ b \in Sound
  <2>1. GrownFrom(Q, {}, d, b) /\ s \in Valids(d)
    BY <1>5, GrownOrder, AroundParts
  <2>2. b.sym[s].tri = yes
    BY <2>1 DEF GrownFrom
  <2>3. Candidates(b, s) = ps
    BY <2>1 DEF GrownFrom, AsSet, Candidates
  <2> QED BY <1>2, <2>2, <2>3, AsYesType
<1>6. ASSUME NEW a \in S, NEW b \in S, <<d, a>> \in R, <<a, b>> \in R, NEW k \in 0..m, NEW x,
             FoundAmong(K[a], a, s, k, x)
      PROVE  FoundAmong(K[b], b, s, k, x)
  <2> DEFINE D == K[a]
             E == K[b]
  <2>1. D \subseteq E /\ \A y \in D \ {s} : b.sym[y].tri = a.sym[y].tri
    BY <1>1, <1>6 DEF Knows
  <2>2. AsSet(a, b) /\ a \in Sound /\ b \in Sound /\ k \in 0..Len(Candidates(a, s))
    BY <1>2, <1>5, <1>6, GrownOrder DEF GrownFrom
  <2>3. FoundAmong(D, a, s, k, x)
    BY <1>6
  <2> HIDE DEF D, E
  <2>4. FoundAmong(E, b, s, k, x)
    BY <2>1, <2>2, <2>3, FoundCarries, AsSetAt
  <2> QED BY <2>4 DEF E
<1>7. PickBy(calc, d, s) = Repeated(m, do, start)
  BY DEF PickBy
<1> HIDE DEF S, R, N, K, ps, m
<1>8. start \in G[0]
  <2>1. start \in Picks /\ start.d = d /\ start.pick = Nobody
    BY <1>2 DEF Picks
  <2>2. <<d, d>> \in R
    BY <1>2, GrownOrder DEF R
  <2>3. FoundAmong(K[d], d, s, 0, Nobody)
    BY DEF FoundAmong
  <2>4. 0 \in 0..m
    BY <1>4
  <2> HIDE DEF start
  <2> QED BY <1>2, <2>1, <2>2, <2>3, <2>4
<1>9. ASSUME NEW k \in 1..m, NEW r \in G[k - 1]
      PROVE  do[k][r] \in G[k]
  <2>1. k - 1 \in 0..m /\ k \in 0..m
    BY <1>4
  <2>2. r \in Picks /\ r.d \in S /\ <<d, r.d>> \in R /\ FoundAmong(K[r.d], r.d, s, k - 1, r.pick)
    BY <2>1
  <2>3. do[k][r] = TryCandidate(calc, r, ps[k])
    BY <2>2
  <2> HIDE DEF do
  <2>4. ASSUME NEW b \in S, <<d, b>> \in R, NEW x, FoundAmong(K[b], b, s, k - 1, x)
        PROVE  /\ x # Nobody => FoundAmong(K[b], b, s, k, x)
               /\ x = Nobody /\ Misses(K[b], b, s, ps[k]) => FoundAmong(K[b], b, s, k, Nobody)
               /\ x = Nobody /\ Hits(K[b], b, s, ps[k]) => FoundAmong(K[b], b, s, k, ps[k].value.s)
    <3> DEFINE D == K[b]
    <3>1. b \in Sound /\ Candidates(b, s) = ps /\ k \in 1..Len(Candidates(b, s)) /\ FoundAmong(D, b, s, k - 1, x)
      BY <1>5, <2>4 DEF m
    <3> HIDE DEF D
    <3>2. /\ x # Nobody => FoundAmong(D, b, s, k, x)
          /\ x = Nobody /\ Misses(D, b, s, Candidates(b, s)[k]) => FoundAmong(D, b, s, k, Nobody)
          /\ x = Nobody /\ Hits(D, b, s, Candidates(b, s)[k]) => FoundAmong(D, b, s, k, Candidates(b, s)[k].value.s)
      BY <3>1, FoundMore
    <3> QED BY <3>1, <3>2 DEF D
  <2>5. CASE r.pick # Nobody
    <3>1. do[k][r] = r
      BY <2>3, <2>5 DEF TryCandidate
    <3>2. FoundAmong(K[r.d], r.d, s, k, r.pick)
      BY <2>2, <2>4, <2>5
    <3> QED BY <2>1, <2>2, <3>1, <3>2
  <2>6. CASE r.pick = Nobody
    <3> DEFINE e == ps[k].cond
               x == ps[k].value.s
               c == EvalBy(calc, r.d, e)
    <3>1. e \in Exprs /\ Needs(e) \subseteq N /\ x \in Range(Members[s]) /\ x \in Syms
      BY <1>4
    <3>2. c \in Results /\ c.d \in S /\ <<r.d, c.d>> \in R
      BY <1>1, <1>2, <2>2, <3>1, EvalLeads, EvalRecursion
    <3>3. ValueKnown(K, e, c)
      BY <1>1, <1>2, <2>2, <3>1, EvalIsValue
    <3>4. do[k][r] = TryMember(calc, c, x)
      BY <2>3, <2>6 DEF TryCandidate
    <3> HIDE DEF c
    <3>5. Needs(e) \subseteq K[c.d] /\ c.val = Value(TrisOf(c.d), e)
      BY <3>3 DEF ValueKnown
    <3>6. <<d, c.d>> \in R
      BY <1>1, <1>2, <2>2, <3>2 DEF Leads
    <3>7. FoundAmong(K[c.d], c.d, s, k - 1, Nobody)
      BY <1>6, <2>1, <2>2, <2>6, <3>2
    <3>8. CASE c.val = no
      <4>1. do[k][r] = [d |-> c.d, pick |-> Nobody]
        BY <3>4, <3>8 DEF TryMember
      <4>2. Misses(K[c.d], c.d, s, ps[k])
        BY <1>5, <3>2, <3>5, <3>6, <3>8 DEF Misses
      <4>3. FoundAmong(K[c.d], c.d, s, k, Nobody)
        BY <2>4, <3>2, <3>6, <3>7, <4>2
      <4> QED BY <1>2, <2>1, <3>2, <3>6, <4>1, <4>3 DEF Picks
    <3>9. CASE c.val # no
      <4> DEFINE b == CalcVisibility(calc, c.d, x)
      <4>1. b \in S /\ <<c.d, b>> \in R /\ LookedInto(P, s, b, x)
        BY <1>3, <3>1, <3>2 DEF LooksAt
      <4>2. do[k][r] = IfVisible(b, x)
        BY <3>4, <3>9 DEF TryMember
      <4> HIDE DEF b
      <4>3. <<d, b>> \in R
        BY <1>1, <1>2, <3>2, <3>6, <4>1 DEF Leads
      <4>4. do[k][r] = [d |-> b, pick |-> IF b.sym[x].vis = no THEN Nobody ELSE x]
        BY <4>2 DEF IfVisible
      <4>5. FoundAmong(K[b], b, s, k - 1, Nobody)
        BY <1>6, <2>1, <3>2, <3>6, <3>7, <4>1
      <4>6. AsYes(b, s) = TrisOf(b) /\ b \in Sound
        BY <1>5, <4>1, <4>3
      <4>7. Needs(e) \subseteq K[b] /\ Value(AsYes(b, s), e) # no
        <5>1. K[c.d] \subseteq K[b] /\ \A y \in K[c.d] : c.d.sym[y].tri = b.sym[y].tri
          BY <1>1, <3>2, <4>1 DEF Knows
        <5>2. Value(TrisOf(b), e) = Value(TrisOf(c.d), e)
          BY <1>2, <3>1, <3>2, <3>5, <4>6, <5>1, ValueAgrees
        <5> QED BY <3>5, <3>9, <4>6, <5>1, <5>2
      <4>8. PromptNeeds(x) \subseteq K[b] /\ (b.sym[x].vis = no <=> PromptIn(AsYes(b, s), x) = no)
        <5>1. PromptNeeds(x) \subseteq Known1(P, s)[b] /\ (b.sym[x].vis = no <=> PromptValue(b, x) = no)
          BY <4>1 DEF LookedInto
        <5>2. PromptIn(AsYes(b, s), x) = PromptValue(b, x)
          BY <4>6 DEF PromptValue, PromptIn
        <5> QED BY <5>1, <5>2 DEF K
      <4>9. CASE b.sym[x].vis = no
        <5>1. Misses(K[b], b, s, ps[k])
          BY <4>7, <4>8, <4>9 DEF Misses
        <5>2. FoundAmong(K[b], b, s, k, Nobody)
          BY <2>4, <4>1, <4>3, <4>5, <5>1
        <5> QED BY <1>2, <2>1, <4>1, <4>3, <4>4, <4>9, <5>2 DEF Picks
      <4>10. CASE b.sym[x].vis # no
        <5>1. Hits(K[b], b, s, ps[k])
          BY <4>7, <4>8, <4>10 DEF Hits
        <5>2. FoundAmong(K[b], b, s, k, x)
          BY <2>4, <4>1, <4>3, <4>5, <5>1
        <5> HIDE DEF x, e
        <5> QED BY <1>2, <2>1, <3>1, <4>1, <4>3, <4>4, <4>10, <5>2 DEF Picks
      <4> QED BY <4>9, <4>10
    <3> QED BY <3>8, <3>9
  <2> QED BY <2>5, <2>6
<1> HIDE DEF do, start, G
<1>10. PickBy(calc, d, s) \in G[m]
  BY <1>4, <1>7, <1>8, <1>9, LoopSteps
<1>11. m \in 0..m
  BY <1>4
<1> QED BY <1>10, <1>11 DEF G, K, m, ps

\* All that is to be known of s but for the mark.
GotNow(P, n, s, d, e) ==
    /\ e \in Around(P, n, s) /\ <<d, e>> \in Grown(P \union {s}, {s})
    /\ SeenNow(P, e, s) /\ Given1(e, s) /\ Chosen(Known1(P, s)[e], e, s) /\ Exact(Known1(P, s)[e], e, s)

LEMMA ChoosingRight ==
    ASSUME NEW calc, Calm(calc), NEW n \in Nat, Right(calc, n),
           NEW P \in SUBSET Syms, NEW s \in Syms, Free(P, s), NEW d \in Around(P, n, s),
           SeenNow(P, d, s), Given1(d, s), d.sym[s].sel = Nobody, ValuesNow(P, d, s)
    PROVE  GotNow(P, n, s, d, Choosing(calc, d, s))
<1> DEFINE e == Choosing(calc, d, s)
           S == Around(P, n, s)
           Q == P \union {s}
           R0 == Grown(Q, {})
           X == Range(Members[s])
           r == PickBy(calc, d, s)
           K == Known1(P, s)
<1>1. calc \in Calcs /\ Leads(calc, S, Ahead(s) \union {s}, R0)
  BY AroundLeads
<1>2. d \in Sound /\ d \in Dbs /\ s \in Valids(d)
  BY AroundParts
<1>3. CASE ~(IsChoice(s) /\ d.sym[s].tri = yes)
  <2>1. e = d
    BY <1>3 DEF Choosing
  <2>2. <<d, d>> \in Grown(Q, {s})
    BY <1>2, GrownOrder
  <2>3. Exact(K[d], d, s)
    <3>1. SUFFICES ASSUME ~(IsChoiceVal(s) /\ d.sym[s].vis = yes)
                   PROVE  Exact(K[d], d, s)
      BY DEF Exact
    <3>2. PICK v \in Tristate : /\ OwnSays(Valids(d) \ Q, d, s, v)
                                /\ d.sym[s].tri = Promoted(OrT(v, d.sym[s].rev), NowTristate(d, s))
      BY <3>1 DEF ValuesNow
    <3>3. OwnSays(K[d], d, s, v)
      <4>1. Valids(d) \ Q \subseteq K[d]
        BY <1>2 DEF Known1
      <4>2. AsSet(d, d)
        BY DEF AsSet
      <4> HIDE DEF K, Q
      <4> QED BY <1>2, <3>2, <4>1, <4>2, OwnSaysCarries, AsSetAt
    <3>4. Comes(K[d], d, s, d.sym[s].tri)
      BY <1>3 DEF Comes
    <3> QED BY <3>2, <3>3, <3>4 DEF Exact
  <2> QED BY <2>1, <2>2, <2>3 DEF GotNow, Chosen
<1>4. CASE IsChoice(s) /\ d.sym[s].tri = yes
  <2>1. PickIn(S, R0, X, CanBePicked(P, s), d, r)
    <3>1. CondNeeds(s) \subseteq Ahead(s) \union {s}
      BY AheadFacts
    <3>2. X \in SUBSET Syms /\ d.sym[s].usel \in X \union {Nobody}
      BY <1>2, MembersIn, SoundParts DEF OwnValues
    <3>3. LooksAt(calc, S, R0, X, CanBePicked(P, s))
      BY LooksRight, Zenon
    <3> HIDE DEF S, R0, X
    <3>4. X \subseteq X
      OBVIOUS
    <3> QED BY <1>1, <1>4, <3>1, <3>2, <3>3, <3>4, PickLeads, Zenon DEF S, X
  <2>2. /\ r \in Picks /\ r.d \in S /\ <<d, r.d>> \in R0 /\ r.pick \in X \union {Nobody}
        /\ r.pick # Nobody => CanBeSeen(K[r.d], r.d, r.pick)
    BY <2>1 DEF PickIn, CanBePicked
  <2>3. ChosenAs(d, e, s, r)
    BY <1>1, <1>2, <1>4, <2>2, ChoosingShape
  <2> HIDE DEF e, r
  <2>4. r.d \in Sound /\ r.d \in Dbs /\ r.d.sym[s] \in SymRecs
    BY <2>2, AroundParts, DbParts
  <2>5. GrownFrom(Q, {}, d, r.d)
    BY <2>2, GrownOrder
  <2>6. /\ r.d.sym[s].tri = yes /\ r.d.sym[s].sel = Nobody /\ r.d.sym[s].rev = d.sym[s].rev
        /\ r.d.sym[s].vis = d.sym[s].vis
    <3>1. ~IsChoiceVal(s)
      BY <1>4, ChoiceNotValue
    <3> QED BY <1>2, <1>4, <2>5, <3>1 DEF GrownFrom
  <2>7. But(s, r.d, e) /\ \A field \in {"user", "utri", "usel", "rev", "vis", "valid"} : e.sym[s][field] = r.d.sym[s][field]
    BY <2>3, <2>4 DEF ChosenAs, SymRecs
  <2>8. /\ r.pick = Nobody => e.sym[s].tri = no /\ e.sym[s].sel = Nobody
        /\ r.pick # Nobody => e.sym[s].tri = yes /\ e.sym[s].sel = r.pick
    BY <2>3, <2>4, <2>6 DEF ChosenAs, SymRecs
  <2>9. e \in Sound
    <3>1. e.sym[s].tri # mod /\ e.sym[s].sel \in OwnValues(s)
      BY <2>2, <2>8 DEF OwnValues, no, mod, yes
    <3> QED BY <2>4, <2>7, <3>1, SoundParts, ButSound
  <2>10. Wrote(P, n, s, r.d, e)
    BY <2>2, <2>7, <2>9, AroundWrite
  <2>11. <<d, e>> \in Grown(Q, {s}) /\ <<r.d, e>> \in Grown(Q, {s}) /\ <<d, r.d>> \in Grown(Q, {s}) /\ e \in S
    BY <2>2, <2>10, GrownOrder DEF Wrote
  <2>12. SeenNow(P, e, s)
    BY <2>6, <2>7, <2>11, SeenStays
  <2>13. Given1(e, s)
    <3>1. CASE r.pick = Nobody
      BY <1>4, <2>8, <3>1, ChoiceNotValue DEF Given1
    <3>2. CASE r.pick # Nobody
      <4>1. e.sym[s].tri = d.sym[s].tri /\ e.sym[s].rev = d.sym[s].rev /\ e.sym[s].vis = d.sym[s].vis
        BY <1>4, <2>6, <2>7, <2>8, <3>2
      <4>2. NowTristate(e, s) = NowTristate(d, s)
        <5>1. s \in Tris => ModulesSym \in Valids(d) \ Q
          BY AroundParts
        <5>2. Same(Valids(d) \ Q, d, e)
          BY <2>11, GrownSame
        <5> QED BY <4>1, <5>1, <5>2 DEF NowTristate, Same
      <4>3. ~IsChoiceVal(s)
        BY <1>4, ChoiceNotValue
      <4> QED BY <4>1, <4>2, <4>3 DEF Given1
    <3> QED BY <3>1, <3>2
  <2>14. Chosen(K[e], e, s)
    <3>1. SUFFICES ASSUME r.pick # Nobody
                   PROVE  CanBeSeen(K[e], e, r.pick)
      BY <2>8 DEF Chosen
    <3>2. r.pick \in Syms
      BY <2>2, <3>1 DEF Picks
    <3>3. K[r.d] = (Valids(r.d) \ Q) \union {s} /\ K[e] = K[r.d]
      BY <2>4, <2>7, <2>10 DEF Known1, Wrote, But
    <3>4. \A y \in K[r.d] : e.sym[y].tri = r.d.sym[y].tri
      BY <2>6, <2>7, <2>8, <3>1, <3>3 DEF But, Valids
    <3> QED BY <2>2, <2>4, <2>9, <3>1, <3>2, <3>3, <3>4, CanBeSeenCarries
  <2>15. Exact(K[e], e, s)
    <3>1. K[r.d] = (Valids(r.d) \ Q) \union {s} /\ K[e] = K[r.d] /\ K[d] = (Valids(d) \ Q) \union {s}
      BY <1>2, <2>4, <2>7, <2>10 DEF Known1, Wrote, But
    <3>2. \A y \in K[r.d] \ {s} : e.sym[y].tri = r.d.sym[y].tri
      BY <2>7, <3>1 DEF But, Valids
    <3>3. AsSet(r.d, e) /\ AsSet(d, e)
      BY <2>11, GrownOrder DEF GrownFrom
    <3>4. e.sym[s].sel = r.pick /\ e.sym[s].tri = IF e.sym[s].sel = Nobody THEN no ELSE yes
      BY <2>8
    <3>5. e.sym[s].rev = d.sym[s].rev /\ e.sym[s].vis = d.sym[s].vis
      BY <2>6, <2>7
    <3>6. NowTristate(e, s) = NowTristate(d, s)
      <4>1. s \in Tris => ModulesSym \in Valids(d) \ Q
        BY AroundParts
      <4>2. Same(Valids(d) \ Q, d, e)
        BY <2>11, GrownSame
      <4> QED BY <3>5, <4>1, <4>2 DEF NowTristate, Same
    <3>7. PICK v \in Tristate : /\ OwnSays(Valids(d) \ Q, d, s, v)
                                /\ d.sym[s].tri = Promoted(OrT(v, d.sym[s].rev), NowTristate(d, s))
      BY <1>4, ChoiceNotValue DEF ValuesNow
    <3>8. OwnSays(K[e], e, s, v)
      <4>1. Valids(d) \ Q \subseteq K[e] /\ \A y \in Valids(d) \ Q : e.sym[y].tri = d.sym[y].tri
        <5>1. Same(Valids(d) \ Q, d, e) /\ Valids(d) \subseteq Valids(e) /\ Valids(e) = Valids(r.d)
          BY <2>10, <2>11, GrownOrder, GrownSame DEF GrownFrom, Wrote
        <5> QED BY <3>1, <5>1 DEF Same
      <4> HIDE DEF K, Q
      <4> QED BY <1>2, <2>9, <3>3, <3>5, <3>7, <4>1, OwnSaysCarries, AsSetAt
    <3>9. FoundAmong(K[e], e, s, Len(Candidates(e, s)), e.sym[s].sel)
      <4> DEFINE m == Len(Candidates(d, s))
                 D == K[r.d]
                 E == K[e]
                 a == r.d
      <4>1. FoundAmong(D, a, s, m, r.pick)
        BY <1>4, PickExact DEF r
      <4>2. Candidates(a, s) = Candidates(d, s) /\ Candidates(e, s) = Candidates(d, s)
        <5>1. a.sym[s].usel = d.sym[s].usel /\ e.sym[s].usel = d.sym[s].usel
          BY <2>5, <3>3 DEF GrownFrom, AsSet
        <5> QED BY <5>1 DEF Candidates
      <4>3. m \in 0..Len(Candidates(a, s))
        <5>1. m \in Nat
          BY <1>2, <1>4, CandidateParts
        <5> QED BY <4>2, <5>1
      <4>4. D \subseteq E /\ (\A y \in D \ {s} : e.sym[y].tri = a.sym[y].tri) /\ AsSet(a, e) /\ a \in Sound
        BY <2>4, <3>1, <3>2, <3>3
      <4> HIDE DEF m, D, E, a
      <4>5. FoundAmong(E, e, s, m, r.pick)
        BY <1>4, <2>9, <4>1, <4>3, <4>4, FoundCarries, AsSetAt
      <4> QED BY <3>4, <4>2, <4>5 DEF m, E
    <3>10. Comes(K[e], e, s, d.sym[s].tri)
      BY <1>4, <3>4, <3>9 DEF Comes
    <3> QED BY <3>5, <3>6, <3>7, <3>8, <3>10 DEF Exact
  <2> QED BY <2>11, <2>12, <2>13, <2>14, <2>15 DEF GotNow, e
<1> QED BY <1>3, <1>4

\* The mark, and s is no longer being calculated.
LEMMA MarkedRight ==
    ASSUME NEW n \in Nat, NEW P \in SUBSET Syms, NEW s \in Syms, s \notin P, NEW d \in Around(P, n, s),
           SeenNow(P, d, s), Given1(d, s), Chosen(Known1(P, s)[d], d, s), Exact(Known1(P, s)[d], d, s)
    PROVE  LET e == Marked(d, s)
           IN  /\ e \in Inner(P, n + 1) /\ <<d, e>> \in Grown(P \union {s}, {s})
               /\ s \in Valids(e) \ P
<1> DEFINE e == Marked(d, s)
           Q == P \union {s}
           D == Valids(d) \ Q
           E == Valids(d) \ P
<1>1. /\ d \in Sound /\ d \in Dbs /\ s \in Valids(d) /\ Q \subseteq Valids(d) /\ Good(D, d)
      /\ Cardinality(Syms \ Valids(d)) <= n /\ (s \in Tris => ModulesSym \in D)
  BY AroundParts
<1>2. e \in Sound
  BY <1>1, MarkedStays
<1>3. /\ s # ModulesSym => e.modval = d.modval
      /\ s = ModulesSym => e.modval = d.sym[s].tri
      /\ \A x \in Syms : \E w \in BOOLEAN : e.sym[x] = [d.sym[x] EXCEPT !.write = w]
  BY <1>1, MarkedShape
<1> HIDE DEF e
<1>4. \A x \in Syms : \A field \in {"tri", "sel", "vis", "rev", "valid", "user", "utri", "usel"} :
          e.sym[x][field] = d.sym[x][field]
  <2>1. SUFFICES ASSUME NEW x \in Syms
                 PROVE  \A field \in {"tri", "sel", "vis", "rev", "valid", "user", "utri", "usel"} :
                             e.sym[x][field] = d.sym[x][field]
    OBVIOUS
  <2>2. d.sym[x] \in SymRecs
    BY <1>1, DbParts
  <2>3. PICK w \in BOOLEAN : e.sym[x] = [d.sym[x] EXCEPT !.write = w]
    BY <1>3
  <2> QED BY <2>2, <2>3 DEF SymRecs
<1>5. Valids(e) = Valids(d)
  BY <1>4 DEF Valids
<1>6. <<d, e>> \in Grown(Q, {s})
  <2>3. AsSet(d, e)
    BY <1>4 DEF AsSet
  <2>1. GrownFrom(Q, {s}, d, e)
    BY <1>3, <1>4, <1>5, <2>3 DEF GrownFrom, Valids
  <2>2. e \in Dbs
    BY <1>2, SoundParts DEF Sound
  <2> QED BY <1>1, <2>1, <2>2, GrownOrder
<1>7. Same(D, d, e)
  BY <1>6, GrownSame
<1>8. D \subseteq E /\ E = D \union {s} /\ D \in SUBSET Syms /\ s \in E
  BY <1>1 DEF Valids
<1>9. s \in Tris => e.modval = d.modval
  BY <1>1, <1>7 DEF Same
<1>10. Done(E, e, s)
  <2>1. Seen1(D, d, s) /\ Pulled(D, d, s)
    BY DEF SeenNow
  <2> HIDE DEF D, E
  <2>2. Seen1(E, e, s) /\ Pulled(E, e, s)
    BY <1>1, <1>2, <1>4, <1>7, <1>8, <1>9, <2>1, SeenCarries, PulledCarries
  <2>3. NowTristate(e, s) = NowTristate(d, s)
    BY <1>4, <1>9 DEF NowTristate
  <2>4. IsChoiceVal(s) => MemberValue(e, s) = MemberValue(d, s)
    BY <1>4, ChoiceNotValue DEF MemberValue
  <2>5. Given1(e, s)
    BY <1>4, <2>3, <2>4 DEF Given1
  <2>6. Chosen(E, e, s)
    <3>1. SUFFICES ASSUME d.sym[s].sel # Nobody
                   PROVE  Chosen(E, e, s)
      BY <1>4 DEF Chosen
    <3>2. d.sym[s].tri = yes /\ CanBeSeen(E, d, d.sym[s].sel) /\ d.sym[s].sel \in Syms
      <4>1. Known1(P, s)[d] = E
        BY <1>1, <1>8 DEF Known1, D
      <4> QED BY <1>1, <3>1, <4>1, DbParts DEF Chosen
    <3>3. \A y \in E : e.sym[y].tri = d.sym[y].tri
      BY <1>4, <1>8
    <3>4. CanBeSeen(E, e, d.sym[s].sel)
      BY <1>1, <1>2, <3>2, <3>3, CanBeSeenCarries
    <3> QED BY <1>4, <3>2, <3>4 DEF Chosen
  <2>7. Exact(E, e, s)
    <3>1. Exact(E, d, s)
      <4>1. Known1(P, s)[d] = E
        BY <1>1, <1>8 DEF Known1, D
      <4> QED BY <4>1
    <3>2. (\A y \in E : e.sym[y].tri = d.sym[y].tri) /\ E \subseteq E
      BY <1>4, <1>8
    <3>3. \A field \in {"tri", "sel", "vis", "rev"} : e.sym[s][field] = d.sym[s][field]
      BY <1>4
    <3>4. AsSet(d, e)
      BY <1>7 DEF Same
    <3> QED BY <1>1, <1>2, <2>3, <3>1, <3>2, <3>3, <3>4, ExactCarries
  <2>8. Modal(e, s)
    BY <1>3, <1>4 DEF Modal
  <2> QED BY <1>1, <1>8, <2>2, <2>5, <2>6, <2>7, <2>8 DEF Done, Steady
<1>11. Good(E, e)
  <2>1. \A y \in D : Done(E, e, y)
    <3>1. SUFFICES ASSUME NEW y \in D
                   PROVE  Done(E, e, y)
      OBVIOUS
    <3>2. Done(D, d, y)
      BY <1>1 DEF Good
    <3> HIDE DEF D, E
    <3> QED BY <1>1, <1>2, <1>7, <1>8, <3>1, <3>2, DoneCarries
  <2> QED BY <1>8, <1>10, <2>1 DEF Good
<1>12. Cardinality(Syms \ Valids(d)) <= n + 1
  <2>1. Cardinality(Syms \ Valids(d)) \in Nat
    BY SymbolsAssumption, FS_Difference, FS_CardinalityType
  <2> QED BY <1>1, <2>1
<1>13. e \in Inner(P, n + 1)
  BY <1>1, <1>2, <1>5, <1>11, <1>12 DEF Inner
<1> QED BY <1>1, <1>5, <1>6, <1>13 DEF e

\* The start, which leaves one symbol less that is not valid.
LEMMA BegunRight ==
    ASSUME NEW n \in Nat, NEW P \in SUBSET Syms, NEW s \in Syms, Free(P, s),
           NEW d \in Inner(P, n + 1), Settled1(P, d, s), s \notin Valids(d)
    PROVE  LET e == Begun(d, s)
           IN  /\ e \in Around(P, n, s) /\ Valids(e) = Valids(d) \union {s} /\ s \notin P /\ AsSet(d, e)
               /\ e \in Dbs /\ e.modval = d.modval /\ \A x \in Valids(d) : e.sym[x] = d.sym[x]
<1> DEFINE e == Begun(d, s)
           Q == P \union {s}
<1>1. d \in Sound /\ d \in Dbs /\ P \subseteq Valids(d) /\ Good(Valids(d) \ P, d) /\ Cardinality(Syms \ Valids(d)) <= n + 1
  BY DEF Inner, Sound
<1>2. e \in Sound /\ e.sym[s].valid
  BY <1>1, BegunStays
<1>3. BegunAs(d, e, s)
  BY <1>1, BegunShape
<1> HIDE DEF e
<1>4. s \notin P
  BY <1>1
<1>5. Valids(e) = Valids(d) \union {s}
  BY <1>2, <1>3 DEF Valids, But, BegunAs
<1>6. \A x \in Valids(d) : e.sym[x] = d.sym[x]
  BY <1>3 DEF Valids, But, BegunAs
<1>7. Valids(e) \ Q = Valids(d) \ P
  BY <1>4, <1>5
<1>13. AsSet(d, e)
  <2>1. \A field \in {"user", "utri", "usel"} : e.sym[s][field] = d.sym[s][field]
    <3>1. d.sym[s] \in SymRecs
      BY <1>1, DbParts
    <3>2. e.sym[s] = [d.sym[s] EXCEPT !.valid = TRUE, !.write = IsChoiceVal(s) /\ @]
      BY <1>3 DEF BegunAs
    <3> QED BY <3>1, <3>2 DEF SymRecs
  <2> QED BY <1>3, <2>1 DEF AsSet, But, BegunAs
<1>8. Same(Valids(d) \ P, d, e)
  BY <1>3, <1>6, <1>13 DEF Same, But, BegunAs
<1>9. Good(Valids(e) \ Q, e)
  <2>1. Valids(d) \ P \in SUBSET Syms
    BY DEF Valids
  <2> QED BY <1>1, <1>2, <1>7, <1>8, <2>1, GoodCarries
<1>10. Cardinality(Syms \ Valids(e)) <= n
  <2> DEFINE T == Syms \ Valids(d)
  <2>1. Syms \ Valids(e) = T \ {s} /\ s \in T
    BY <1>5
  <2>2. IsFiniteSet(T) /\ Cardinality(T) \in Nat /\ Cardinality(T) <= n + 1
    BY <1>1, SymbolsAssumption, FS_Difference, FS_CardinalityType
  <2> HIDE DEF T
  <2>3. Cardinality(T \ {s}) = Cardinality(T) - 1
    BY <2>1, <2>2, FS_RemoveElement
  <2>4. \A k \in Nat : k <= n + 1 => k - 1 <= n
    OBVIOUS
  <2> QED BY <2>1, <2>2, <2>3, <2>4
<1>11. e \in Inner(Q, n)
  BY <1>1, <1>2, <1>5, <1>9, <1>10 DEF Inner
<1>12. Settled1(Q, e, s)
  BY <1>7 DEF Settled1
<1> QED BY <1>3, <1>4, <1>5, <1>6, <1>11, <1>12, <1>13 DEF Around, But, BegunAs, e

\* sym_calc_value of a symbol that is not valid.
LEMMA CalcByRight ==
    ASSUME NEW calc, Calm(calc), NEW n \in Nat, Right(calc, n),
           NEW P \in SUBSET Syms, NEW s \in Syms, Free(P, s),
           NEW d \in Inner(P, n + 1), Settled1(P, d, s), s \notin Valids(d)
    PROVE  LET e == CalcBy(calc, d, s)
           IN  /\ e \in Inner(P, n + 1) /\ <<d, e>> \in Grown(P, {})
               /\ s \in Valids(e) \ P
<1> DEFINE a == Begun(d, s)
           b == CalcVisibility(calc, a, s)
           c == Reset(b, s)
           f == Valued(calc, c, s)
           g == Choosing(calc, f, s)
           h == Marked(g, s)
           R == Grown(P \union {s}, {s})
<1>1. /\ a \in Around(P, n, s) /\ Valids(a) = Valids(d) \union {s} /\ s \notin P /\ AsSet(d, a)
      /\ a \in Dbs /\ a.modval = d.modval /\ \A x \in Valids(d) : a.sym[x] = d.sym[x]
  BY BegunRight
<1> HIDE DEF a
<1>2. b \in Around(P, n, s) /\ <<a, b>> \in R /\ SeenNow(P, b, s)
  BY <1>1, VisibilityRight
<1> HIDE DEF b
<1>3. c \in Around(P, n, s) /\ <<b, c>> \in R /\ SeenNow(P, c, s) /\ c.sym[s].sel = Nobody
  <2>1. ResetNow(P, n, s, b, c)
    BY <1>2, ResetRight
  <2> QED BY <2>1 DEF ResetNow, Wrote
<1> HIDE DEF c
<1>4. /\ f \in Around(P, n, s) /\ <<c, f>> \in R /\ SeenNow(P, f, s) /\ Given1(f, s) /\ f.sym[s].sel = Nobody
      /\ ValuesNow(P, f, s)
  <2>1. GivenNow(P, n, s, c, f)
    BY <1>3, ValuedRight
  <2>2. ValuesNow(P, f, s)
    BY <1>3, ValuedExact
  <2> QED BY <2>1, <2>2 DEF GivenNow
<1> HIDE DEF f
<1>5. /\ g \in Around(P, n, s) /\ <<f, g>> \in R /\ SeenNow(P, g, s) /\ Given1(g, s)
      /\ Chosen(Known1(P, s)[g], g, s) /\ Exact(Known1(P, s)[g], g, s)
  <2>1. GotNow(P, n, s, f, g)
    BY <1>4, ChoosingRight
  <2> QED BY <2>1 DEF GotNow
<1> HIDE DEF g
<1>6. h \in Inner(P, n + 1) /\ <<g, h>> \in R /\ s \in Valids(h) \ P
  BY <1>1, <1>5, MarkedRight
<1>7. h = CalcBy(calc, d, s)
  BY DEF CalcBy, a, b, c, f, g
<1> HIDE DEF h
<1>8. GrownFrom(P \union {s}, {s}, a, h)
  <2>1. <<a, h>> \in R
    BY <1>2, <1>3, <1>4, <1>5, <1>6, GrownOrder
  <2> QED BY <2>1, GrownOrder
<1>11. AsSet(d, h)
  BY <1>1, <1>8 DEF GrownFrom, AsSet
<1>9. GrownFrom(P, {}, d, h)
  BY <1>1, <1>8, <1>11 DEF GrownFrom
<1>10. d \in Dbs /\ h \in Dbs
  BY <1>6 DEF Inner, Sound
<1> QED BY <1>6, <1>7, <1>9, <1>10, GrownOrder

LEMMA RightDeeper ==
    ASSUME NEW calc, Calm(calc), NEW n \in Nat, Right(calc, n)
    PROVE  Right(Deeper(calc), n + 1)
<1>1. SUFFICES ASSUME NEW P \in SUBSET Syms, NEW x \in Syms, Free(P, x), NEW d \in Inner(P, n + 1), Settled1(P, d, x)
               PROVE  /\ Deeper(calc)[d][x] \in Inner(P, n + 1) /\ <<d, Deeper(calc)[d][x]>> \in Grown(P, {})
                      /\ x \in Valids(Deeper(calc)[d][x]) \ P
  BY DEF Right
<1>2. d \in Dbs
  BY DEF Inner, Sound
<1>3. Deeper(calc)[d][x] = IF d.sym[x].valid THEN d ELSE CalcBy(calc, d, x)
  BY <1>2 DEF Deeper
<1>4. CASE x \in Valids(d)
  <2>1. Deeper(calc)[d][x] = d
    BY <1>3, <1>4 DEF Valids
  <2>2. x \notin P
    BY <1>1 DEF Free
  <2> QED BY <1>2, <1>4, <2>1, <2>2, GrownOrder
<1>5. CASE x \notin Valids(d)
  <2>1. Deeper(calc)[d][x] = CalcBy(calc, d, x)
    BY <1>3, <1>5 DEF Valids
  <2> QED BY <1>1, <1>5, <2>1, CalcByRight
<1> QED BY <1>4, <1>5

LEMMA RightAtZero ==
    Right(CalcAt[0], 0)
<1>1. SUFFICES ASSUME NEW P \in SUBSET Syms, NEW x \in Syms, Free(P, x), NEW d \in Inner(P, 0), Settled1(P, d, x)
               PROVE  /\ CalcAt[0][d][x] \in Inner(P, 0) /\ <<d, CalcAt[0][d][x]>> \in Grown(P, {})
                      /\ x \in Valids(CalcAt[0][d][x]) \ P
  BY DEF Right
<1>2. d \in Dbs /\ Cardinality(Syms \ Valids(d)) <= 0
  BY DEF Inner, Sound
<1>3. CalcAt[0][d][x] = d
  BY <1>2, CalcAtDef
<1>4. Syms \ Valids(d) = {}
  <2>1. IsFiniteSet(Syms \ Valids(d)) /\ Cardinality(Syms \ Valids(d)) \in Nat
    BY SymbolsAssumption, FS_Difference, FS_CardinalityType
  <2>2. Cardinality(Syms \ Valids(d)) = 0
    BY <1>2, <2>1
  <2> QED BY <2>1, <2>2, FS_EmptySet
<1>5. x \in Valids(d) \ P
  BY <1>1, <1>4 DEF Free
<1> QED BY <1>2, <1>3, <1>5, GrownOrder

\* Outside of any other calculation: what is calculated is right, and it stays so.
Begins == {d \in Sound : Good(Valids(d), d)}
GrownKept(a, b) == Valids(a) \subseteq Valids(b) /\ Same(Valids(a), a, b)

LEMMA CalcRight ==
    ASSUME NEW d \in Begins, NEW s \in Syms, s = ModulesSym \/ ModulesSym \in Valids(d)
    PROVE  LET e == Calc(d, s)
           IN  e \in Begins /\ s \in Valids(e) /\ GrownKept(d, e)
<1> DEFINE N == Cardinality(Syms)
           A == {n \in Nat : Right(CalcAt[n], n)}
           e == Calc(d, s)
<1>1. 0 \in A
  BY RightAtZero
<1>2. ASSUME NEW n \in Nat, n \in A
      PROVE  n + 1 \in A
  <2>1. Right(Deeper(CalcAt[n]), n + 1)
    BY <1>2, CalcAtDef, RightDeeper
  <2> QED BY <2>1, CalcAtDef
<1> HIDE DEF A
<1>3. \A n \in Nat : n \in A
  BY <1>1, <1>2, Climb
<1>4. N \in Nat
  BY SymbolsAssumption, FS_CardinalityType
<1>5. Right(SymCalc, N)
  BY <1>3, <1>4 DEF A, SymCalc
<1>6. Free({}, s) /\ Settled1({}, d, s)
  BY KernelFacts DEF Free, Settled1
<1>7. d \in Inner({}, N)
  <2>1. Cardinality(Syms \ Valids(d)) <= N
    BY SymbolsAssumption, FS_Subset
  <2>2. Valids(d) \ {} = Valids(d)
    OBVIOUS
  <2> QED BY <2>1, <2>2 DEF Begins, Inner
<1>8. e \in Inner({}, N) /\ <<d, e>> \in Grown({}, {}) /\ s \in Valids(e) \ {}
  BY <1>5, <1>6, <1>7 DEF Right, Calc
<1> HIDE DEF e
<1>9. e \in Begins
  <2>1. Valids(e) \ {} = Valids(e)
    OBVIOUS
  <2> QED BY <1>8, <2>1 DEF Begins, Inner
<1>10. GrownKept(d, e)
  BY <1>8, GrownOrder DEF GrownKept, GrownFrom, Same
<1> QED BY <1>8, <1>9, <1>10 DEF e

(***************************************************************************)
(* Everything calculated anew.                                             *)
(***************************************************************************)
LEMMA InvalidateStays ==
    ASSUME NEW S \in {Dbs, Sound}, NEW d \in S
    PROVE  /\ Invalidate(d) \in S /\ Valids(Invalidate(d)) = {}
           /\ \A s \in Syms : \A field \in {"tri", "sel", "vis", "rev", "user", "utri", "usel", "write"} :
                  Invalidate(d).sym[s][field] = d.sym[s][field]
<1> DEFINE g == [s \in Syms |-> [d.sym[s] EXCEPT !.valid = FALSE]]
           e == Invalidate(d)
<1>1. d \in Dbs /\ \A s \in Syms : d.sym[s] \in SymRecs
  BY DbParts DEF Sound
<1>2. e = [d EXCEPT !.sym = g]
  BY DEF Invalidate
<1>3. g \in [Syms -> SymRecs] /\ \A s \in Syms : g[s] = [d.sym[s] EXCEPT !.valid = FALSE]
  BY <1>1 DEF SymRecs
<1> HIDE DEF g, e
<1>4. e \in Dbs /\ \A s \in Syms : e.sym[s] = [d.sym[s] EXCEPT !.valid = FALSE]
  BY <1>1, <1>2, <1>3 DEF Dbs
<1>5. \A s \in Syms : /\ ~e.sym[s].valid
                      /\ \A field \in {"tri", "sel", "vis", "rev", "user", "utri", "usel", "write"} :
                             e.sym[s][field] = d.sym[s][field]
  <2>1. SUFFICES ASSUME NEW s \in Syms
                 PROVE  /\ ~e.sym[s].valid
                        /\ \A field \in {"tri", "sel", "vis", "rev", "user", "utri", "usel", "write"} :
                               e.sym[s][field] = d.sym[s][field]
    OBVIOUS
  <2>2. e.sym[s] = [d.sym[s] EXCEPT !.valid = FALSE] /\ d.sym[s] \in SymRecs
    BY <1>1, <1>4
  <2> QED BY <2>2 DEF SymRecs
<1>6. Valids(e) = {}
  BY <1>5 DEF Valids
<1>7. d \in Sound => e \in Sound
  BY <1>4, <1>5 DEF Sound
<1> QED BY <1>4, <1>5, <1>6, <1>7 DEF e

LEMMA ClearStays ==
    ASSUME NEW S \in {Dbs, Sound}, NEW d \in S
    PROVE  ClearAllValid(d) \in S
BY InvalidateStays, CalcStays, SymbolNames, SymbolsAssumption DEF ClearAllValid, Syms

Ready == {d \in Begins : ModulesSym \in Valids(d)}

LEMMA ClearReady ==
    ASSUME NEW d \in Sound
    PROVE  ClearAllValid(d) \in Ready /\ AsSet(d, ClearAllValid(d))
<1> DEFINE a == Invalidate(d)
<1>1. a \in Sound /\ Valids(a) = {} /\ AsSet(d, a)
  BY InvalidateStays DEF AsSet
<1>2. a \in Begins
  BY <1>1 DEF Begins, Good
<1>3. ModulesSym \in Syms
  BY SymbolsAssumption DEF Syms
<1> HIDE DEF a
<1> DEFINE e == Calc(a, ModulesSym)
<1>4. e \in Begins /\ ModulesSym \in Valids(e) /\ GrownKept(a, e)
  BY <1>2, <1>3, CalcRight
<1> HIDE DEF e
<1>5. AsSet(d, e)
  BY <1>1, <1>4 DEF GrownKept, Same, AsSet
<1> QED BY <1>4, <1>5 DEF ClearAllValid, Ready, a, e

LEMMA CalcReady ==
    ASSUME NEW d \in Ready, NEW s \in Syms
    PROVE  Calc(d, s) \in Ready /\ s \in Valids(Calc(d, s)) /\ GrownKept(d, Calc(d, s))
<1>1. d \in Begins /\ ModulesSym \in Valids(d)
  BY DEF Ready
<1>2. Calc(d, s) \in Begins /\ s \in Valids(Calc(d, s)) /\ GrownKept(d, Calc(d, s))
  BY <1>1, CalcRight
<1> QED BY <1>1, <1>2 DEF Ready, GrownKept

LEMMA GrownKeptOrder ==
    /\ \A a : GrownKept(a, a)
    /\ \A a, b, c : GrownKept(a, b) /\ GrownKept(b, c) => GrownKept(a, c)
BY DEF GrownKept, Same, AsSet

\* Whatever order the symbols are asked for in, in the end each of them is right, and
\* what was calculated before stays.
LEMMA CompletedRight ==
    ASSUME NEW d \in Ready, NEW order \in Seq(Syms), Range(order) = Syms
    PROVE  LET f == AllCalculated(d, order)
           IN  f \in Ready /\ Valids(f) = Syms /\ GrownKept(d, f)
<1> DEFINE n == Len(order)
           do == [i \in 1..n |-> [u \in Dbs |-> Calc(u, order[i])]]
           G == [k \in 0..n |-> {u \in Ready : GrownKept(d, u) /\ \A i \in 1..k : order[i] \in Valids(u)}]
           f == AllCalculated(d, order)
<1>1. n \in Nat /\ \A i \in 1..n : order[i] \in Syms
  BY LenProperties, ElementOfSeq
<1>2. f = Repeated(n, do, d)
  BY DEF AllCalculated, Each
<1>3. d \in G[0]
  <2>1. 0 \in 0..n
    BY <1>1
  <2> QED BY <2>1, GrownKeptOrder
<1>4. ASSUME NEW k \in 1..n, NEW u \in G[k - 1]
      PROVE  do[k][u] \in G[k]
  <2>1. k - 1 \in 0..n /\ k \in 0..n /\ k \in Nat
    BY <1>1
  <2>2. u \in Ready /\ GrownKept(d, u) /\ \A i \in 1..(k - 1) : order[i] \in Valids(u)
    BY <2>1
  <2>3. u \in Dbs
    BY <2>2 DEF Ready, Begins, Sound
  <2> DEFINE e == Calc(u, order[k])
  <2>4. do[k][u] = e
    BY <2>3
  <2>5. e \in Ready /\ order[k] \in Valids(e) /\ GrownKept(u, e)
    BY <1>1, <2>2, CalcReady
  <2> HIDE DEF e, do
  <2>6. \A i \in 1..k : order[i] \in Valids(e)
    <3>1. \A i \in 1..k : i = k \/ i \in 1..(k - 1)
      BY <2>1
    <3> QED BY <2>2, <2>5, <3>1 DEF GrownKept
  <2>7. GrownKept(d, e)
    BY <2>2, <2>5, GrownKeptOrder
  <2> QED BY <2>1, <2>4, <2>5, <2>6, <2>7
<1> HIDE DEF do, G, f, n
<1>5. f \in G[n]
  BY <1>1, <1>2, <1>3, <1>4, LoopSteps
<1>6. f \in Ready /\ GrownKept(d, f) /\ \A i \in 1..n : order[i] \in Valids(f)
  <2>1. n \in 0..n
    BY <1>1
  <2> QED BY <1>5, <2>1 DEF G
<1>7. Syms \subseteq Valids(f)
  <2>1. \A x \in Syms : \E i \in 1..n : x = order[i]
    BY LenProperties DEF Range, n
  <2> QED BY <1>6, <2>1
<1>8. Valids(f) = Syms
  BY <1>7 DEF Valids
<1> QED BY <1>6, <1>8 DEF f

LEMMA FreshRight ==
    ASSUME NEW d \in Sound, NEW order \in Seq(Syms), Range(order) = Syms
    PROVE  /\ Fresh(d, order) \in Sound
           /\ Valids(Fresh(d, order)) = Syms
           /\ Good(Syms, Fresh(d, order))
           /\ AsSet(d, Fresh(d, order))
<1> DEFINE start == ClearAllValid(d)
           f == Fresh(d, order)
<1>1. start \in Ready /\ AsSet(d, start)
  BY ClearReady
<1>2. f \in Ready /\ Valids(f) = Syms /\ GrownKept(start, f)
  BY <1>1, CompletedRight DEF Fresh
<1> HIDE DEF start, f
<1>3. AsSet(d, f)
  BY <1>1, <1>2 DEF GrownKept, Same, AsSet
<1> QED BY <1>2, <1>3 DEF Ready, Begins, f

\* Of values as they are promoted.
LEMMA PromotedOrder ==
    ASSUME NEW b \in BOOLEAN, NEW v \in Tristate, NEW r \in Tristate, NEW l \in Tristate, NEW h \in Tristate
    PROVE  /\ r = Promoted(l, b) => Promoted(OrT(v, r), b) >= r
           /\ v <= Promoted(h, b) /\ r <= l => Promoted(OrT(v, r), b) <= Promoted(OrT(l, h), b)
BY DEF Promoted, OrT, Tristate, no, mod, yes

\* One symbol of a database in which all are right.
LEMMA AllRight ==
    ASSUME NEW f \in Sound, Good(Syms, f), NEW s \in Syms
    PROVE  /\ {f.sym[s].tri, f.sym[s].vis, f.sym[s].rev} \subseteq Tristate
           /\ PromptValue(f, s) \in Tristate
           /\ f.sym[s].vis = Promoted(PromptValue(f, s), s \in Tris /\ f.modval # no)
           /\ IF IsChoiceVal(s) THEN f.sym[s].rev = no
              ELSE f.sym[s].rev = Promoted(Value(TrisOf(f), RevDep[s]), NowTristate(f, s))
           /\ Given1(f, s)
           /\ Chosen(Syms, f, s)
<1>1. Done(Syms, f, s)
  BY DEF Good
<1>2. {f.sym[s].tri, f.sym[s].vis, f.sym[s].rev} \subseteq Tristate
  BY DbParts DEF Sound
<1>3. PromptValue(f, s) \in Tristate
  <2>1. no \in Tristate
    BY DEF Tristate
  <2> QED BY <2>1, ExprOf, TrisType, ValueType DEF PromptValue
<1> QED BY <1>1, <1>2, <1>3, SoundParts DEF Done, Seen1, Pulled

LEMMA OnePickedRight ==
    ASSUME NEW f \in Sound, Good(Syms, f)
    PROVE  OnePicked(f)
<1>1. SUFFICES ASSUME NEW c \in Syms, IsChoice(c)
               PROVE  LET picked == f.sym[c].sel
                          on     == {x \in Range(Members[c]) : f.sym[x].tri = yes}
                      IN  /\ on \subseteq {picked}
                          /\ picked # Nobody => /\ f.sym[c].tri = yes
                                                /\ f.sym[picked].vis # no
                                                /\ (f.sym[picked].vis = yes => on = {picked})
  BY DEF OnePicked
<1> DEFINE picked == f.sym[c].sel
<1>2. ASSUME NEW x \in Range(Members[c])
      PROVE  /\ x \in Syms /\ IsChoiceVal(x) /\ ChoiceOf[x] = c
             /\ MemberValue(f, x) = IF picked = x THEN yes ELSE no
             /\ Defaults[x] = <<>> /\ ~IsChoice(x)
  <2>1. x \in Syms /\ IsChoiceVal(x) /\ ChoiceOf[x] = c
    BY <1>2, MembersIn
  <2> QED BY <2>1, ChoiceNotValue DEF MemberValue
<1>3. ASSUME NEW x \in Range(Members[c]), f.sym[x].tri = yes
      PROVE  x = picked
  <2>1. x \in Syms /\ IsChoiceVal(x)
    BY <1>2
  <2>2. CASE f.sym[x].vis = yes
    <3>1. f.sym[x].tri = MemberValue(f, x)
      BY <2>1, <2>2, AllRight DEF Given1
    <3> QED BY <1>2, <1>3, <3>1 DEF no, yes
  <2>3. CASE f.sym[x].vis # yes
    <3>1. PICK v \in Tristate : f.sym[x].tri = Promoted(OrT(v, no), NowTristate(f, x)) /\ v <= f.sym[x].vis
      BY <1>2, <2>1, <2>3, AllRight DEF Given1
    <3>2. /\ f.sym[x].vis \in Tristate /\ PromptValue(f, x) \in Tristate
          /\ f.sym[x].vis = Promoted(PromptValue(f, x), x \in Tris /\ f.modval # no)
      BY <2>1, AllRight
    <3>3. NowTristate(f, x) <=> x \in Tris /\ f.modval # no
      BY <2>3 DEF NowTristate
    <3>4. v \in {no, mod, yes} /\ v <= f.sym[x].vis /\ f.sym[x].vis \in {no, mod}
      BY <2>3, <3>1, <3>2 DEF Tristate
    <3>5. CASE v = no
      BY <1>3, <3>1, <3>5 DEF Promoted, OrT, no, mod, yes
    <3>6. CASE v # no
      <4>1. v = mod /\ f.sym[x].vis = mod
        BY <3>4, <3>6 DEF no, mod, yes
      <4>2. NowTristate(f, x)
        BY <3>2, <3>3, <4>1 DEF Promoted, no, mod, yes
      <4> QED BY <1>3, <3>1, <4>1, <4>2 DEF Promoted, OrT, no, mod, yes
    <3> QED BY <3>5, <3>6
  <2> QED BY <2>2, <2>3
<1>4. ASSUME picked # Nobody
      PROVE  /\ f.sym[c].tri = yes
             /\ f.sym[picked].vis # no
             /\ f.sym[picked].vis = yes => picked \in Range(Members[c]) /\ f.sym[picked].tri = yes
  <2>1. picked \in Range(Members[c]) /\ picked \in Syms
    BY <1>2, <1>4, SoundParts DEF OwnValues
  <2>2. f.sym[c].tri = yes /\ CanBeSeen(Syms, f, picked)
    BY <1>4, AllRight DEF Chosen
  <2>3. PromptValue(f, picked) # no
    BY <2>2 DEF CanBeSeen, PromptValue
  <2>4. f.sym[picked].vis # no
    BY <2>1, <2>3, AllRight, PromotedType
  <2>5. f.sym[picked].vis = yes => f.sym[picked].tri = MemberValue(f, picked)
    BY <1>2, <2>1, AllRight DEF Given1
  <2> QED BY <1>2, <2>1, <2>2, <2>4, <2>5
<1> QED BY <1>3, <1>4

LEMMA BoundsRight ==
    ASSUME NEW f \in Sound, Good(Syms, f)
    PROVE  Bounds(f)
<1> DEFINE low(s)  == Promoted(Value(TrisOf(f), RevDep[s]), NowTristate(f, s))
           high(s) == IF Prompt[s] = NoPrompt THEN no ELSE Value(TrisOf(f), Prompt[s])
<1>1. SUFFICES ASSUME NEW s \in Syms
               PROVE  /\ ~IsChoiceVal(s) => f.sym[s].tri >= low(s) \/ (IsChoice(s) /\ f.sym[s].tri = no)
                      /\ Defaults[s] = <<>> => f.sym[s].tri <= Promoted(OrT(low(s), high(s)), NowTristate(f, s))
  BY DEF Bounds
<1> DEFINE l == low(s)
           h == PromptValue(f, s)
           b == NowTristate(f, s)
           t == f.sym[s].tri
           r == f.sym[s].rev
           vis == f.sym[s].vis
<1>2. h = high(s)
  BY DEF PromptValue
<1>3. /\ {t, vis, r} \subseteq Tristate /\ h \in Tristate /\ vis = Promoted(h, s \in Tris /\ f.modval # no)
      /\ IF IsChoiceVal(s) THEN r = no ELSE r = l
      /\ Given1(f, s)
  BY AllRight
<1>4. b \in BOOLEAN /\ l \in Tristate
  <2>1. Value(TrisOf(f), RevDep[s]) \in Tristate
    BY ExprOf, TrisType, ValueType
  <2> QED BY <2>1, PromotedType, NowTristateType, DbParts DEF Sound
<1>5. CASE IsChoiceVal(s) /\ vis = yes
  <2>1. t \in {no, yes}
    BY <1>3, <1>5 DEF Given1, MemberValue
  <2>2. b <=> s \in Tris /\ FALSE
    BY <1>5 DEF NowTristate
  <2>3. Promoted(OrT(l, h), b) = yes
    <3>1. h # no
      BY <1>3, <1>5 DEF Promoted, no, mod, yes
    <3>2. ~b
      BY <2>2
    <3> HIDE DEF l, h, b
    <3> QED BY <1>3, <1>4, <3>1, <3>2 DEF Promoted, OrT, Tristate, no, mod, yes
  <2> HIDE DEF l, b
  <2> QED BY <1>2, <1>5, <2>1, <2>3 DEF no, yes, l, b
<1>6. CASE ~(IsChoiceVal(s) /\ vis = yes) /\ IsChoice(s) /\ t = no
  <2>1. Promoted(OrT(l, h), b) \in Tristate
    BY <1>3, <1>4, PromotedType, TristateClosed
  <2>2. no <= Promoted(OrT(l, h), b)
    BY <2>1 DEF Tristate, no, mod, yes
  <2> QED BY <1>2, <1>6, <2>2
<1>7. CASE ~(IsChoiceVal(s) /\ vis = yes) /\ ~(IsChoice(s) /\ t = no)
  <2>1. PICK v \in Tristate : t = Promoted(OrT(v, r), b) /\ (Defaults[s] = <<>> => v <= vis)
    BY <1>3, <1>7 DEF Given1
  <2>2. b = (s \in Tris /\ f.modval # no)
    BY <1>7 DEF NowTristate
  <2>3. r \in Tristate /\ r <= l /\ (~IsChoiceVal(s) => r = l)
    <3>1. no <= l
      BY <1>4 DEF Tristate, no, mod, yes
    <3>2. l <= l
      BY <1>4 DEF Tristate, no, mod, yes
    <3> QED BY <1>3, <3>1, <3>2
  <2>4. vis = Promoted(h, b)
    BY <1>3, <2>2
  <2> DEFINE raw == Value(TrisOf(f), RevDep[s])
  <2>5. raw \in Tristate /\ l = Promoted(raw, b)
    BY ExprOf, TrisType, ValueType
  <2> HIDE DEF l, h, b, t, r, vis, raw
  <2>6. ~IsChoiceVal(s) => t >= l
    BY <1>4, <2>1, <2>3, <2>5, PromotedOrder
  <2>7. Defaults[s] = <<>> => t <= Promoted(OrT(l, h), b)
    BY <1>3, <1>4, <2>1, <2>3, <2>4, PromotedOrder
  <2>8. h = high(s) /\ l = low(s) /\ b = NowTristate(f, s) /\ t = f.sym[s].tri
    BY <1>2 DEF l, b, t, h
  <2> QED BY <2>6, <2>7, <2>8
<1> QED BY <1>5, <1>6, <1>7

(***************************************************************************)
(* There is only one such database for what the user has set.              *)
(***************************************************************************)
Alike(a, b, s) == /\ b.sym[s].tri = a.sym[s].tri /\ b.sym[s].sel = a.sym[s].sel
                  /\ b.sym[s].vis = a.sym[s].vis /\ b.sym[s].rev = a.sym[s].rev

LEMMA OwnSaysOne ==
    ASSUME NEW D, NEW d, NEW s \in Syms, NEW v, NEW w, OwnSays(D, d, s, v), OwnSays(D, d, s, w)
    PROVE  v = w
<1> DEFINE n == Len(Defaults[s])
           V(i) == AndT(Value(TrisOf(d), Defaults[s][i].value), Value(TrisOf(d), Defaults[s][i].cond))
<1>1. SUFFICES ASSUME DefaultSays(D, d, s, v), DefaultSays(D, d, s, w)
               PROVE  v = w
  BY DEF OwnSays
<1>2. n \in Nat
  BY ExprOf
<1>3. ASSUME NEW u
      PROVE  DefaultSays(D, d, s, u) <=>
                 \/ \E i \in 1..n : FirstHolds(D, d, s, i) /\ Needs(Defaults[s][i].value) \subseteq D /\ u = V(i)
                 \/ NoDefault(D, d, s, n) /\ u = no
  BY DEF DefaultSays
<1>4. \A i \in 1..n : FirstHolds(D, d, s, i) => ~NoDefault(D, d, s, n)
  BY DEF FirstHolds, NoDefault
<1>5. ASSUME NEW i \in 1..n, NEW j \in 1..n, FirstHolds(D, d, s, i), FirstHolds(D, d, s, j)
      PROVE  i = j
  <2>1. ASSUME NEW k \in 1..n, NEW m \in 1..n, FirstHolds(D, d, s, k), FirstHolds(D, d, s, m)
        PROVE  ~(k < m)
    <3>1. SUFFICES ASSUME k < m
                   PROVE  FALSE
      OBVIOUS
    <3>2. k \in 1..(m - 1)
      BY <1>2, <3>1
    <3> QED BY <2>1, <3>2 DEF FirstHolds, NoDefault
  <2>2. ~(i < j) /\ ~(j < i)
    BY <1>5, <2>1
  <2> QED BY <1>2, <2>2
<1> HIDE DEF V, n
<1> QED BY <1>1, <1>3, <1>4, <1>5

LEMMA FoundOf ==
    ASSUME NEW D, NEW d \in Sound, NEW s \in Syms, IsChoice(s), NEW k \in 0..Len(Candidates(d, s)), NEW x,
           FoundAmong(D, d, s, k, x), NEW A, CondNeeds(s) \subseteq A,
           \A y \in Range(Members[s]) : PromptNeeds(y) \subseteq A
    PROVE  FoundAmong(D \intersect A, d, s, k, x)
<1> DEFINE ps == Candidates(d, s)
           E == D \intersect A
<1>1. Len(ps) \in Nat
  BY CandidateParts DEF Sound
<1>2. \A j \in 1..k : j \in 1..Len(ps) /\ \A m \in 1..(j - 1) : m \in 1..Len(ps)
  BY <1>1
<1>3. \A i \in 1..Len(ps) : Needs(ps[i].cond) \subseteq A /\ PromptNeeds(ps[i].value.s) \subseteq A
  BY CandidatesOf
<1> HIDE DEF ps
<1>4. \A i \in 1..Len(ps) : /\ Hits(D, d, s, ps[i]) => Hits(E, d, s, ps[i])
                            /\ Misses(D, d, s, ps[i]) => Misses(E, d, s, ps[i])
  BY <1>3 DEF Hits, Misses
<1>5. CASE x = Nobody /\ \A j \in 1..k : Misses(D, d, s, ps[j])
  BY <1>2, <1>4, <1>5 DEF FoundAmong, ps
<1>6. ASSUME NEW i \in 1..k, x = ps[i].value.s, Hits(D, d, s, ps[i]),
             \A j \in 1..(i - 1) : Misses(D, d, s, ps[j])
      PROVE  FoundAmong(E, d, s, k, x)
  <2>1. Hits(E, d, s, ps[i]) /\ \A j \in 1..(i - 1) : Misses(E, d, s, ps[j])
    BY <1>2, <1>4, <1>6
  <2> QED BY <1>6, <2>1 DEF FoundAmong, ps
<1> QED BY <1>5, <1>6 DEF FoundAmong, ps

LEMMA FoundOne ==
    ASSUME NEW D, NEW d, NEW s \in Syms, NEW k \in Nat, NEW x, NEW y,
           FoundAmong(D, d, s, k, x), FoundAmong(D, d, s, k, y)
    PROVE  x = y
<1> DEFINE ps == Candidates(d, s)
           hit(i) == Hits(D, d, s, ps[i])
           miss(i) == Misses(D, d, s, ps[i])
           winner(i) == hit(i) /\ \A j \in 1..(i - 1) : miss(j)
<1>1. \A i : ~(hit(i) /\ miss(i))
  BY DEF Hits, Misses
<1>2. ASSUME NEW z
      PROVE  FoundAmong(D, d, s, k, z) <=> \/ z = Nobody /\ \A j \in 1..k : miss(j)
                                           \/ \E i \in 1..k : z = ps[i].value.s /\ winner(i)
  BY DEF FoundAmong
<1> HIDE DEF ps, hit, miss
<1>3. \A i \in 1..k, j \in 1..k : winner(i) /\ winner(j) => i = j
  <2>1. ASSUME NEW i \in 1..k, NEW j \in 1..k, winner(i), winner(j)
        PROVE  ~(i < j)
    <3>1. i < j => i \in 1..(j - 1)
      OBVIOUS
    <3> QED BY <1>1, <2>1, <3>1
  <2> HIDE DEF winner
  <2> QED BY <2>1
<1>4. \A i \in 1..k : winner(i) => ~\A j \in 1..k : miss(j)
  BY <1>1
<1> HIDE DEF winner
<1> QED BY <1>2, <1>3, <1>4

\* Two databases in which all is right.
BothRight(a, b) == a \in Sound /\ b \in Sound /\ Good(Syms, a) /\ Good(Syms, b)

LEMMA OwnSaysSame ==
    ASSUME NEW a \in Sound, NEW b \in Sound, NEW s \in Syms, SetAt(a, b, s),
           \A x \in Ahead(s) : b.sym[x].tri = a.sym[x].tri, b.sym[s].vis = a.sym[s].vis,
           NEW v, NEW w, OwnSays(Syms, a, s, v), OwnSays(Syms, b, s, w)
    PROVE  w = v
<1> DEFINE D == Syms \intersect Ahead(s)
<1>1. ~IsChoice(s) => DefaultNeeds(s) \subseteq Ahead(s)
  BY AheadFacts
<1>2. OwnSays(D, a, s, v)
  BY <1>1, OwnSaysOf
<1>3. D \subseteq Syms /\ \A y \in D : b.sym[y].tri = a.sym[y].tri
  OBVIOUS
<1> HIDE DEF D
<1>4. OwnSays(Syms, b, s, v)
  BY <1>2, <1>3, OwnSaysCarries
<1> QED BY <1>4, OwnSaysOne

LEMMA FoundSame ==
    ASSUME NEW a \in Sound, NEW b \in Sound, NEW s \in Syms, SetAt(a, b, s), IsChoice(s),
           \A x \in Ahead(s) : b.sym[x].tri = a.sym[x].tri, NEW x, NEW y,
           FoundAmong(Syms, a, s, Len(Candidates(a, s)), x), FoundAmong(Syms, b, s, Len(Candidates(b, s)), y)
    PROVE  y = x
<1> DEFINE A == Ahead(s) \union {s}
           D == Syms \intersect A
           k == Len(Candidates(a, s))
<1>1. k \in Nat /\ k \in 0..Len(Candidates(a, s))
  BY CandidateParts DEF Sound
<1>2. CondNeeds(s) \subseteq A /\ \A z \in Range(Members[s]) : PromptNeeds(z) \subseteq A
  BY AheadFacts
<1>3. D \subseteq Syms /\ \A z \in D \ {s} : b.sym[z].tri = a.sym[z].tri
  OBVIOUS
<1>4. Candidates(b, s) = Candidates(a, s)
  BY DEF Candidates, SetAt
<1> HIDE DEF A, k
<1>5. FoundAmong(D, a, s, k, x)
  BY <1>1, <1>2, FoundOf DEF k
<1> HIDE DEF D
<1>6. FoundAmong(Syms, b, s, k, x)
  BY <1>1, <1>3, <1>5, FoundCarries
<1>7. FoundAmong(Syms, b, s, k, y)
  BY <1>4 DEF k
<1> QED BY <1>1, <1>6, <1>7, FoundOne

\* What is calculated of a symbol comes from what is ahead of it, and there is only one:
\* its visibility and its selects,
LEMMA SeenSame ==
    ASSUME NEW a, NEW b, BothRight(a, b), NEW s \in Syms,
           \A x \in Ahead(s) : b.sym[x].tri = a.sym[x].tri, s \in Tris => b.modval = a.modval
    PROVE  /\ b.sym[s].vis = a.sym[s].vis /\ b.sym[s].rev = a.sym[s].rev
           /\ NowTristate(b, s) = NowTristate(a, s)
<1>1. a \in Sound /\ b \in Sound /\ Done(Syms, a, s) /\ Done(Syms, b, s)
  BY DEF BothRight, Good
<1>2. \A x \in Ahead(s) : b.sym[x].tri = a.sym[x].tri
  OBVIOUS
<1>3. PromptNeeds(s) \subseteq Ahead(s) /\ Needs(RevDep[s]) \subseteq Ahead(s)
  BY AheadFacts
<1>4. b.sym[s].vis = a.sym[s].vis
  <2>1. PromptValue(b, s) = PromptValue(a, s)
    <3>1. CASE Prompt[s] = NoPrompt
      BY <3>1 DEF PromptValue
    <3>2. CASE Prompt[s] # NoPrompt
      BY <1>1, <1>2, <1>3, <3>2, ExprOf, ValueAgrees DEF PromptNeeds, PromptValue
    <3> QED BY <3>1, <3>2
  <2> QED BY <1>1, <2>1 DEF Done, Seen1
<1>5. NowTristate(b, s) = NowTristate(a, s)
  BY <1>4 DEF NowTristate
<1>6. b.sym[s].rev = a.sym[s].rev
  <2>1. CASE IsChoiceVal(s)
    BY <1>1, <2>1, SoundParts
  <2>2. CASE ~IsChoiceVal(s)
    <3>1. Value(TrisOf(b), RevDep[s]) = Value(TrisOf(a), RevDep[s])
      BY <1>1, <1>2, <1>3, ExprOf, ValueAgrees
    <3> QED BY <1>1, <1>5, <2>2, <3>1 DEF Done, Pulled
  <2> QED BY <2>1, <2>2
<1> QED BY <1>4, <1>5, <1>6

\* and its value, for the same of the user's.
LEMMA NextSame ==
    ASSUME NEW a, NEW b, BothRight(a, b), NEW s \in Syms, SetAt(a, b, s),
           \A x \in Ahead(s) : Alike(a, b, x), s \in Tris => b.modval = a.modval
    PROVE  Alike(a, b, s)
<1>1. a \in Sound /\ b \in Sound /\ SetAt(a, b, s) /\ Done(Syms, a, s) /\ Done(Syms, b, s)
  BY DEF BothRight, Good
<1>2. \A x \in Ahead(s) : b.sym[x].tri = a.sym[x].tri
  BY DEF Alike
<1>3. b.sym[s].vis = a.sym[s].vis /\ b.sym[s].rev = a.sym[s].rev /\ NowTristate(b, s) = NowTristate(a, s)
  BY <1>2, SeenSame
<1>4. b.sym[s].vis = a.sym[s].vis
  BY <1>3
<1>5. NowTristate(b, s) = NowTristate(a, s)
  BY <1>3
<1>6. b.sym[s].rev = a.sym[s].rev
  BY <1>3
<1>7. CASE IsChoiceVal(s) /\ a.sym[s].vis = yes
  <2>1. ChoiceOf[s] \in Ahead(s)
    BY <1>7, ChoiceNotValue DEF Ahead, Node
  <2>2. b.sym[s].tri = a.sym[s].tri
    BY <1>1, <1>4, <1>7, <2>1 DEF Done, Given1, MemberValue, Alike
  <2>3. OwnValues(s) = {Nobody}
    BY <1>7, MembersIn, ChoiceNotValue DEF OwnValues
  <2> QED BY <1>1, <1>4, <1>6, <2>2, <2>3, SoundParts DEF Alike
<1>8. CASE ~(IsChoiceVal(s) /\ a.sym[s].vis = yes)
  <2>1. PICK v \in Tristate : /\ OwnSays(Syms, a, s, v)
                             /\ Comes(Syms, a, s, Promoted(OrT(v, a.sym[s].rev), NowTristate(a, s)))
    BY <1>1, <1>8 DEF Done, Exact
  <2>2. PICK w \in Tristate : /\ OwnSays(Syms, b, s, w)
                             /\ Comes(Syms, b, s, Promoted(OrT(w, b.sym[s].rev), NowTristate(b, s)))
    BY <1>1, <1>4, <1>8 DEF Done, Exact
  <2>3. w = v
    BY <1>1, <1>2, <1>4, <2>1, <2>2, OwnSaysSame
  <2> DEFINE t == Promoted(OrT(v, a.sym[s].rev), NowTristate(a, s))
  <2>4. Comes(Syms, a, s, t) /\ Comes(Syms, b, s, t)
    BY <1>5, <1>6, <2>1, <2>2, <2>3
  <2> HIDE DEF t
  <2>5. CASE IsChoice(s) /\ t = yes
    <3>1. /\ FoundAmong(Syms, a, s, Len(Candidates(a, s)), a.sym[s].sel)
          /\ FoundAmong(Syms, b, s, Len(Candidates(b, s)), b.sym[s].sel)
          /\ a.sym[s].tri = IF a.sym[s].sel = Nobody THEN no ELSE yes
          /\ b.sym[s].tri = IF b.sym[s].sel = Nobody THEN no ELSE yes
      BY <2>4, <2>5 DEF Comes
    <3>2. b.sym[s].sel = a.sym[s].sel
      BY <1>1, <1>2, <2>5, <3>1, FoundSame
    <3> QED BY <1>4, <1>6, <3>1, <3>2 DEF Alike
  <2>6. CASE ~(IsChoice(s) /\ t = yes)
    BY <1>4, <1>6, <2>4, <2>6 DEF Comes, Alike
  <2> QED BY <2>5, <2>6
<1> QED BY <1>7, <1>8

\* No first one to differ, in a set that is closed.
LEMMA AgreeIn ==
    ASSUME NEW a, NEW b, BothRight(a, b), NEW Z \in SUBSET Syms, \A s \in Z : Ahead(s) \subseteq Z /\ SetAt(a, b, s),
           \A s \in Z : s \in Tris => b.modval = a.modval
    PROVE  \A s \in Z : Alike(a, b, s)
<1> DEFINE Bad == {s \in Z : ~Alike(a, b, s)}
           NS == {Node(s) : s \in Bad}
<1>1. SUFFICES ASSUME Bad # {}
               PROVE  FALSE
  OBVIOUS
<1>2. PICK m \in NS : Uses(m) \intersect NS = {}
  <2>1. NS # {}
    BY <1>1
  <2>2. NS \subseteq {Node(s) : s \in Syms}
    OBVIOUS
  <2> HIDE DEF NS
  <2> QED BY <2>1, <2>2, NoCircleAssumption
<1>3. PICK z \in Bad : Node(z) = m
  BY <1>2
<1>4. z \in Syms /\ m \in Syms /\ Node(m) = m
  BY <1>3, NodesInSyms
<1>5. ASSUME NEW x \in Z, Node(x) \in Uses(m)
      PROVE  Alike(a, b, x)
  BY <1>2, <1>5
<1>6. m \in Z
  <2>1. m # z => m \in Ahead(z)
    BY <1>3, <1>4 DEF Ahead
  <2> QED BY <1>3, <2>1
<1>7. Alike(a, b, m)
  <2>1. \A x \in Ahead(m) : x \in Z /\ Node(x) \in Uses(m)
    BY <1>4, <1>6 DEF Ahead
  <2> QED BY <1>4, <1>5, <1>6, <2>1, NextSame
<1>8. Alike(a, b, z)
  <2>1. \A x \in Ahead(z) : x \in Z /\ (Node(x) \in Uses(m) \/ x = m)
    BY <1>3 DEF Ahead
  <2>2. \A x \in Ahead(z) : Alike(a, b, x)
    BY <1>5, <1>7, <2>1
  <2> QED BY <1>3, <1>4, <2>2, NextSame
<1> QED BY <1>3, <1>8

LEMMA AllAgree ==
    ASSUME NEW a, NEW b, BothRight(a, b), AsSet(a, b)
    PROVE  b.modval = a.modval /\ \A s \in Syms : Alike(a, b, s)
<1>1. Kernel \in SUBSET Syms /\ ModulesSym \in Kernel /\ ModulesSym \in Syms
  BY KernelFacts, SymbolsAssumption DEF Syms
<1>2. \A s \in Kernel : Ahead(s) \subseteq Kernel /\ s \notin Tris /\ SetAt(a, b, s)
  BY <1>1, KernelFacts, AheadFacts, AsSetAt
<1>3. Alike(a, b, ModulesSym)
  BY <1>1, <1>2, AgreeIn
<1>4. b.modval = a.modval
  BY <1>1, <1>3 DEF BothRight, Good, Done, Modal, Alike
<1>5. \A s \in Syms : Ahead(s) \subseteq Syms /\ SetAt(a, b, s)
  BY AsSetAt DEF Ahead
<1> QED BY <1>4, <1>5, AgreeIn

\* What a symbol comes to is a function of what the user has set: whichever symbols are
\* asked for first, and whatever was calculated before, sym_calc_value leaves the same
\* value, choice, visibility and selects, and the same modules_val.
THEOREM FreshUnique ==
    ASSUME NEW d \in Sound, NEW e \in Sound, AsSet(d, e),
           NEW o1 \in Seq(Syms), Range(o1) = Syms, NEW o2 \in Seq(Syms), Range(o2) = Syms
    PROVE  /\ Fresh(e, o2).modval = Fresh(d, o1).modval
           /\ \A s \in Syms : Alike(Fresh(d, o1), Fresh(e, o2), s)
<1> DEFINE a == Fresh(d, o1)
           b == Fresh(e, o2)
<1>1. a \in Sound /\ Good(Syms, a) /\ AsSet(d, a)
  BY FreshRight
<1>2. b \in Sound /\ Good(Syms, b) /\ AsSet(e, b)
  BY FreshRight
<1> HIDE DEF a, b
<1>3. AsSet(a, b)
  BY <1>1, <1>2 DEF AsSet
<1>4. b.modval = a.modval /\ \A s \in Syms : Alike(a, b, s)
  BY <1>1, <1>2, <1>3, AllAgree DEF BothRight
<1> QED BY <1>4 DEF a, b

\* While what is kept is right, it is what calculating everything anew would give, in
\* whatever order the symbols are asked for (symbol.c sym_calc_value, SYMBOL_VALID).
THEOREM KeptIsFresh ==
    ASSUME NEW d \in Ready, NEW order \in Seq(Syms), Range(order) = Syms
    PROVE  /\ UpToDate(d, Fresh(d, order))
           /\ \A s \in Valids(d) : Alike(d, Fresh(d, order), s)
           /\ Fresh(d, order).modval = d.modval
<1> DEFINE a == AllCalculated(d, order)
           b == Fresh(d, order)
<1>1. d \in Sound /\ a \in Ready /\ Valids(a) = Syms /\ GrownKept(d, a)
  BY CompletedRight DEF Ready, Begins
<1>2. b \in Sound /\ Good(Syms, b) /\ AsSet(d, b)
  BY <1>1, FreshRight
<1> HIDE DEF a, b
<1>3. AsSet(a, b)
  BY <1>1, <1>2 DEF GrownKept, Same, AsSet
<1>4. b.modval = a.modval /\ \A s \in Syms : Alike(a, b, s)
  BY <1>1, <1>2, <1>3, AllAgree DEF BothRight, Ready, Begins
<1>5. \A s \in Valids(d) : Alike(d, b, s)
  BY <1>1, <1>4 DEF GrownKept, Same, Alike, Valids
<1>6. b.modval = d.modval
  BY <1>1, <1>4 DEF GrownKept, Same, Ready
<1>7. UpToDate(d, b)
  BY <1>5 DEF UpToDate, SameValue, Alike, Valids
<1> QED BY <1>5, <1>6, <1>7 DEF b

(***************************************************************************)
(* What looking at the entries leaves alone.                               *)
(***************************************************************************)
Stays(S, d, e) == e \in S /\ <<d, e>> \in Frames

LEMMA StaysOrder ==
    ASSUME NEW S \in {Dbs, Sound, Ready}
    PROVE  /\ S \subseteq Dbs
           /\ \A d \in S : Stays(S, d, d)
           /\ \A a, b, c : Stays(S, a, b) /\ Stays(S, b, c) => Stays(S, a, c)
BY FramesOrder DEF Sound, Ready, Begins, Stays

LEMMA CalcStaysReady ==
    ASSUME NEW S \in {Dbs, Sound, Ready}
    PROVE  /\ SymCalc \in Calcs /\ Leads(SymCalc, S, Syms, Frames)
           /\ \A d \in S, s \in Syms : Calc(d, s) \in S /\ <<d, Calc(d, s)>> \in Frames
<1>1. CASE S \in {Dbs, Sound}
  BY <1>1, CalcStays
<1>2. CASE S = Ready
  <2>1. \A d \in Ready, s \in Syms : Calc(d, s) \in Ready /\ <<d, Calc(d, s)>> \in Frames
    BY CalcReady, CalcStays DEF Ready, Begins
  <2>2. Leads(SymCalc, Ready, Syms, Frames)
    BY <2>1, StaysOrder DEF Leads, Calc, Stays
  <2> QED BY <1>2, <2>1, <2>2, CalcStays
<1> QED BY <1>1, <1>2

LEMMA EvalStays ==
    ASSUME NEW S \in {Dbs, Sound, Ready}, NEW d \in S, NEW e \in Exprs
    PROVE  /\ Eval(d, e) \in Results /\ Eval(d, e).val \in Tristate
           /\ Stays(S, d, Eval(d, e).d)
<1>1. SymCalc \in Calcs /\ Leads(SymCalc, S, Syms, Frames) /\ S \subseteq Dbs
  BY CalcStaysReady, StaysOrder
<1>2. Eval(d, e) \in Results
  BY <1>1, EvalRecursion DEF Eval
<1>3. Eval(d, e).d \in S /\ <<d, Eval(d, e).d>> \in Frames
  BY <1>1, NeedsParts, EvalLeads DEF Eval
<1> QED BY <1>2, <1>3 DEF Results, Stays

LEMMA KidsParts ==
    ASSUME NEW e \in Entries
    PROVE  /\ Kids[e] \in Seq(Entries) /\ Len(Kids[e]) \in Nat
           /\ \A i \in 1..Len(Kids[e]) : Kids[e][i] \in Entries /\ Kids[e][i] \in Range(Kids[e])
           /\ \A k \in Range(Kids[e]) : k \in Entries
           /\ <<>> \in Seq(Entries)
           /\ e \in Menus => MenuDep[e] \in Exprs
           /\ e \notin Menus => e \in Syms
<1>1. Kids[e] \in Seq(Entries) /\ (e \in Menus => MenuDep[e] \in Exprs)
  BY EntriesAssumption
<1>2. Len(Kids[e]) \in Nat /\ \A i \in 1..Len(Kids[e]) : Kids[e][i] \in Entries
  BY <1>1, LenProperties, ElementOfSeq
<1>3. DOMAIN Kids[e] = 1..Len(Kids[e])
  BY <1>1, LenProperties
<1> QED BY <1>1, <1>2, <1>3 DEF Range, Entries

\* menu_is_visible, at every depth.
CalmLook(look) ==
    /\ look \in [Dbs -> [Entries -> Looked]]
    /\ \A S \in {Dbs, Sound, Ready} : \A d \in S, e \in Entries : Stays(S, d, look[d][e].d)

\* Looking at some entries, one after the other, until one is seen.
LooksOver(S, d, r) == r \in Looked /\ Stays(S, d, r.d)

LEMMA VisibleByStays ==
    ASSUME NEW look, CalmLook(look), NEW S \in {Dbs, Sound, Ready}, NEW d \in S, NEW e \in Entries
    PROVE  LooksOver(S, d, VisibleBy(look, d, e))
<1>1. S \subseteq Dbs /\ Stays(S, d, d) /\ d \in Dbs
  BY StaysOrder
<1>2. CASE e \in Menus
  <2> DEFINE r == Eval(d, MenuDep[e])
  <2>1. r \in Results /\ Stays(S, d, r.d)
    BY <1>2, KidsParts, EvalStays
  <2>2. VisibleBy(look, d, e) = [d |-> r.d, val |-> r.val # no]
    BY <1>2 DEF VisibleBy
  <2> HIDE DEF r
  <2> QED BY <2>1, <2>2 DEF LooksOver, Looked, Results
<1>3. CASE e \notin Menus /\ Prompt[e] = NoPrompt
  <2>1. VisibleBy(look, d, e) = [d |-> d, val |-> FALSE]
    BY <1>3 DEF VisibleBy
  <2> QED BY <1>1, <2>1 DEF LooksOver, Looked
<1>4. CASE e \notin Menus /\ Prompt[e] # NoPrompt
  <2> DEFINE d1 == Calc(d, e)
             es == IF d1.sym[e].tri = no THEN <<>> ELSE Kids[e]
             n == Len(es)
             do == [i \in 1..n |-> [r \in Looked |-> IF r.val THEN r ELSE look[r.d][es[i]]]]
             start == [d |-> d1, val |-> d1.sym[e].vis # no]
             Fine == {r \in Looked : LooksOver(S, d, r)}
  <2>1. Stays(S, d, d1)
    BY <1>4, CalcStaysReady, KidsParts DEF Stays
  <2>2. VisibleBy(look, d, e) = Repeated(n, do, start)
    BY <1>4 DEF VisibleBy, Each
  <2> HIDE DEF d1
  <2>3. start \in Fine
    BY <1>1, <2>1 DEF Looked, LooksOver, Stays
  <2>4. es \in Seq(Entries) /\ n \in Nat /\ \A i \in 1..n : es[i] \in Entries
    <3>1. es \in Seq(Entries)
      BY KidsParts
    <3> HIDE DEF es
    <3> QED BY <3>1, LenProperties, ElementOfSeq
  <2> HIDE DEF es, n
  <2>5. ASSUME NEW i \in 1..n, NEW r \in Fine
        PROVE  do[i][r] \in Fine
    <3>1. do[i][r] = IF r.val THEN r ELSE look[r.d][es[i]]
      OBVIOUS
    <3> HIDE DEF do
    <3>2. CASE ~r.val
      <4>1. r.d \in S /\ r.d \in Dbs /\ es[i] \in Entries /\ Stays(S, d, r.d)
        BY <1>1, <2>4 DEF LooksOver, Stays
      <4>2. look[r.d][es[i]] \in Looked /\ Stays(S, r.d, look[r.d][es[i]].d)
        BY <4>1 DEF CalmLook
      <4>3. Stays(S, d, look[r.d][es[i]].d)
        BY <4>1, <4>2, StaysOrder
      <4> QED BY <3>1, <3>2, <4>2, <4>3 DEF LooksOver
    <3> QED BY <3>1, <3>2
  <2> HIDE DEF do, start, Fine
  <2>6. Repeated(n, do, start) \in Fine
    BY <2>3, <2>4, <2>5, LoopInvariant
  <2> QED BY <2>2, <2>6 DEF Fine
<1> QED BY <1>2, <1>3, <1>4

DeeperLook(look) == [d \in Dbs |-> [e \in Entries |-> VisibleBy(look, d, e)]]

LEMMA DeeperLookCalm ==
    ASSUME NEW look, CalmLook(look)
    PROVE  CalmLook(DeeperLook(look))
<1>1. ASSUME NEW S \in {Dbs, Sound, Ready}, NEW d \in S, NEW e \in Entries
      PROVE  LooksOver(S, d, DeeperLook(look)[d][e])
  <2>1. d \in Dbs
    BY StaysOrder
  <2>2. DeeperLook(look)[d][e] = VisibleBy(look, d, e)
    BY <2>1 DEF DeeperLook
  <2> QED BY <2>2, VisibleByStays
<1>2. ASSUME NEW d \in Dbs, NEW e \in Entries
      PROVE  VisibleBy(look, d, e) \in Looked
  BY VisibleByStays DEF LooksOver
<1>3. DeeperLook(look) \in [Dbs -> [Entries -> Looked]]
  BY <1>2 DEF DeeperLook
<1> QED BY <1>1, <1>3 DEF CalmLook, LooksOver

LEMMA VisibleAtDef ==
    \A n \in Nat : CalmLook(VisibleAt[n])
<1> DEFINE X == {look \in [Dbs -> [Entries -> Looked]] : CalmLook(look)}
           zero == [d \in Dbs |-> [e \in Entries |-> [d |-> d, val |-> FALSE]]]
           F == [look \in X |-> DeeperLook(look)]
           IsVisibleAt(g) == g = [n \in Nat |-> [d \in Dbs |-> [e \in Entries |->
                                  IF n = 0 THEN [d |-> d, val |-> FALSE] ELSE VisibleBy(g[n - 1], d, e)]]]
<1>1. zero \in X
  <2>1. \A d \in Dbs : [d |-> d, val |-> FALSE] \in Looked
    BY DEF Looked
  <2>2. zero \in [Dbs -> [Entries -> Looked]]
    BY <2>1
  <2>3. ASSUME NEW S \in {Dbs, Sound, Ready}, NEW d \in S, NEW e \in Entries
        PROVE  Stays(S, d, zero[d][e].d)
    <3>1. d \in Dbs /\ Stays(S, d, d)
      BY StaysOrder
    <3>2. zero[d][e] = [d |-> d, val |-> FALSE]
      BY <3>1
    <3> HIDE DEF zero
    <3> QED BY <3>1, <3>2
  <2> HIDE DEF zero
  <2> QED BY <2>2, <2>3 DEF CalmLook
<1>2. F \in [X -> X]
  BY DeeperLookCalm DEF CalmLook
<1> HIDE DEF X
<1>3. PICK g : IsTower(g, X, F, zero)
  BY <1>1, <1>2, TowerExists
<1>4. g \in [Nat -> X] /\ g = [n \in Nat |-> IF n = 0 THEN zero ELSE F[g[n - 1]]]
  BY <1>3 DEF IsTower
<1>5. IsVisibleAt(g)
  <2>1. ASSUME NEW n \in Nat
        PROVE  g[n] = [d \in Dbs |-> [e \in Entries |->
                          IF n = 0 THEN [d |-> d, val |-> FALSE] ELSE VisibleBy(g[n - 1], d, e)]]
    <3>1. CASE n = 0
      BY <1>4, <3>1
    <3>2. CASE n # 0
      <4>1. n - 1 \in Nat
        BY <3>2
      <4>2. g[n] = DeeperLook(g[n - 1])
        BY <1>4, <3>2, <4>1
      <4> QED BY <3>2, <4>2 DEF DeeperLook
    <3> QED BY <3>1, <3>2
  <2> HIDE DEF F, zero
  <2> QED BY <1>4, <2>1
<1>6. IsVisibleAt(VisibleAt)
  <2>1. VisibleAt = CHOOSE f : IsVisibleAt(f)
    BY DEF VisibleAt
  <2> HIDE DEF IsVisibleAt
  <2> QED BY <1>5, <2>1
<1>7. CalmLook(VisibleAt[0])
  <2>1. VisibleAt[0] = zero
    BY <1>6
  <2> HIDE DEF zero
  <2> QED BY <1>1, <2>1 DEF X
<1>8. ASSUME NEW n \in Nat, CalmLook(VisibleAt[n])
      PROVE  CalmLook(VisibleAt[n + 1])
  <2>1. n + 1 \in Nat /\ (n + 1) - 1 = n /\ n + 1 # 0
    OBVIOUS
  <2>2. VisibleAt[n + 1] = [d \in Dbs |-> [e \in Entries |->
            IF n + 1 = 0 THEN [d |-> d, val |-> FALSE] ELSE VisibleBy(VisibleAt[(n + 1) - 1], d, e)]]
    BY <1>6, <2>1
  <2>3. VisibleAt[n + 1] = DeeperLook(VisibleAt[n])
    BY <2>1, <2>2 DEF DeeperLook
  <2> QED BY <1>8, <2>3, DeeperLookCalm
<1> DEFINE A == {n \in Nat : CalmLook(VisibleAt[n])}
<1>9. 0 \in A /\ \A n \in Nat : n \in A => n + 1 \in A
  BY <1>7, <1>8
<1> HIDE DEF A
<1>10. \A n \in Nat : n \in A
  BY <1>9, Climb
<1> QED BY <1>10 DEF A

LEMMA HeightType ==
    Height \in Nat
BY EntriesAssumption, SymbolsAssumption, FS_Union, FS_CardinalityType DEF Height, Entries

LEMMA VisibleStays ==
    ASSUME NEW S \in {Dbs, Sound, Ready}, NEW d \in S, NEW e \in Entries
    PROVE  /\ Visible(d, e) \in Looked /\ Visible(d, e).val \in BOOLEAN
           /\ Stays(S, d, Visible(d, e).d)
<1>1. CalmLook(VisibleAt[Height]) /\ d \in Dbs
  BY HeightType, VisibleAtDef, StaysOrder
<1>2. VisibleAt[Height][d][e] \in Looked /\ Stays(S, d, VisibleAt[Height][d][e].d)
  BY <1>1 DEF CalmLook
<1> QED BY <1>2 DEF Visible, Looked

LEMMA LookAtAllStays ==
    ASSUME NEW S \in {Dbs, Sound, Ready}, NEW d \in S, NEW es \in Seq(Entries)
    PROVE  Stays(S, d, LookAtAll(d, es))
<1> DEFINE n == Len(es)
           do == [i \in 1..n |-> [u \in Dbs |-> Visible(u, es[i]).d]]
           Fine == {u \in Dbs : Stays(S, d, u)}
<1>1. LookAtAll(d, es) = Repeated(n, do, d)
  BY DEF LookAtAll, Each
<1>2. n \in Nat /\ \A i \in 1..n : es[i] \in Entries
  BY LenProperties, ElementOfSeq
<1>3. d \in Fine
  BY StaysOrder
<1>4. ASSUME NEW i \in 1..n, NEW u \in Fine
      PROVE  do[i][u] \in Fine
  <2>1. do[i][u] = Visible(u, es[i]).d
    OBVIOUS
  <2> HIDE DEF do
  <2>2. u \in S /\ es[i] \in Entries /\ Stays(S, d, u)
    BY <1>2 DEF Stays
  <2>3. Stays(S, u, Visible(u, es[i]).d)
    BY <2>2, VisibleStays
  <2>4. Stays(S, d, Visible(u, es[i]).d) /\ Visible(u, es[i]).d \in Dbs
    BY <2>2, <2>3, StaysOrder DEF Stays
  <2> QED BY <2>1, <2>4
<1> HIDE DEF do, n, Fine
<1>5. Repeated(n, do, d) \in Fine
  BY <1>2, <1>3, <1>4, LoopInvariant
<1> QED BY <1>1, <1>5 DEF Fine

(***************************************************************************)
(* What showing a menu leaves alone.                                       *)
(***************************************************************************)
BuildsOver(S, b, r) == r \in Screens /\ Stays(S, b.d, r.d)

\* build_conf, at every depth.
CalmBuild(build) ==
    /\ build \in [Screens -> [Entries -> [Menus -> Screens]]]
    /\ \A S \in {Dbs, Sound, Ready} : \A b \in Screens, e \in Entries, here \in Menus :
           b.d \in S => BuildsOver(S, b, build[b][e][here])

LEMMA BuildsOrder ==
    ASSUME NEW S \in {Dbs, Sound, Ready}
    PROVE  /\ \A b \in Screens : b.d \in S => BuildsOver(S, b, b)
           /\ \A a, b, c : BuildsOver(S, a, b) /\ BuildsOver(S, b, c) => BuildsOver(S, a, c)
BY StaysOrder DEF BuildsOver, Screens

LEMMA AddedOver ==
    ASSUME NEW S \in {Dbs, Sound, Ready}, NEW b \in Screens, NEW e \in Entries, NEW d, Stays(S, b.d, d), NEW ok
    PROVE  BuildsOver(S, b, Added(b, d, e, ok))
<1>1. d \in Dbs
  BY StaysOrder DEF Stays
<1> DEFINE more == IF ok THEN b.items \union {e} ELSE b.items
<1>2. more \subseteq Entries
  BY DEF Screens
<1>3. Added(b, d, e, ok) = [d |-> d, items |-> more]
  BY DEF Added
<1> HIDE DEF more
<1> QED BY <1>1, <1>2, <1>3 DEF BuildsOver, Screens

\* The entries of es, one after the other.
BelowOf(build, here, c, es) ==
    Repeated(Len(es), [i \in 1..Len(es) |-> [u \in Screens |-> build[u][es[i]][here]]], c)

LEMMA BelowStays ==
    ASSUME NEW build, CalmBuild(build), NEW here \in Menus, NEW S \in {Dbs, Sound, Ready},
           NEW b \in Screens, NEW c, BuildsOver(S, b, c), NEW es \in Seq(Entries)
    PROVE  BuildsOver(S, b, BelowOf(build, here, c, es))
<1> DEFINE n == Len(es)
           do == [i \in 1..n |-> [u \in Screens |-> build[u][es[i]][here]]]
           Fine == {u \in Screens : BuildsOver(S, b, u)}
<1>1. n \in Nat /\ \A i \in 1..n : es[i] \in Entries
  BY LenProperties, ElementOfSeq
<1>2. c \in Fine
  BY DEF BuildsOver
<1>3. ASSUME NEW i \in 1..n, NEW u \in Fine
      PROVE  do[i][u] \in Fine
  <2>1. do[i][u] = build[u][es[i]][here]
    OBVIOUS
  <2> HIDE DEF do
  <2>2. u \in Screens /\ u.d \in S /\ es[i] \in Entries /\ BuildsOver(S, b, u)
    BY <1>1 DEF BuildsOver, Stays
  <2>3. BuildsOver(S, u, build[u][es[i]][here])
    BY <2>2 DEF CalmBuild
  <2>4. BuildsOver(S, b, build[u][es[i]][here])
    BY <2>2, <2>3, BuildsOrder
  <2> QED BY <2>1, <2>4 DEF BuildsOver
<1>4. BelowOf(build, here, c, es) = Repeated(n, do, c)
  BY DEF BelowOf
<1> HIDE DEF do, n, Fine
<1>5. Repeated(n, do, c) \in Fine
  BY <1>1, <1>2, <1>3, LoopInvariant
<1> QED BY <1>4, <1>5 DEF Fine

LEMMA BuildEntryStays ==
    ASSUME NEW build, CalmBuild(build), NEW here \in Menus, NEW S \in {Dbs, Sound, Ready},
           NEW b \in Screens, b.d \in S, NEW e \in Entries, NEW v \in Looked, Stays(S, b.d, v.d)
    PROVE  BuildsOver(S, b, BuildEntry(build, b, e, here, v))
<1>1. \A ok : BuildsOver(S, b, Added(b, v.d, e, ok))
  BY AddedOver
<1>2. \A ok : \A es \in Seq(Entries) : BuildsOver(S, b, BelowOf(build, here, Added(b, v.d, e, ok), es))
  BY <1>1, BelowStays
<1>3. Kids[e] \in Seq(Entries) /\ <<>> \in Seq(Entries)
  BY KidsParts
<1>4. CASE ~v.val
  <2>1. BuildEntry(build, b, e, here, v) = Added(b, v.d, e, FALSE)
    BY <1>4 DEF BuildEntry
  <2> QED BY <1>1, <2>1
<1>5. CASE v.val /\ e = here
  <2>1. BuildEntry(build, b, e, here, v) = BelowOf(build, here, Added(b, v.d, e, FALSE), Kids[e])
    BY <1>5 DEF BuildEntry, BelowOf, Each
  <2> QED BY <1>2, <1>3, <2>1
<1>6. CASE v.val /\ e # here /\ e \in Menus
  <2>1. BuildEntry(build, b, e, here, v) = Added(b, v.d, e, TRUE)
    BY <1>6 DEF BuildEntry
  <2> QED BY <1>1, <2>1
<1>7. CASE v.val /\ e # here /\ e \notin Menus /\ IsChoice(e)
  <2> DEFINE shown == Picked(v.d, e)
             k == v.d.sym[e].sel
             below == IF v.d.sym[e].tri # yes THEN Kids[e] ELSE IF shown /\ Kids[k] # <<>> THEN <<k>> ELSE <<>>
  <2>1. BuildEntry(build, b, e, here, v) =
            BelowOf(build, here, Added(b, v.d, e, Changeable(v.d, e) \/ shown), below)
    BY <1>7 DEF BuildEntry, BelowOf, Each
  <2>2. below \in Seq(Entries)
    <3>1. CASE shown
      <4>1. k \in Range(Kids[e])
        BY <3>1 DEF Picked
      <4>2. k \in Entries
        BY <4>1, KidsParts
      <4> HIDE DEF k
      <4>3. <<k>> \in Seq(Entries)
        BY <4>2
      <4> QED BY <1>3, <4>3
    <3>2. CASE ~shown
      BY <1>3, <3>2
    <3> QED BY <3>1, <3>2
  <2> HIDE DEF shown, below
  <2> QED BY <1>2, <2>1, <2>2
<1>8. CASE v.val /\ e # here /\ e \notin Menus /\ ~IsChoice(e)
  <2>1. BuildEntry(build, b, e, here, v) =
            BelowOf(build, here, Added(b, v.d, e, ~(IsChoiceVal(e) /\ v.d.sym[e].tri = yes)), Kids[e])
    BY <1>8 DEF BuildEntry, BelowOf, Each
  <2> QED BY <1>2, <1>3, <2>1
<1>9. v.val \in BOOLEAN
  BY DEF Looked
<1> QED BY <1>4, <1>5, <1>6, <1>7, <1>8, <1>9

LEMMA BuildByStays ==
    ASSUME NEW build, CalmBuild(build), NEW here \in Menus, NEW S \in {Dbs, Sound, Ready},
           NEW b \in Screens, b.d \in S, NEW e \in Entries
    PROVE  BuildsOver(S, b, BuildBy(build, b, e, here))
<1> DEFINE v == Visible(b.d, e)
           w == LookedAt(v, e)
<1>1. v \in Looked /\ Stays(S, b.d, v.d)
  BY VisibleStays
<1> HIDE DEF v
<1>2. w \in Looked /\ Stays(S, b.d, w.d)
  <2>1. CASE v.val /\ e \in Syms /\ IsChoice(e)
    <3>1. Kids[e] \in Seq(Entries) /\ v.d \in S
      BY <1>1, KidsParts DEF Stays
    <3> DEFINE l == LookAtAll(v.d, Kids[e])
    <3>2. Stays(S, v.d, l)
      BY <3>1, LookAtAllStays
    <3>3. w = [v EXCEPT !.d = l]
      BY <2>1 DEF LookedAt
    <3> HIDE DEF l, w
    <3>4. Stays(S, b.d, l) /\ l \in Dbs
      BY <1>1, <3>2, StaysOrder DEF Stays
    <3> QED BY <1>1, <3>3, <3>4 DEF Looked
  <2>2. CASE ~(v.val /\ e \in Syms /\ IsChoice(e))
    BY <1>1, <2>2 DEF LookedAt
  <2> QED BY <2>1, <2>2
<1>3. BuildBy(build, b, e, here) = BuildEntry(build, b, e, here, w)
  BY DEF BuildBy, v
<1> HIDE DEF w
<1> QED BY <1>2, <1>3, BuildEntryStays

DeeperBuild(build) == [b \in Screens |-> [e \in Entries |-> [here \in Menus |-> BuildBy(build, b, e, here)]]]

LEMMA DeeperBuildCalm ==
    ASSUME NEW build, CalmBuild(build)
    PROVE  CalmBuild(DeeperBuild(build))
<1>1. ASSUME NEW S \in {Dbs, Sound, Ready}, NEW b \in Screens, b.d \in S, NEW e \in Entries, NEW here \in Menus
      PROVE  BuildsOver(S, b, DeeperBuild(build)[b][e][here])
  <2>1. DeeperBuild(build)[b][e][here] = BuildBy(build, b, e, here)
    BY DEF DeeperBuild
  <2> QED BY <1>1, <2>1, BuildByStays
<1>2. ASSUME NEW b \in Screens, NEW e \in Entries, NEW here \in Menus
      PROVE  BuildBy(build, b, e, here) \in Screens
  <2>1. b.d \in Dbs
    BY DEF Screens
  <2> QED BY <2>1, BuildByStays DEF BuildsOver
<1>3. DeeperBuild(build) \in [Screens -> [Entries -> [Menus -> Screens]]]
  BY <1>2 DEF DeeperBuild
<1> QED BY <1>1, <1>3 DEF CalmBuild

LEMMA BuildAtDef ==
    \A n \in Nat : CalmBuild(BuildAt[n])
<1> DEFINE X == {build \in [Screens -> [Entries -> [Menus -> Screens]]] : CalmBuild(build)}
           zero == [b \in Screens |-> [e \in Entries |-> [here \in Menus |-> b]]]
           F == [build \in X |-> DeeperBuild(build)]
           IsBuildAt(g) == g = [n \in Nat |-> [b \in Screens |-> [e \in Entries |-> [here \in Menus |->
                                    IF n = 0 THEN b ELSE BuildBy(g[n - 1], b, e, here)]]]]
<1>1. zero \in X
  <2>1. zero \in [Screens -> [Entries -> [Menus -> Screens]]]
    OBVIOUS
  <2>2. ASSUME NEW S \in {Dbs, Sound, Ready}, NEW b \in Screens, NEW e \in Entries, NEW here \in Menus, b.d \in S
        PROVE  BuildsOver(S, b, zero[b][e][here])
    <3>1. zero[b][e][here] = b
      OBVIOUS
    <3> HIDE DEF zero
    <3> QED BY <2>2, <3>1, BuildsOrder
  <2> HIDE DEF zero
  <2> QED BY <2>1, <2>2 DEF CalmBuild
<1>2. F \in [X -> X]
  BY DeeperBuildCalm DEF CalmBuild
<1> HIDE DEF X
<1>3. PICK g : IsTower(g, X, F, zero)
  BY <1>1, <1>2, TowerExists
<1>4. g \in [Nat -> X] /\ g = [n \in Nat |-> IF n = 0 THEN zero ELSE F[g[n - 1]]]
  BY <1>3 DEF IsTower
<1>5. IsBuildAt(g)
  <2>1. ASSUME NEW n \in Nat
        PROVE  g[n] = [b \in Screens |-> [e \in Entries |-> [here \in Menus |->
                          IF n = 0 THEN b ELSE BuildBy(g[n - 1], b, e, here)]]]
    <3>1. CASE n = 0
      BY <1>4, <3>1
    <3>2. CASE n # 0
      <4>1. n - 1 \in Nat
        BY <3>2
      <4>2. g[n] = DeeperBuild(g[n - 1])
        BY <1>4, <3>2, <4>1
      <4> QED BY <3>2, <4>2 DEF DeeperBuild
    <3> QED BY <3>1, <3>2
  <2> HIDE DEF F, zero
  <2> QED BY <1>4, <2>1
<1>6. IsBuildAt(BuildAt)
  <2>1. BuildAt = CHOOSE f : IsBuildAt(f)
    BY DEF BuildAt
  <2> HIDE DEF IsBuildAt
  <2> QED BY <1>5, <2>1
<1>7. CalmBuild(BuildAt[0])
  <2>1. BuildAt[0] = zero
    BY <1>6
  <2> HIDE DEF zero
  <2> QED BY <1>1, <2>1 DEF X
<1>8. ASSUME NEW n \in Nat, CalmBuild(BuildAt[n])
      PROVE  CalmBuild(BuildAt[n + 1])
  <2>1. n + 1 \in Nat /\ (n + 1) - 1 = n /\ n + 1 # 0
    OBVIOUS
  <2>2. BuildAt[n + 1] = [b \in Screens |-> [e \in Entries |-> [here \in Menus |->
            IF n + 1 = 0 THEN b ELSE BuildBy(BuildAt[(n + 1) - 1], b, e, here)]]]
    BY <1>6, <2>1
  <2>3. BuildAt[n + 1] = DeeperBuild(BuildAt[n])
    BY <2>1, <2>2 DEF DeeperBuild
  <2> QED BY <1>8, <2>3, DeeperBuildCalm
<1> DEFINE A == {n \in Nat : CalmBuild(BuildAt[n])}
<1>9. 0 \in A /\ \A n \in Nat : n \in A => n + 1 \in A
  BY <1>7, <1>8
<1> HIDE DEF A
<1>10. \A n \in Nat : n \in A
  BY <1>9, Climb
<1> QED BY <1>10 DEF A

LEMMA ShownStays ==
    ASSUME NEW S \in {Dbs, Sound, Ready}, NEW d \in S, NEW here \in Menus
    PROVE  Stays(S, d, Shown(d, here)) /\ Screen(d, here).items \subseteq Entries
<1> DEFINE b == [d |-> d, items |-> {}]
<1>1. b \in Screens /\ b.d = d /\ here \in Entries
  BY StaysOrder DEF Screens, Entries
<1>2. Screen(d, here) = BuildAt[Height][b][here][here]
  BY DEF Screen
<1> HIDE DEF b
<1>3. BuildsOver(S, b, Screen(d, here))
  BY <1>1, <1>2, HeightType, BuildAtDef DEF CalmBuild
<1> QED BY <1>1, <1>3 DEF Shown, BuildsOver, Screens

(***************************************************************************)
(* The order of the menu.                                                  *)
(***************************************************************************)
Orders == [Entries -> Seq(Entries)]
KidsOrder(o, e) ==
    Repeated(Len(Kids[e]), [i \in 1..Len(Kids[e]) |-> [u \in Seq(Entries) |-> u \o <<Kids[e][i]>> \o o[Kids[e][i]]]], <<>>)
DeeperOrder(o) == [e \in Entries |-> KidsOrder(o, e)]

LEMMA DeeperOrderType ==
    ASSUME NEW o \in Orders
    PROVE  DeeperOrder(o) \in Orders
<1>1. ASSUME NEW e \in Entries
      PROVE  KidsOrder(o, e) \in Seq(Entries)
  <2> DEFINE n == Len(Kids[e])
             do == [i \in 1..n |-> [u \in Seq(Entries) |-> u \o <<Kids[e][i]>> \o o[Kids[e][i]]]]
  <2>1. n \in Nat /\ (\A i \in 1..n : Kids[e][i] \in Entries) /\ <<>> \in Seq(Entries)
    BY KidsParts
  <2>2. ASSUME NEW i \in 1..n, NEW u \in Seq(Entries)
        PROVE  do[i][u] \in Seq(Entries)
    <3>1. do[i][u] = u \o <<Kids[e][i]>> \o o[Kids[e][i]]
      OBVIOUS
    <3>2. Kids[e][i] \in Entries /\ o[Kids[e][i]] \in Seq(Entries)
      BY <2>1 DEF Orders
    <3>3. <<Kids[e][i]>> \in Seq(Entries)
      BY <3>2
    <3>4. u \o <<Kids[e][i]>> \in Seq(Entries)
      BY <3>3, ConcatProperties
    <3> QED BY <3>1, <3>2, <3>4, ConcatProperties
  <2>3. KidsOrder(o, e) = Repeated(n, do, <<>>)
    BY DEF KidsOrder
  <2> HIDE DEF do, n
  <2>4. Repeated(n, do, <<>>) \in Seq(Entries)
    BY <2>1, <2>2, LoopInvariant
  <2> QED BY <2>3, <2>4
<1> QED BY <1>1 DEF DeeperOrder, Orders

LEMMA MenuOrderType ==
    MenuOrder \in Seq(Entries)
<1> DEFINE zero == [e \in Entries |-> <<>>]
           F == [o \in Orders |-> DeeperOrder(o)]
           IsOrderAt(g) == g = [n \in Nat |-> [e \in Entries |-> IF n = 0 THEN <<>> ELSE KidsOrder(g[n - 1], e)]]
<1>1. zero \in Orders
  BY DEF Orders
<1>2. F \in [Orders -> Orders]
  BY DeeperOrderType
<1>3. PICK g : IsTower(g, Orders, F, zero)
  BY <1>1, <1>2, TowerExists
<1>4. g \in [Nat -> Orders] /\ g = [n \in Nat |-> IF n = 0 THEN zero ELSE F[g[n - 1]]]
  BY <1>3 DEF IsTower
<1>5. ASSUME NEW n \in Nat
      PROVE  g[n] = [e \in Entries |-> IF n = 0 THEN <<>> ELSE KidsOrder(g[n - 1], e)]
  <2>1. CASE n = 0
    BY <1>4, <2>1
  <2>2. CASE n # 0
    <3>1. n - 1 \in Nat
      BY <2>2
    <3>2. g[n] = DeeperOrder(g[n - 1])
      BY <1>4, <2>2, <3>1
    <3> QED BY <2>2, <3>2 DEF DeeperOrder
  <2> QED BY <2>1, <2>2
<1>6. IsOrderAt(g)
  <2> HIDE DEF F, zero
  <2> QED BY <1>4, <1>5
<1>7. IsOrderAt(OrderAt)
  <2>1. OrderAt = CHOOSE f : IsOrderAt(f)
    BY DEF OrderAt, Each, KidsOrder
  <2> HIDE DEF IsOrderAt
  <2> QED BY <1>6, <2>1
<1>8. OrderAt[0] \in Orders
  BY <1>7 DEF Orders
<1>9. ASSUME NEW n \in Nat, OrderAt[n] \in Orders
      PROVE  OrderAt[n + 1] \in Orders
  <2>1. n + 1 \in Nat /\ (n + 1) - 1 = n /\ n + 1 # 0
    OBVIOUS
  <2>2. OrderAt[n + 1] = DeeperOrder(OrderAt[n])
    BY <1>7, <2>1 DEF DeeperOrder
  <2> QED BY <1>9, <2>2, DeeperOrderType
<1> DEFINE A == {n \in Nat : OrderAt[n] \in Orders}
<1>10. 0 \in A /\ \A n \in Nat : n \in A => n + 1 \in A
  BY <1>8, <1>9
<1> HIDE DEF A
<1>11. Height \in A
  BY <1>10, Climb, HeightType
<1> QED BY <1>11, EntriesAssumption DEF A, MenuOrder, Orders, Entries

(***************************************************************************)
(* Setting a value.                                                        *)
(***************************************************************************)
LEMMA EmptySound ==
    EmptyDb \in Sound
<1> DEFINE g == [s \in Syms |-> SymRec]
<1>1. SymRec \in SymRecs
  BY DEF SymRec, SymRecs, Tristate
<1>2. EmptyDb = [sym |-> g, modval |-> no]
  BY DEF EmptyDb
<1>3. g \in [Syms -> SymRecs] /\ no \in Tristate /\ \A s \in Syms : g[s] = SymRec
  BY <1>1 DEF Tristate
<1>4. SymRec.tri # mod /\ SymRec.sel = Nobody /\ SymRec.usel = Nobody /\ SymRec.rev = no
  BY DEF SymRec, no, mod
<1> HIDE DEF g
<1>5. EmptyDb \in Dbs /\ \A s \in Syms : EmptyDb.sym[s] = SymRec
  BY <1>2, <1>3 DEF Dbs
<1> QED BY <1>4, <1>5 DEF Sound, OwnValues

\* All symbols written at once.
SoundRecs(g) == \A s \in Syms : /\ s \in Bools => g[s].tri # mod
                                /\ g[s].sel \in OwnValues(s) /\ g[s].usel \in OwnValues(s)
                                /\ IsChoiceVal(s) => g[s].rev = no

LEMMA RewriteSound ==
    ASSUME NEW d \in Sound, NEW g \in [Syms -> SymRecs], SoundRecs(g)
    PROVE  /\ [d EXCEPT !.sym = g] \in Sound
           /\ [d EXCEPT !.sym = g].sym = g /\ [d EXCEPT !.sym = g].modval = d.modval
<1> DEFINE e == [d EXCEPT !.sym = g]
<1>1. d \in Dbs
  BY DEF Sound
<1>2. e \in Dbs /\ e.sym = g /\ e.modval = d.modval
  BY <1>1 DEF Dbs
<1> HIDE DEF e
<1>3. e \in Sound
  BY <1>2 DEF Sound, SoundRecs
<1> QED BY <1>2, <1>3 DEF e

\* What the user has set some symbols to.
UserKept(X, d, e) == \A x \in X : e.sym[x].user = d.sym[x].user /\ e.sym[x].utri = d.sym[x].utri
Ordinary == {s \in Syms : ~IsChoice(s) /\ ~IsChoiceVal(s)}

LEMMA UserKeptOrder ==
    ASSUME NEW X
    PROVE  /\ \A d : UserKept(X, d, d)
           /\ \A a, b, c : UserKept(X, a, b) /\ UserKept(X, b, c) => UserKept(X, a, c)
BY DEF UserKept

LEMMA FramesUser ==
    ASSUME NEW X \in SUBSET Syms, NEW d, NEW e, <<d, e>> \in Frames
    PROVE  UserKept(X, d, e)
BY DEF Frames, SameUser, UserKept

LEMMA CalcUser ==
    ASSUME NEW d \in Sound, NEW s \in Syms, NEW X \in SUBSET Syms
    PROVE  Calc(d, s) \in Sound /\ UserKept(X, d, Calc(d, s))
BY CalcStays, FramesUser

LEMMA ClearUser ==
    ASSUME NEW d \in Sound, NEW X \in SUBSET Syms
    PROVE  ClearAllValid(d) \in Sound /\ UserKept(X, d, ClearAllValid(d))
<1> DEFINE e == Invalidate(d)
<1>1. e \in Sound
  BY InvalidateStays
<1>2. \A s \in Syms : \A field \in {"tri", "sel", "vis", "rev", "user", "utri", "usel", "write"} :
          e.sym[s][field] = d.sym[s][field]
  BY InvalidateStays
<1>3. UserKept(X, d, e)
  BY <1>2 DEF UserKept
<1>4. ClearAllValid(d) = Calc(e, ModulesSym) /\ ModulesSym \in Syms
  BY SymbolsAssumption DEF ClearAllValid, Syms
<1> HIDE DEF e
<1>5. Calc(e, ModulesSym) \in Sound /\ UserKept(X, e, Calc(e, ModulesSym))
  BY <1>1, <1>4, CalcUser
<1> QED BY <1>3, <1>4, <1>5, UserKeptOrder

SetTo(d, s, v) == [d EXCEPT !.sym[s].user = TRUE, !.sym[s].utri = v]
SetToAs(d, e, s, v) == /\ But(s, d, e)
                       /\ e.sym[s] = [d.sym[s] EXCEPT !.user = TRUE, !.utri = v]

LEMMA SetToShape ==
    ASSUME NEW d \in Dbs, NEW s \in Syms, NEW v \in Tristate
    PROVE  SetToAs(d, SetTo(d, s, v), s, v)
<1> DEFINE d1 == [d EXCEPT !.sym[s].user = TRUE]
           e == [d1 EXCEPT !.sym[s].utri = v]
<1>1. But(s, d, d1) /\ d1.sym[s] = [d.sym[s] EXCEPT !.user = TRUE]
  <2>1. d.sym[s] \in SymRecs /\ [d.sym[s] EXCEPT !.user = TRUE] \in SymRecs
    BY DbParts DEF SymRecs
  <2>2. d1 = [d EXCEPT !.sym = [d.sym EXCEPT ![s] = [d.sym[s] EXCEPT !.user = TRUE]]]
    BY DEF Dbs
  <2> QED BY <2>1, <2>2 DEF Dbs, But
<1>2. SetTo(d, s, v) = e
  BY DEF SetTo, Dbs, SymRecs
<1>3. d1 \in Dbs
  BY <1>1 DEF But
<1> HIDE DEF d1
<1>4. But(s, d1, e) /\ e.sym[s] = [d1.sym[s] EXCEPT !.utri = v]
  BY <1>3 DEF Dbs, SymRecs, But
<1> HIDE DEF e
<1> QED BY <1>1, <1>2, <1>4 DEF But, SetToAs

LEMMA SetToSound ==
    ASSUME NEW d \in Sound, NEW s \in Syms, NEW v \in Tristate
    PROVE  SetTo(d, s, v) \in Sound /\ UserKept(Ordinary \ {s}, d, SetTo(d, s, v))
<1> DEFINE e == SetTo(d, s, v)
<1>1. d \in Dbs /\ d.sym[s] \in SymRecs
  BY DbParts DEF Sound
<1>2. But(s, d, e) /\ e.sym[s] = [d.sym[s] EXCEPT !.user = TRUE, !.utri = v]
  <2>1. SetToAs(d, e, s, v)
    BY <1>1, SetToShape
  <2> HIDE DEF e
  <2> QED BY <2>1 DEF SetToAs
<1> HIDE DEF e
<1>3. \A field \in {"tri", "sel", "rev", "usel"} : e.sym[s][field] = d.sym[s][field]
  BY <1>1, <1>2 DEF SymRecs
<1>4. e \in Sound
  BY <1>2, <1>3, ButSound, SoundParts
<1>5. UserKept(Ordinary \ {s}, d, e)
  BY <1>2 DEF But, UserKept, Ordinary
<1> QED BY <1>4, <1>5 DEF e

LEMMA ChoiceOfValue ==
    ASSUME NEW s \in Syms, IsChoiceVal(s)
    PROVE  /\ ChoiceOf[s] \in Syms /\ s \in Range(Members[ChoiceOf[s]])
           /\ IsChoice(ChoiceOf[s]) /\ s \in OwnValues(ChoiceOf[s])
<1>1. ChoiceOf[s] \in Syms
  BY ChoiceAssumption DEF IsChoiceVal
<1>2. s \in Range(Members[ChoiceOf[s]])
  BY <1>1, ChoiceAssumption
<1>3. Members[ChoiceOf[s]] # <<>>
  BY <1>2 DEF Range
<1> QED BY <1>1, <1>2, <1>3 DEF IsChoice, OwnValues

TakenAs(d, e, c, s) ==
    \A x \in Syms : /\ \A field \in {"utri", "tri", "valid"} : e.sym[x][field] = d.sym[x][field]
                    /\ e.sym[x].usel = IF x = c THEN s ELSE d.sym[x].usel
                    /\ e.sym[x].user = (d.sym[x].user \/ x = c \/ (x \in Range(Members[c]) /\ d.sym[x].vis # no))

LEMMA TakenSound ==
    ASSUME NEW d \in Sound, NEW s \in Syms, IsChoiceVal(s)
    PROVE  /\ Taken(d, ChoiceOf[s], s) \in Sound /\ UserKept(Ordinary, d, Taken(d, ChoiceOf[s], s))
           /\ TakenAs(d, Taken(d, ChoiceOf[s], s), ChoiceOf[s], s)
<1> DEFINE c == ChoiceOf[s]
           seen == {x \in Range(Members[c]) : d.sym[x].vis # no} \union {c}
           user(x) == d.sym[x].user \/ x \in seen
           usel(x) == IF x = c THEN s ELSE d.sym[x].usel
           rec(x) == [d.sym[x] EXCEPT !.user = user(x), !.usel = usel(x)]
           g == [x \in Syms |-> rec(x)]
           e == Taken(d, c, s)
<1>1. e = [d EXCEPT !.sym = g]
  <2>1. g = [x \in Syms |-> [d.sym[x] EXCEPT !.user = @ \/ x \in seen, !.usel = IF x = c THEN s ELSE @]]
    <3>1. \A x \in Syms : rec(x) = [d.sym[x] EXCEPT !.user = @ \/ x \in seen, !.usel = IF x = c THEN s ELSE @]
      BY DbParts DEF Sound, SymRecs
    <3> QED BY <3>1
  <2> HIDE DEF g
  <2>2. e = [d EXCEPT !.sym = [x \in Syms |-> [d.sym[x] EXCEPT !.user = @ \/ x \in seen, !.usel = IF x = c THEN s ELSE @]]]
    BY Zenon DEF Taken
  <2> HIDE DEF e, seen, c
  <2> QED BY <2>1, <2>2, Zenon
<1>2. c \in Syms /\ s \in OwnValues(c) /\ IsChoice(c)
  BY ChoiceOfValue
<1>3. \A x \in Ordinary : x \notin seen
  BY <1>2, ChoiceAssumption DEF Ordinary
<1>4. \A x \in Syms : d.sym[x] \in SymRecs /\ d.sym[x].user \in BOOLEAN /\ d.sym[x].usel \in OwnValues(x)
  BY DbParts, SoundParts DEF Sound
<1>5. ASSUME NEW x \in Syms
      PROVE  user(x) \in BOOLEAN /\ usel(x) \in OwnValues(x)
  BY <1>2, <1>4
<1>6. \A x \in Ordinary : user(x) = d.sym[x].user
  BY <1>3, <1>4 DEF Ordinary
<1>7. \A x \in Syms : OwnValues(x) \subseteq Syms \union {Nobody}
  BY MembersIn DEF OwnValues
<1> HIDE DEF c, seen, e, user, usel
<1>8. g \in [Syms -> SymRecs] /\ \A x \in Syms : g[x] = rec(x)
  <2>1. ASSUME NEW x \in Syms
        PROVE  rec(x) \in SymRecs
    <3>1. d.sym[x] \in SymRecs /\ user(x) \in BOOLEAN /\ usel(x) \in Syms \union {Nobody}
      BY <1>4, <1>5, <1>7
    <3> QED BY <3>1 DEF SymRecs
  <2> HIDE DEF rec
  <2> QED BY <2>1
<1> HIDE DEF g
<1>9. ASSUME NEW x \in Syms
      PROVE  /\ \A field \in {"tri", "sel", "rev", "utri", "valid"} : g[x][field] = d.sym[x][field]
             /\ g[x].usel = usel(x) /\ g[x].user = user(x)
  <2>1. g[x] = [d.sym[x] EXCEPT !.user = user(x), !.usel = usel(x)] /\ d.sym[x] \in SymRecs
    BY <1>4, <1>8, Zenon
  <2> QED BY <2>1 DEF SymRecs
<1>10. SoundRecs(g)
  <2>1. SUFFICES ASSUME NEW x \in Syms
                 PROVE  /\ x \in Bools => g[x].tri # mod
                        /\ g[x].sel \in OwnValues(x) /\ g[x].usel \in OwnValues(x)
                        /\ IsChoiceVal(x) => g[x].rev = no
    BY DEF SoundRecs
  <2>2. g[x].tri = d.sym[x].tri /\ g[x].sel = d.sym[x].sel /\ g[x].rev = d.sym[x].rev
    BY <1>9
  <2>3. g[x].usel \in OwnValues(x)
    BY <1>5, <1>9
  <2> QED BY <2>2, <2>3, SoundParts
<1>11. e \in Sound /\ e.sym = g
  <2>1. g \in [Syms -> SymRecs]
    BY <1>8, Zenon
  <2> HIDE DEF rec
  <2>2. [d EXCEPT !.sym = g] \in Sound /\ [d EXCEPT !.sym = g].sym = g
    BY <1>10, <2>1, RewriteSound
  <2> QED BY <1>1, <2>2
<1>12. UserKept(Ordinary, d, e)
  BY <1>6, <1>9, <1>11 DEF UserKept, Ordinary
<1>13. TakenAs(d, e, c, s)
  BY <1>9, <1>11 DEF TakenAs, user, usel, seen
<1> QED BY <1>11, <1>12, <1>13 DEF e, c

LEMMA GivenSound ==
    ASSUME NEW d \in Sound, NEW s \in Syms, NEW v \in Tristate
    PROVE  Given(d, s, v) \in Sound /\ UserKept(Ordinary \ {s}, d, Given(d, s, v))
<1> DEFINE d1 == IF IsChoiceVal(s) /\ v = yes THEN Taken(d, ChoiceOf[s], s) ELSE d
<1>1. d1 \in Sound /\ UserKept(Ordinary, d, d1)
  BY TakenSound, UserKeptOrder
<1>2. Given(d, s, v) = SetTo(d1, s, v)
  BY DEF Given, SetTo
<1> HIDE DEF d1
<1>3. Given(d, s, v) \in Sound /\ UserKept(Ordinary \ {s}, d1, Given(d, s, v))
  BY <1>1, <1>2, SetToSound
<1>4. UserKept(Ordinary \ {s}, d, d1)
  BY <1>1 DEF UserKept
<1> QED BY <1>3, <1>4, UserKeptOrder

LEMMA SetTriSound ==
    ASSUME NEW d \in Sound, NEW s \in Syms, NEW v \in Tristate
    PROVE  SetTri(d, s, v) \in Sound /\ UserKept(Ordinary \ {s}, d, SetTri(d, s, v))
<1> DEFINE e == Given(d, s, v)
<1>1. e \in Sound /\ UserKept(Ordinary \ {s}, d, e)
  BY GivenSound
<1>2. SetTri(d, s, v) = IF d.sym[s].tri = v THEN e ELSE ClearAllValid(e)
  BY DEF SetTri
<1>3. Ordinary \ {s} \in SUBSET Syms
  BY DEF Ordinary
<1> HIDE DEF e
<1>4. ClearAllValid(e) \in Sound /\ UserKept(Ordinary \ {s}, e, ClearAllValid(e))
  BY <1>1, <1>3, ClearUser
<1> QED BY <1>1, <1>2, <1>4, UserKeptOrder

(***************************************************************************)
(* A value that is accepted takes effect.                                  *)
(***************************************************************************)
\* What is set of s, and of its choice if s is taken of it.
GivenAs(d, g, s, v) ==
    /\ g.sym[s].user /\ g.sym[s].utri = v
    /\ \A field \in {"tri", "valid"} : g.sym[s][field] = d.sym[s][field]
    /\ \A x \in Syms : Node(x) # Node(s) => SetAt(d, g, x)
    /\ IsChoiceVal(s) =>
         IF v = yes THEN /\ g.sym[ChoiceOf[s]].user /\ g.sym[ChoiceOf[s]].usel = s
                         /\ g.sym[ChoiceOf[s]].utri = d.sym[ChoiceOf[s]].utri
         ELSE SetAt(d, g, ChoiceOf[s])

LEMMA GivenShape ==
    ASSUME NEW d \in Sound, NEW s \in Syms, NEW v \in Tristate
    PROVE  GivenAs(d, Given(d, s, v), s, v)
<1> DEFINE c == ChoiceOf[s]
           taken == IsChoiceVal(s) /\ v = yes
           d1 == IF taken THEN Taken(d, c, s) ELSE d
           g == Given(d, s, v)
<1>1. d1 \in Dbs /\ (taken => TakenAs(d, d1, c, s)) /\ (~taken => d1 = d)
  <2>1. CASE taken
    BY <2>1, TakenSound DEF Sound
  <2>2. CASE ~taken
    BY <2>2 DEF Sound
  <2> QED BY <2>1, <2>2
<1>2. g = SetTo(d1, s, v)
  BY DEF Given, SetTo
<1> HIDE DEF d1, g
<1>3. But(s, d1, g) /\ g.sym[s] = [d1.sym[s] EXCEPT !.user = TRUE, !.utri = v]
  <2>1. SetToAs(d1, SetTo(d1, s, v), s, v)
    BY <1>1, SetToShape
  <2> QED BY <1>2, <2>1 DEF SetToAs
<1>4. d1.sym[s] \in SymRecs
  BY <1>1, DbParts
<1>5. /\ g.sym[s].user /\ g.sym[s].utri = v
      /\ g.sym[s].tri = d1.sym[s].tri /\ g.sym[s].valid = d1.sym[s].valid
  BY <1>3, <1>4 DEF SymRecs
<1>6. d1.sym[s].tri = d.sym[s].tri /\ d1.sym[s].valid = d.sym[s].valid
  BY <1>1 DEF TakenAs
<1>7. \A x \in Syms : x # s => SetAt(d1, g, x)
  BY <1>3 DEF But, SetAt
<1>8. IsChoiceVal(s) => c \in Syms /\ c # s /\ Node(s) = c /\ Node(c) = c
  BY ChoiceNotValue, ChoiceOfValue DEF Node
<1>9. ASSUME NEW x \in Syms, Node(x) # Node(s)
      PROVE  SetAt(d, g, x)
  <2>1. x # s /\ SetAt(d1, g, x)
    BY <1>7, <1>9
  <2>2. CASE taken
    <3>1. x # c /\ x \notin Range(Members[c])
      BY <1>8, <1>9, <2>2, MembersIn DEF Node
    <3>2. d1.sym[x].utri = d.sym[x].utri /\ d1.sym[x].usel = d.sym[x].usel /\ d1.sym[x].user = d.sym[x].user
      <4>1. d.sym[x].user \in BOOLEAN /\ d1.sym[x].user \in BOOLEAN
        BY <1>1, DbParts DEF Sound
      <4> QED BY <1>1, <2>2, <3>1, <4>1 DEF TakenAs
    <3> QED BY <2>1, <3>2 DEF SetAt
  <2>3. CASE ~taken
    BY <1>1, <2>1, <2>3
  <2> QED BY <2>2, <2>3
<1>10. ASSUME IsChoiceVal(s)
       PROVE  IF v = yes THEN g.sym[c].user /\ g.sym[c].usel = s /\ g.sym[c].utri = d.sym[c].utri ELSE SetAt(d, g, c)
  <2>1. c \in Syms /\ SetAt(d1, g, c)
    BY <1>7, <1>8, <1>10
  <2>2. CASE v = yes
    <3>1. d1.sym[c].usel = s /\ d1.sym[c].user /\ d1.sym[c].utri = d.sym[c].utri
      <4>1. TakenAs(d, d1, c, s)
        BY <1>1, <1>10, <2>2
      <4>2. d1.sym[c].user = TRUE
        BY <2>1, <4>1 DEF TakenAs
      <4> QED BY <2>1, <4>1, <4>2 DEF TakenAs
    <3> QED BY <2>1, <2>2, <3>1 DEF SetAt
  <2>3. CASE v # yes
    BY <1>1, <2>1, <2>3
  <2> QED BY <2>2, <2>3
<1> QED BY <1>5, <1>6, <1>9, <1>10 DEF GivenAs, g

\* Two databases for which the user has set the same but at the node of s: they agree
\* on what is below that node, and on modules_val if it matters there.
LEMMA AgreeBelow ==
    ASSUME NEW a, NEW b, BothRight(a, b), NEW s \in Syms,
           \A x \in Syms : Node(x) # Node(s) => SetAt(a, b, x)
    PROVE  /\ \A x \in Syms : Node(x) = Node(s) /\ x \in Tris => b.modval = a.modval
           /\ \A x \in Syms : Node(x) \in Below(Node(s)) => Alike(a, b, x)
<1> DEFINE m == Node(s)
           Z == {x \in Syms : Node(x) \in Below(m)}
<1>1. m \in Nodes /\ m \notin Below(m) /\ Uses(m) \subseteq Below(m)
  BY NodesInSyms, NotBelowItself, BelowFacts
<1>2. ASSUME NEW x \in Z
      PROVE  Ahead(x) \subseteq Z /\ SetAt(a, b, x)
  <2>1. Node(x) \in Below(m) /\ Uses(Node(x)) \subseteq Below(m)
    BY <1>2, BelowFacts
  <2>2. Node(Node(x)) = Node(x)
    BY <1>2, NodesInSyms
  <2>3. Ahead(x) \subseteq Z
    BY <2>1, <2>2 DEF Ahead
  <2> QED BY <1>1, <1>2, <2>1, <2>3
<1>3. CASE s \in Kernel
  <2> DEFINE C == {u \in Nodes : \A x \in Syms : Node(x) = u => x \in Kernel}
  <2>1. ASSUME NEW u \in Nodes, NEW k \in Kernel, u \in Uses(Node(k)) \union {Node(k)}
        PROVE  u \in C
    BY <2>1, KernelFacts
  <2>2. Uses(m) \subseteq C
    BY <1>3, <2>1, NodesInSyms
  <2>3. Closed(C)
    <3>1. ASSUME NEW u \in C
          PROVE  Uses(u) \subseteq C
      <4>1. PICK z \in Syms : u = Node(z)
        BY DEF Nodes
      <4>2. z \in Kernel
        BY <4>1
      <4> HIDE DEF C
      <4> QED BY <2>1, <4>1, <4>2, NodesInSyms
    <3> QED BY <3>1 DEF Closed
  <2>4. Below(m) \subseteq C
    <3>1. C \in SUBSET Nodes
      OBVIOUS
    <3> HIDE DEF C, m
    <3> QED BY <2>2, <2>3, <3>1 DEF Below
  <2>5. \A x \in Z : x \notin Tris
    BY <2>4, KernelFacts
  <2>6. \A x \in Syms : Node(x) = Node(s) => x \notin Tris
    BY <1>3, KernelFacts
  <2> HIDE DEF Z
  <2>7. \A x \in Z : Alike(a, b, x)
    <3>1. Z \in SUBSET Syms
      BY DEF Z
    <3> QED BY <1>2, <2>5, <3>1, AgreeIn
  <2> QED BY <2>6, <2>7 DEF Z
<1>4. CASE s \notin Kernel
  <2>1. Kernel \in SUBSET Syms /\ ModulesSym \in Kernel /\ ModulesSym \in Syms
    BY KernelFacts, SymbolsAssumption DEF Syms
  <2>2. ASSUME NEW x \in Kernel
        PROVE  Ahead(x) \subseteq Kernel /\ x \notin Tris /\ SetAt(a, b, x)
    <3>1. Node(x) # Node(s)
      BY <1>4, <2>1, KernelFacts
    <3> QED BY <2>1, <3>1, KernelFacts, AheadFacts
  <2>3. Alike(a, b, ModulesSym)
    BY <2>1, <2>2, AgreeIn
  <2>4. b.modval = a.modval
    BY <2>1, <2>3 DEF BothRight, Good, Done, Modal, Alike
  <2> HIDE DEF Z
  <2>5. \A x \in Z : Alike(a, b, x)
    <3>1. Z \in SUBSET Syms
      BY DEF Z
    <3> QED BY <1>2, <2>4, <3>1, AgreeIn
  <2> QED BY <2>4, <2>5 DEF Z
<1> QED BY <1>3, <1>4

\* The user's value of s, if it may be seen and its selects allow it.
LEMMA OwnTakes ==
    ASSUME NEW b \in Sound, NEW s \in Syms, Exact(Syms, b, s), NEW v \in Tristate,
           b.sym[s].user, b.sym[s].utri = v, WithinRange(b, s, v), ~(IsChoiceVal(s) /\ b.sym[s].vis = yes)
    PROVE  b.sym[s].tri = v \/ (IsChoice(s) /\ v = yes /\ b.sym[s].sel = Nobody)
<1> DEFINE vis == b.sym[s].vis
           rev == b.sym[s].rev
<1>1. vis \in Tristate /\ rev \in Tristate /\ vis # no /\ v <= vis /\ v >= rev /\ (v = mod => NowTristate(b, s))
  BY DbParts DEF WithinRange, Sound
<1>2. PICK w \in Tristate : OwnSays(Syms, b, s, w) /\ Comes(Syms, b, s, Promoted(OrT(w, rev), NowTristate(b, s)))
  BY DEF Exact
<1>3. w = AndT(v, vis)
  BY <1>1, <1>2 DEF OwnSays, ByUser
<1> HIDE DEF vis, rev
<1>4. Promoted(OrT(w, rev), NowTristate(b, s)) = v
  BY <1>1, <1>3 DEF AndT, OrT, Promoted, Tristate, no, mod, yes
<1>5. Comes(Syms, b, s, v)
  BY <1>2, <1>4
<1> QED BY <1>5 DEF Comes

\* A choice that is y stays y and picks the value that is taken of it.
LEMMA ChoiceTakes ==
    ASSUME NEW a, NEW b, BothRight(a, b), NEW s \in Syms, IsChoiceVal(s), NEW c, c = ChoiceOf[s],
           a.sym[c].tri = yes, a.sym[s].vis # no,
           b.sym[c].user, b.sym[c].usel = s, b.sym[c].utri = a.sym[c].utri,
           \A x \in Ahead(c) : b.sym[x].tri = a.sym[x].tri, c \in Tris => b.modval = a.modval
    PROVE  b.sym[c].tri = yes /\ b.sym[c].sel = s
<1>1. c \in Syms /\ IsChoice(c) /\ ~IsChoiceVal(c) /\ s \in Range(Members[c])
  BY ChoiceOfValue, ChoiceNotValue
<1>2. /\ a \in Sound /\ b \in Sound /\ Exact(Syms, a, c) /\ Exact(Syms, b, c)
      /\ Seen1(Syms, a, s)
  BY <1>1 DEF BothRight, Good, Done
<1>3. b.sym[c].vis = a.sym[c].vis /\ b.sym[c].rev = a.sym[c].rev /\ NowTristate(b, c) = NowTristate(a, c)
  BY <1>1, SeenSame
<1> DEFINE vis == a.sym[c].vis
           rev == a.sym[c].rev
           now == NowTristate(a, c)
           own == a.sym[c].utri
<1>4. /\ vis \in Tristate /\ rev \in Tristate /\ own \in Tristate
      /\ a.sym[c].user \in BOOLEAN /\ b.sym[c].user \in BOOLEAN
  BY <1>1, <1>2, DbParts DEF Sound
<1>5. PICK w \in Tristate : OwnSays(Syms, a, c, w) /\ Comes(Syms, a, c, Promoted(OrT(w, rev), now))
  BY <1>1, <1>2 DEF Exact
<1>6. PICK u \in Tristate : OwnSays(Syms, b, c, u) /\ Comes(Syms, b, c, Promoted(OrT(u, rev), now))
  BY <1>1, <1>2, <1>3 DEF Exact
<1>7. w <= u
  <2>1. IF vis # no THEN u = AndT(own, vis) ELSE u = no
    BY <1>1, <1>3, <1>6 DEF OwnSays, ByUser
  <2>2. IF vis # no /\ a.sym[c].user THEN w = AndT(own, vis) ELSE w = no
    BY <1>1, <1>5 DEF OwnSays, ByUser
  <2> QED BY <1>6, <2>1, <2>2 DEF Tristate, no, mod, yes
<1>8. Promoted(OrT(w, rev), now) = yes
  BY <1>1, <1>5 DEF Comes
<1> HIDE DEF vis, rev, now, own
<1>9. Promoted(OrT(u, rev), now) = yes
  BY <1>4, <1>7, <1>8 DEF OrT, Promoted, Tristate, no, mod, yes
<1> DEFINE ps == Candidates(b, c)
           k == Len(ps)
<1>10. FoundAmong(Syms, b, c, k, b.sym[c].sel) /\ b.sym[c].tri = IF b.sym[c].sel = Nobody THEN no ELSE yes
  BY <1>1, <1>6, <1>9 DEF Comes
<1>11. SymE("y") \in Leaves /\ SymE("y") \in Exprs /\ Needs(SymE("y")) \subseteq Syms
  <2>1. SymE("y") \in Leaves
    BY DEF Leaves, ConstSyms
  <2>2. SymE("y") \in Exprs
    BY <2>1, LeavesInTree, DepthNat DEF Exprs
  <2> QED BY <2>1, <2>2 DEF Needs
<1>12. k \in Nat /\ k # 0 /\ ps[1] = [value |-> SymE(s), cond |-> SymE("y")]
  <2>1. b.sym[c].usel # Nobody
    BY SymbolsAssumption
  <2> DEFINE one == [value |-> SymE(s), cond |-> SymE("y")]
             T == [value : Exprs, cond : Exprs]
  <2>2. Defaults[c] \in Seq(T) /\ Members[c] \in Seq(Syms)
    BY <1>1, SymbolsAssumption, ChoiceAssumption
  <2>3. \A x \in Syms : SymE(x) \in Exprs
    <3>1. \A x \in Syms : SymE(x) \in Leaves
      BY DEF Leaves
    <3> QED BY <3>1, LeavesInTree, DepthNat DEF Exprs
  <2> DEFINE ms == Always(Members[c])
  <2>4. ms \in Seq(T)
    <3>1. ms = [i \in 1..Len(Members[c]) |-> [value |-> SymE(Members[c][i]), cond |-> SymE("y")]]
      BY <2>2 DEF Always
    <3>2. \A i \in 1..Len(Members[c]) : Members[c][i] \in Syms
      BY <2>2
    <3>3. Len(Members[c]) \in Nat
      BY <2>2
    <3>4. \A i \in 1..Len(Members[c]) : [value |-> SymE(Members[c][i]), cond |-> SymE("y")] \in T
      BY <1>11, <2>3, <3>2
    <3> QED BY <3>1, <3>3, <3>4
  <2>5. one \in T
    BY <1>1, <1>11, <2>3
  <2>6. Always(<<s>>) = <<one>>
    <3>1. DOMAIN <<s>> = 1..1 /\ <<s>>[1] = s
      OBVIOUS
    <3>2. Always(<<s>>) = [i \in 1..1 |-> one]
      BY <3>1 DEF Always
    <3> QED BY <3>2
  <2>7. ps = (<<one>> \o Defaults[c]) \o ms
    BY <2>1, <2>6 DEF Candidates
  <2> HIDE DEF one, T, ms, ps
  <2>8. ps[1] = one /\ Len(ps) \in Nat /\ Len(ps) # 0
    BY <2>2, <2>4, <2>5, <2>7
  <2> QED BY <2>8 DEF one
<1>13. PromptIn(AsYes(b, c), s) # no
  <2>1. \A y \in PromptNeeds(s) \ {c} : b.sym[y].tri = a.sym[y].tri
    BY <1>1, AheadFacts
  <2>2. PromptIn(AsYes(b, c), s) = PromptIn(AsYes(a, c), s)
    BY <1>1, <1>2, <2>1, PromptInAgrees
  <2>3. PromptIn(AsYes(a, c), s) = PromptValue(a, s)
    BY <1>1, <1>2, AsYesType DEF PromptIn, PromptValue
  <2>4. PromptValue(a, s) # no
    BY <1>2 DEF Seen1, Promoted, no, mod, yes
  <2> QED BY <2>2, <2>3, <2>4
<1>14. Hits(Syms, b, c, ps[1]) /\ ps[1].value.s = s
  <2>1. AsYes(b, c) \in Valuations
    BY <1>1, <1>2, AsYesType
  <2>2. Value(AsYes(b, c), SymE("y")) = yes
    BY <1>11, <2>1, ValueLeaf DEF LeafValue, SymE, Valuations, ConstSyms
  <2>3. PromptNeeds(s) \subseteq Syms
    BY DEF PromptNeeds, Needs
  <2>4. ps[1].value.s = s /\ ps[1].cond = SymE("y")
    BY <1>12 DEF SymE
  <2> HIDE DEF ps
  <2> QED BY <1>11, <1>13, <2>2, <2>3, <2>4 DEF Hits, no, yes
<1>15. FoundAmong(Syms, b, c, k, s)
  <2>1. 1 \in 1..k
    BY <1>12
  <2>2. \A j \in 1..(1 - 1) : Misses(Syms, b, c, ps[j])
    OBVIOUS
  <2> QED BY <1>14, <2>1, <2>2 DEF FoundAmong
<1>16. b.sym[c].sel = s
  <2> HIDE DEF k, ps
  <2> QED BY <1>1, <1>10, <1>12, <1>15, FoundOne
<1> QED BY <1>10, <1>16, SymbolsAssumption

\* Where all is right, before and after.
LEMMA EffectRight ==
    ASSUME NEW a, NEW b, BothRight(a, b), NEW s \in Syms, NEW v \in Tristate, WithinRange(a, s, v),
           \A x \in Syms : Node(x) # Node(s) => SetAt(a, b, x),
           b.sym[s].user, b.sym[s].utri = v,
           IsChoiceVal(s) => IF v = yes THEN /\ a.sym[ChoiceOf[s]].tri = yes /\ b.sym[ChoiceOf[s]].user
                                             /\ b.sym[ChoiceOf[s]].usel = s
                                             /\ b.sym[ChoiceOf[s]].utri = a.sym[ChoiceOf[s]].utri
                             ELSE SetAt(a, b, ChoiceOf[s])
    PROVE  b.sym[s].tri = v \/ (IsChoice(s) /\ v = yes /\ b.sym[s].sel = Nobody)
<1> DEFINE c == ChoiceOf[s]
<1>1. /\ a \in Sound /\ b \in Sound /\ Exact(Syms, b, s) /\ Given1(b, s)
      /\ a.sym[s].vis \in Tristate /\ a.sym[s].vis # no
  BY DbParts DEF BothRight, Good, Done, WithinRange, Sound
<1>2. /\ \A x \in Syms : Node(x) = Node(s) /\ x \in Tris => b.modval = a.modval
      /\ \A x \in Syms : Node(x) \in Below(Node(s)) => Alike(a, b, x)
  BY AgreeBelow
<1>3. Uses(Node(s)) \subseteq Below(Node(s))
  BY BelowFacts
<1>4. IsChoiceVal(s) => /\ c \in Syms /\ IsChoice(c) /\ ~IsChoiceVal(c)
                        /\ Node(s) = c /\ Node(c) = c /\ c # s
  BY ChoiceOfValue, ChoiceNotValue DEF Node
<1> HIDE DEF c
<1>5. \A x \in Ahead(s) : Alike(a, b, x) \/ (IsChoiceVal(s) /\ x = c)
  BY <1>2, <1>3, <1>4 DEF Ahead, Node
<1>6. IsChoiceVal(s) => \A x \in Ahead(c) : Alike(a, b, x)
  BY <1>2, <1>3, <1>4 DEF Ahead
<1>7. s \in Tris => b.modval = a.modval
  BY <1>2
<1>8. ASSUME IsChoiceVal(s) => b.sym[c].tri = a.sym[c].tri
      PROVE  b.sym[s].vis = a.sym[s].vis /\ b.sym[s].rev = a.sym[s].rev /\ NowTristate(b, s) = NowTristate(a, s)
  <2>1. \A x \in Ahead(s) : b.sym[x].tri = a.sym[x].tri
    BY <1>5, <1>8 DEF Alike
  <2> QED BY <1>7, <2>1, SeenSame
<1>9. CASE ~(IsChoiceVal(s) /\ v = yes)
  <2>1. IsChoiceVal(s) => b.sym[c].tri = a.sym[c].tri
    <3>1. SUFFICES ASSUME IsChoiceVal(s)
                   PROVE  Alike(a, b, c)
      BY DEF Alike
    <3>2. SetAt(a, b, c)
      BY <1>9, <3>1 DEF c
    <3>3. c \in Tris => b.modval = a.modval
      BY <1>2, <1>4, <3>1
    <3> QED BY <1>4, <1>6, <3>1, <3>2, <3>3, NextSame
  <2>2. WithinRange(b, s, v) /\ ~(IsChoiceVal(s) /\ b.sym[s].vis = yes)
    BY <1>8, <1>9, <2>1 DEF WithinRange, Changeable
  <2> QED BY <1>1, <2>2, OwnTakes
<1>10. CASE IsChoiceVal(s) /\ v = yes
  <2>1. /\ a.sym[c].tri = yes /\ b.sym[c].user /\ b.sym[c].usel = s /\ b.sym[c].utri = a.sym[c].utri
    BY <1>10 DEF c
  <2>2. \A x \in Ahead(c) : b.sym[x].tri = a.sym[x].tri
    BY <1>6, <1>10 DEF Alike
  <2>3. c \in Tris => b.modval = a.modval
    BY <1>2, <1>4, <1>10
  <2>4. b.sym[c].tri = yes /\ b.sym[c].sel = s
    BY <1>1, <1>10, <2>1, <2>2, <2>3, ChoiceTakes DEF c
  <2>5. a.sym[s].vis = yes
    BY <1>1, <1>10 DEF WithinRange, Tristate, no, mod, yes
  <2>6. b.sym[s].vis = yes
    BY <1>8, <2>1, <2>4, <2>5
  <2> QED BY <1>1, <1>10, <2>4, <2>6 DEF Given1, MemberValue, c
<1> QED BY <1>9, <1>10

\* While what is kept is right, a value that sym_set_tristate_value accepts is the one
\* sym_calc_value then leaves, whatever other symbols it depends on or changes; but a
\* choice set to y that finds no visible value is n, and a value can only be taken of a
\* choice that is y (symbol.c sym_tristate_within_range, sym_set_tristate_value).
THEOREM SetTakesEffect ==
    ASSUME NEW d \in Ready, NEW s \in Valids(d), NEW v \in Tristate, Accepted(d, s, v),
           IsChoiceVal(s) /\ v = yes => d.sym[ChoiceOf[s]].tri = yes
    PROVE  LET e == Calc(SetTri(d, s, v), s)
           IN  e.sym[s].tri = v \/ (IsChoice(s) /\ v = yes /\ e.sym[s].sel = Nobody)
<1> DEFINE g == Given(d, s, v)
           c == ChoiceOf[s]
           start == ClearAllValid(g)
           e == Calc(start, s)
           a == AllCalculated(d, HashOrder)
           b == AllCalculated(e, HashOrder)
<1>1. d \in Sound /\ s \in Syms /\ d.sym[s].valid /\ HashOrder \in Seq(Syms) /\ Range(HashOrder) = Syms
  BY EntriesAssumption DEF Ready, Begins, Valids
<1>2. g \in Sound /\ GivenAs(d, g, s, v)
  BY <1>1, GivenSound, GivenShape
<1>3. CASE d.sym[s].tri = v
  <2>1. SetTri(d, s, v) = g
    BY <1>3 DEF SetTri
  <2> HIDE DEF g
  <2>2. g.sym[s].valid /\ g.sym[s].tri = v /\ g \in Dbs
    BY <1>1, <1>2, <1>3 DEF GivenAs, Sound
  <2>3. Calc(g, s) = g
    BY <1>1, <2>2, CalcIdle
  <2> QED BY <2>1, <2>2, <2>3
<1>4. CASE d.sym[s].tri # v
  <2>1. SetTri(d, s, v) = start /\ WithinRange(d, s, v)
    BY <1>4 DEF SetTri, Accepted
  <2> HIDE DEF g
  <2>2. start \in Ready /\ AsSet(g, start)
    BY <1>2, ClearReady
  <2>3. e \in Ready /\ s \in Valids(e) /\ GrownKept(start, e)
    BY <1>1, <2>2, CalcReady
  <2>4. a \in Ready /\ Valids(a) = Syms /\ GrownKept(d, a)
    BY <1>1, CompletedRight
  <2> HIDE DEF start, e
  <2>5. b \in Ready /\ Valids(b) = Syms /\ GrownKept(e, b)
    BY <1>1, <2>3, CompletedRight
  <2> HIDE DEF a, b
  <2>6. BothRight(a, b)
    BY <2>4, <2>5 DEF BothRight, Ready, Begins
  <2>7. /\ a.sym[s].tri = d.sym[s].tri /\ a.sym[s].vis = d.sym[s].vis /\ a.sym[s].rev = d.sym[s].rev
        /\ a.modval = d.modval
    BY <2>4 DEF GrownKept, Same, Ready
  <2>8. WithinRange(a, s, v)
    BY <2>1, <2>7 DEF WithinRange, Changeable, NowTristate
  <2>9. \A x \in Syms : SetAt(d, a, x) /\ SetAt(g, b, x)
    BY <2>2, <2>3, <2>4, <2>5 DEF GrownKept, Same, AsSet, SetAt
  <2>10. \A x \in Syms : SetAt(d, g, x) => SetAt(a, b, x)
    BY <2>9 DEF SetAt
  <2>11. \A x \in Syms : Node(x) # Node(s) => SetAt(a, b, x)
    BY <1>2, <2>10 DEF GivenAs
  <2>12. b.sym[s].user /\ b.sym[s].utri = v
    BY <1>1, <1>2, <2>9 DEF GivenAs, SetAt
  <2>13. IsChoiceVal(s) => IF v = yes THEN /\ a.sym[c].tri = yes /\ b.sym[c].user
                                           /\ b.sym[c].usel = s /\ b.sym[c].utri = a.sym[c].utri
                           ELSE SetAt(a, b, c)
    <3>1. SUFFICES ASSUME IsChoiceVal(s)
                   PROVE  IF v = yes THEN /\ a.sym[c].tri = yes /\ b.sym[c].user
                                          /\ b.sym[c].usel = s /\ b.sym[c].utri = a.sym[c].utri
                          ELSE SetAt(a, b, c)
      OBVIOUS
    <3>2. c \in Syms
      BY <1>1, <3>1, ChoiceOfValue
    <3>3. CASE v = yes
      <4>1. g.sym[c].user /\ g.sym[c].usel = s /\ g.sym[c].utri = d.sym[c].utri
        BY <1>2, <3>1, <3>3 DEF GivenAs
      <4>2. SetAt(d, a, c) /\ SetAt(g, b, c)
        BY <2>9, <3>2
      <4>3. c \in Valids(d)
        <5>1. Seen1(Valids(d), d, s) /\ d.sym[s].vis # no
          BY <2>1 DEF Ready, Begins, Good, Done, WithinRange
        <5>2. PromptValue(d, s) # no
          BY <5>1 DEF Seen1, Promoted, no, mod, yes
        <5> QED BY <1>1, <3>1, <5>1, <5>2, SeesChoice DEF Seen1
      <4>4. a.sym[c].tri = yes
        BY <2>4, <3>1, <3>3, <4>3 DEF GrownKept, Same
      <4> QED BY <3>3, <4>1, <4>2, <4>4 DEF SetAt
    <3>4. CASE v # yes
      <4>1. SetAt(d, g, c)
        BY <1>2, <3>1, <3>4 DEF GivenAs
      <4> QED BY <2>10, <3>2, <3>4, <4>1
    <3> QED BY <3>3, <3>4
  <2>14. b.sym[s].tri = v \/ (IsChoice(s) /\ v = yes /\ b.sym[s].sel = Nobody)
    BY <1>1, <2>6, <2>8, <2>11, <2>12, <2>13, EffectRight DEF c
  <2>15. b.sym[s].tri = e.sym[s].tri /\ b.sym[s].sel = e.sym[s].sel
    BY <2>3, <2>5 DEF GrownKept, Same
  <2> QED BY <2>1, <2>14, <2>15 DEF e
<1> QED BY <1>3, <1>4

(***************************************************************************)
(* Reading a configuration.                                                *)
(***************************************************************************)
LEMMA ContentsParts ==
    ASSUME NEW text \in Contents
    PROVE  \A s \in DOMAIN text : s \in Syms /\ text[s] \in Tristate
<1>1. PICK X \in SUBSET Syms : text \in [X -> Tristate]
  BY DEF Contents
<1> QED BY <1>1

\* Writing what the user has set one symbol to.
SetAll(d, c, b, u, w) == [d EXCEPT !.sym[c].user = b, !.sym[c].usel = u, !.sym[c].utri = w]
SetAllAs(d, e, c, b, u, w) == /\ But(c, d, e)
                              /\ e.sym[c] = [d.sym[c] EXCEPT !.user = b, !.usel = u, !.utri = w]

LEMMA SetAllShape ==
    ASSUME NEW d \in Dbs, NEW c \in Syms, NEW b \in BOOLEAN, NEW u \in Syms \union {Nobody}, NEW w \in Tristate
    PROVE  SetAllAs(d, SetAll(d, c, b, u, w), c, b, u, w)
<1> DEFINE d1 == [d EXCEPT !.sym[c].user = b]
           d2 == [d1 EXCEPT !.sym[c].usel = u]
           e == [d2 EXCEPT !.sym[c].utri = w]
<1>1. But(c, d, d1) /\ d1.sym[c] = [d.sym[c] EXCEPT !.user = b]
  BY DEF Dbs, SymRecs, But
<1>2. SetAll(d, c, b, u, w) = e
  BY DEF SetAll, Dbs, SymRecs
<1>3. d1 \in Dbs
  BY <1>1 DEF But
<1> HIDE DEF d1
<1>4. But(c, d1, d2) /\ d2.sym[c] = [d1.sym[c] EXCEPT !.usel = u]
  BY <1>3 DEF Dbs, SymRecs, But
<1>5. d2 \in Dbs
  BY <1>4 DEF But
<1> HIDE DEF d2
<1>6. But(c, d2, e) /\ e.sym[c] = [d2.sym[c] EXCEPT !.utri = w]
  BY <1>5 DEF Dbs, SymRecs, But
<1> HIDE DEF e
<1> QED BY <1>1, <1>2, <1>4, <1>6 DEF But, SetAllAs

LEMMA LineOfChoiceSound ==
    ASSUME NEW d \in Sound, NEW s \in Syms, IsChoiceVal(s), NEW v \in Tristate
    PROVE  LineOfChoice(d, ChoiceOf[s], s, v) \in Sound
<1> DEFINE c == ChoiceOf[s]
           b == d.sym[c].user /\ ~(v = mod /\ d.sym[c].utri = yes)
           u == IF v = yes THEN s ELSE d.sym[c].usel
           w == OrT(d.sym[c].utri, v)
           e == LineOfChoice(d, c, s, v)
<1>1. c \in Syms /\ s \in OwnValues(c)
  BY ChoiceOfValue
<1> HIDE DEF c
<1>2. d \in Dbs /\ d.sym[c] \in SymRecs /\ d.sym[c].user \in BOOLEAN /\ d.sym[c].utri \in Tristate
      /\ d.sym[c].usel \in OwnValues(c)
  BY <1>1, DbParts, SoundParts DEF Sound
<1>3. b \in BOOLEAN /\ u \in OwnValues(c) /\ w \in Tristate
  BY <1>1, <1>2 DEF OrT
<1>4. u \in Syms \union {Nobody}
  BY <1>1, <1>3, MembersIn DEF OwnValues
<1>5. e = SetAll(d, c, b, u, w)
  BY <1>1, <1>2 DEF LineOfChoice, SetAll, Dbs, SymRecs
<1> HIDE DEF b, u, w, e
<1>6. But(c, d, e) /\ e.sym[c] = [d.sym[c] EXCEPT !.user = b, !.usel = u, !.utri = w]
  <2>1. SetAllAs(d, e, c, b, u, w)
    BY <1>1, <1>2, <1>3, <1>4, <1>5, SetAllShape
  <2> QED BY <2>1 DEF SetAllAs
<1>7. e.sym[c].usel = u /\ \A field \in {"tri", "sel", "rev"} : e.sym[c][field] = d.sym[c][field]
  BY <1>2, <1>6 DEF SymRecs
<1>8. e.sym[c].tri = d.sym[c].tri /\ e.sym[c].sel = d.sym[c].sel /\ e.sym[c].rev = d.sym[c].rev
  BY <1>7
<1>9. e \in Sound
  BY <1>1, <1>3, <1>6, <1>7, <1>8, ButSound, SoundParts
<1> QED BY <1>9 DEF e, c

Reads == [d : Dbs, warned : BOOLEAN]

LEMMA ReadLineSound ==
    ASSUME NEW r \in Reads, r.d \in Sound, NEW s \in Syms, NEW v \in Tristate
    PROVE  ReadLine(r, s, v) \in Reads /\ ReadLine(r, s, v).d \in Sound
<1>1. LineOf(r.d, s, v) = SetTo(r.d, s, v)
  BY DEF LineOf, SetTo
<1>2. SetTo(r.d, s, v) \in Sound /\ SetTo(r.d, s, v) \in Dbs
  BY SetToSound DEF Sound
<1> DEFINE odd == s \in Bools /\ v = mod
<1>0. CASE odd
  <2>1. ReadLine(r, s, v) = [r EXCEPT !.warned = TRUE]
    BY <1>0 DEF ReadLine
  <2> QED BY <2>1 DEF Reads
<1>3. CASE ~odd /\ ~IsChoiceVal(s)
  <2> DEFINE l == SetTo(r.d, s, v)
  <2>1. ReadLine(r, s, v) = [r EXCEPT !.d = l]
    BY <1>1, <1>3 DEF ReadLine
  <2> HIDE DEF l
  <2> QED BY <1>2, <2>1 DEF Reads, l
<1>4. CASE ~odd /\ IsChoiceVal(s)
  <2> DEFINE l == LineOfChoice(SetTo(r.d, s, v), ChoiceOf[s], s, v)
             old == r.d.sym[ChoiceOf[s]].utri
             w == r.warned \/ (v = mod /\ old = yes) \/ (v = yes /\ old # no)
  <2>1. ReadLine(r, s, v) = [d |-> l, warned |-> w]
    BY <1>1, <1>4 DEF ReadLine
  <2>2. l \in Sound /\ l \in Dbs
    BY <1>2, <1>4, LineOfChoiceSound DEF Sound
  <2>3. w \in BOOLEAN
    BY DEF Reads
  <2> HIDE DEF l, w
  <2> QED BY <2>1, <2>2, <2>3 DEF Reads
<1> QED BY <1>0, <1>3, <1>4

LEMMA UnreadSound ==
    ASSUME NEW d \in Sound
    PROVE  Unread(d) \in Sound
<1> DEFINE rec(s) == [d.sym[s] EXCEPT !.valid = FALSE, !.user = IsChoice(s), !.utri = no, !.usel = Nobody]
           g == [s \in Syms |-> rec(s)]
<1>1. Unread(d) = [d EXCEPT !.sym = g]
  BY DEF Unread
<1>2. \A s \in Syms : d.sym[s] \in SymRecs /\ IsChoice(s) \in BOOLEAN
  BY DbParts DEF Sound, IsChoice
<1>3. ASSUME NEW s \in Syms
      PROVE  /\ rec(s) \in SymRecs
             /\ \A field \in {"tri", "sel", "rev"} : rec(s)[field] = d.sym[s][field]
             /\ rec(s).usel = Nobody
  <2>1. d.sym[s] \in SymRecs /\ IsChoice(s) \in BOOLEAN
    BY <1>2
  <2> DEFINE b == IsChoice(s)
  <2> HIDE DEF b
  <2>2. rec(s) = [d.sym[s] EXCEPT !.valid = FALSE, !.user = b, !.utri = no, !.usel = Nobody] /\ b \in BOOLEAN
    BY <2>1 DEF b
  <2> HIDE DEF rec
  <2> QED BY <2>1, <2>2 DEF SymRecs, Tristate
<1> HIDE DEF rec
<1>4. g \in [Syms -> SymRecs] /\ \A s \in Syms : g[s] = rec(s)
  BY <1>3
<1> HIDE DEF g
<1>5. SoundRecs(g)
  <2>1. SUFFICES ASSUME NEW x \in Syms
                 PROVE  /\ x \in Bools => g[x].tri # mod
                        /\ g[x].sel \in OwnValues(x) /\ g[x].usel \in OwnValues(x)
                        /\ IsChoiceVal(x) => g[x].rev = no
    BY DEF SoundRecs
  <2>2. g[x].tri = d.sym[x].tri /\ g[x].sel = d.sym[x].sel /\ g[x].rev = d.sym[x].rev /\ g[x].usel = Nobody
    BY <1>3, <1>4
  <2> QED BY <2>2, SoundParts DEF OwnValues
<1> QED BY <1>1, <1>4, <1>5, RewriteSound

LEMMA ReadSimpleSound ==
    ASSUME NEW d \in Sound, NEW text \in Contents
    PROVE  ReadSimple(d, text) \in Reads /\ ReadSimple(d, text).d \in Sound
<1> DEFINE n == Len(MenuOrder)
           do == [i \in 1..n |-> [r \in Reads |-> IF MenuOrder[i] \in DOMAIN text /\ ~IsChoice(MenuOrder[i])
                                                   THEN ReadLine(r, MenuOrder[i], text[MenuOrder[i]]) ELSE r]]
           start == [d |-> Unread(d), warned |-> FALSE]
           Fine == {r \in Reads : r.d \in Sound}
           l == ReadLines(d, text)
<1>1. n \in Nat
  BY MenuOrderType, LenProperties
<1>2. l = Repeated(n, do, start)
  BY DEF ReadLines, Each, Reads
<1>3. start \in Fine
  BY UnreadSound DEF Reads, Sound
<1>4. ASSUME NEW i \in 1..n, NEW r \in Fine
      PROVE  do[i][r] \in Fine
  <2> DEFINE s == MenuOrder[i]
  <2>1. do[i][r] = IF s \in DOMAIN text /\ ~IsChoice(s) THEN ReadLine(r, s, text[s]) ELSE r
    OBVIOUS
  <2> HIDE DEF do, s
  <2>2. CASE s \in DOMAIN text /\ ~IsChoice(s)
    <3>1. s \in Syms /\ text[s] \in Tristate
      BY <2>2, ContentsParts
    <3>2. ReadLine(r, s, text[s]) \in Reads /\ ReadLine(r, s, text[s]).d \in Sound
      BY <3>1, ReadLineSound
    <3> QED BY <2>1, <2>2, <3>2
  <2> QED BY <2>1, <2>2
<1> HIDE DEF do, start, Fine, n, l
<1>5. l \in Fine
  BY <1>1, <1>2, <1>3, <1>4, LoopInvariant
<1>6. l \in Reads /\ l.d \in Sound
  BY <1>5 DEF Fine
<1> DEFINE m == Calc(l.d, ModulesSym)
<1>7. m \in Sound /\ m \in Dbs
  BY <1>6, CalcUser, SymbolsAssumption DEF Syms, Sound
<1>8. ReadSimple(d, text) = [l EXCEPT !.d = m]
  BY DEF ReadSimple, WithModules, l
<1> HIDE DEF m
<1> QED BY <1>6, <1>7, <1>8 DEF Reads

\* Writing whether the user has set one symbol.
LEMMA SetUserSound ==
    ASSUME NEW d \in Sound, NEW s \in Syms, NEW b \in BOOLEAN
    PROVE  [d EXCEPT !.sym[s].user = b] \in Sound
<1> DEFINE e == [d EXCEPT !.sym[s].user = b]
<1>1. d \in Dbs /\ d.sym[s] \in SymRecs
  BY DbParts DEF Sound
<1>2. But(s, d, e) /\ e.sym[s] = [d.sym[s] EXCEPT !.user = b]
  BY <1>1 DEF Dbs, SymRecs, But
<1> HIDE DEF e
<1>3. \A field \in {"tri", "sel", "rev", "usel"} : e.sym[s][field] = d.sym[s][field]
  BY <1>1, <1>2 DEF SymRecs
<1>4. e \in Sound
  BY <1>2, <1>3, ButSound, SoundParts
<1> QED BY <1>4 DEF e

Checks == [d : Dbs, unsaved : BOOLEAN]

LEMMA CheckSound ==
    ASSUME NEW u \in Checks, u.d \in Sound, NEW s \in Syms
    PROVE  Check(u, s) \in Checks /\ Check(u, s).d \in Sound
<1> DEFINE d == Calc(u.d, s)
           b == d.sym[s].user /\ (IsChoice(s) => Settled(d, s))
           e == [d EXCEPT !.sym[s].user = b]
           w == u.unsaved \/ ~Agrees(d, s)
<1>1. d \in Sound
  BY CalcUser
<1>2. Check(u, s) = [d |-> e, unsaved |-> w]
  BY Zenon DEF Check
<1> HIDE DEF d
<1>3. b \in BOOLEAN /\ w \in BOOLEAN
  <2>1. d.sym[s].user \in BOOLEAN /\ u.unsaved \in BOOLEAN
    BY <1>1, DbParts DEF Sound, Checks
  <2> QED BY <2>1
<1> HIDE DEF b, w
<1>4. e \in Sound /\ e \in Dbs
  BY <1>1, <1>3, SetUserSound DEF Sound
<1> HIDE DEF e
<1> QED BY <1>2, <1>3, <1>4 DEF Checks

LEMMA CheckAllSound ==
    ASSUME NEW d \in Sound
    PROVE  CheckAll(d) \in Checks /\ CheckAll(d).d \in Sound
<1> DEFINE n == Len(HashOrder)
           do == [i \in 1..n |-> [u \in Checks |-> Check(u, HashOrder[i])]]
           start == [d |-> d, unsaved |-> FALSE]
           Fine == {u \in Checks : u.d \in Sound}
<1>1. n \in Nat /\ \A i \in 1..n : HashOrder[i] \in Syms
  BY EntriesAssumption, LenProperties, ElementOfSeq
<1>2. CheckAll(d) = Repeated(n, do, start)
  BY DEF CheckAll, Each, Checks
<1>3. start \in Fine
  BY DEF Checks, Sound
<1>4. ASSUME NEW i \in 1..n, NEW u \in Fine
      PROVE  do[i][u] \in Fine
  <2>1. do[i][u] = Check(u, HashOrder[i])
    OBVIOUS
  <2> HIDE DEF do
  <2> QED BY <1>1, <2>1, CheckSound
<1> HIDE DEF do, start, Fine, n
<1>5. Repeated(n, do, start) \in Fine
  BY <1>1, <1>3, <1>4, LoopInvariant
<1> QED BY <1>2, <1>5 DEF Fine

LEMMA ForgottenSound ==
    ASSUME NEW d \in Sound, NEW unsaved \in BOOLEAN
    PROVE  Forgotten(d, unsaved) \in Sound
<1> DEFINE b(s) == d.sym[s].user /\ (unsaved \/ d.sym[s].vis # no \/ IsChoiceVal(s))
           rec(s) == [d.sym[s] EXCEPT !.user = b(s)]
           g == [s \in Syms |-> rec(s)]
<1>1. Forgotten(d, unsaved) = [d EXCEPT !.sym = g]
  BY Zenon DEF Forgotten
<1>2. \A s \in Syms : d.sym[s] \in SymRecs /\ d.sym[s].user \in BOOLEAN
  BY DbParts DEF Sound
<1>3. \A s \in Syms : b(s) \in BOOLEAN
  BY <1>2
<1> HIDE DEF b
<1>4. ASSUME NEW s \in Syms
      PROVE  /\ rec(s) \in SymRecs
             /\ \A field \in {"tri", "sel", "rev", "usel"} : rec(s)[field] = d.sym[s][field]
  BY <1>2, <1>3 DEF SymRecs
<1> HIDE DEF rec
<1>5. g \in [Syms -> SymRecs] /\ \A s \in Syms : g[s] = rec(s)
  BY <1>4
<1> HIDE DEF g
<1>6. SoundRecs(g)
  <2>1. SUFFICES ASSUME NEW x \in Syms
                 PROVE  /\ x \in Bools => g[x].tri # mod
                        /\ g[x].sel \in OwnValues(x) /\ g[x].usel \in OwnValues(x)
                        /\ IsChoiceVal(x) => g[x].rev = no
    BY DEF SoundRecs
  <2>2. g[x].tri = d.sym[x].tri /\ g[x].sel = d.sym[x].sel /\ g[x].rev = d.sym[x].rev /\ g[x].usel = d.sym[x].usel
    BY <1>4, <1>5
  <2> QED BY <2>2, SoundParts
<1> QED BY <1>1, <1>5, <1>6, RewriteSound

\* conf_read leaves a sound database.
LEMMA ConfReadSound ==
    ASSUME NEW d \in Sound, NEW text \in Contents
    PROVE  ConfRead(d, text).d \in Sound /\ ConfRead(d, text).changed \in BOOLEAN
<1> DEFINE r == ReadSimple(d, text)
           u == CheckAll(r.d)
<1>1. r \in Reads /\ r.d \in Sound
  BY ReadSimpleSound
<1> HIDE DEF r
<1>2. u \in Checks /\ u.d \in Sound /\ u.unsaved \in BOOLEAN
  BY <1>1, CheckAllSound DEF Checks
<1>3. ConfRead(d, text) = Remembered(u, r.warned)
  BY DEF ConfRead, AfterRead, r
<1> HIDE DEF u
<1>4. Forgotten(u.d, u.unsaved) \in Sound
  BY <1>2, ForgottenSound
<1> QED BY <1>1, <1>2, <1>3, <1>4 DEF Remembered, Reads

(***************************************************************************)
(* Writing a configuration.                                                *)
(***************************************************************************)
Writes == [d : Dbs, out : Lines]
WritesFrom(S, X, d, w) == w \in Writes /\ w.d \in S /\ UserKept(X, d, w.d)

LEMMA SoundOrReady ==
    ASSUME NEW S \in {Sound, Ready}
    PROVE  S \subseteq Sound /\ (S = Sound \/ S = Ready)
BY DEF Ready, Begins

LEMMA SetWriteSound ==
    ASSUME NEW S \in {Sound, Ready}, NEW d \in S, NEW s \in Syms, NEW b \in BOOLEAN, NEW X \in SUBSET Syms
    PROVE  [d EXCEPT !.sym[s].write = b] \in S /\ UserKept(X, d, [d EXCEPT !.sym[s].write = b])
<1> DEFINE e == [d EXCEPT !.sym[s].write = b]
<1>1. d \in Sound /\ d \in Dbs /\ d.sym[s] \in SymRecs
  BY DbParts, SoundOrReady DEF Sound
<1>2. But(s, d, e) /\ e.sym[s] = [d.sym[s] EXCEPT !.write = b]
  BY <1>1, SetWrite
<1> HIDE DEF e
<1>3. \A field \in {"tri", "sel", "vis", "rev", "valid", "usel", "user", "utri"} : e.sym[s][field] = d.sym[s][field]
  BY <1>1, <1>2 DEF SymRecs
<1>4. e \in Sound
  BY <1>1, <1>2, <1>3, ButSound, SoundParts
<1>5. \A x \in Syms : e.sym[x].user = d.sym[x].user /\ e.sym[x].utri = d.sym[x].utri
  BY <1>2, <1>3 DEF But
<1>6. UserKept(X, d, e)
  BY <1>5 DEF UserKept
<1>7. Valids(e) = Valids(d) /\ Same(Valids(d), d, e)
  BY <1>2, <1>3 DEF But, Valids, Same, AsSet
<1>8. d \in Ready => e \in Ready
  BY <1>4, <1>7, GoodCarries DEF Ready, Begins, Valids
<1> QED BY <1>4, <1>6, <1>8 DEF e

LEMMA LineWrittenSound ==
    ASSUME NEW S \in {Sound, Ready}, NEW d \in S, NEW e \in Syms, NEW X \in SUBSET Syms
    PROVE  LineWritten(d, e) \in S /\ UserKept(X, d, LineWritten(d, e))
<1> DEFINE d1 == Unwritten(d, e)
<1>1. d1 \in S /\ UserKept(X, d, d1)
  BY SetWriteSound DEF Unwritten
<1>2. LineWritten(d, e) = IF e \in Tris THEN Calc(d1, ModulesSym) ELSE d1
  BY DEF LineWritten
<1> HIDE DEF d1
<1>3. Calc(d1, ModulesSym) \in S /\ UserKept(X, d1, Calc(d1, ModulesSym))
  BY <1>1, CalcUser, CalcReady, SoundOrReady, SymbolsAssumption DEF Syms
<1> QED BY <1>1, <1>2, <1>3, UserKeptOrder

LEMMA WriteLineSound ==
    ASSUME NEW S \in {Sound, Ready}, NEW X \in SUBSET Syms, NEW d, NEW w, WritesFrom(S, X, d, w),
           NEW e \in Syms, NEW c \in S, UserKept(X, w.d, c)
    PROVE  WritesFrom(S, X, d, WriteLine(w, e, c))
<1>1. UserKept(X, d, c) /\ c \in Dbs
  BY UserKeptOrder, SoundOrReady DEF WritesFrom, Sound
<1>2. CASE c.sym[e].write
  <2> DEFINE l == LineWritten(c, e)
             t == c.sym[e].tri
             o == [w.out EXCEPT ![e] = t]
  <2>1. WriteLine(w, e, c) = [d |-> l, out |-> o]
    BY <1>2 DEF WriteLine
  <2>2. l \in S /\ UserKept(X, c, l)
    BY LineWrittenSound
  <2>3. l \in Dbs /\ UserKept(X, d, l)
    BY <1>1, <2>2, UserKeptOrder, SoundOrReady DEF Sound
  <2>4. t \in Tristate
    BY <1>1, DbParts
  <2> HIDE DEF l, t
  <2>5. o \in Lines
    BY <2>4 DEF WritesFrom, Writes, Lines
  <2> HIDE DEF o
  <2> QED BY <2>1, <2>2, <2>3, <2>5 DEF WritesFrom, Writes
<1>3. CASE ~c.sym[e].write
  <2>1. WriteLine(w, e, c) = [w EXCEPT !.d = c]
    BY <1>3 DEF WriteLine
  <2> QED BY <1>1, <2>1 DEF WritesFrom, Writes
<1> QED BY <1>2, <1>3

LEMMA WriteEntrySound ==
    ASSUME NEW S \in {Sound, Ready}, NEW X \in SUBSET Syms, NEW d, NEW w, WritesFrom(S, X, d, w), NEW e \in Entries
    PROVE  WritesFrom(S, X, d, WriteEntry(w, e))
<1>1. w.d \in S
  BY DEF WritesFrom
<1>2. CASE e \in Menus
  <2> DEFINE v == Visible(w.d, e).d
  <2>1. v \in S /\ v \in Dbs /\ UserKept(X, w.d, v)
    BY <1>1, VisibleStays, FramesUser, SoundOrReady DEF Stays, Sound
  <2>2. WriteEntry(w, e) = [w EXCEPT !.d = v]
    BY <1>2 DEF WriteEntry
  <2> HIDE DEF v
  <2>3. UserKept(X, d, v)
    BY <2>1, UserKeptOrder DEF WritesFrom
  <2> QED BY <2>1, <2>2, <2>3 DEF WritesFrom, Writes
<1>3. CASE e \notin Menus /\ IsChoice(e)
  BY <1>3 DEF WriteEntry
<1>4. CASE e \notin Menus /\ ~IsChoice(e)
  <2>1. e \in Syms
    BY <1>4 DEF Entries
  <2>2. Calc(w.d, e) \in S /\ UserKept(X, w.d, Calc(w.d, e))
    BY <1>1, <2>1, CalcUser, CalcReady, SoundOrReady
  <2>3. WritesFrom(S, X, d, WriteLine(w, e, Calc(w.d, e)))
    BY <2>1, <2>2, WriteLineSound
  <2> QED BY <1>4, <2>3 DEF WriteEntry
<1> QED BY <1>2, <1>3, <1>4

\* conf_write leaves what the user has set as it was, what is kept right if it was, and
\* its file is a configuration.
LEMMA WriteSound ==
    ASSUME NEW S \in {Sound, Ready}, NEW d \in S, NEW dirty, NEW X \in SUBSET Syms
    PROVE  /\ Write(d, dirty).d \in S /\ UserKept(X, d, Write(d, dirty).d)
           /\ Write(d, dirty).out \in Contents
<1> DEFINE n == Len(MenuOrder)
           do == [i \in 1..n |-> [w \in Writes |-> WriteEntry(w, MenuOrder[i])]]
           d1 == IF dirty THEN d ELSE ClearAllValid(d)
           blank == [s \in Syms |-> Nobody]
           start == [d |-> d1, out |-> blank]
           Fine == {w \in Writes : WritesFrom(S, X, d, w)}
           r == Repeated(n, do, start)
           o == [s \in {x \in Syms : r.out[x] # Nobody} |-> r.out[s]]
<1>1. n \in Nat /\ \A i \in 1..n : MenuOrder[i] \in Entries
  BY MenuOrderType, LenProperties, ElementOfSeq
<1>2. Write(d, dirty) = [d |-> r.d, out |-> o]
  BY DEF Write, Each, Writes
<1>3. start \in Fine
  <2>1. d1 \in S /\ UserKept(X, d, d1)
    BY ClearUser, ClearReady, UserKeptOrder, SoundOrReady
  <2>2. blank \in Lines
    BY DEF Lines
  <2>3. d1 \in Dbs
    BY <2>1, SoundOrReady DEF Sound
  <2> HIDE DEF d1, blank
  <2> QED BY <2>1, <2>2, <2>3 DEF Writes, WritesFrom
<1>4. ASSUME NEW i \in 1..n, NEW w \in Fine
      PROVE  do[i][w] \in Fine
  <2>1. do[i][w] = WriteEntry(w, MenuOrder[i])
    OBVIOUS
  <2> HIDE DEF do
  <2>2. WritesFrom(S, X, d, WriteEntry(w, MenuOrder[i]))
    BY <1>1, WriteEntrySound
  <2> QED BY <2>1, <2>2 DEF WritesFrom
<1> HIDE DEF do, start, Fine, n
<1>5. r \in Fine
  BY <1>1, <1>3, <1>4, LoopInvariant
<1>6. WritesFrom(S, X, d, r)
  BY <1>5 DEF Fine
<1> HIDE DEF r
<1>7. o \in Contents
  <2> DEFINE Y == {x \in Syms : r.out[x] # Nobody}
  <2>1. \A s \in Y : r.out[s] \in Tristate
    BY <1>6 DEF WritesFrom, Writes, Lines
  <2>2. o \in [Y -> Tristate] /\ Y \in SUBSET Syms
    BY <2>1
  <2> HIDE DEF Y, o
  <2> QED BY <2>2 DEF Contents
<1> HIDE DEF o
<1> QED BY <1>2, <1>6, <1>7 DEF WritesFrom

(***************************************************************************)
(* make menuconfig.                                                        *)
(***************************************************************************)
Usable == /\ db \in Sound /\ cur \in Menus /\ name \in Names
          /\ files \in [Names -> Contents \union {NoFile}]

LEMMA ShownSound ==
    ASSUME NEW d \in Sound, NEW here \in Menus
    PROVE  Shown(d, here) \in Sound
BY ShownStays DEF Stays

LEMMA RootMenu ==
    Root \in Menus
BY EntriesAssumption

LEMMA ToggledType ==
    ASSUME NEW d \in Dbs, NEW s \in Syms
    PROVE  Toggled(d, s) \in Tristate
<1>1. d.sym[s].tri \in Tristate
  BY DbParts
<1>2. \A t \in Tristate : (t + 1) % 3 \in Tristate /\ (t + 2) % 3 \in Tristate
  BY DEF Tristate, no, mod, yes
<1> QED BY <1>1, <1>2 DEF Toggled

LEMMA StartedSound ==
    ASSUME NEW file1 \in Contents \union {NoFile}
    PROVE  Started(file1).d \in Sound
<1> DEFINE r == IF file1 = NoFile THEN [d |-> EmptyDb, changed |-> TRUE] ELSE ConfRead(EmptyDb, file1)
           e == Shown(r.d, Root)
<1>1. r.d \in Sound
  BY EmptySound, ConfReadSound
<1>2. Started(file1) = [r EXCEPT !.d = e]
  BY DEF Started
<1>3. e \in Sound
  BY <1>1, RootMenu, ShownSound
<1>4. \E d1, c1 : r = [d |-> d1, changed |-> c1]
  <2>1. CASE file1 = NoFile
    BY <2>1
  <2>2. CASE file1 # NoFile
    BY <2>2 DEF ConfRead, AfterRead, Remembered
  <2> QED BY <2>1, <2>2
<1> HIDE DEF e, r
<1> QED BY <1>2, <1>3, <1>4

LEMMA SymbolItems ==
    ASSUME db \in Sound, cur \in Menus
    PROVE  OnSymbol \subseteq Syms /\ Items \subseteq Entries
BY ShownStays DEF OnSymbol, Items, Entries

LEMMA SetUsable ==
    ASSUME Usable, NEW s \in Syms, NEW v \in Tristate, Set(s, v)
    PROVE  Usable'
<1>1. SetTri(db, s, v) \in Sound
  BY SetTriSound DEF Usable
<1>2. db' \in Sound
  BY <1>1, ShownSound DEF Usable, Set
<1> QED BY <1>2 DEF Usable, Set

LEMMA RenameUsable ==
    ASSUME Usable, NEW n \in Names, RenameFails(n)
    PROVE  db' \in Sound /\ files' \in [Names -> Contents \union {NoFile}]
<1>1. Write(db, changed).d \in Sound
  BY WriteSound DEF Usable
<1> QED BY <1>1 DEF RenameFails, Usable

LEMMA UsableInit ==
    Init => Usable
<1>1. SUFFICES ASSUME NEW file1 \in FirstFiles,
                      files = [n \in Names |-> IF n = ConfigName THEN file1 ELSE NoFile],
                      db = Started(file1).d, name = ConfigName, cur = Root
               PROVE  Usable
  BY DEF Init
<1>2. file1 \in Contents \union {NoFile} /\ ConfigName \in Names
  BY FilesAssumption
<1>3. db \in Sound
  BY <1>1, <1>2, StartedSound
<1> QED BY <1>1, <1>2, <1>3, RootMenu DEF Usable

LEMMA UsableNext ==
    Usable /\ [Next]_vars => Usable'
<1> SUFFICES ASSUME Usable, [Next]_vars
             PROVE  Usable'
  OBVIOUS
<1> USE DEF Usable
<1>1. OnSymbol \subseteq Syms /\ Items \subseteq Entries /\ db \in Dbs
  BY SymbolItems DEF Sound
<1>2. no \in Tristate /\ mod \in Tristate /\ yes \in Tristate
  BY DEF Tristate
<1>3. CASE PressYes
  <2>1. PICK s \in OnSymbol : Set(s, yes) \/ Set(s, mod)
    BY <1>3 DEF PressYes
  <2> QED BY <1>1, <1>2, <2>1, SetUsable
<1>4. CASE PressNo
  <2>1. PICK s \in OnSymbol : Set(s, no)
    BY <1>4 DEF PressNo
  <2> QED BY <1>1, <1>2, <2>1, SetUsable
<1>5. CASE PressMod
  <2>1. PICK s \in OnSymbol : Set(s, mod)
    BY <1>5 DEF PressMod
  <2> QED BY <1>1, <1>2, <2>1, SetUsable
<1>6. CASE PressSpace
  <2>1. PICK s \in OnSymbol : Set(s, Toggled(db, s))
    BY <1>6 DEF PressSpace
  <2> QED BY <1>1, <2>1, SetUsable, ToggledType
<1>7. CASE ConfChoice
  <2>1. PICK c \in OnSymbol : \E s \in Range(Members[c]) : Set(s, yes)
    BY <1>7 DEF ConfChoice
  <2>2. PICK s \in Range(Members[c]) : Set(s, yes)
    BY <2>1
  <2>3. s \in Syms
    BY <1>1, MembersIn
  <2> QED BY <1>2, <2>2, <2>3, SetUsable
<1>8. CASE Enter
  <2>1. PICK m \in Items \intersect Menus : cur' = m /\ db' = Shown(db, m)
    BY <1>8 DEF Enter
  <2> QED BY <1>8, <2>1, ShownSound DEF Enter
<1>9. CASE Leave
  BY <1>9, ShownSound, RootMenu DEF Leave
<1>10. CASE Load
  <2>1. PICK n \in Names : /\ files[n] # NoFile
                           /\ db' = Shown(ConfRead(db, files[n]).d, Root)
                           /\ name' = n
    BY <1>10 DEF Load
  <2>2. ConfRead(db, files[n]).d \in Sound
    BY <2>1, ConfReadSound
  <2>3. db' \in Sound
    BY <2>1, <2>2, ShownSound, RootMenu
  <2> QED BY <1>10, <2>1, <2>3 DEF Load
<1>11. CASE LoadMissing
  BY <1>11, ShownSound, RootMenu DEF LoadMissing
<1>12. CASE Save
  <2> DEFINE w == Write(db, changed)
  <2>1. PICK n \in Names : /\ db' = Shown(w.d, Root)
                           /\ files' = [files EXCEPT ![n] = w.out]
                           /\ name' = n
    BY <1>12 DEF Save
  <2>2. w.d \in Sound /\ w.out \in Contents
    BY WriteSound
  <2> HIDE DEF w
  <2>3. db' \in Sound /\ files' \in [Names -> Contents \union {NoFile}]
    BY <2>1, <2>2, ShownSound, RootMenu
  <2> QED BY <1>12, <2>1, <2>3 DEF Save
<1>13. CASE SaveFails
  <2>1. PICK n \in Names : RenameFails(n)
    BY <1>13 DEF SaveFails
  <2> QED BY <1>13, <2>1, RenameUsable DEF SaveFails
<1>14. CASE Exit
  BY <1>14 DEF Exit
<1>15. CASE AnswerYes
  <2> DEFINE w == Write(db, changed)
  <2>1. db' = w.d /\ files' = [files EXCEPT ![name] = w.out]
    BY <1>15 DEF AnswerYes
  <2>2. w.d \in Sound /\ w.out \in Contents
    BY WriteSound
  <2> HIDE DEF w
  <2> QED BY <1>15, <2>1, <2>2 DEF AnswerYes
<1>16. CASE AnswerYesFails
  BY <1>16, RenameUsable DEF AnswerYesFails
<1>17. CASE AnswerNo
  BY <1>17 DEF AnswerNo
<1>18. CASE AnswerEsc
  BY <1>18, ShownSound, RootMenu DEF AnswerEsc
<1>19. CASE Restart
  BY <1>19, StartedSound, FilesAssumption DEF Restart
<1>20. CASE UNCHANGED vars
  BY <1>20 DEF vars
<1> QED BY <1>3, <1>4, <1>5, <1>6, <1>7, <1>8, <1>9, <1>10, <1>11, <1>12, <1>13, <1>14, <1>15,
           <1>16, <1>17, <1>18, <1>19, <1>20 DEF Next

\* Whatever keys are pressed, files loaded and renames fail, and whatever the Kconfig:
\* the database stays one in which sym_calc_value is right, and the menu that is shown
\* and the files ones there are (mconf.c conf, conf_load, conf_save).
THEOREM MenuconfigUsable ==
    Spec => []Usable
BY UsableInit, UsableNext, PTL DEF Spec

\* In menuconfig a bool is never m, a choice picks one of its own values, and every
\* file holds values of symbols (symbol.c sym_calc_value, confdata.c conf_write).
THEOREM MenuconfigTypeOK ==
    Spec => []TypeOK
<1>1. Usable => TypeOK
  BY DEF Usable, Sound, OwnValues, TypeOK
<1> QED BY <1>1, MenuconfigUsable, PTL

\* What the user has set, but for one symbol and the choices and their values.
OneSet(d, e) == \E s \in Syms : UserKept(Ordinary \ {s}, d, e)

LEMMA SetOne ==
    ASSUME Usable, NEW s \in Syms, NEW v \in Tristate, Set(s, v)
    PROVE  OneSet(db, db')
<1>1. SetTri(db, s, v) \in Sound /\ UserKept(Ordinary \ {s}, db, SetTri(db, s, v))
  BY SetTriSound DEF Usable
<1>2. <<SetTri(db, s, v), db'>> \in Frames
  BY <1>1, ShownStays DEF Usable, Set, Stays
<1>3. UserKept(Ordinary \ {s}, SetTri(db, s, v), db')
  BY <1>2, FramesUser DEF Ordinary
<1> QED BY <1>1, <1>3, UserKeptOrder DEF OneSet

LEMMA AllKeptOne ==
    ASSUME NEW d, NEW e, UserKept(Syms, d, e)
    PROVE  OneSet(d, e)
<1>1. ModulesSym \in Syms
  BY SymbolsAssumption DEF Syms
<1> QED BY <1>1 DEF OneSet, UserKept, Ordinary

LEMMA ShownOne ==
    ASSUME NEW d \in Sound, NEW e \in Sound, UserKept(Syms, d, e), NEW here \in Menus
    PROVE  OneSet(d, e) /\ OneSet(d, Shown(e, here))
<1>1. UserKept(Syms, e, Shown(e, here))
  BY ShownStays, FramesUser DEF Stays
<1> QED BY <1>1, UserKeptOrder, AllKeptOne

LEMMA OneSetNext ==
    Usable /\ [Next]_vars => [Load \/ Restart \/ OneSet(db, db')]_vars
<1> SUFFICES ASSUME Usable, Next
             PROVE  Load \/ Restart \/ OneSet(db, db')
  OBVIOUS
<1>1. OnSymbol \subseteq Syms /\ db \in Sound /\ db \in Dbs /\ cur \in Menus /\ Root \in Menus
  BY SymbolItems, RootMenu DEF Usable, Sound
<1>2. no \in Tristate /\ mod \in Tristate /\ yes \in Tristate
  BY DEF Tristate
<1>3. UserKept(Syms, db, db)
  BY UserKeptOrder
<1>4. Write(db, changed).d \in Sound /\ UserKept(Syms, db, Write(db, changed).d)
  BY <1>1, WriteSound
<1>5. CASE PressYes \/ PressNo \/ PressMod
  <2>1. PICK s \in OnSymbol : Set(s, yes) \/ Set(s, no) \/ Set(s, mod)
    BY <1>5 DEF PressYes, PressNo, PressMod
  <2> QED BY <1>1, <1>2, <2>1, SetOne
<1>6. CASE PressSpace
  <2>1. PICK s \in OnSymbol : Set(s, Toggled(db, s))
    BY <1>6 DEF PressSpace
  <2> QED BY <1>1, <2>1, SetOne, ToggledType
<1>7. CASE ConfChoice
  <2>1. PICK c \in OnSymbol : \E s \in Range(Members[c]) : Set(s, yes)
    BY <1>7 DEF ConfChoice
  <2>2. PICK s \in Range(Members[c]) : Set(s, yes)
    BY <2>1
  <2>3. s \in Syms
    BY <1>1, MembersIn
  <2> QED BY <1>2, <2>2, <2>3, SetOne
<1>8. CASE Enter \/ Leave \/ LoadMissing \/ AnswerEsc
  <2>1. PICK here \in Menus : db' = Shown(db, here)
    BY <1>1, <1>8 DEF Enter, Leave, LoadMissing, AnswerEsc
  <2> QED BY <1>1, <1>3, <2>1, ShownOne
<1>9. CASE Save
  <2>1. db' = Shown(Write(db, changed).d, Root)
    BY <1>9 DEF Save
  <2> QED BY <1>1, <1>4, <2>1, ShownOne
<1>10. CASE SaveFails \/ AnswerYes \/ AnswerYesFails
  <2>1. db' = Write(db, changed).d
    BY <1>10 DEF SaveFails, AnswerYes, AnswerYesFails, RenameFails
  <2> QED BY <1>1, <1>4, <2>1, AllKeptOne
<1>11. CASE Exit \/ AnswerNo
  <2>1. db' = db
    BY <1>11 DEF Exit, AnswerNo
  <2> QED BY <1>3, <2>1, AllKeptOne
<1> QED BY <1>5, <1>6, <1>7, <1>8, <1>9, <1>10, <1>11 DEF Next

\* Unless a file is read, a key of menuconfig changes what the user has set of one
\* symbol at most, and otherwise only of the values of a choice and of the choice: not
\* by drawing a menu, nor by saving, nor when saving fails (mconf.c conf, confdata.c conf_write).
THEOREM MenuconfigOneSet ==
    Spec => [][Load \/ Restart \/ OneSet(db, db')]_vars
BY OneSetNext, MenuconfigUsable, PTL DEF Spec

(***************************************************************************)
(* What keys do to what is kept.                                           *)
(***************************************************************************)
LEMMA ReadyCoherent ==
    ASSUME NEW d \in Ready
    PROVE  \A order \in {HashOrder, Reverse(HashOrder)} : UpToDate(d, Fresh(d, order))
<1>1. HashOrder \in Seq(Syms) /\ Range(HashOrder) = Syms
  BY EntriesAssumption
<1> DEFINE n == Len(HashOrder)
           back == [i \in 1..n |-> HashOrder[(n - i) + 1]]
<1>2. Reverse(HashOrder) = back
  BY DEF Reverse
<1>3. n \in Nat /\ DOMAIN HashOrder = 1..n /\ \A i \in 1..n : HashOrder[i] \in Syms
  BY <1>1, LenProperties, ElementOfSeq
<1>4. \A i \in 1..n : (n - i) + 1 \in 1..n /\ (n - ((n - i) + 1)) + 1 = i
  BY <1>3
<1>5. back \in Seq(Syms) /\ DOMAIN back = 1..n
  BY <1>3, <1>4, IsASeq
<1>6. \A x \in Syms : \E i \in 1..n : x = back[i]
  <2> SUFFICES ASSUME NEW x \in Syms
               PROVE  \E i \in 1..n : x = back[i]
    OBVIOUS
  <2>1. PICK j \in 1..n : x = HashOrder[j]
    BY <1>1, <1>3 DEF Range
  <2>2. x = back[(n - j) + 1]
    BY <1>4, <2>1
  <2> HIDE DEF back, n
  <2> QED BY <1>4, <2>2
<1>7. \A i \in 1..n : back[i] \in Syms
  BY <1>3, <1>4
<1> HIDE DEF back, n
<1>8. Range(back) = Syms
  BY <1>5, <1>6, <1>7 DEF Range
<1> QED BY <1>1, <1>2, <1>5, <1>8, KeptIsFresh

LEMMA ShownReady ==
    ASSUME NEW d \in Ready, NEW here \in Menus
    PROVE  Shown(d, here) \in Ready
BY ShownStays DEF Stays

\* Setting a value a symbol does not have.
Changes == \E s \in Syms, v \in Tristate : Set(s, v) /\ Touches(db, s, v)
\* Setting the value it has.
Confirms == \E s \in Syms, v \in Tristate : Set(s, v) /\ ~Touches(db, s, v)

StaysRight == db \in Ready => db' \in Ready \/ Confirms \/ Load \/ Restart

LEMMA ChangesReady ==
    ASSUME Usable, Changes
    PROVE  db' \in Ready
<1>1. PICK s \in Syms, v \in Tristate : Set(s, v) /\ Touches(db, s, v)
  BY DEF Changes
<1> DEFINE g == Given(db, s, v)
<1>2. SetTri(db, s, v) = ClearAllValid(g)
  BY <1>1 DEF SetTri, Touches
<1>3. g \in Sound
  BY GivenSound DEF Usable
<1> HIDE DEF g
<1>4. SetTri(db, s, v) \in Ready
  BY <1>2, <1>3, ClearReady
<1> QED BY <1>1, <1>4, ShownReady DEF Set, Usable

LEMMA SetEither ==
    ASSUME NEW s \in Syms, NEW v \in Tristate, Set(s, v)
    PROVE  Changes \/ Confirms
BY DEF Changes, Confirms

LEMMA CacheNext ==
    Usable /\ [Next]_vars =>
        /\ [StaysRight]_vars
        /\ [Changes => db' \in Ready /\ Coherent']_vars
<1> SUFFICES ASSUME Usable, Next
             PROVE  /\ StaysRight
                    /\ Changes => db' \in Ready /\ Coherent'
  OBVIOUS
<1>1. Changes => db' \in Ready /\ Coherent'
  BY ChangesReady, ReadyCoherent DEF Coherent
<1>2. ASSUME db \in Ready
      PROVE  db' \in Ready \/ Confirms \/ Load \/ Restart
  <2>1. OnSymbol \subseteq Syms /\ db \in Dbs /\ cur \in Menus /\ Root \in Menus
    BY SymbolItems, RootMenu DEF Usable, Sound
  <2>2. no \in Tristate /\ mod \in Tristate /\ yes \in Tristate
    BY DEF Tristate
  <2>3. Write(db, changed).d \in Ready
    BY <1>2, WriteSound
  <2>4. CASE PressYes \/ PressNo \/ PressMod
    <3>1. PICK s \in OnSymbol : Set(s, yes) \/ Set(s, no) \/ Set(s, mod)
      BY <2>4 DEF PressYes, PressNo, PressMod
    <3> QED BY <2>1, <2>2, <3>1, SetEither, ChangesReady
  <2>5. CASE PressSpace
    <3>1. PICK s \in OnSymbol : Set(s, Toggled(db, s))
      BY <2>5 DEF PressSpace
    <3> QED BY <2>1, <3>1, SetEither, ToggledType, ChangesReady
  <2>6. CASE ConfChoice
    <3>1. PICK c \in OnSymbol : \E s \in Range(Members[c]) : Set(s, yes)
      BY <2>6 DEF ConfChoice
    <3>2. PICK s \in Range(Members[c]) : Set(s, yes)
      BY <3>1
    <3>3. s \in Syms
      BY <2>1, MembersIn
    <3> QED BY <2>2, <3>2, <3>3, SetEither, ChangesReady
  <2>7. CASE Enter \/ Leave \/ LoadMissing \/ AnswerEsc
    <3>1. PICK here \in Menus : db' = Shown(db, here)
      BY <2>1, <2>7 DEF Enter, Leave, LoadMissing, AnswerEsc
    <3> QED BY <1>2, <3>1, ShownReady
  <2>8. CASE Save
    <3>1. db' = Shown(Write(db, changed).d, Root)
      BY <2>8 DEF Save
    <3> QED BY <2>1, <2>3, <3>1, ShownReady
  <2>9. CASE SaveFails \/ AnswerYes \/ AnswerYesFails
    <3>1. db' = Write(db, changed).d
      BY <2>9 DEF SaveFails, AnswerYes, AnswerYesFails, RenameFails
    <3> QED BY <2>3, <3>1
  <2>10. CASE Exit \/ AnswerNo
    <3>1. db' = db
      BY <2>10 DEF Exit, AnswerNo
    <3> QED BY <1>2, <3>1
  <2> QED BY <2>4, <2>5, <2>6, <2>7, <2>8, <2>9, <2>10 DEF Next
<1> QED BY <1>1, <1>2 DEF StaysRight

\* In menuconfig every key that changes a value leaves only right values kept, whatever
\* was kept before, a configuration read over it or a choice set late included
\* (symbol.c sym_set_tristate_value, sym_clear_all_valid; then build_conf).
THEOREM ChangeHeals ==
    Spec => [][Changes => db' \in Ready /\ Coherent']_vars
BY CacheNext, MenuconfigUsable, PTL DEF Spec

\* Once they are right, only a configuration that is read and a value that is set to
\* what it is already, which clears nothing, can leave wrong values kept: no drawing of a menu, no
\* writing of a file, failed or not, and no other key (mconf.c, confdata.c conf_write).
THEOREM CacheStaysRight ==
    Spec => [][StaysRight]_vars
BY CacheNext, MenuconfigUsable, PTL DEF Spec

\* In menuconfig no two values of a choice are ever y, the one that is y is the one
\* the choice picks, and a picked value is visible (symbol.c sym_calc_choice and
\* sym_calc_value), for every Kconfig that sym_check_deps accepts.
THEOREM MenuconfigChoiceOne ==
    Spec => []ChoiceOne
<1>1. Usable => ChoiceOne
  BY FreshRight, OnePickedRight, EntriesAssumption DEF Usable, ChoiceOne
<1> QED BY <1>1, MenuconfigUsable, PTL

\* In menuconfig a symbol is never lower than what selects it, and without defaults
\* never higher than its dependencies and its selects allow (symbol.c sym_calc_value).
THEOREM MenuconfigWithinDependencies ==
    Spec => []WithinDependencies
<1>1. Usable => WithinDependencies
  BY FreshRight, BoundsRight, EntriesAssumption DEF Usable, WithinDependencies
<1> QED BY <1>1, MenuconfigUsable, PTL

(***************************************************************************)
(* conf: what is read, and values for what is new.                         *)
(***************************************************************************)
LEMMA ReadParts ==
    ASSUME NEW f, f.tri \in Contents
    PROVE  Read(f).d \in Sound /\ [Read(f) EXCEPT !.changed = TRUE].d = Read(f).d
<1> DEFINE r == ReadSimple(EmptyDb, f.tri)
           u == CheckAll(r.d)
           odd == \E n \in Numbers : ~NumAgrees(u.d, NumsRead(f.num), n)
           v == [u EXCEPT !.unsaved = @ \/ odd]
<1>1. r.d \in Sound
  BY EmptySound, ReadSimpleSound
<1> HIDE DEF r
<1>2. u \in Checks /\ u.d \in Sound
  BY <1>1, CheckAllSound
<1>3. Read(f) = ForgottenAll(v, NumsRead(f.num), r.warned \/ NumsWarned(f.num))
  BY DEF Read, Compare, WithNumbers, r
<1> HIDE DEF u
<1>4. odd \in BOOLEAN
  OBVIOUS
<1> HIDE DEF odd
<1>5. v.d = u.d /\ v.unsaved \in BOOLEAN
  BY <1>2, <1>4 DEF Checks
<1> HIDE DEF v
<1>6. Forgotten(v.d, v.unsaved) \in Sound
  BY <1>2, <1>5, ForgottenSound
<1>7. \E n1, c1 : Read(f) = [d |-> Forgotten(v.d, v.unsaved), num |-> n1, changed |-> c1]
  BY <1>3 DEF ForgottenAll
<1> QED BY <1>6, <1>7

LEMMA ReadConfigSound ==
    ASSUME file = NoFile \/ file.tri \in Contents
    PROVE  ReadConfig.d \in Sound /\ (file # NoFile => ReadConfig = Read(file))
<1>1. CASE file # NoFile
  BY <1>1, ReadParts DEF ReadConfig
<1>2. CASE file = NoFile /\ DefaultFile # NoFile
  <2>1. DefaultFile.tri \in Contents
    BY <1>2, ConfigsAssumption
  <2>2. ReadConfig = [Read(DefaultFile) EXCEPT !.changed = TRUE]
    BY <1>2 DEF ReadConfig
  <2> QED BY <1>2, <2>1, <2>2, ReadParts
<1>3. CASE file = NoFile /\ DefaultFile = NoFile
  BY <1>3, EmptySound DEF ReadConfig, Nothing
<1> QED BY <1>1, <1>2, <1>3

LEMMA ReadAllSound ==
    ASSUME NEW f, f = NoFile \/ f.tri \in Contents
    PROVE  ReadAll(f).d \in Sound
<1>1. CASE f = NoFile
  BY <1>1, EmptySound DEF ReadAll, Nothing
<1>2. CASE f # NoFile
  BY <1>2, EmptySound, ReadSimpleSound DEF ReadAll
<1> QED BY <1>1, <1>2

LEMMA SetNewSound ==
    ASSUME NEW d \in Sound, NEW how \in SetModes, NEW rand, how = "set_random" => rand \in [Syms -> Tristate]
    PROVE  SetNew(d, how, rand) \in Sound
<1> DEFINE value(s) == NewValue(how, rand, s)
           user(s) == ~(IsChoice(s) /\ how = "set_random")
           rec(s) == IF d.sym[s].user \/ how = "set_default" THEN d.sym[s]
                     ELSE [d.sym[s] EXCEPT !.utri = value(s), !.user = user(s)]
           g == [s \in Syms |-> rec(s)]
<1>1. SetNew(d, how, rand) = [d EXCEPT !.sym = g]
  BY Zenon DEF SetNew
<1>2. \A s \in Syms : d.sym[s] \in SymRecs
  BY DbParts DEF Sound
<1>3. ASSUME NEW s \in Syms, how # "set_default"
      PROVE  value(s) \in Tristate /\ user(s) \in BOOLEAN
  BY <1>3 DEF NewValue, SetModes, Tristate
<1> HIDE DEF value, user
<1>4. ASSUME NEW s \in Syms
      PROVE  /\ rec(s) \in SymRecs
             /\ \A field \in {"tri", "sel", "rev", "usel"} : rec(s)[field] = d.sym[s][field]
  <2>1. CASE d.sym[s].user \/ how = "set_default"
    BY <1>2, <2>1
  <2>2. CASE ~(d.sym[s].user \/ how = "set_default")
    <3>1. rec(s) = [d.sym[s] EXCEPT !.utri = value(s), !.user = user(s)]
      BY <2>2
    <3>2. d.sym[s] \in SymRecs /\ value(s) \in Tristate /\ user(s) \in BOOLEAN
      BY <1>2, <1>3, <2>2
    <3> HIDE DEF rec
    <3> QED BY <3>1, <3>2 DEF SymRecs
  <2> QED BY <2>1, <2>2
<1> HIDE DEF rec
<1>5. g \in [Syms -> SymRecs] /\ \A s \in Syms : g[s] = rec(s)
  BY <1>4
<1> HIDE DEF g
<1>6. SoundRecs(g)
  <2>1. SUFFICES ASSUME NEW x \in Syms
                 PROVE  /\ x \in Bools => g[x].tri # mod
                        /\ g[x].sel \in OwnValues(x) /\ g[x].usel \in OwnValues(x)
                        /\ IsChoiceVal(x) => g[x].rev = no
    BY DEF SoundRecs
  <2>2. g[x].tri = d.sym[x].tri /\ g[x].sel = d.sym[x].sel /\ g[x].rev = d.sym[x].rev /\ g[x].usel = d.sym[x].usel
    BY <1>4, <1>5
  <2> QED BY <2>2, SoundParts
<1> QED BY <1>1, <1>5, <1>6, RewriteSound

LEMMA PickRandomSound ==
    ASSUME NEW d \in Sound, NEW c \in Syms, NEW x \in Range(Members[c])
    PROVE  PickRandom(d, c, x) \in Sound
<1> DEFINE value(s) == IF s = x THEN yes ELSE no
           rec(s) == IF s = c THEN [d.sym[s] EXCEPT !.usel = x, !.user = TRUE, !.valid = FALSE]
                     ELSE IF s \in Range(Members[c]) THEN [d.sym[s] EXCEPT !.utri = value(s)]
                     ELSE d.sym[s]
           g == [s \in Syms |-> rec(s)]
<1>1. PickRandom(d, c, x) = [d EXCEPT !.sym = g]
  BY Zenon DEF PickRandom
<1>2. \A s \in Syms : d.sym[s] \in SymRecs
  BY DbParts DEF Sound
<1>3. x \in OwnValues(c) /\ x \in Syms
  BY MembersIn DEF OwnValues
<1>4. \A s : value(s) \in Tristate
  BY DEF Tristate
<1> HIDE DEF value
<1>5. ASSUME NEW s \in Syms
      PROVE  /\ rec(s) \in SymRecs
             /\ \A field \in {"tri", "sel", "rev"} : rec(s)[field] = d.sym[s][field]
             /\ rec(s).usel \in OwnValues(s)
  <2>1. d.sym[s] \in SymRecs /\ d.sym[s].usel \in OwnValues(s) /\ value(s) \in Tristate
    BY <1>2, <1>4, SoundParts
  <2>2. CASE s = c
    <3>1. rec(s) = [d.sym[s] EXCEPT !.usel = x, !.user = TRUE, !.valid = FALSE]
      BY <2>2
    <3> HIDE DEF rec
    <3> QED BY <1>3, <2>1, <2>2, <3>1 DEF SymRecs
  <2>3. CASE s # c /\ s \in Range(Members[c])
    <3>1. rec(s) = [d.sym[s] EXCEPT !.utri = value(s)]
      BY <2>3
    <3> HIDE DEF rec
    <3> QED BY <2>1, <3>1 DEF SymRecs
  <2>4. CASE s # c /\ s \notin Range(Members[c])
    BY <2>1, <2>4
  <2> QED BY <2>2, <2>3, <2>4
<1> HIDE DEF rec
<1>6. g \in [Syms -> SymRecs] /\ \A s \in Syms : g[s] = rec(s)
  BY <1>5
<1> HIDE DEF g
<1>7. SoundRecs(g)
  <2>1. SUFFICES ASSUME NEW s \in Syms
                 PROVE  /\ s \in Bools => g[s].tri # mod
                        /\ g[s].sel \in OwnValues(s) /\ g[s].usel \in OwnValues(s)
                        /\ IsChoiceVal(s) => g[s].rev = no
    BY DEF SoundRecs
  <2>2. g[s].tri = d.sym[s].tri /\ g[s].sel = d.sym[s].sel /\ g[s].rev = d.sym[s].rev /\ g[s].usel \in OwnValues(s)
    BY <1>5, <1>6
  <2> QED BY <2>2, SoundParts
<1> QED BY <1>1, <1>6, <1>7, RewriteSound

LEMMA RandomizedSound ==
    ASSUME NEW d \in Sound, NEW picks \in RandomPicks
    PROVE  Randomized(d, picks) \in Sound
<1> DEFINE unset(d1, c) == IF d1.sym[c].user \/ ~IsChoice(c) THEN d1
                           ELSE IF Calc(d1, c).sym[c].tri = yes THEN PickRandom(Calc(d1, c), c, picks[c])
                           ELSE Calc(d1, c)
           n == Len(HashOrder)
           do == [i \in 1..n |-> [u \in Dbs |-> unset(u, HashOrder[i])]]
<1>1. n \in Nat /\ \A i \in 1..n : HashOrder[i] \in Syms
  BY EntriesAssumption, LenProperties, ElementOfSeq
<1>2. Randomized(d, picks) = Repeated(n, do, d)
  BY DEF Randomized, Each
<1>3. ASSUME NEW u \in Sound, NEW c \in Syms
      PROVE  unset(u, c) \in Sound
  <2>1. Calc(u, c) \in Sound
    BY CalcUser
  <2>2. IsChoice(c) => PickRandom(Calc(u, c), c, picks[c]) \in Sound
    <3>1. SUFFICES ASSUME IsChoice(c)
                   PROVE  PickRandom(Calc(u, c), c, picks[c]) \in Sound
      OBVIOUS
    <3>2. picks[c] \in DOMAIN ChoiceOf /\ ChoiceOf[picks[c]] = c
      BY <3>1 DEF RandomPicks
    <3>3. picks[c] \in Syms
      BY <3>2, ChoiceAssumption
    <3>4. picks[c] \in Range(Members[c])
      BY <3>2, <3>3, ChoiceAssumption DEF IsChoiceVal
    <3> QED BY <2>1, <3>4, PickRandomSound
  <2> QED BY <2>1, <2>2
<1>4. ASSUME NEW i \in 1..n, NEW u \in Sound
      PROVE  do[i][u] \in Sound
  <2>1. do[i][u] = unset(u, HashOrder[i])
    BY DEF Sound
  <2> HIDE DEF do, unset
  <2> QED BY <1>1, <1>3, <2>1
<1> HIDE DEF do, n
<1> QED BY <1>1, <1>2, <1>4, LoopInvariant

LEMMA SetAllNewSound ==
    ASSUME NEW d \in Sound, NEW how \in SetModes, NEW rand, NEW picks,
           how = "set_random" => rand \in [Syms -> Tristate] /\ picks \in RandomPicks
    PROVE  SetAllNew(d, how, rand, picks) \in Sound
<1> DEFINE d1 == ClearAllValid(SetNew(d, how, rand))
<1>1. d1 \in Sound
  BY SetNewSound, ClearStays
<1>2. SetAllNew(d, how, rand, picks) = IF how = "set_random" THEN Randomized(d1, picks) ELSE d1
  BY DEF SetAllNew
<1> HIDE DEF d1
<1> QED BY <1>1, <1>2, RandomizedSound

(***************************************************************************)
(* conf: the calls that are still to be made.                              *)
(***************************************************************************)
CallsToMake == {c \in [do : {"conf", "check", "sym", "string", "choice", "several"},
                       e : InTree \union Numbers, new : BOOLEAN] :
                   /\ c.do = "sym" => c.e \in Syms
                   /\ c.do \in {"choice", "several"} => c.e \in Syms /\ IsChoice(c.e)
                   /\ c.do = "string" => c.e \in Numbers}

LEMMA TreeParts ==
    /\ InTree \subseteq Entries /\ Root \in InTree
    /\ \A e \in Entries : \A k \in Range(Kids[e]) : k \in InTree
    /\ \A e \in Entries : Kids[e] # <<>> => e \in InTree
<1>1. InTree \subseteq Entries
  BY KidsParts DEF InTree, Entries
<1>2. Root \in InTree
  BY RootMenu DEF InTree
<1>3. \A e \in Entries : \A k \in Range(Kids[e]) : k \in InTree
  BY DEF InTree
<1>4. \A e \in Entries : Kids[e] # <<>> => e \in InTree
  BY ConfigsAssumption
<1> QED BY <1>1, <1>2, <1>3, <1>4

LEMMA MenuOfInTree ==
    ASSUME NEW e \in InTree \union Numbers
    PROVE  MenuOf(e) \in InTree
<1> DEFINE X == [InTree -> InTree]
           parent(x) == CHOOSE p \in InTree : x \in Range(Kids[p])
           up(a) == [x \in InTree |-> IF x \in Menus THEN x ELSE a[parent(x)]]
           zero == [x \in InTree |-> x]
           F == [a \in X |-> up(a)]
           IsMenuAt(g) == g = [n \in Nat |-> [x \in InTree |-> IF x \in Menus \/ n = 0 THEN x ELSE g[n - 1][parent(x)]]]
<1>1. ASSUME NEW x \in InTree, x \notin Menus
      PROVE  parent(x) \in InTree
  <2>1. PICK p \in Entries : x \in Range(Kids[p])
    BY <1>1 DEF InTree
  <2>2. Kids[p] # <<>>
    BY <2>1 DEF Range
  <2> QED BY <2>1, <2>2, TreeParts
<1> HIDE DEF parent
<1>2. ASSUME NEW a \in X
      PROVE  up(a) \in X
  BY <1>1
<1>3. zero \in X /\ F \in [X -> X]
  BY <1>2
<1>4. PICK g : IsTower(g, X, F, zero)
  BY <1>3, TowerExists
<1>5. g \in [Nat -> X] /\ g = [n \in Nat |-> IF n = 0 THEN zero ELSE F[g[n - 1]]]
  BY <1>4 DEF IsTower
<1>6. IsMenuAt(g)
  <2>1. ASSUME NEW n \in Nat
        PROVE  g[n] = [x \in InTree |-> IF x \in Menus \/ n = 0 THEN x ELSE g[n - 1][parent(x)]]
    <3>1. CASE n = 0
      BY <1>5, <3>1
    <3>2. CASE n # 0
      <4>1. n - 1 \in Nat
        BY <3>2
      <4>2. g[n] = up(g[n - 1])
        BY <1>5, <3>2, <4>1
      <4> QED BY <3>2, <4>2
    <3> QED BY <3>1, <3>2
  <2> HIDE DEF F, zero
  <2> QED BY <1>5, <2>1
<1>7. IsMenuAt(MenuAt)
  <2>1. MenuAt = CHOOSE f : IsMenuAt(f)
    BY DEF MenuAt, parent
  <2> HIDE DEF IsMenuAt
  <2> QED BY <1>6, <2>1
<1> DEFINE A == {n \in Nat : MenuAt[n] \in X}
<1>8. 0 \in A
  BY <1>7
<1>9. ASSUME NEW n \in Nat, n \in A
      PROVE  n + 1 \in A
  <2>1. n + 1 \in Nat /\ (n + 1) - 1 = n /\ n + 1 # 0
    OBVIOUS
  <2>2. MenuAt[n + 1] = up(MenuAt[n])
    BY <1>7, <2>1
  <2> HIDE DEF up
  <2> QED BY <1>2, <1>9, <2>1, <2>2
<1> HIDE DEF A
<1>10. Height \in A
  BY <1>8, <1>9, Climb, HeightType
<1>11. e \in Numbers => NumMenu[e] \in InTree
  BY ConfigsAssumption DEF InTree
<1> QED BY <1>10, <1>11 DEF A, MenuOf

LEMMA SetToSeqType ==
    ASSUME NEW S, IsFiniteSet(S)
    PROVE  SetToSeq(S) \in Seq(S)
<1>1. Cardinality(S) \in Nat /\ ExistsBijection(1..Cardinality(S), S)
  BY FS_CardinalityType
<1>2. \E f \in [1..Cardinality(S) -> S] : IsInjective(f)
  BY <1>1 DEF ExistsBijection, Bijection, Injection, IsInjective
<1>3. SetToSeq(S) \in [1..Cardinality(S) -> S]
  BY <1>2 DEF SetToSeq
<1> QED BY <1>1, <1>3, SeqDef

LEMMA SeqWider ==
    ASSUME NEW S, NEW T, S \subseteq T, NEW q \in Seq(S)
    PROVE  q \in Seq(T)
BY ElementOfSeq, LenProperties, SeqDef

LEMMA EntriesBelowType ==
    ASSUME NEW e \in InTree \union Numbers
    PROVE  EntriesBelow(e) \in Seq(InTree \union Numbers)
<1> DEFINE T == InTree \union Numbers
           below == {n \in Numbers : NumMenu[n] = e}
<1>1. CASE e \in Numbers
  <2>1. <<>> \in Seq(T)
    OBVIOUS
  <2> QED BY <1>1, <2>1 DEF EntriesBelow
<1>2. CASE e \notin Numbers
  <2>1. e \in Entries
    BY <1>2, TreeParts
  <2>2. Kids[e] \in Seq(T)
    <3>1. Len(Kids[e]) \in Nat /\ \A i \in 1..Len(Kids[e]) : Kids[e][i] \in T
      BY <2>1, KidsParts, TreeParts
    <3>2. Kids[e] \in Seq(Entries)
      BY <2>1, KidsParts
    <3> HIDE DEF T
    <3> QED BY <3>1, <3>2, LenProperties, SeqDef
  <2>3. IsFiniteSet(below)
    BY ConfigsAssumption, FS_Subset
  <2>4. SetToSeq(below) \in Seq(below)
    BY <2>3, SetToSeqType
  <2>5. below \subseteq T
    OBVIOUS
  <2>6. EntriesBelow(e) = Kids[e] \o SetToSeq(below)
    BY <1>2 DEF EntriesBelow
  <2> HIDE DEF below, T
  <2>7. SetToSeq(below) \in Seq(T)
    BY <2>4, <2>5, SeqWider
  <2>8. EntriesBelow(e) \in Seq(T)
    BY <2>2, <2>6, <2>7, ConcatProperties
  <2> QED BY <2>8 DEF T
<1> QED BY <1>1, <1>2

ToMake == Seq(CallsToMake)

LEMMA CallsType ==
    ASSUME NEW do \in {"conf", "check"}, NEW es \in Seq(InTree \union Numbers)
    PROVE  Calls(do, es) \in ToMake
<1>1. DOMAIN es = 1..Len(es) /\ Len(es) \in Nat /\ \A i \in 1..Len(es) : es[i] \in InTree \union Numbers
  BY LenProperties, ElementOfSeq
<1>2. \A i \in 1..Len(es) : Call(do, es[i]) \in CallsToMake
  BY <1>1 DEF Call, CallsToMake
<1>3. Calls(do, es) = [i \in 1..Len(es) |-> Call(do, es[i])]
  BY <1>1 DEF Calls
<1>4. Calls(do, es) \in [1..Len(es) -> CallsToMake]
  BY <1>2, <1>3
<1> QED BY <1>1, <1>4, SeqDef DEF ToMake

LEMMA ToMakeParts ==
    /\ <<>> \in ToMake
    /\ \A c \in CallsToMake : <<c>> \in ToMake
    /\ \A p, q \in ToMake : p \o q \in ToMake
    /\ \A q \in ToMake : q # <<>> => Head(q) \in CallsToMake /\ Tail(q) \in ToMake
<1>1. <<>> \in ToMake /\ \A c \in CallsToMake : <<c>> \in ToMake
  BY DEF ToMake
<1>2. \A p, q \in ToMake : p \o q \in ToMake
  BY ConcatProperties DEF ToMake
<1>3. \A q \in ToMake : q # <<>> => Head(q) \in CallsToMake /\ Tail(q) \in ToMake
  BY HeadTailProperties DEF ToMake
<1> QED BY <1>1, <1>2, <1>3

LEMMA KidsCalls ==
    ASSUME NEW e \in Entries, NEW do \in {"conf", "check"}
    PROVE  Calls(do, Kids[e]) \in ToMake
<1>1. \A i \in 1..Len(Kids[e]) : Kids[e][i] \in InTree \union Numbers
  BY KidsParts, TreeParts
<1>2. Kids[e] \in Seq(InTree \union Numbers)
  BY <1>1, KidsParts, LenProperties, SeqDef
<1> QED BY <1>2, CallsType

LEMMA CallType ==
    ASSUME NEW e \in InTree \union Numbers
    PROVE  /\ Call("conf", e) \in CallsToMake /\ Call("check", e) \in CallsToMake
           /\ e \in Numbers => Call("string", e) \in CallsToMake
           /\ e \in Syms => Call("sym", e) \in CallsToMake
           /\ e \in Syms /\ IsChoice(e) => /\ Call("several", e) \in CallsToMake
                                           /\ \A b \in BOOLEAN : [Call("choice", e) EXCEPT !.new = b] \in CallsToMake
BY DEF Call, CallsToMake

LEMMA ConfCallsType ==
    ASSUME NEW d \in Sound, NEW e \in InTree \union Numbers
    PROVE  ConfCalls(d, e) \in ToMake
<1>1. CASE e \in Menus
  <2>1. Calls("conf", EntriesBelow(e)) \in ToMake
    BY EntriesBelowType, CallsType
  <2>2. <<Call("check", e)>> \in ToMake
    BY CallType, ToMakeParts
  <2> QED BY <1>1, <2>1, <2>2 DEF ConfCalls
<1>2. CASE e \notin Menus /\ e \in Numbers
  <2>1. <<Call("string", e)>> \in ToMake
    BY <1>2, CallType, ToMakeParts
  <2> QED BY <1>2, <2>1 DEF ConfCalls
<1>3. CASE e \notin Menus /\ e \notin Numbers /\ IsChoice(e)
  <2>1. e \in Syms
    BY <1>3, TreeParts DEF Entries
  <2>2. (~d.sym[e].user) \in BOOLEAN
    OBVIOUS
  <2> DEFINE new == ~d.sym[e].user
             first1 == IF Changeable(d, e) THEN <<Call("sym", e)>> ELSE <<>>
             a == [Call("choice", e) EXCEPT !.new = new]
             b == Call("several", e)
  <2>3. ConfCalls(d, e) = first1 \o <<a, b>>
    BY <1>3 DEF ConfCalls, ChoiceCalls
  <2>4. first1 \in ToMake
    BY <2>1, CallType, ToMakeParts
  <2> HIDE DEF new
  <2>5. a \in CallsToMake /\ b \in CallsToMake
    BY <1>3, <2>1, <2>2, CallType DEF new
  <2> HIDE DEF first1, a, b
  <2>6. <<a, b>> \in ToMake
    BY <2>5 DEF ToMake
  <2> QED BY <2>3, <2>4, <2>6, ToMakeParts
<1>4. CASE e \notin Menus /\ e \notin Numbers /\ ~IsChoice(e)
  <2>1. e \in Syms /\ e \in Entries
    BY <1>4, TreeParts DEF Entries
  <2>2. <<Call("sym", e)>> \in ToMake /\ Calls("conf", Kids[e]) \in ToMake
    BY <2>1, CallType, KidsCalls, ToMakeParts
  <2>3. ConfCalls(d, e) = <<Call("sym", e)>> \o Calls("conf", Kids[e])
    BY <1>4 DEF ConfCalls
  <2> QED BY <2>2, <2>3, ToMakeParts
<1> QED BY <1>1, <1>2, <1>3, <1>4

LEMMA SeeStays ==
    ASSUME db \in Sound, NEW e \in InTree \union Numbers
    PROVE  See(e).d \in Sound /\ UserKept(Ordinary, db, See(e).d)
<1>1. Ordinary \in SUBSET Syms
  BY DEF Ordinary
<1>2. CASE e \in Numbers
  <2>1. See(e) = [d |-> db, val |-> NumVisible(db, e)]
    BY <1>2 DEF See
  <2> QED BY <2>1, UserKeptOrder
<1>3. CASE e \notin Numbers
  <2>1. See(e) = Visible(db, e) /\ e \in Entries
    BY <1>3, TreeParts DEF See
  <2> QED BY <1>1, <2>1, VisibleStays, FramesUser DEF Stays
<1> QED BY <1>2, <1>3

LEMMA SeenStaysUser ==
    ASSUME db \in Sound, NEW c \in Syms
    PROVE  Seen(c) \in Sound /\ UserKept(Ordinary, db, Seen(c))
<1>1. Ordinary \in SUBSET Syms /\ Kids[c] \in Seq(Entries)
  BY KidsParts DEF Ordinary, Entries
<1>2. Calc(db, c) \in Sound /\ UserKept(Ordinary, db, Calc(db, c))
  BY <1>1, CalcUser
<1>3. Seen(c) \in Sound /\ UserKept(Ordinary, Calc(db, c), Seen(c))
  BY <1>1, <1>2, LookAtAllStays, FramesUser DEF Seen, Stays
<1> QED BY <1>2, <1>3, UserKeptOrder

(***************************************************************************)
(* conf: the invariant.                                                    *)
(***************************************************************************)
\* The modes in which only what is new is asked for.
Quietly == opt \in {"ask_silent", "sync"}
\* What the user had set is as it was.
NewOnly(d, e) == \A s \in Ordinary : d.sym[s].user => e.sym[s].user /\ e.sym[s].utri = d.sym[s].utri
FromFile == Quietly /\ first # NoFile /\ phase \in {"asking", "writing", "ended"} => NewOnly(Read(first).d, db)

ConfUsable ==
    /\ db \in Sound /\ todo \in ToMake
    /\ first = NoFile \/ first.tri \in Contents
    /\ phase = "start" => file = first
    /\ Quietly => input_mode = "ask_silent"
    /\ FromFile

\* Where a step leads that asks or writes.
Goes == /\ phase \in {"asking", "writing"} /\ phase' \in {"asking", "writing", "ended", "failed", "aborted"}
        /\ db' \in Sound /\ todo' \in ToMake
        /\ input_mode = "ask_silent" => input_mode' = "ask_silent" /\ NewOnly(db, db')
        /\ UNCHANGED <<opt, first>>

LEMMA NewOnlyOrder ==
    /\ \A d, e : UserKept(Ordinary, d, e) => NewOnly(d, e)
    /\ \A a, b, c : NewOnly(a, b) /\ NewOnly(b, c) => NewOnly(a, c)
BY DEF UserKept, NewOnly

LEMMA GoesOn ==
    ASSUME ConfUsable, Goes
    PROVE  ConfUsable'
<1>1. Quietly' <=> Quietly
  BY DEF Quietly, Goes
<1>2. FromFile'
  <2>1. SUFFICES ASSUME Quietly, first # NoFile
                 PROVE  NewOnly(Read(first).d, db')
    BY <1>1 DEF FromFile, Goes
  <2>2. NewOnly(Read(first).d, db) /\ NewOnly(db, db')
    BY <2>1 DEF ConfUsable, FromFile, Goes
  <2> QED BY <2>2, NewOnlyOrder
<1> QED BY <1>1, <1>2 DEF ConfUsable, Goes

LEMMA ConfUsableInit ==
    ConfInit => ConfUsable
<1>1. SUFFICES ASSUME ConfInit
               PROVE  ConfUsable
  OBVIOUS
<1>2. db = EmptyDb
  BY <1>1 DEF ConfInit, Nothing
<1>3. first = NoFile \/ first.tri \in Contents
  BY <1>1, ConfigsAssumption DEF ConfInit
<1>4. Quietly => input_mode = "ask_silent"
  BY <1>1 DEF ConfInit, Quietly
<1>5. FromFile
  BY <1>1 DEF ConfInit, FromFile
<1>6. todo \in ToMake
  BY <1>1, ToMakeParts DEF ConfInit
<1> QED BY <1>1, <1>2, <1>3, <1>4, <1>5, <1>6, EmptySound DEF ConfUsable, ConfInit

LEMMA StartUsable ==
    ASSUME ConfUsable, Start
    PROVE  ConfUsable'
<1>1. phase = "start" /\ opt' = opt /\ first' = first /\ file = first
  BY DEF Start, ConfUsable
<1>2. input_mode' = input_mode
  BY DEF Start, StartAsking, Fail, StartDefault, StartAll, StartRandom, Generate, asking
<1>3. Quietly' <=> Quietly
  BY <1>1 DEF Quietly
<1>4. CASE Fail
  BY <1>1, <1>3, <1>4 DEF Fail, asking, data, ConfUsable, FromFile
<1>5. CASE StartAsking /\ ~Fail
  <2>1. db' = ReadConfig.d /\ todo' = <<Call(IF opt = "ask_all" THEN "conf" ELSE "check", Root)>> /\ phase' = "asking"
    BY <1>5 DEF StartAsking
  <2>2. db' \in Sound
    BY <1>1, <2>1, ReadConfigSound DEF ConfUsable
  <2>3. todo' \in ToMake
    BY <2>1, TreeParts, CallType, ToMakeParts
  <2>4. first # NoFile => db' = Read(first).d
    BY <1>1, <2>1, ReadConfigSound DEF ConfUsable
  <2>5. FromFile'
    BY <1>1, <2>4 DEF FromFile, NewOnly
  <2> QED BY <1>1, <1>2, <1>3, <2>1, <2>2, <2>3, <2>5 DEF ConfUsable
<1>6. ASSUME NEW r, NEW rand, NEW picks, r.d \in Sound, opt \in SetModes, Generate(r, rand, picks),
             opt = "set_random" => rand \in [Syms -> Tristate] /\ picks \in RandomPicks
      PROVE  ConfUsable'
  <2>1. db' \in Sound
    BY <1>6, SetAllNewSound DEF Generate
  <2>2. ~Quietly
    BY <1>6 DEF Quietly, SetModes
  <2> QED BY <1>1, <1>2, <1>3, <1>6, <2>1, <2>2 DEF Generate, ConfUsable, FromFile, asking
<1>7. CASE StartDefault /\ ~Fail
  <2>1. DefaultFile # NoFile /\ Generate(Read(DefaultFile), <<>>, <<>>) /\ opt = "set_default"
    BY <1>7 DEF StartDefault
  <2>2. Read(DefaultFile).d \in Sound
    BY <2>1, ConfigsAssumption, ReadParts
  <2> QED BY <1>6, <2>1, <2>2 DEF SetModes
<1>8. CASE StartAll
  <2>1. PICK f \in AllFiles : Generate(ReadAll(f), <<>>, <<>>)
    BY <1>8 DEF StartAll
  <2>2. ReadAll(f).d \in Sound
    BY ConfigsAssumption, ReadAllSound
  <2> QED BY <1>6, <1>8, <2>1, <2>2 DEF StartAll
<1>9. CASE StartRandom
  <2>1. PICK f \in AllFiles, rand \in Randoms, picks \in RandomPicks : Generate(ReadAll(f), rand, picks)
    BY <1>9 DEF StartRandom
  <2>2. ReadAll(f).d \in Sound /\ rand \in [Syms -> Tristate]
    BY ConfigsAssumption, ReadAllSound
  <2> QED BY <1>6, <1>9, <2>1, <2>2 DEF StartRandom, SetModes
<1> QED BY <1>4, <1>5, <1>7, <1>8, <1>9 DEF Start

LEMMA HereParts ==
    ASSUME ConfUsable, NEW do, Doing(do)
    PROVE  /\ Here \in InTree \union Numbers /\ Tail(todo) \in ToMake
           /\ do = "sym" => Here \in Syms
           /\ do \in {"choice", "several"} => Here \in Syms /\ IsChoice(Here) /\ Here \in Entries
           /\ do = "string" => Here \in Numbers
<1>1. Head(todo) \in CallsToMake /\ Tail(todo) \in ToMake /\ Head(todo).do = do
  BY ToMakeParts DEF ConfUsable, Doing
<1> QED BY <1>1 DEF Here, CallsToMake, Entries

LEMMA CallingType ==
    ASSUME ConfUsable, NEW do, Doing(do), NEW calls \in ToMake, Calling(calls)
    PROVE  todo' \in ToMake
BY HereParts, ToMakeParts DEF Calling

\* A step that leaves what the user has set as it was.
LEMMA StepGoes ==
    ASSUME ConfUsable, phase \in {"asking", "writing"},
           phase' \in {"asking", "writing", "ended", "failed", "aborted"},
           db' \in Sound, NewOnly(db, db'), todo' \in ToMake, UNCHANGED <<input_mode, opt, first>>
    PROVE  Goes
BY DEF Goes

LEMMA NewOnlySame ==
    \A d : NewOnly(d, d)
BY DEF NewOnly

LEMMA ConfGoes ==
    ASSUME ConfUsable, Conf, UNCHANGED <<opt, first>>
    PROVE  Goes
<1>1. Doing("conf") /\ UNCHANGED <<input_mode, phase>>
  BY DEF Conf
<1> DEFINE v == See(Here)
<1>2. db' = v.d /\ Calling(IF v.val THEN ConfCalls(v.d, Here) ELSE <<>>)
  BY DEF Conf
<1>3. v.d \in Sound /\ UserKept(Ordinary, db, v.d)
  BY <1>1, HereParts, SeeStays DEF ConfUsable
<1> HIDE DEF v
<1>4. (IF v.val THEN ConfCalls(v.d, Here) ELSE <<>>) \in ToMake
  BY <1>1, <1>3, HereParts, ConfCallsType, ToMakeParts
<1>5. todo' \in ToMake
  BY <1>1, <1>2, <1>4, CallingType
<1> QED BY <1>1, <1>2, <1>3, <1>5, NewOnlyOrder, StepGoes DEF Doing

LEMMA CheckConfGoes ==
    ASSUME ConfUsable, CheckConf, UNCHANGED <<opt, first>>
    PROVE  Goes
<1>1. Doing("check") /\ UNCHANGED <<input_mode, phase>>
  BY DEF CheckConf
<1> DEFINE v == See(Here)
<1>2. PICK new \in {v.val /\ IsNew(v.d, Here)} :
          /\ db' = v.d
          /\ Calling((IF new THEN <<Call("conf", MenuOf(Here))>> ELSE <<>>)
                     \o (IF v.val THEN Calls("check", EntriesBelow(Here)) ELSE <<>>))
  BY DEF CheckConf
<1>3. v.d \in Sound /\ UserKept(Ordinary, db, v.d)
  BY <1>1, HereParts, SeeStays DEF ConfUsable
<1> HIDE DEF v
<1> DEFINE a == IF new THEN <<Call("conf", MenuOf(Here))>> ELSE <<>>
           b == IF v.val THEN Calls("check", EntriesBelow(Here)) ELSE <<>>
<1>4. a \in ToMake
  BY <1>1, HereParts, MenuOfInTree, CallType, ToMakeParts
<1>5. b \in ToMake
  BY <1>1, HereParts, EntriesBelowType, CallsType, ToMakeParts
<1>6. db' = v.d /\ Calling(a \o b)
  BY <1>2
<1> HIDE DEF a, b
<1>7. todo' \in ToMake
  BY <1>1, <1>4, <1>5, <1>6, ToMakeParts, CallingType
<1> QED BY <1>1, <1>3, <1>6, <1>7, NewOnlyOrder, StepGoes DEF Doing

LEMMA AskedGoes ==
    ASSUME ConfUsable, NEW do, Doing(do), Return, db' \in Sound, UNCHANGED <<opt, first>>,
           input_mode = "ask_silent" => NewOnly(db, db')
    PROVE  Goes
<1>1. todo' \in ToMake
  BY CallingType, ToMakeParts DEF Return
<1> QED BY <1>1 DEF Return, Goes, Doing

LEMMA AnswerSymGoes ==
    ASSUME ConfUsable, AnswerSym, UNCHANGED <<opt, first>>
    PROVE  Goes
<1>1. Doing("sym") /\ ~Skips(Changeable(db, Here), db.sym[Here].user) /\ Return
  BY DEF AnswerSym
<1>2. Here \in Syms
  BY <1>1, HereParts
<1>3. PICK v \in Tristate : db' = SetTri(db, Here, v)
  BY DEF AnswerSym
<1>4. db' \in Sound /\ UserKept(Ordinary \ {Here}, db, db')
  BY <1>2, <1>3, SetTriSound DEF ConfUsable
<1>5. input_mode = "ask_silent" => ~db.sym[Here].user
  BY <1>1 DEF Skips, Silent
<1>6. input_mode = "ask_silent" => NewOnly(db, db')
  BY <1>4, <1>5 DEF NewOnly, UserKept
<1> QED BY <1>1, <1>4, <1>6, AskedGoes

LEMMA AnswerStringGoes ==
    ASSUME ConfUsable, AnswerString, UNCHANGED <<opt, first>>
    PROVE  Goes
<1>1. Doing("string") /\ Return
  BY DEF AnswerString
<1>2. db' = ClearAllValid(db) \/ db' = db
  BY DEF AnswerString
<1>3. Ordinary \in SUBSET Syms
  BY DEF Ordinary
<1>4. db' \in Sound /\ UserKept(Ordinary, db, db')
  BY <1>2, <1>3, ClearUser, UserKeptOrder DEF ConfUsable
<1> QED BY <1>1, <1>4, AskedGoes, NewOnlyOrder

LEMMA PickGoes ==
    ASSUME ConfUsable, Doing("choice"), NEW k \in OfChoice(Seen(Here), Here), Pick(Seen(Here), k), UNCHANGED <<opt, first>>
    PROVE  Goes
<1> DEFINE d == Seen(Here)
<1>1. Here \in Syms /\ IsChoice(Here) /\ Here \in Entries
  BY HereParts
<1>2. d \in Sound /\ UserKept(Ordinary, db, d)
  BY <1>1, SeenStaysUser DEF ConfUsable
<1>3. k \in Range(Kids[Here])
  BY DEF OfChoice
<1>4. k \in Range(Members[Here])
  BY <1>1, <1>3, EntriesAssumption
<1>5. k \in Syms /\ IsChoiceVal(k) /\ k \in Entries
  BY <1>1, <1>4, MembersIn DEF Entries
<1>6. k \notin Ordinary
  BY <1>5 DEF Ordinary
<1>7. db' = IF Accepted(d, k, yes) THEN SetTri(d, k, yes) ELSE d
  BY DEF Pick
<1> HIDE DEF d
<1>8. SetTri(d, k, yes) \in Sound /\ UserKept(Ordinary \ {k}, d, SetTri(d, k, yes))
  BY <1>2, <1>5, SetTriSound DEF Tristate
<1>9. db' \in Sound /\ UserKept(Ordinary, d, db')
  BY <1>2, <1>6, <1>7, <1>8, UserKeptOrder
<1>10. NewOnly(db, db')
  BY <1>2, <1>9, NewOnlyOrder
<1>11. todo' \in ToMake
  BY <1>5, KidsCalls, CallingType DEF Pick
<1> QED BY <1>9, <1>10, <1>11, StepGoes DEF Pick, Doing

LEMMA NoPickGoes ==
    ASSUME ConfUsable, NoPick, UNCHANGED <<opt, first>>
    PROVE  Goes
<1>1. Doing("choice") /\ Return /\ db' = Calc(db, Here)
  BY DEF NoPick
<1>2. Here \in Syms /\ Ordinary \in SUBSET Syms
  BY <1>1, HereParts DEF Ordinary
<1>3. db' \in Sound /\ UserKept(Ordinary, db, db')
  BY <1>1, <1>2, CalcUser DEF ConfUsable
<1> QED BY <1>1, <1>3, AskedGoes, NewOnlyOrder

LEMMA RefusedPickGoes ==
    ASSUME ConfUsable, RefusedPick, UNCHANGED <<opt, first>>
    PROVE  Goes
<1>1. Doing("choice") /\ db' = Seen(Here) /\ UNCHANGED <<input_mode, phase, todo>>
  BY DEF RefusedPick
<1>2. Here \in Syms /\ IsChoice(Here) /\ Here \in Entries
  BY <1>1, HereParts
<1>3. db' \in Sound /\ UserKept(Ordinary, db, db')
  BY <1>1, <1>2, SeenStaysUser DEF ConfUsable
<1> QED BY <1>1, <1>3, NewOnlyOrder, StepGoes DEF Doing, ConfUsable

LEMMA SeveralGoes ==
    ASSUME ConfUsable, Several, UNCHANGED <<opt, first>>
    PROVE  Goes
<1>1. Doing("several") /\ db' = db /\ UNCHANGED <<input_mode, phase>>
  BY DEF Several, data
<1>2. Here \in Entries
  BY <1>1, HereParts
<1>3. (IF db.sym[Here].tri = mod THEN Calls("conf", Kids[Here]) ELSE <<>>) \in ToMake
  BY <1>2, KidsCalls, ToMakeParts
<1>4. todo' \in ToMake
  BY <1>1, <1>3, CallingType DEF Several
<1> QED BY <1>1, <1>4, NewOnlySame, StepGoes DEF Doing, ConfUsable

LEMMA WriteGoes ==
    ASSUME ConfUsable, WriteOut \/ WriteFails, UNCHANGED <<opt, first>>
    PROVE  Goes
<1>1. phase = "writing" /\ db' = Write(db, changed).d /\ UNCHANGED <<input_mode, todo>>
  BY DEF WriteOut, WriteFails, asking
<1>2. phase' \in {"ended", "failed"}
  BY DEF WriteOut, WriteFails
<1>3. Ordinary \in SUBSET Syms
  BY DEF Ordinary
<1>4. db' \in Sound /\ UserKept(Ordinary, db, db')
  BY <1>1, <1>3, WriteSound DEF ConfUsable
<1> QED BY <1>1, <1>2, <1>4, NewOnlyOrder, StepGoes DEF ConfUsable

LEMMA StillGoes ==
    ASSUME ConfUsable, SkipSym \/ SkipString \/ Refused \/ Abort \/ Asked, UNCHANGED <<opt, first>>
    PROVE  Goes
<1>1. CASE SkipSym \/ SkipString
  <2>1. PICK do : Doing(do) /\ Return /\ db' = db
    BY <1>1 DEF SkipSym, SkipString, data
  <2> QED BY <2>1, AskedGoes, NewOnlySame DEF ConfUsable
<1>2. CASE Refused
  BY <1>2, NewOnlySame, StepGoes DEF Refused, Doing, data, ConfUsable
<1>3. CASE Abort
  BY <1>3, NewOnlySame, StepGoes DEF Abort, Doing, data, asking, ConfUsable
<1>4. CASE Asked
  BY <1>4, NewOnlySame, StepGoes DEF Asked, data, asking, ConfUsable
<1> QED BY <1>1, <1>2, <1>3, <1>4

LEMMA AgainGoes ==
    ASSUME ConfUsable, Again, UNCHANGED <<opt, first>>
    PROVE  Goes
<1>1. todo' \in ToMake
  BY TreeParts, CallType, ToMakeParts DEF Again
<1> QED BY <1>1, NewOnlySame DEF Again, Goes, data, ConfUsable

LEMMA ConfUsableNext ==
    ConfUsable /\ [ConfNext]_confVars => ConfUsable'
<1> SUFFICES ASSUME ConfUsable, [ConfNext]_confVars
             PROVE  ConfUsable'
  OBVIOUS
<1>1. CASE Start
  BY <1>1, StartUsable
<1>2. CASE Again /\ UNCHANGED <<opt, quiet, first>>
  BY <1>2, AgainGoes, GoesOn
<1>3. CASE /\ \/ Conf \/ CheckConf \/ SkipSym \/ AnswerSym \/ SkipString \/ AnswerString
              \/ Refused \/ Abort \/ NoPick \/ KeepPick \/ AnswerPick \/ RefusedPick \/ Several
              \/ Asked \/ WriteOut \/ WriteFails
           /\ UNCHANGED <<opt, quiet, known, first>>
  <2>1. UNCHANGED <<opt, first>>
    BY <1>3
  <2>2. CASE Conf \/ CheckConf \/ AnswerSym \/ AnswerString \/ NoPick \/ RefusedPick \/ Several
    BY <2>1, <2>2, ConfGoes, CheckConfGoes, AnswerSymGoes, AnswerStringGoes, NoPickGoes, RefusedPickGoes, SeveralGoes, GoesOn
  <2>3. CASE SkipSym \/ SkipString \/ Refused \/ Abort \/ Asked \/ WriteOut \/ WriteFails
    BY <2>1, <2>3, StillGoes, WriteGoes, GoesOn
  <2>4. CASE KeepPick \/ AnswerPick
    <3>1. Doing("choice") /\ \E k \in OfChoice(Seen(Here), Here) : Pick(Seen(Here), k)
      BY <2>4 DEF KeepPick, AnswerPick, AsksChoice
    <3> QED BY <2>1, <3>1, PickGoes, GoesOn
  <2> QED BY <1>3, <2>2, <2>3, <2>4
<1>4. CASE UNCHANGED confVars
  BY <1>4 DEF confVars, asking, data, ConfUsable, FromFile, Quietly
<1> QED BY <1>1, <1>2, <1>3, <1>4 DEF ConfNext

\* conf, whatever its option, its input and the Kconfig: the database stays sound, and in
\* the modes that only ask for what is new no step changes what the file gave a symbol.
THEOREM ConfIsUsable ==
    ConfSpec => []ConfUsable
BY ConfUsableInit, ConfUsableNext, PTL DEF ConfSpec

\* What .config gave a symbol is what conf ends with, whatever it asked, calculated and
\* wrote (conf.c conf_askvalue, check_conf; confdata.c conf_write).
THEOREM ConfKept ==
    ConfSpec => []Kept
<1>1. ConfUsable => Kept
  BY DEF ConfUsable, FromFile, Quietly, NewOnly, Ordinary, Kept
<1> QED BY <1>1, ConfIsUsable, PTL
===============================================================================
