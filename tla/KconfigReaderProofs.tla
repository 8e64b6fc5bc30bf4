--------------------------- MODULE KconfigReaderProofs ---------------------------
(***************************************************************************)
(* Proofs about KconfigReader: what is refused is what does not fit, and   *)
(* every entry hangs in the block its line stands in.                      *)
(***************************************************************************)
EXTENDS KconfigReader, SequenceTheorems, FiniteSetTheorems, WellFoundedInduction, TLAPS

(***************************************************************************)
(* Sequences.                                                              *)
(***************************************************************************)
IsSeq(s) == s \in Seq(Range(s))

LEMMA SeqShape ==
    ASSUME NEW s, IsSeq(s)
    PROVE  /\ Len(s) \in Nat /\ DOMAIN s = 1..Len(s)
           /\ s = <<>> <=> Len(s) = 0
BY LenProperties, EmptySeq DEF IsSeq

LEMMA SeqFromAny ==
    ASSUME NEW S, NEW s \in Seq(S)
    PROVE  IsSeq(s)
<1>1. s \in [1..Len(s) -> S] /\ Len(s) \in Nat
  BY LenProperties
<1>2. s \in [1..Len(s) -> Range(s)]
  BY <1>1 DEF Range
<1> QED BY <1>1, <1>2, SeqDef DEF IsSeq

LEMMA Pushed ==
    ASSUME NEW s, IsSeq(s), NEW e
    PROVE  /\ IsSeq(Append(s, e)) /\ Len(Append(s, e)) = Len(s) + 1
           /\ \A i \in 1..Len(s) : Append(s, e)[i] = s[i]
           /\ Append(s, e)[Len(s) + 1] = e
<1>1. PICK S : S = Range(s) \union {e}
  OBVIOUS
<1>2. s \in Seq(S) /\ e \in S
  BY <1>1, SeqMonotonic DEF IsSeq
<1>3. Append(s, e) \in Seq(S)
  BY <1>2
<1>4. IsSeq(Append(s, e))
  BY <1>3, SeqFromAny
<1>5. /\ Len(Append(s, e)) = Len(s) + 1
      /\ \A i \in 1..Len(s) : Append(s, e)[i] = s[i]
      /\ Append(s, e)[Len(s) + 1] = e
  BY <1>2
<1> QED BY <1>4, <1>5

LEMMA Popped ==
    ASSUME NEW s, IsSeq(s), s # <<>>
    PROVE  /\ IsSeq(SubSeq(s, 1, Len(s) - 1)) /\ Len(SubSeq(s, 1, Len(s) - 1)) = Len(s) - 1
           /\ \A i \in 1..(Len(s) - 1) : SubSeq(s, 1, Len(s) - 1)[i] = s[i]
<1>1. Len(s) \in Nat /\ Len(s) > 0 /\ s \in Seq(Range(s))
  BY SeqShape DEF IsSeq
<1>2. \A i \in 1..(Len(s) - 1) : s[i] \in Range(s)
  BY <1>1
<1>3. SubSeq(s, 1, Len(s) - 1) \in Seq(Range(s))
  BY <1>1, <1>2, SubSeqProperties
<1>4. IsSeq(SubSeq(s, 1, Len(s) - 1))
  BY <1>3, SeqFromAny
<1>5. /\ Len(SubSeq(s, 1, Len(s) - 1)) = Len(s) - 1
      /\ \A i \in 1..(Len(s) - 1) : SubSeq(s, 1, Len(s) - 1)[i] = s[i]
  <2> DEFINE n == Len(s) - 1
  <2>1. n \in Nat /\ \A i \in 1..n : s[i] \in Range(s)
    BY <1>1, <1>2
  <2> HIDE DEF n
  <2>2. /\ Len(SubSeq(s, 1, n)) = IF 1 <= n THEN n - 1 + 1 ELSE 0
        /\ \A i \in 1..(n - 1 + 1) : SubSeq(s, 1, n)[i] = s[1 + i - 1]
    BY <2>1, SubSeqProperties
  <2>3. \A i \in 1..n : SubSeq(s, 1, n)[i] = s[i]
    <3>1. ASSUME NEW i \in 1..n
          PROVE  i \in 1..(n - 1 + 1) /\ 1 + i - 1 = i
      BY <2>1
    <3> QED BY <2>2, <3>1
  <2>4. Len(SubSeq(s, 1, n)) = n
    BY <2>1, <2>2
  <2> QED BY <2>3, <2>4 DEF n
<1> QED BY <1>4, <1>5

\* One element replaced by another.
LEMMA Replaced ==
    ASSUME NEW s, IsSeq(s), NEW k \in 1..Len(s), NEW e
    PROVE  /\ IsSeq([s EXCEPT ![k] = e]) /\ Len([s EXCEPT ![k] = e]) = Len(s)
           /\ \A i \in 1..Len(s) : [s EXCEPT ![k] = e][i] = IF i = k THEN e ELSE s[i]
<1>1. PICK S : S = Range(s) \union {e}
  OBVIOUS
<1>2. s \in Seq(S) /\ e \in S
  BY <1>1, SeqMonotonic, SeqShape DEF IsSeq
<1>3. /\ [s EXCEPT ![k] = e] \in Seq(S) /\ Len([s EXCEPT ![k] = e]) = Len(s)
      /\ \A i \in 1..Len(s) : [s EXCEPT ![k] = e][i] = IF i = k THEN e ELSE s[i]
  BY <1>2, ExceptSeq
<1> QED BY <1>3, SeqFromAny

\* A set of numbers has a least one: CHOOSE finds it.
LEMMA LeastOne ==
    ASSUME NEW T \in SUBSET Nat, T # {}
    PROVE  \E x \in T : \A y \in T : x <= y
<1> DEFINE R == {ss \in Nat \X Nat : ss[1] < ss[2]}
<1>1. IsWellFoundedOn(R, Nat)
  BY NatLessThanWellFounded DEF OpToRel
<1>2. PICK x \in T : \A y \in T : ~(<<y, x>> \in R)
  BY <1>1, WFMin
<1>3. \A y \in T : ~(y < x)
  BY <1>2
<1> QED BY <1>3

LEMMA MinIs ==
    ASSUME NEW T \in SUBSET Nat, T # {}
    PROVE  Min(T) \in T /\ \A k \in T : Min(T) <= k
BY LeastOne DEF Min

LEMMA MaxIs ==
    ASSUME NEW n \in Nat, NEW T \in SUBSET (0..n), T # {}
    PROVE  Max(T) \in T /\ \A k \in T : Max(T) >= k
<1> DEFINE U == {n - k : k \in T}
<1>1. U \in SUBSET Nat /\ U # {}
  <2>1. \A k \in T : n - k \in Nat
    OBVIOUS
  <2>2. PICK k \in T : TRUE
    OBVIOUS
  <2> QED BY <2>1, <2>2
<1>2. PICK u \in U : \A v \in U : u <= v
  BY <1>1, LeastOne
<1>3. PICK i \in T : u = n - i
  OBVIOUS
<1>4. ASSUME NEW k \in T
      PROVE  i >= k
  <2>1. n - i <= n - k
    BY <1>2, <1>3
  <2> QED BY <2>1
<1> QED BY <1>4 DEF Max

LEMMA MaxOf ==
    ASSUME NEW n \in Nat, NEW T \in SUBSET (0..n), NEW x \in T, \A k \in T : x >= k
    PROVE  Max(T) = x
<1>1. PICK m : m = Max(T)
  OBVIOUS
<1>2. m \in T /\ m >= x /\ x >= m
  BY <1>1, MaxIs
<1>3. m \in 0..n /\ x \in 0..n
  BY <1>2
<1> QED BY <1>1, <1>2, <1>3

-----------------------------------------------------------------------------
(***************************************************************************)
(* A text, and one line more.                                              *)
(***************************************************************************)
LEMMA WhatSame ==
    ASSUME NEW t, IsSeq(t), NEW e, NEW i \in 1..Len(t)
    PROVE  Append(t, e)[i] = t[i] /\ What(Append(t, e), i) = What(t, i)
BY Pushed DEF What

LEMMA WhatNew ==
    ASSUME NEW t, IsSeq(t), NEW e
    PROVE  Append(t, e)[Len(t) + 1] = e /\ What(Append(t, e), Len(t) + 1) = e.line.what
BY Pushed DEF What

\* Numbers of lines of some kind.
LEMMA CountSame ==
    ASSUME NEW t, IsSeq(t), NEW e, NEW K, NEW j \in Nat, j > 0, NEW k \in 0..Len(t)
    PROVE  {i \in j..k : What(Append(t, e), i) \in K} = {i \in j..k : What(t, i) \in K}
BY WhatSame, SeqShape

LEMMA CountStep ==
    ASSUME NEW t, NEW K, NEW j \in Nat, NEW k \in Nat, j <= k + 1
    PROVE  /\ Cardinality({i \in j..k : What(t, i) \in K}) \in Nat
           /\ Cardinality({i \in j..(k + 1) : What(t, i) \in K})
                = Cardinality({i \in j..k : What(t, i) \in K}) + (IF What(t, k + 1) \in K THEN 1 ELSE 0)
<1> DEFINE A == {i \in j..k : What(t, i) \in K}
           B == {i \in j..(k + 1) : What(t, i) \in K}
<1>1. IsFiniteSet(A) /\ Cardinality(A) \in Nat
  <2>1. IsFiniteSet(j..k)
    BY FS_Interval
  <2> QED BY <2>1, FS_Subset, FS_CardinalityType
<1>2. CASE What(t, k + 1) \in K
  <2>1. B = A \union {k + 1} /\ k + 1 \notin A
    BY <1>2
  <2> HIDE DEF A, B
  <2>2. Cardinality(B) = Cardinality(A) + 1
    BY <1>1, <2>1, FS_AddElement
  <2> QED BY <1>1, <1>2, <2>2 DEF A, B
<1>3. CASE What(t, k + 1) \notin K
  <2>1. B = A
    BY <1>3
  <2> HIDE DEF A, B
  <2> QED BY <1>1, <1>3, <2>1 DEF A, B
<1> QED BY <1>2, <1>3

LEMMA CountNat ==
    ASSUME NEW t, NEW K, NEW j \in Nat, NEW k \in Nat, j <= k + 1
    PROVE  Cardinality({i \in j..k : What(t, i) \in K}) \in Nat
<1>1. PICK A : A = {i \in j..k : What(t, i) \in K}
  OBVIOUS
<1>2. IsFiniteSet(j..k) /\ A \subseteq j..k
  BY <1>1, FS_Interval
<1>3. IsFiniteSet(A)
  BY <1>2, FS_Subset
<1>4. Cardinality(A) \in Nat
  BY <1>3, FS_CardinalityType
<1> QED BY <1>1, <1>4

LEMMA CountNone ==
    ASSUME NEW t, NEW K, NEW j \in Nat, NEW k \in Nat, k < j
    PROVE  Cardinality({i \in j..k : What(t, i) \in K}) = 0
<1>1. {i \in j..k : What(t, i) \in K} = {}
  OBVIOUS
<1> QED BY <1>1, FS_EmptySet

\* Balance, with its second count over a set too.
LEMMA BalanceAs ==
    ASSUME NEW t, NEW j, NEW k
    PROVE  Balance(t, j, k) = Cardinality({i \in j..k : What(t, i) \in Opens})
                              - Cardinality({i \in j..k : What(t, i) \in {"end"}})
<1>1. {i \in j..k : What(t, i) = "end"} = {i \in j..k : What(t, i) \in {"end"}}
  OBVIOUS
<1> QED BY <1>1 DEF Balance

LEMMA BalanceSame ==
    ASSUME NEW t, IsSeq(t), NEW e, NEW j \in Nat, j > 0, NEW k \in 0..Len(t)
    PROVE  Balance(Append(t, e), j, k) = Balance(t, j, k)
<1>1. {i \in j..k : What(Append(t, e), i) \in Opens} = {i \in j..k : What(t, i) \in Opens}
  BY CountSame
<1>2. PICK E : E = {"end"}
  OBVIOUS
<1>3. {i \in j..k : What(Append(t, e), i) \in E} = {i \in j..k : What(t, i) \in E}
  BY CountSame
<1> QED BY <1>1, <1>2, <1>3, BalanceAs

LEMMA BalanceStep ==
    ASSUME NEW t, NEW j \in Nat, NEW k \in Nat, j <= k + 1
    PROVE  /\ Balance(t, j, k) \in Int
           /\ What(t, k + 1) \in Opens => Balance(t, j, k + 1) = Balance(t, j, k) + 1
           /\ What(t, k + 1) = "end" => Balance(t, j, k + 1) = Balance(t, j, k) - 1
           /\ What(t, k + 1) \notin Opens \union {"end"} => Balance(t, j, k + 1) = Balance(t, j, k)
<1>1. PICK a \in Nat : a = Cardinality({i \in j..k : What(t, i) \in Opens})
  BY CountNat
<1>e. PICK E : E = {"end"}
  OBVIOUS
<1>2. PICK b \in Nat : b = Cardinality({i \in j..k : What(t, i) \in E})
  BY CountNat
<1>3. Cardinality({i \in j..(k + 1) : What(t, i) \in Opens}) = a + (IF What(t, k + 1) \in Opens THEN 1 ELSE 0)
  BY <1>1, CountStep
<1>4. Cardinality({i \in j..(k + 1) : What(t, i) \in E}) = b + (IF What(t, k + 1) \in E THEN 1 ELSE 0)
  BY <1>2, CountStep
<1>5. Balance(t, j, k) = a - b
  BY <1>1, <1>2, <1>e, BalanceAs
<1>6. Balance(t, j, k + 1) = (a + (IF What(t, k + 1) \in Opens THEN 1 ELSE 0))
                               - (b + (IF What(t, k + 1) \in {"end"} THEN 1 ELSE 0))
  BY <1>3, <1>4, <1>e, BalanceAs
<1>7. "end" \notin Opens
  BY DEF Opens
<1> QED BY <1>5, <1>6, <1>7

LEMMA BalanceNone ==
    ASSUME NEW t, NEW j \in Nat, NEW k \in Nat, k < j
    PROVE  Balance(t, j, k) = 0
<1>1. Cardinality({i \in j..k : What(t, i) \in Opens}) = 0
  BY CountNone
<1>2. Cardinality({i \in j..k : What(t, i) \in {"end"}}) = 0
  BY CountNone
<1> QED BY <1>1, <1>2, BalanceAs

(***************************************************************************)
(* The blocks a line stands in.                                            *)
(***************************************************************************)
LEMMA WithinSame ==
    ASSUME NEW t, IsSeq(t), NEW e, NEW i \in 1..(Len(t) + 1)
    PROVE  Within(Append(t, e), i) = Within(t, i)
<1> DEFINE n == Len(t)
           u == Append(t, e)
<1>n. n \in Nat
  BY SeqShape
<1>1. \A j \in 1..(i - 1) : j \in 1..n
  BY <1>n
<1>2. ASSUME NEW j \in 1..(i - 1), NEW k \in j..(i - 1)
      PROVE  Balance(u, j, k) = Balance(t, j, k)
  <2>1. j \in Nat /\ j > 0 /\ k \in 0..n
    BY <1>n
  <2> QED BY <2>1, BalanceSame
<1>3. \A j \in 1..(i - 1) : What(u, j) = What(t, j)
  BY <1>1, WhatSame
<1> HIDE DEF u, n
<1>4. Within(u, i) = Within(t, i)
  BY <1>2, <1>3 DEF Within
<1> QED BY <1>4 DEF u

LEMMA WithinMember ==
    ASSUME NEW t, NEW i, NEW j
    PROVE  j \in Within(t, i) <=> /\ j \in 1..(i - 1) /\ What(t, j) \in Opens
                                  /\ \A k \in j..(i - 1) : Balance(t, j, k) > 0
BY Zenon DEF Within

LEMMA WithinRange ==
    ASSUME NEW t, NEW i \in Nat
    PROVE  Within(t, i) \subseteq 1..(i - 1)
BY WithinMember

\* The line after the next one.
LEMMA WithinStep ==
    ASSUME NEW u, NEW n \in Nat
    PROVE  Within(u, n + 2)
             = {j \in Within(u, n + 1) : Balance(u, j, n + 1) > 0}
               \union (IF What(u, n + 1) \in Opens THEN {n + 1} ELSE {})
<1>3. ASSUME NEW j, j \in Within(u, n + 2), j # n + 1
      PROVE  j \in Within(u, n + 1) /\ Balance(u, j, n + 1) > 0
  <2>1. j \in 1..(n + 2 - 1)
    BY <1>3, WithinMember
  <2>2. What(u, j) \in Opens
    BY <1>3, WithinMember
  <2>3. \A k \in j..(n + 2 - 1) : Balance(u, j, k) > 0
    BY <1>3, WithinMember
  <2>4. j \in 1..(n + 1 - 1) /\ n + 1 \in j..(n + 2 - 1) /\ j..(n + 1 - 1) \subseteq j..(n + 2 - 1)
    BY <1>3, <2>1
  <2>5. \A k \in j..(n + 1 - 1) : Balance(u, j, k) > 0
    BY <2>3, <2>4
  <2>6. j \in Within(u, n + 1)
    BY <2>2, <2>4, <2>5, WithinMember
  <2>7. Balance(u, j, n + 1) > 0
    BY <2>3, <2>4
  <2> QED BY <2>6, <2>7
<1>4. ASSUME NEW j, j \in Within(u, n + 1), Balance(u, j, n + 1) > 0
      PROVE  j \in Within(u, n + 2)
  <2>1. j \in 1..(n + 1 - 1)
    BY <1>4, WithinMember
  <2>2. What(u, j) \in Opens
    BY <1>4, WithinMember
  <2>3. \A k \in j..(n + 1 - 1) : Balance(u, j, k) > 0
    BY <1>4, WithinMember
  <2>4. j \in 1..(n + 2 - 1) /\ \A k \in j..(n + 2 - 1) : k \in j..(n + 1 - 1) \/ k = n + 1
    BY <2>1
  <2>5. \A k \in j..(n + 2 - 1) : Balance(u, j, k) > 0
    BY <1>4, <2>3, <2>4
  <2> QED BY <2>2, <2>4, <2>5, WithinMember
<1>5. n + 1 \in Within(u, n + 2) <=> What(u, n + 1) \in Opens
  <2>1. n + 1 \in 1..(n + 2 - 1) /\ \A k \in (n + 1)..(n + 2 - 1) : k = n + 1
    OBVIOUS
  <2>2. CASE What(u, n + 1) \in Opens
    <3>1. Balance(u, n + 1, n) = 0
      BY BalanceNone
    <3>2. What(u, n + 1) \in Opens => Balance(u, n + 1, n + 1) = Balance(u, n + 1, n) + 1
      BY BalanceStep
    <3>3. Balance(u, n + 1, n + 1) > 0
      BY <2>2, <3>1, <3>2
    <3>4. \A k \in (n + 1)..(n + 2 - 1) : Balance(u, n + 1, k) > 0
      BY <3>3, <2>1
    <3> QED BY <2>1, <2>2, <3>4, WithinMember
  <2>3. CASE What(u, n + 1) \notin Opens
    BY <2>3, WithinMember
  <2> QED BY <2>2, <2>3
<1>6. n + 1 \notin Within(u, n + 1)
  <2>1. Within(u, n + 1) \subseteq 1..(n + 1 - 1)
    BY WithinRange
  <2> QED BY <2>1
<1> QED BY <1>3, <1>4, <1>5, <1>6

LEMMA WithinNext ==
    ASSUME NEW t, IsSeq(t), NEW e
    PROVE  Within(Append(t, e), Len(t) + 2)
             = {j \in Within(t, Len(t) + 1) : Balance(Append(t, e), j, Len(t) + 1) > 0}
               \union (IF e.line.what \in Opens THEN {Len(t) + 1} ELSE {})
<1>1. PICK n \in Nat : n = Len(t)
  BY SeqShape
<1>2. PICK u : u = Append(t, e)
  OBVIOUS
<1>3. What(u, n + 1) = e.line.what
  BY <1>1, <1>2, WhatNew
<1>4. Within(u, n + 1) = Within(t, n + 1)
  <2>1. n + 1 \in 1..(n + 1)
    OBVIOUS
  <2> QED BY <2>1, <1>1, <1>2, WithinSame
<1>5. Within(u, n + 2) = {j \in Within(u, n + 1) : Balance(u, j, n + 1) > 0}
                         \union (IF What(u, n + 1) \in Opens THEN {n + 1} ELSE {})
  BY WithinStep
<1> QED BY <1>1, <1>2, <1>3, <1>4, <1>5

\* The open blocks of a text, from the outermost to the innermost.
Opened(t, os) ==
    /\ IsSeq(os)
    /\ \A a \in 1..Len(os) : /\ os[a] \in 1..Len(t) /\ What(t, os[a]) \in Opens
                             /\ Balance(t, os[a], Len(t)) = Len(os) - a + 1
                             /\ Within(t, os[a]) = {os[b] : b \in 1..(a - 1)}
    /\ \A a, b \in 1..Len(os) : a < b => os[a] < os[b]
    /\ Within(t, Len(t) + 1) = {os[a] : a \in 1..Len(os)}

LEMMA OpenedNone == Opened(<<>>, <<>>)
<1>1. IsSeq(<<>>) /\ Len(<<>>) = 0
  <2>1. <<>> \in Seq({}) /\ Len(<<>>) = 0
    OBVIOUS
  <2> QED BY <2>1, SeqFromAny
<1>2. Within(<<>>, 1) = {}
  BY DEF Within
<1> QED BY <1>1, <1>2 DEF Opened

LEMMA OpenedPush ==
    ASSUME NEW t, IsSeq(t), NEW e, NEW os, Opened(t, os), e.line.what \in Opens
    PROVE  Opened(Append(t, e), Append(os, Len(t) + 1))
<1> DEFINE n == Len(t)
           u == Append(t, e)
           m == Len(os)
           vs == Append(os, n + 1)
<1>n. n \in Nat /\ m \in Nat /\ IsSeq(os)
  BY SeqShape DEF Opened
<1>u. IsSeq(u) /\ Len(u) = n + 1
  BY Pushed
<1>v. IsSeq(vs) /\ Len(vs) = m + 1 /\ (\A a \in 1..m : vs[a] = os[a]) /\ vs[m + 1] = n + 1
  BY <1>n, Pushed
<1>w. What(u, n + 1) = e.line.what
  BY WhatNew
<1>o. \A a \in 1..m : /\ os[a] \in 1..n /\ What(t, os[a]) \in Opens
                      /\ Balance(t, os[a], n) = m - a + 1
                      /\ Within(t, os[a]) = {os[b] : b \in 1..(a - 1)}
  BY DEF Opened
<1>f. \A a, b \in 1..m : a < b => os[a] < os[b]
  BY DEF Opened
<1>s. Within(t, n + 1) = {os[a] : a \in 1..m}
  BY DEF Opened
<1>1. ASSUME NEW a \in 1..m
      PROVE  Balance(u, os[a], n + 1) = m - a + 2
  <2>1. PICK j \in 1..n : j = os[a]
    BY <1>o
  <2>2. Balance(u, j, n) = Balance(t, j, n)
    BY <1>n, BalanceSame
  <2>3. What(u, n + 1) \in Opens => Balance(u, j, n + 1) = Balance(u, j, n) + 1
    BY <1>n, BalanceStep
  <2>4. Balance(t, j, n) = m - a + 1
    BY <1>o, <2>1
  <2> QED BY <1>w, <1>n, <2>1, <2>2, <2>3, <2>4
<1>2. Balance(u, n + 1, n + 1) = 1
  <2>1. Balance(u, n + 1, n) = 0
    BY <1>n, BalanceNone
  <2>2. What(u, n + 1) \in Opens => Balance(u, n + 1, n + 1) = Balance(u, n + 1, n) + 1
    BY <1>n, BalanceStep
  <2> QED BY <1>w, <2>1, <2>2
<1>3. ASSUME NEW a \in 1..(m + 1)
      PROVE  /\ vs[a] \in 1..(n + 1) /\ What(u, vs[a]) \in Opens
             /\ Balance(u, vs[a], n + 1) = m + 1 - a + 1
             /\ Within(u, vs[a]) = {vs[b] : b \in 1..(a - 1)}
  <2>1. CASE a \in 1..m
    <3>1. vs[a] = os[a] /\ os[a] \in 1..n
      BY <1>v, <1>o, <2>1
    <3>2. What(u, os[a]) = What(t, os[a])
      BY <3>1, WhatSame
    <3>3. Within(u, os[a]) = Within(t, os[a])
      <4>1. os[a] \in 1..(n + 1)
        BY <3>1, <1>n
      <4> QED BY <4>1, WithinSame
    <3>4. {vs[b] : b \in 1..(a - 1)} = {os[b] : b \in 1..(a - 1)}
      <4>1. \A b \in 1..(a - 1) : b \in 1..m
        BY <2>1, <1>n
      <4>2. \A b \in 1..(a - 1) : vs[b] = os[b]
        BY <4>1, <1>v
      <4> HIDE DEF vs
      <4> QED BY <4>2
    <3>5. Within(t, os[a]) = {os[b] : b \in 1..(a - 1)}
      BY <1>o, <2>1
    <3>6. Balance(u, os[a], n + 1) = m - a + 2 /\ m - a + 2 = m + 1 - a + 1
      BY <1>1, <2>1, <1>n
    <3>7. os[a] \in 1..(n + 1) /\ What(t, os[a]) \in Opens
      BY <3>1, <1>n, <1>o, <2>1
    <3> HIDE DEF u, vs
    <3> QED BY <3>1, <3>2, <3>3, <3>4, <3>5, <3>6, <3>7
  <2>2. CASE a = m + 1
    <3>1. vs[a] = n + 1 /\ a - 1 = m
      BY <1>v, <2>2, <1>n
    <3>2. Within(u, n + 1) = Within(t, n + 1)
      <4>1. n + 1 \in 1..(n + 1)
        BY <1>n
      <4> QED BY <4>1, WithinSame
    <3>3. {vs[b] : b \in 1..m} = {os[b] : b \in 1..m}
      <4> HIDE DEF vs
      <4> QED BY <1>v
    <3>4. m + 1 - a + 1 = 1 /\ n + 1 \in 1..(n + 1)
      BY <2>2, <1>n
    <3> HIDE DEF u, vs
    <3> QED BY <3>1, <3>2, <3>3, <3>4, <1>2, <1>s, <1>w
  <2>3. a \in 1..m \/ a = m + 1
    BY <1>n
  <2> QED BY <2>1, <2>2, <2>3
<1>4. ASSUME NEW a \in 1..(m + 1), NEW b \in 1..(m + 1), a < b
      PROVE  vs[a] < vs[b]
  <2>1. a \in 1..m /\ vs[a] = os[a] /\ os[a] \in 1..n
    BY <1>4, <1>n, <1>v, <1>o
  <2>2. CASE b \in 1..m
    BY <2>1, <2>2, <1>v, <1>f, <1>4
  <2>3. CASE b = m + 1
    BY <2>1, <2>3, <1>v, <1>n
  <2> QED BY <2>2, <2>3, <1>n
<1>5. Within(u, n + 2) = {vs[a] : a \in 1..(m + 1)}
  <2>1. Within(u, n + 2) = {j \in Within(t, n + 1) : Balance(u, j, n + 1) > 0} \union {n + 1}
    BY WithinNext
  <2>2. \A j \in Within(t, n + 1) : Balance(u, j, n + 1) > 0
    <3>1. ASSUME NEW a \in 1..m
          PROVE  Balance(u, os[a], n + 1) > 0
      BY <1>1, <1>n
    <3> QED BY <3>1, <1>s
  <2>3. {vs[a] : a \in 1..(m + 1)} = {os[a] : a \in 1..m} \union {n + 1}
    <3>1. 1..(m + 1) = 1..m \union {m + 1}
      BY <1>n
    <3> HIDE DEF vs
    <3> QED BY <3>1, <1>v
  <2> HIDE DEF u, vs
  <2> QED BY <2>1, <2>2, <2>3, <1>s
<1>6. n + 1 + 1 = n + 2
  BY <1>n
<1> HIDE DEF u, vs, n, m
<1>7. \A a \in 1..Len(vs) : /\ vs[a] \in 1..Len(u) /\ What(u, vs[a]) \in Opens
                           /\ Balance(u, vs[a], Len(u)) = Len(vs) - a + 1
                           /\ Within(u, vs[a]) = {vs[b] : b \in 1..(a - 1)}
  <2>1. Len(vs) = m + 1 /\ Len(u) = n + 1
    BY <1>u, <1>v
  <2>2. ASSUME NEW a \in 1..Len(vs)
        PROVE  /\ vs[a] \in 1..Len(u) /\ What(u, vs[a]) \in Opens
               /\ Balance(u, vs[a], Len(u)) = Len(vs) - a + 1
               /\ Within(u, vs[a]) = {vs[b] : b \in 1..(a - 1)}
    <3>1. a \in 1..(m + 1)
      BY <2>1
    <3>2. vs[a] \in 1..Len(u) /\ What(u, vs[a]) \in Opens
      BY <1>3, <2>1, <3>1
    <3>3. Balance(u, vs[a], Len(u)) = Len(vs) - a + 1
      BY <1>3, <2>1, <3>1, <1>n
    <3>4. Within(u, vs[a]) = {vs[b] : b \in 1..(a - 1)}
      BY <1>3, <3>1
    <3> QED BY <3>2, <3>3, <3>4
  <2> QED BY <2>2
<1>8. \A a, b \in 1..Len(vs) : a < b => vs[a] < vs[b]
  <2>1. Len(vs) = m + 1
    BY <1>v
  <2> QED BY <1>4, <2>1
<1>9. Within(u, Len(u) + 1) = {vs[a] : a \in 1..Len(vs)}
  <2>1. Len(vs) = m + 1 /\ Len(u) + 1 = n + 2
    BY <1>u, <1>v, <1>6
  <2> QED BY <1>5, <2>1
<1>10. Opened(u, vs)
  BY <1>v, <1>7, <1>8, <1>9 DEF Opened
<1> QED BY <1>10 DEF u, vs, n

LEMMA OpenedPop ==
    ASSUME NEW t, IsSeq(t), NEW e, NEW os, Opened(t, os), e.line.what = "end", os # <<>>
    PROVE  Opened(Append(t, e), SubSeq(os, 1, Len(os) - 1))
<1> DEFINE n == Len(t)
           u == Append(t, e)
           m == Len(os)
           vs == SubSeq(os, 1, m - 1)
<1>n. n \in Nat /\ m \in Nat /\ IsSeq(os) /\ m > 0
  <2>1. IsSeq(os)
    BY DEF Opened
  <2> QED BY <2>1, SeqShape
<1>u. IsSeq(u) /\ Len(u) = n + 1
  BY Pushed
<1>v. IsSeq(vs) /\ Len(vs) = m - 1 /\ (\A a \in 1..(m - 1) : vs[a] = os[a])
  BY <1>n, Popped
<1>w. What(u, n + 1) = "end"
  BY WhatNew
<1>o. \A a \in 1..m : /\ os[a] \in 1..n /\ What(t, os[a]) \in Opens
                      /\ Balance(t, os[a], n) = m - a + 1
                      /\ Within(t, os[a]) = {os[b] : b \in 1..(a - 1)}
  BY DEF Opened
<1>f. \A a, b \in 1..m : a < b => os[a] < os[b]
  BY DEF Opened
<1>s. Within(t, n + 1) = {os[a] : a \in 1..m}
  BY DEF Opened
<1>1. ASSUME NEW a \in 1..m
      PROVE  Balance(u, os[a], n + 1) = m - a
  <2>1. PICK j \in 1..n : j = os[a]
    BY <1>o
  <2>2. Balance(u, j, n) = Balance(t, j, n)
    BY <1>n, BalanceSame
  <2>3. What(u, n + 1) = "end" => Balance(u, j, n + 1) = Balance(u, j, n) - 1
    BY <1>n, BalanceStep
  <2>4. Balance(t, j, n) = m - a + 1
    BY <1>o, <2>1
  <2> QED BY <1>w, <1>n, <2>1, <2>2, <2>3, <2>4
<1>3. ASSUME NEW a \in 1..(m - 1)
      PROVE  /\ vs[a] \in 1..(n + 1) /\ What(u, vs[a]) \in Opens
             /\ Balance(u, vs[a], n + 1) = m - 1 - a + 1
             /\ Within(u, vs[a]) = {vs[b] : b \in 1..(a - 1)}
  <2>1. a \in 1..m
    BY <1>n
  <2>2. vs[a] = os[a] /\ os[a] \in 1..n
    BY <1>v, <1>o, <2>1
  <2>3. What(u, os[a]) = What(t, os[a])
    BY <2>2, WhatSame
  <2>4. Within(u, os[a]) = Within(t, os[a])
    <3>1. os[a] \in 1..(n + 1)
      BY <2>2, <1>n
    <3> QED BY <3>1, WithinSame
  <2>5. {vs[b] : b \in 1..(a - 1)} = {os[b] : b \in 1..(a - 1)}
    <3>1. \A b \in 1..(a - 1) : b \in 1..(m - 1)
      BY <1>n
    <3>2. \A b \in 1..(a - 1) : vs[b] = os[b]
      BY <3>1, <1>v
    <3> HIDE DEF vs
    <3> QED BY <3>2
  <2>6. Within(t, os[a]) = {os[b] : b \in 1..(a - 1)}
    BY <1>o, <2>1
  <2>7. Balance(u, os[a], n + 1) = m - a /\ m - a = m - 1 - a + 1
    BY <1>1, <2>1, <1>n
  <2>8. os[a] \in 1..(n + 1) /\ What(t, os[a]) \in Opens
    BY <2>2, <1>n, <1>o, <2>1
  <2> HIDE DEF u, vs
  <2> QED BY <2>2, <2>3, <2>4, <2>5, <2>6, <2>7, <2>8
<1>4. ASSUME NEW a \in 1..(m - 1), NEW b \in 1..(m - 1), a < b
      PROVE  vs[a] < vs[b]
  <2>1. a \in 1..m /\ b \in 1..m
    BY <1>n
  <2> QED BY <2>1, <1>v, <1>f, <1>4
<1>5. Within(u, n + 2) = {vs[a] : a \in 1..(m - 1)}
  <2>1. Within(u, n + 2) = {j \in Within(t, n + 1) : Balance(u, j, n + 1) > 0}
    <3>1. "end" \notin Opens
      BY DEF Opens
    <3> QED BY <3>1, WithinNext
  <2>2. \A a \in 1..m : Balance(u, os[a], n + 1) > 0 <=> a \in 1..(m - 1)
    BY <1>1, <1>n
  <2>3. {vs[a] : a \in 1..(m - 1)} = {os[a] : a \in 1..(m - 1)}
    <3> HIDE DEF vs
    <3> QED BY <1>v
  <2>4. \A a \in 1..(m - 1) : a \in 1..m
    BY <1>n
  <2> HIDE DEF u, vs
  <2> QED BY <2>1, <2>2, <2>3, <2>4, <1>s
<1>6. n + 1 + 1 = n + 2
  BY <1>n
<1> HIDE DEF u, vs, n, m
<1>7. Opened(u, vs)
  BY <1>u, <1>v, <1>3, <1>4, <1>5, <1>6 DEF Opened
<1> QED BY <1>7 DEF u, vs, n, m

LEMMA OpenedKeep ==
    ASSUME NEW t, IsSeq(t), NEW e, NEW os, Opened(t, os), e.line.what \notin Opens \union {"end"}
    PROVE  Opened(Append(t, e), os)
<1> DEFINE n == Len(t)
           u == Append(t, e)
           m == Len(os)
<1>n. n \in Nat /\ m \in Nat /\ IsSeq(os)
  BY SeqShape DEF Opened
<1>u. IsSeq(u) /\ Len(u) = n + 1
  BY Pushed
<1>w. What(u, n + 1) \notin Opens \union {"end"}
  BY WhatNew
<1>o. \A a \in 1..m : /\ os[a] \in 1..n /\ What(t, os[a]) \in Opens
                      /\ Balance(t, os[a], n) = m - a + 1
                      /\ Within(t, os[a]) = {os[b] : b \in 1..(a - 1)}
  BY DEF Opened
<1>f. \A a, b \in 1..m : a < b => os[a] < os[b]
  BY DEF Opened
<1>s. Within(t, n + 1) = {os[a] : a \in 1..m}
  BY DEF Opened
<1>1. ASSUME NEW a \in 1..m
      PROVE  Balance(u, os[a], n + 1) = m - a + 1
  <2>1. PICK j \in 1..n : j = os[a]
    BY <1>o
  <2>2. Balance(u, j, n) = Balance(t, j, n)
    BY <1>n, BalanceSame
  <2>3. What(u, n + 1) \notin Opens \union {"end"} => Balance(u, j, n + 1) = Balance(u, j, n)
    BY <1>n, BalanceStep
  <2>4. Balance(t, j, n) = m - a + 1
    BY <1>o, <2>1
  <2> QED BY <1>w, <2>1, <2>2, <2>3, <2>4
<1>3. ASSUME NEW a \in 1..m
      PROVE  /\ os[a] \in 1..(n + 1) /\ What(u, os[a]) \in Opens
             /\ Within(u, os[a]) = {os[b] : b \in 1..(a - 1)}
  <2>1. os[a] \in 1..n /\ os[a] \in 1..(n + 1)
    BY <1>o, <1>n
  <2>2. What(u, os[a]) = What(t, os[a])
    BY <2>1, WhatSame
  <2>3. Within(u, os[a]) = Within(t, os[a])
    BY <2>1, WithinSame
  <2> HIDE DEF u
  <2> QED BY <2>1, <2>2, <2>3, <1>o
<1>5. Within(u, n + 2) = {os[a] : a \in 1..m}
  <2>1. Within(u, n + 2) = {j \in Within(t, n + 1) : Balance(u, j, n + 1) > 0}
    BY WithinNext
  <2>2. \A a \in 1..m : Balance(u, os[a], n + 1) > 0
    BY <1>1, <1>n
  <2> HIDE DEF u
  <2> QED BY <2>1, <2>2, <1>s
<1>6. n + 1 + 1 = n + 2
  BY <1>n
<1> HIDE DEF u, n, m
<1>7. Opened(u, os)
  <2> USE DEF m
  <2> QED BY <1>u, <1>n, <1>1, <1>3, <1>f, <1>5, <1>6 DEF Opened
<1> QED BY <1>7 DEF u

\* The innermost of the first k open blocks.
LEMMA Innermost ==
    ASSUME NEW t, IsSeq(t), NEW os, Opened(t, os), NEW k \in 1..Len(os)
    PROVE  Max({os[b] : b \in 1..k}) = os[k]
<1> DEFINE T == {os[b] : b \in 1..k}
           n == Len(t)
<1>n. n \in Nat /\ Len(os) \in Nat
  BY SeqShape DEF Opened
<1>1. \A b \in 1..k : b \in 1..Len(os) /\ (b = k \/ b < k) /\ k \in 1..k
  BY <1>n
<1>2. \A b \in 1..k : os[b] \in 1..n
  BY <1>1 DEF Opened
<1>3. \A b \in 1..k : os[b] \in 0..n
  BY <1>2, <1>n
<1>4. T \in SUBSET (0..n) /\ os[k] \in T
  BY <1>1, <1>3
<1>5. \A b \in 1..k : os[k] >= os[b]
  <2>1. \A b \in 1..k : b < k => os[b] < os[k]
    BY <1>1 DEF Opened
  <2> QED BY <1>1, <1>2, <2>1, <1>n
<1>6. \A x \in T : os[k] >= x
  BY <1>5
<1> HIDE DEF T
<1>7. Max(T) = os[k]
  BY <1>4, <1>6, <1>n, MaxOf
<1> QED BY <1>7 DEF T

(***************************************************************************)
(* The statement a line belongs to.                                        *)
(***************************************************************************)
LEMMA OwnerRange ==
    ASSUME NEW t, NEW i \in Nat, i > 0
    PROVE  /\ Owner(t, i) \in 0..(i - 1)
           /\ Owner(t, i) # 0 => What(t, Owner(t, i)) \notin Options \union {"blank"}
<1> DEFINE T == {0} \union {j \in 1..(i - 1) : What(t, j) \notin Options \union {"blank"}}
<1>1. T \in SUBSET (0..(i - 1)) /\ T # {} /\ i - 1 \in Nat
  OBVIOUS
<1>2. \A x \in T : x # 0 => What(t, x) \notin Options \union {"blank"}
  OBVIOUS
<1>3. Owner(t, i) = Max(T)
  BY DEF Owner
<1> HIDE DEF T
<1>4. Max(T) \in T
  BY <1>1, MaxIs
<1> QED BY <1>1, <1>2, <1>3, <1>4

LEMMA OwnerNext ==
    ASSUME NEW t, NEW i \in Nat, i > 0
    PROVE  Owner(t, i + 1) = IF What(t, i) \notin Options \union {"blank"} THEN i ELSE Owner(t, i)
<1> DEFINE T == {0} \union {j \in 1..(i - 1) : What(t, j) \notin Options \union {"blank"}}
           U == {0} \union {j \in 1..(i + 1 - 1) : What(t, j) \notin Options \union {"blank"}}
<1>1. Owner(t, i) = Max(T) /\ Owner(t, i + 1) = Max(U)
  BY DEF Owner
<1>2. CASE What(t, i) \notin Options \union {"blank"}
  <2>1. U \in SUBSET (0..i) /\ i \in U /\ \A k \in U : i >= k
    BY <1>2
  <2> HIDE DEF U
  <2>2. Max(U) = i
    BY <2>1, MaxOf
  <2> QED BY <1>1, <1>2, <2>2
<1>3. CASE What(t, i) \in Options \union {"blank"}
  <2>1. U = T
    BY <1>3
  <2> HIDE DEF T, U
  <2> QED BY <1>1, <1>3, <2>1
<1> QED BY <1>2, <1>3

LEMMA OwnerSame ==
    ASSUME NEW t, IsSeq(t), NEW e, NEW i \in 1..(Len(t) + 1)
    PROVE  Owner(Append(t, e), i) = Owner(t, i)
<1>1. PICK u : u = Append(t, e)
  OBVIOUS
<1>2. \A j \in 1..(i - 1) : What(u, j) = What(t, j)
  <2>1. \A j \in 1..(i - 1) : j \in 1..Len(t)
    BY SeqShape
  <2> QED BY <1>1, <2>1, WhatSame
<1>3. {j \in 1..(i - 1) : What(u, j) \notin Options \union {"blank"}}
        = {j \in 1..(i - 1) : What(t, j) \notin Options \union {"blank"}}
  BY <1>2
<1>4. Owner(u, i) = Owner(t, i)
  BY <1>3 DEF Owner
<1> QED BY <1>1, <1>4

(***************************************************************************)
(* The entry a line makes.                                                 *)
(***************************************************************************)
LEMMA EntryNone ==
    ASSUME NEW t
    PROVE  EntryOf(t, 0) = 1
<1>1. Cardinality({j \in 1..0 : What(t, j) \in Heads}) = 0
  BY CountNone
<1> QED BY <1>1 DEF EntryOf

LEMMA EntrySame ==
    ASSUME NEW t, IsSeq(t), NEW e, NEW i \in 0..Len(t)
    PROVE  EntryOf(Append(t, e), i) = EntryOf(t, i)
<1>1. {j \in 1..i : What(Append(t, e), j) \in Heads} = {j \in 1..i : What(t, j) \in Heads}
  BY CountSame
<1> QED BY <1>1 DEF EntryOf

LEMMA EntryNext ==
    ASSUME NEW t, NEW i \in Nat
    PROVE  /\ EntryOf(t, i) \in Nat /\ EntryOf(t, i) >= 1
           /\ EntryOf(t, i + 1) = EntryOf(t, i) + (IF What(t, i + 1) \in Heads THEN 1 ELSE 0)
<1>1. PICK a : a = Cardinality({j \in 1..i : What(t, j) \in Heads})
  OBVIOUS
<1>2. /\ a \in Nat
      /\ Cardinality({j \in 1..(i + 1) : What(t, j) \in Heads}) = a + (IF What(t, i + 1) \in Heads THEN 1 ELSE 0)
  <2>1. 1 \in Nat /\ 1 <= i + 1
    OBVIOUS
  <2>2. a \in Nat
    BY <1>1, <2>1, CountNat, Zenon
  <2>3. Cardinality({j \in 1..(i + 1) : What(t, j) \in Heads})
          = Cardinality({j \in 1..i : What(t, j) \in Heads}) + (IF What(t, i + 1) \in Heads THEN 1 ELSE 0)
    <3>1. PICK K : K = Heads
      OBVIOUS
    <3>2. Cardinality({j \in 1..(i + 1) : What(t, j) \in K})
            = Cardinality({j \in 1..i : What(t, j) \in K}) + (IF What(t, i + 1) \in K THEN 1 ELSE 0)
      BY <2>1, CountStep
    <3> QED BY <3>1, <3>2, Zenon
  <2> QED BY <1>1, <2>2, <2>3
<1>3. EntryOf(t, i) = 1 + a
  BY <1>1 DEF EntryOf
<1>4. EntryOf(t, i + 1) = 1 + (a + (IF What(t, i + 1) \in Heads THEN 1 ELSE 0))
  BY <1>2 DEF EntryOf
<1> QED BY <1>2, <1>3, <1>4

LEMMA EntryGrows ==
    ASSUME NEW t, NEW i \in Nat, NEW k \in Nat, i <= k
    PROVE  EntryOf(t, i) <= EntryOf(t, k)
<1> DEFINE A == {j \in 1..i : What(t, j) \in Heads}
           B == {j \in 1..k : What(t, j) \in Heads}
<1>1. A \subseteq B
  OBVIOUS
<1>2. IsFiniteSet(B)
  <2>1. IsFiniteSet(1..k)
    BY FS_Interval
  <2> QED BY <2>1, FS_Subset
<1>3. EntryOf(t, i) = 1 + Cardinality(A) /\ EntryOf(t, k) = 1 + Cardinality(B)
  BY DEF EntryOf
<1> HIDE DEF A, B
<1>4. IsFiniteSet(A) /\ Cardinality(A) <= Cardinality(B)
  BY <1>1, <1>2, FS_Subset
<1>5. Cardinality(A) \in Nat /\ Cardinality(B) \in Nat
  BY <1>2, <1>4, FS_CardinalityType
<1> QED BY <1>3, <1>4, <1>5

LEMMA EntryOrder ==
    ASSUME NEW t, NEW i \in Nat, NEW k \in Nat, i < k, What(t, k) \in Heads
    PROVE  EntryOf(t, i) < EntryOf(t, k)
<1>1. PICK h \in Nat : k = h + 1 /\ i <= h
  <2>1. k - 1 \in Nat /\ k = k - 1 + 1 /\ i <= k - 1
    OBVIOUS
  <2> QED BY <2>1
<1>2. EntryOf(t, i) <= EntryOf(t, h)
  BY <1>1, EntryGrows
<1>3. EntryOf(t, h + 1) = EntryOf(t, h) + (IF What(t, h + 1) \in Heads THEN 1 ELSE 0)
  BY EntryNext
<1>4. EntryOf(t, i) \in Nat /\ EntryOf(t, h) \in Nat
  BY EntryNext
<1> QED BY <1>1, <1>2, <1>3, <1>4

\* The entry of a statement is one behind the root, and of no other statement.
LEMMA EntryOwn ==
    ASSUME NEW t, NEW n \in Nat, NEW i \in 1..n, What(t, i) \in Heads
    PROVE  /\ EntryOf(t, i) \in 2..EntryOf(t, n)
           /\ \A k \in 1..n : What(t, k) \in Heads /\ k # i => EntryOf(t, k) # EntryOf(t, i)
<1>1. EntryOf(t, 0) < EntryOf(t, i)
  BY EntryOrder
<1>2. EntryOf(t, i) <= EntryOf(t, n)
  BY EntryGrows
<1>3. EntryOf(t, i) \in Nat /\ EntryOf(t, n) \in Nat
  BY EntryNext
<1>4. ASSUME NEW k \in 1..n, What(t, k) \in Heads, k # i
      PROVE  EntryOf(t, k) # EntryOf(t, i)
  <2>1. EntryOf(t, k) \in Nat
    BY EntryNext
  <2>2. CASE k < i
    <3>1. EntryOf(t, k) < EntryOf(t, i)
      BY <2>2, EntryOrder
    <3> QED BY <2>1, <1>3, <3>1
  <2>3. CASE i < k
    <3>1. EntryOf(t, i) < EntryOf(t, k)
      BY <1>4, <2>3, EntryOrder
    <3> QED BY <2>1, <1>3, <3>1
  <2> QED BY <1>4, <2>2, <2>3
<1> QED BY <1>1, <1>2, <1>3, <1>4, EntryNone

(***************************************************************************)
(* The conditions of a statement.                                          *)
(***************************************************************************)
LEMMA ConditionsNext ==
    ASSUME NEW t, IsSeq(t), NEW e, NEW i \in 1..Len(t)
    PROVE  Conditions(Append(t, e), i)
             = Conditions(t, i) \union (IF e.line.what = "depends" /\ Owner(t, Len(t) + 1) = i THEN {Len(t) + 1} ELSE {})
<1>1. PICK n \in Nat : n = Len(t)
  BY SeqShape
<1>2. PICK u : u = Append(t, e)
  OBVIOUS
<1>3. DOMAIN t = 1..n /\ DOMAIN u = 1..(n + 1)
  <2>1. IsSeq(u) /\ Len(u) = n + 1
    BY <1>1, <1>2, Pushed
  <2> QED BY <1>1, <2>1, SeqShape
<1>4. \A j \in 1..n : What(u, j) = What(t, j) /\ Owner(u, j) = Owner(t, j)
  <2>1. \A j \in 1..n : j \in 1..(Len(t) + 1)
    BY <1>1
  <2> QED BY <1>1, <1>2, <2>1, WhatSame, OwnerSame
<1>5. What(u, n + 1) = e.line.what /\ Owner(u, n + 1) = Owner(t, n + 1)
  <2>1. n + 1 \in 1..(Len(t) + 1)
    BY <1>1
  <2> QED BY <1>1, <1>2, <2>1, WhatNew, OwnerSame
<1>6. Conditions(u, i) = {j \in 1..(n + 1) : \/ j = i /\ What(u, j) = "if"
                                             \/ Owner(u, j) = i /\ What(u, j) = "depends"}
  BY <1>3 DEF Conditions
<1>7. Conditions(t, i) = {j \in 1..n : \/ j = i /\ What(t, j) = "if"
                                       \/ Owner(t, j) = i /\ What(t, j) = "depends"}
  BY <1>3 DEF Conditions
<1>8. \A j : j \in 1..(n + 1) <=> j \in 1..n \/ j = n + 1
  OBVIOUS
<1>9. n + 1 # i /\ n + 1 \notin 1..n
  BY <1>1
<1>10. Conditions(u, i) = Conditions(t, i) \union (IF e.line.what = "depends" /\ Owner(t, n + 1) = i THEN {n + 1} ELSE {})
  BY <1>4, <1>5, <1>6, <1>7, <1>8, <1>9
<1> QED BY <1>1, <1>2, <1>10

LEMMA OnSame ==
    ASSUME NEW t, IsSeq(t), NEW e, NEW i
    PROVE  \A j \in Conditions(t, i) : Append(t, e)[j].line.on = t[j].line.on
<1>1. \A j \in Conditions(t, i) : j \in 1..Len(t)
  BY SeqShape DEF Conditions
<1> QED BY <1>1, WhatSame

LEMMA OwnSame ==
    ASSUME NEW t, IsSeq(t), NEW e, NEW i \in 1..Len(t),
           e.line.what # "depends" \/ Owner(t, Len(t) + 1) # i
    PROVE  Own(Append(t, e), i) = Own(t, i)
<1>1. PICK u : u = Append(t, e)
  OBVIOUS
<1>2. Conditions(u, i) = Conditions(t, i)
  <2>1. Conditions(u, i) = Conditions(t, i)
           \union (IF e.line.what = "depends" /\ Owner(t, Len(t) + 1) = i THEN {Len(t) + 1} ELSE {})
    BY <1>1, ConditionsNext, Zenon
  <2> QED BY <2>1
<1>3. \A j \in Conditions(t, i) : u[j].line.on = t[j].line.on
  BY <1>1, OnSame
<1>4. {menu_check_dep(u[j].line.on) : j \in Conditions(u, i)} = {menu_check_dep(t[j].line.on) : j \in Conditions(t, i)}
  <2>1. PICK A : A = Conditions(t, i)
    OBVIOUS
  <2>2. \A j \in A : menu_check_dep(u[j].line.on) = menu_check_dep(t[j].line.on)
    BY <1>3, <2>1, Zenon
  <2>3. {menu_check_dep(u[j].line.on) : j \in A} = {menu_check_dep(t[j].line.on) : j \in A}
    BY <2>2
  <2> QED BY <1>2, <2>1, <2>3
<1>5. Own(u, i) = Own(t, i)
  BY <1>4 DEF Own
<1> QED BY <1>1, <1>5

LEMMA OwnDepends ==
    ASSUME NEW t, IsSeq(t), NEW e, NEW i \in 1..Len(t),
           e.line.what = "depends", Owner(t, Len(t) + 1) = i
    PROVE  Own(Append(t, e), i) = Own(t, i) \union menu_check_dep(e.line.on)
<1>1. PICK u : u = Append(t, e)
  OBVIOUS
<1>2. PICK n : n = Len(t) + 1
  OBVIOUS
<1>3. Conditions(u, i) = Conditions(t, i) \union {n}
  BY <1>1, <1>2, ConditionsNext
<1>4. \A j \in Conditions(t, i) : u[j].line.on = t[j].line.on
  <2>1. \A j \in Conditions(t, i) : j \in 1..Len(t)
    BY SeqShape DEF Conditions
  <2>2. \A j \in 1..Len(t) : u[j] = t[j]
    BY <1>1, WhatSame
  <2> QED BY <2>1, <2>2
<1>5. u[n].line.on = e.line.on
  BY <1>1, <1>2, WhatNew
<1>6. {menu_check_dep(u[j].line.on) : j \in Conditions(u, i)}
        = {menu_check_dep(t[j].line.on) : j \in Conditions(t, i)} \union {menu_check_dep(e.line.on)}
  BY <1>3, <1>4, <1>5
<1>7. Own(u, i) = Own(t, i) \union menu_check_dep(e.line.on)
  BY <1>6 DEF Own
<1> QED BY <1>1, <1>7

LEMMA OwnNew ==
    ASSUME NEW t, IsSeq(t), NEW e
    PROVE  Own(Append(t, e), Len(t) + 1) = IF e.line.what = "if" THEN menu_check_dep(e.line.on) ELSE {}
<1>1. PICK u : u = Append(t, e)
  OBVIOUS
<1>2. PICK n \in Nat : n = Len(t)
  BY SeqShape
<1>3. DOMAIN u = 1..(n + 1)
  <2>1. IsSeq(u) /\ Len(u) = n + 1
    BY <1>1, <1>2, Pushed
  <2> QED BY <2>1, SeqShape
<1>4. \A j \in 1..(n + 1) : Owner(u, j) # n + 1
  <2>1. ASSUME NEW j \in 1..(n + 1)
        PROVE  Owner(u, j) # n + 1
    <3>1. Owner(u, j) \in 0..(j - 1)
      BY OwnerRange
    <3> QED BY <3>1
  <2> QED BY <2>1
<1>5. What(u, n + 1) = e.line.what /\ u[n + 1] = e
  BY <1>1, <1>2, WhatNew
<1>6. Conditions(u, n + 1) = {j \in 1..(n + 1) : j = n + 1 /\ What(u, j) = "if"}
  BY <1>3, <1>4 DEF Conditions
<1>7. CASE e.line.what = "if"
  <2>1. Conditions(u, n + 1) = {n + 1}
    BY <1>5, <1>6, <1>7
  <2>2. {menu_check_dep(u[j].line.on) : j \in Conditions(u, n + 1)} = {menu_check_dep(e.line.on)}
    BY <2>1, <1>5
  <2>3. Own(u, n + 1) = menu_check_dep(e.line.on)
    BY <2>2 DEF Own
  <2> QED BY <1>1, <1>2, <1>7, <2>3
<1>8. CASE e.line.what # "if"
  <2>1. Conditions(u, n + 1) = {}
    BY <1>5, <1>6, <1>8
  <2>2. Own(u, n + 1) = {}
    BY <2>1 DEF Own
  <2> QED BY <1>1, <1>2, <1>8, <2>2
<1> QED BY <1>7, <1>8

(***************************************************************************)
(* The file a block begins in.                                             *)
(***************************************************************************)
LEMMA MinOf ==
    ASSUME NEW T \in SUBSET Nat, NEW x \in T, \A k \in T : x <= k
    PROVE  Min(T) = x
<1>1. PICK m : m = Min(T)
  OBVIOUS
<1>2. m \in T /\ m <= x /\ x <= m
  BY <1>1, MinIs
<1> QED BY <1>1, <1>2

LEMMA BlockFileKept ==
    ASSUME NEW t, IsSeq(t), NEW e, NEW j \in 1..Len(t),
           What(t, j) = "if" => \E k \in (j + 1)..Len(t) : What(t, k) # "blank"
    PROVE  BlockFile(Append(t, e), j) = BlockFile(t, j)
<1>1. PICK n \in Nat : n = Len(t)
  BY SeqShape
<1>2. PICK u : u = Append(t, e)
  OBVIOUS
<1>3. What(u, j) = What(t, j) /\ u[j] = t[j]
  BY <1>2, WhatSame
<1>4. CASE What(t, j) # "if"
  BY <1>2, <1>3, <1>4 DEF BlockFile
<1>5. CASE What(t, j) = "if"
  <2> DEFINE T == {k \in (j + 1)..n : What(t, k) # "blank"}
             U == {k \in (j + 1)..(n + 1) : What(u, k) # "blank"}
  <2>1. T \in SUBSET Nat /\ T # {}
    BY <1>1, <1>5
  <2>2. PICK x \in T : x = Min(T) /\ \A k \in T : x <= k
    <3> HIDE DEF T
    <3> QED BY <2>1, MinIs
  <2>3. x \in 1..n /\ \A k \in (j + 1)..n : What(u, k) = What(t, k)
    <3>1. \A k \in (j + 1)..n : k \in 1..Len(t)
      BY <1>1
    <3> QED BY <1>2, <3>1, <1>1, WhatSame
  <2>4. x \in U /\ U \in SUBSET Nat
    BY <2>3
  <2>5. ASSUME NEW k \in U
        PROVE  x <= k
    <3>1. CASE k \in (j + 1)..n
      BY <2>2, <2>3, <3>1
    <3>2. CASE k = n + 1
      BY <2>3, <3>2
    <3> QED BY <3>1, <3>2
  <2>6. Min(U) = x
    <3> HIDE DEF U
    <3> QED BY <2>4, <2>5, MinOf
  <2>7. Len(u) = n + 1
    BY <1>1, <1>2, Pushed
  <2>8. Following(t, j) = x /\ Following(u, j) = x
    BY <2>2, <2>6, <2>7, <1>1 DEF Following
  <2>9. u[x] = t[x]
    BY <1>1, <1>2, <2>3, WhatSame
  <2> HIDE DEF T, U
  <2> QED BY <1>2, <1>3, <1>5, <2>8, <2>9 DEF BlockFile
<1> QED BY <1>4, <1>5

LEMMA BlockFileNow ==
    ASSUME NEW t, IsSeq(t), NEW e, NEW j \in 1..Len(t), What(t, j) = "if",
           \A k \in (j + 1)..Len(t) : What(t, k) = "blank", e.line.what # "blank"
    PROVE  BlockFile(Append(t, e), j) = e.file
<1>1. PICK n \in Nat : n = Len(t)
  BY SeqShape
<1>2. PICK u : u = Append(t, e)
  OBVIOUS
<1>3. What(u, j) = "if"
  BY <1>2, WhatSame
<1> DEFINE U == {k \in (j + 1)..(n + 1) : What(u, k) # "blank"}
<1>4. \A k \in (j + 1)..n : What(u, k) = "blank"
  <2>1. \A k \in (j + 1)..n : k \in 1..Len(t)
    BY <1>1
  <2> QED BY <1>1, <1>2, <2>1, WhatSame
<1>5. What(u, n + 1) # "blank" /\ u[n + 1] = e
  BY <1>1, <1>2, WhatNew
<1>6. n + 1 \in U /\ U \in SUBSET Nat /\ \A k \in U : n + 1 <= k
  BY <1>1, <1>4, <1>5
<1>7. Min(U) = n + 1
  <2> HIDE DEF U
  <2> QED BY <1>6, MinOf
<1>8. Len(u) = n + 1
  BY <1>1, <1>2, Pushed
<1>9. Following(u, j) = n + 1
  BY <1>7, <1>8 DEF Following
<1> HIDE DEF U
<1> QED BY <1>2, <1>3, <1>5, <1>9 DEF BlockFile

LEMMA BlockFileNew ==
    ASSUME NEW t, IsSeq(t), NEW e, e.line.what # "if"
    PROVE  BlockFile(Append(t, e), Len(t) + 1) = e.after
BY WhatNew DEF BlockFile

(***************************************************************************)
(* What fits stays so when a line comes.  sc is the Kconfig.               *)
(***************************************************************************)
FitsIn(sc, t, i) ==
    LET l == t[i].line
    IN  CASE l.what = "end" -> /\ Within(t, i) # {} /\ Inner(t, i) = l.of
                               /\ BlockFile(t, Max(Within(t, i))) = t[i].after
          [] l.what \in {"menu", "choice"} -> Within(t, i) = {} \/ Inner(t, i) # "choice"
          [] l.what = "source" -> /\ l.file \in DOMAIN sc \ {MainFile}
                                  /\ \A j \in 1 .. i - 1 : What(t, j) = "source" => t[j].line.file # l.file
          [] l.what \in Options -> Owner(t, i) # 0 /\ l.what \in OptionsOf(What(t, Owner(t, i)))
          [] OTHER -> TRUE

LEMMA FitsAs == \A t, i : Fits(t, i) <=> FitsIn(script, t, i)
BY DEF Fits, FitsIn

\* Line by line.
LEMMA FitsKinds ==
    ASSUME NEW sc, NEW t, NEW i
    PROVE  /\ What(t, i) = "end" =>
                 (FitsIn(sc, t, i) <=> /\ Within(t, i) # {} /\ Inner(t, i) = t[i].line.of
                                       /\ BlockFile(t, Max(Within(t, i))) = t[i].after)
           /\ What(t, i) \in {"menu", "choice"} =>
                 (FitsIn(sc, t, i) <=> Within(t, i) = {} \/ Inner(t, i) # "choice")
           /\ What(t, i) = "source" =>
                 (FitsIn(sc, t, i) <=> /\ t[i].line.file \in DOMAIN sc \ {MainFile}
                                       /\ \A j \in 1 .. i - 1 : What(t, j) = "source" => t[j].line.file # t[i].line.file)
           /\ What(t, i) \in Options =>
                 (FitsIn(sc, t, i) <=> Owner(t, i) # 0 /\ What(t, i) \in OptionsOf(What(t, Owner(t, i))))
           /\ What(t, i) \notin Options \union {"end", "menu", "choice", "source"} => FitsIn(sc, t, i)
<1>1. PICK w : w = What(t, i) /\ w = t[i].line.what
  BY DEF What
<1>2. w = "end" => w \notin Options \union {"menu", "choice", "source"}
  BY DEF Options
<1>3. w \in {"menu", "choice"} => w \notin Options \union {"end", "source"}
  BY DEF Options
<1>4. w = "source" => w \notin Options \union {"end", "menu", "choice"}
  BY DEF Options
<1>5. ASSUME w = "end"
      PROVE  FitsIn(sc, t, i) <=> /\ Within(t, i) # {} /\ Inner(t, i) = t[i].line.of
                                  /\ BlockFile(t, Max(Within(t, i))) = t[i].after
  BY <1>1, <1>2, <1>5 DEF FitsIn
<1>6. ASSUME w \in {"menu", "choice"}
      PROVE  FitsIn(sc, t, i) <=> Within(t, i) = {} \/ Inner(t, i) # "choice"
  BY <1>1, <1>3, <1>6 DEF FitsIn
<1>7. ASSUME w = "source"
      PROVE  FitsIn(sc, t, i) <=> /\ t[i].line.file \in DOMAIN sc \ {MainFile}
                                  /\ \A j \in 1 .. i - 1 : What(t, j) = "source" => t[j].line.file # t[i].line.file
  BY <1>1, <1>4, <1>7 DEF FitsIn
<1>8. ASSUME w \in Options
      PROVE  FitsIn(sc, t, i) <=> Owner(t, i) # 0 /\ w \in OptionsOf(What(t, Owner(t, i)))
  BY <1>1, <1>2, <1>3, <1>4, <1>8 DEF FitsIn
<1>9. ASSUME w \notin Options \union {"end", "menu", "choice", "source"}
      PROVE  FitsIn(sc, t, i)
  BY <1>1, <1>9 DEF FitsIn
<1> QED BY <1>1, <1>5, <1>6, <1>7, <1>8, <1>9

LEMMA FitsSame ==
    ASSUME NEW sc, NEW t, IsSeq(t), NEW e, NEW i \in 1..Len(t)
    PROVE  FitsIn(sc, Append(t, e), i) <=> FitsIn(sc, t, i)
<1>1. PICK n \in Nat : n = Len(t)
  BY SeqShape
<1>2. PICK u : u = Append(t, e)
  OBVIOUS
<1>3. u[i] = t[i] /\ What(u, i) = What(t, i)
  BY <1>2, WhatSame
<1>4. i \in 1..(Len(t) + 1) /\ i \in Nat /\ \A j \in 1..(i - 1) : j \in 1..Len(t)
  BY <1>1
<1>5. Within(u, i) = Within(t, i) /\ Owner(u, i) = Owner(t, i)
  BY <1>2, <1>4, WithinSame, OwnerSame
<1>6. \A j \in 1..(i - 1) : What(u, j) = What(t, j) /\ u[j] = t[j]
  BY <1>2, <1>4, WhatSame
<1>7. Within(t, i) # {} => Max(Within(t, i)) \in 1..(i - 1)
  <2>1. Within(t, i) \subseteq 1..(i - 1)
    BY <1>4, WithinRange
  <2>2. Within(t, i) \in SUBSET (0..(i - 1)) /\ i - 1 \in Nat
    BY <2>1, <1>1
  <2> QED BY <2>1, <2>2, MaxIs
<1>8. Within(t, i) # {} => Inner(u, i) = Inner(t, i)
  BY <1>5, <1>6, <1>7 DEF Inner
<1>k. /\ What(u, i) = "end" =>
            (FitsIn(sc, u, i) <=> /\ Within(u, i) # {} /\ Inner(u, i) = u[i].line.of
                                  /\ BlockFile(u, Max(Within(u, i))) = u[i].after)
      /\ What(u, i) \in {"menu", "choice"} =>
            (FitsIn(sc, u, i) <=> Within(u, i) = {} \/ Inner(u, i) # "choice")
      /\ What(u, i) = "source" =>
            (FitsIn(sc, u, i) <=> /\ u[i].line.file \in DOMAIN sc \ {MainFile}
                                  /\ \A j \in 1 .. i - 1 : What(u, j) = "source" => u[j].line.file # u[i].line.file)
      /\ What(u, i) \in Options =>
            (FitsIn(sc, u, i) <=> Owner(u, i) # 0 /\ What(u, i) \in OptionsOf(What(u, Owner(u, i))))
      /\ What(u, i) \notin Options \union {"end", "menu", "choice", "source"} => FitsIn(sc, u, i)
  BY FitsKinds
<1>9. CASE What(t, i) = "end"
  <2>1. FitsIn(sc, t, i) <=> /\ Within(t, i) # {} /\ Inner(t, i) = t[i].line.of
                             /\ BlockFile(t, Max(Within(t, i))) = t[i].after
    BY <1>9, FitsKinds
  <2>2. CASE Within(t, i) = {}
    BY <1>2, <1>3, <1>5, <1>9, <1>k, <2>1, <2>2
  <2>3. CASE Within(t, i) # {}
    <3>1. PICK j \in 1..(i - 1) : j = Max(Within(t, i))
      BY <1>7, <2>3
    <3>2. j \in 1..Len(t) /\ i \in (j + 1)..Len(t) /\ What(t, i) # "blank"
      BY <1>4, <1>9, <3>1
    <3>3. BlockFile(u, j) = BlockFile(t, j)
      BY <1>2, <3>2, BlockFileKept
    <3> QED BY <1>2, <1>3, <1>5, <1>8, <1>9, <1>k, <2>1, <2>3, <3>1, <3>3
  <2> QED BY <2>2, <2>3
<1>10. CASE What(t, i) \in {"menu", "choice"}
  <2>1. FitsIn(sc, t, i) <=> Within(t, i) = {} \/ Inner(t, i) # "choice"
    BY <1>10, FitsKinds
  <2> QED BY <1>2, <1>3, <1>5, <1>8, <1>10, <1>k, <2>1
<1>11. CASE What(t, i) = "source"
  <2>1. FitsIn(sc, t, i) <=> /\ t[i].line.file \in DOMAIN sc \ {MainFile}
                             /\ \A j \in 1 .. i - 1 : What(t, j) = "source" => t[j].line.file # t[i].line.file
    BY <1>11, FitsKinds
  <2> QED BY <1>2, <1>3, <1>6, <1>11, <1>k, <2>1
<1>12. CASE What(t, i) \in Options
  <2>1. FitsIn(sc, t, i) <=> Owner(t, i) # 0 /\ What(t, i) \in OptionsOf(What(t, Owner(t, i)))
    BY <1>12, FitsKinds
  <2>2. Owner(t, i) # 0 => What(u, Owner(t, i)) = What(t, Owner(t, i))
    <3>1. Owner(t, i) \in 0..(i - 1)
      BY <1>4, OwnerRange
    <3>2. Owner(t, i) # 0 => Owner(t, i) \in 1..(i - 1)
      BY <3>1
    <3> QED BY <1>6, <3>2
  <2> QED BY <1>2, <1>3, <1>5, <1>12, <1>k, <2>1, <2>2
<1>13. CASE What(t, i) \notin Options \union {"end", "menu", "choice", "source"}
  BY <1>2, <1>3, <1>13, <1>k, FitsKinds
<1> QED BY <1>9, <1>10, <1>11, <1>12, <1>13

-----------------------------------------------------------------------------
(***************************************************************************)
(* The entries.                                                            *)
(***************************************************************************)
IsEntry(x) == x = [sym |-> x.sym, file |-> x.file, dep |-> x.dep, prompt |-> x.prompt,
                   parent |-> x.parent, next |-> x.next, list |-> x.list]

IsMenus(m) == m = [entry |-> m.entry, prop |-> m.prop, sym |-> m.sym, current_menu |-> m.current_menu,
                   current_entry |-> m.current_entry, last_entry_ptr |-> m.last_entry_ptr]

IsTree(m) == /\ IsMenus(m)
             /\ IsSeq(m.entry)
             /\ \A x \in 1..Len(m.entry) : IsEntry(m.entry[x])
             /\ m.current_menu \in 1..Len(m.entry) /\ m.current_entry \in 1..Len(m.entry)
             /\ m.last_entry_ptr.of \in 1..Len(m.entry)

\* Two entries that hang alike.
Same(x, y) == x.parent = y.parent /\ x.file = y.file /\ x.dep = y.dep

\* m is as k was, as far as it is about where the entries hang.
Alike(k, m) == /\ IsTree(m)
               /\ Len(m.entry) = Len(k.entry)
               /\ \A x \in 1..Len(k.entry) : Same(m.entry[x], k.entry[x])
               /\ m.current_menu = k.current_menu /\ m.current_entry = k.current_entry

LEMMA MenusSet ==
    ASSUME NEW m, IsMenus(m), NEW v
    PROVE  /\ [m EXCEPT !.entry = v] = [entry |-> v, prop |-> m.prop, sym |-> m.sym, current_menu |-> m.current_menu,
                     current_entry |-> m.current_entry, last_entry_ptr |-> m.last_entry_ptr]
           /\ [m EXCEPT !.prop = v] = [entry |-> m.entry, prop |-> v, sym |-> m.sym, current_menu |-> m.current_menu,
                     current_entry |-> m.current_entry, last_entry_ptr |-> m.last_entry_ptr]
           /\ [m EXCEPT !.sym = v] = [entry |-> m.entry, prop |-> m.prop, sym |-> v, current_menu |-> m.current_menu,
                     current_entry |-> m.current_entry, last_entry_ptr |-> m.last_entry_ptr]
           /\ [m EXCEPT !.current_menu = v] = [entry |-> m.entry, prop |-> m.prop, sym |-> m.sym, current_menu |-> v,
                     current_entry |-> m.current_entry, last_entry_ptr |-> m.last_entry_ptr]
           /\ [m EXCEPT !.current_entry = v] = [entry |-> m.entry, prop |-> m.prop, sym |-> m.sym,
                     current_menu |-> m.current_menu, current_entry |-> v, last_entry_ptr |-> m.last_entry_ptr]
           /\ [m EXCEPT !.last_entry_ptr = v] = [entry |-> m.entry, prop |-> m.prop, sym |-> m.sym,
                     current_menu |-> m.current_menu, current_entry |-> m.current_entry, last_entry_ptr |-> v]
BY DEF IsMenus

LEMMA CurrentSet ==
    ASSUME NEW m, IsMenus(m), NEW v
    PROVE  [m EXCEPT !.current_menu = v] = [entry |-> m.entry, prop |-> m.prop, sym |-> m.sym, current_menu |-> v,
                     current_entry |-> m.current_entry, last_entry_ptr |-> m.last_entry_ptr]
BY DEF IsMenus

LEMMA PointerSet ==
    ASSUME NEW m, IsMenus(m), NEW v
    PROVE  [m EXCEPT !.last_entry_ptr = v] = [entry |-> m.entry, prop |-> m.prop, sym |-> m.sym,
                     current_menu |-> m.current_menu, current_entry |-> m.current_entry, last_entry_ptr |-> v]
BY DEF IsMenus

LEMMA EntriesSet ==
    ASSUME NEW m, IsMenus(m), NEW v
    PROVE  [m EXCEPT !.entry = v] = [entry |-> v, prop |-> m.prop, sym |-> m.sym, current_menu |-> m.current_menu,
                     current_entry |-> m.current_entry, last_entry_ptr |-> m.last_entry_ptr]
BY DEF IsMenus

LEMMA LinkSet ==
    ASSUME NEW x, IsEntry(x), NEW v
    PROVE  /\ [x EXCEPT !.list = v] = [sym |-> x.sym, file |-> x.file, dep |-> x.dep, prompt |-> x.prompt,
                                       parent |-> x.parent, next |-> x.next, list |-> v]
           /\ [x EXCEPT !.next = v] = [sym |-> x.sym, file |-> x.file, dep |-> x.dep, prompt |-> x.prompt,
                                       parent |-> x.parent, next |-> v, list |-> x.list]
BY DEF IsEntry

LEMMA EntrySet ==
    ASSUME NEW x, IsEntry(x), NEW v
    PROVE  /\ [x EXCEPT !.list = v] = [sym |-> x.sym, file |-> x.file, dep |-> x.dep, prompt |-> x.prompt,
                                       parent |-> x.parent, next |-> x.next, list |-> v]
           /\ [x EXCEPT !.next = v] = [sym |-> x.sym, file |-> x.file, dep |-> x.dep, prompt |-> x.prompt,
                                       parent |-> x.parent, next |-> v, list |-> x.list]
           /\ [x EXCEPT !.prompt = v] = [sym |-> x.sym, file |-> x.file, dep |-> x.dep, prompt |-> v,
                                       parent |-> x.parent, next |-> x.next, list |-> x.list]
           /\ [x EXCEPT !.dep = v] = [sym |-> x.sym, file |-> x.file, dep |-> v, prompt |-> x.prompt,
                                       parent |-> x.parent, next |-> x.next, list |-> x.list]
BY DEF IsEntry

\* Properties and symbols are not about where entries hang.
LEMMA AlikeSelf ==
    ASSUME NEW m, IsTree(m)
    PROVE  Alike(m, m)
BY DEF Alike, Same

LEMMA AlikeProp ==
    ASSUME NEW m, IsTree(m), NEW v
    PROVE  Alike(m, [m EXCEPT !.prop = v]) /\ Alike(m, [m EXCEPT !.sym = v])
<1>0. IsMenus(m)
  BY DEF IsTree
<1>1. PICK r : r = [m EXCEPT !.prop = v]
  OBVIOUS
<1>2. PICK q : q = [m EXCEPT !.sym = v]
  OBVIOUS
<1>3. r = [entry |-> m.entry, prop |-> v, sym |-> m.sym, current_menu |-> m.current_menu,
                     current_entry |-> m.current_entry, last_entry_ptr |-> m.last_entry_ptr]
  BY <1>0, <1>1, MenusSet
<1>4. q = [entry |-> m.entry, prop |-> m.prop, sym |-> v, current_menu |-> m.current_menu,
                     current_entry |-> m.current_entry, last_entry_ptr |-> m.last_entry_ptr]
  BY <1>0, <1>2, MenusSet
<1>5. IsMenus(r) /\ r.entry = m.entry /\ r.current_menu = m.current_menu /\ r.current_entry = m.current_entry
      /\ r.last_entry_ptr = m.last_entry_ptr
  BY <1>3 DEF IsMenus
<1>6. IsMenus(q) /\ q.entry = m.entry /\ q.current_menu = m.current_menu /\ q.current_entry = m.current_entry
      /\ q.last_entry_ptr = m.last_entry_ptr
  BY <1>4 DEF IsMenus
<1>7. Alike(m, r)
  BY <1>5 DEF Alike, IsTree, Same
<1>8. Alike(m, q)
  BY <1>6 DEF Alike, IsTree, Same
<1> QED BY <1>1, <1>2, <1>7, <1>8

\* One entry put in the place of another.
LEMMA EntryPut ==
    ASSUME NEW m, IsTree(m), NEW k \in 1..Len(m.entry), NEW r, IsEntry(r)
    PROVE  LET q == [m EXCEPT !.entry = [m.entry EXCEPT ![k] = r]]
           IN  /\ IsTree(q) /\ Len(q.entry) = Len(m.entry)
               /\ \A x \in 1..Len(m.entry) : q.entry[x] = IF x = k THEN r ELSE m.entry[x]
               /\ q.current_menu = m.current_menu /\ q.current_entry = m.current_entry
               /\ q.prop = m.prop /\ q.sym = m.sym /\ q.last_entry_ptr = m.last_entry_ptr
<1>1. PICK E : E = [m.entry EXCEPT ![k] = r]
  OBVIOUS
<1>2. PICK q : q = [m EXCEPT !.entry = E]
  OBVIOUS
<1>3. /\ IsSeq(E) /\ Len(E) = Len(m.entry)
      /\ \A x \in 1..Len(m.entry) : E[x] = IF x = k THEN r ELSE m.entry[x]
  BY <1>1, Replaced DEF IsTree
<1>4. q = [entry |-> E, prop |-> m.prop, sym |-> m.sym, current_menu |-> m.current_menu,
                     current_entry |-> m.current_entry, last_entry_ptr |-> m.last_entry_ptr]
  <2>1. IsMenus(m)
    BY DEF IsTree
  <2> QED BY <1>2, <2>1, EntriesSet
<1>5. IsMenus(q) /\ q.entry = E /\ q.current_menu = m.current_menu /\ q.current_entry = m.current_entry
      /\ q.last_entry_ptr = m.last_entry_ptr /\ q.prop = m.prop /\ q.sym = m.sym
  BY <1>4 DEF IsMenus
<1>6. \A x \in 1..Len(E) : IsEntry(E[x])
  BY <1>3 DEF IsTree
<1>7. IsTree(q)
  BY <1>3, <1>5, <1>6 DEF IsTree
<1> QED BY <1>1, <1>2, <1>3, <1>5, <1>7

LEMMA AddEntryIs ==
    ASSUME NEW m, IsTree(m), NEW s, NEW f
    PROVE  LET q == menu_add_entry(m, s, f)
           IN  /\ IsTree(q) /\ Len(q.entry) = Len(m.entry) + 1
               /\ \A x \in 1..Len(m.entry) : Same(q.entry[x], m.entry[x])
               /\ q.entry[Len(m.entry) + 1].parent = m.current_menu
               /\ q.entry[Len(m.entry) + 1].file = f
               /\ q.entry[Len(m.entry) + 1].dep = {}
               /\ q.current_menu = m.current_menu /\ q.current_entry = Len(m.entry) + 1
<1>1. PICK n \in Nat : n = Len(m.entry) /\ IsSeq(m.entry)
  BY SeqShape DEF IsTree
<1>2. PICK p : p = m.last_entry_ptr
  OBVIOUS
<1>3. PICK k \in 1..n : k = p.of
  BY <1>1, <1>2 DEF IsTree
<1>4. PICK r : r = IF p.field = "list" THEN [m.entry[k] EXCEPT !.list = n + 1] ELSE [m.entry[k] EXCEPT !.next = n + 1]
  OBVIOUS
<1>5. IsEntry(m.entry[k])
  BY <1>1 DEF IsTree
<1>6. IsEntry(r) /\ Same(r, m.entry[k])
  <2>1. PICK x : x = m.entry[k]
    OBVIOUS
  <2>2. CASE p.field = "list"
    <3>1. r = [sym |-> x.sym, file |-> x.file, dep |-> x.dep, prompt |-> x.prompt,
               parent |-> x.parent, next |-> x.next, list |-> n + 1]
      <4>1. r = [x EXCEPT !.list = n + 1]
        BY <1>4, <2>1, <2>2
      <4>2. IsEntry(x)
        BY <1>5, <2>1
      <4>3. PICK v : v = n + 1
        OBVIOUS
      <4> QED BY <4>1, <4>2, <4>3, LinkSet
    <3> QED BY <2>1, <3>1 DEF IsEntry, Same
  <2>3. CASE p.field # "list"
    <3>1. r = [sym |-> x.sym, file |-> x.file, dep |-> x.dep, prompt |-> x.prompt,
               parent |-> x.parent, next |-> n + 1, list |-> x.list]
      <4>1. r = [x EXCEPT !.next = n + 1]
        BY <1>4, <2>1, <2>3
      <4>2. IsEntry(x)
        BY <1>5, <2>1
      <4>3. PICK v : v = n + 1
        OBVIOUS
      <4> QED BY <4>1, <4>2, <4>3, LinkSet
    <3> QED BY <2>1, <3>1 DEF IsEntry, Same
  <2> QED BY <2>2, <2>3
<1>7. PICK L : L = [m.entry EXCEPT ![k] = r]
  OBVIOUS
<1>8. L = IF p.field = "list" THEN [m.entry EXCEPT ![p.of].list = n + 1] ELSE [m.entry EXCEPT ![p.of].next = n + 1]
  <2>1. PICK E : E = m.entry
    OBVIOUS
  <2>2. [E EXCEPT ![k].list = n + 1] = [E EXCEPT ![k] = [E[k] EXCEPT !.list = n + 1]]
    OBVIOUS
  <2>3. [E EXCEPT ![k].next = n + 1] = [E EXCEPT ![k] = [E[k] EXCEPT !.next = n + 1]]
    OBVIOUS
  <2> QED BY <1>3, <1>4, <1>7, <2>1, <2>2, <2>3
<1>9. /\ IsSeq(L) /\ Len(L) = n
      /\ \A x \in 1..n : L[x] = IF x = k THEN r ELSE m.entry[x]
  <2>1. PICK j : j = k /\ j \in 1..Len(m.entry) /\ L = [m.entry EXCEPT ![j] = r]
    BY <1>1, <1>7
  <2>2. /\ IsSeq(L) /\ Len(L) = Len(m.entry)
        /\ \A x \in 1..Len(m.entry) : L[x] = IF x = j THEN r ELSE m.entry[x]
    <3>1. IsSeq(m.entry)
      BY <1>1
    <3>2. /\ IsSeq([m.entry EXCEPT ![j] = r])
          /\ Len([m.entry EXCEPT ![j] = r]) = Len(m.entry)
          /\ \A x \in 1..Len(m.entry) : [m.entry EXCEPT ![j] = r][x] = IF x = j THEN r ELSE m.entry[x]
      BY <3>1, <2>1, Replaced
    <3> QED BY <2>1, <3>2
  <2> QED BY <1>1, <2>1, <2>2
<1>10. PICK y : y = [sym |-> s, file |-> f, dep |-> {}, prompt |-> Null,
                     parent |-> m.current_menu, next |-> Null, list |-> Null]
  OBVIOUS
<1>11. IsEntry(y) /\ y.parent = m.current_menu /\ y.file = f /\ y.dep = {}
  BY <1>10 DEF IsEntry
<1>12. PICK E : E = Append(L, y)
  OBVIOUS
<1>13. IsSeq(E) /\ Len(E) = n + 1 /\ (\A x \in 1..n : E[x] = L[x]) /\ E[n + 1] = y
  BY <1>9, <1>12, Pushed
<1>14. PICK z : z = [of |-> n + 1, field |-> "next"]
  OBVIOUS
<1>15. PICK q : q = menu_add_entry(m, s, f)
  OBVIOUS
<1>16. q = [m EXCEPT !.entry = E, !.last_entry_ptr = z, !.current_entry = n + 1]
  BY <1>1, <1>2, <1>8, <1>10, <1>12, <1>14, <1>15 DEF menu_add_entry
<1>17. q = [entry |-> E, prop |-> m.prop, sym |-> m.sym, current_menu |-> m.current_menu,
            current_entry |-> n + 1, last_entry_ptr |-> z]
  <2>1. PICK a : a = [m EXCEPT !.entry = E]
    OBVIOUS
  <2>2. PICK b : b = [a EXCEPT !.last_entry_ptr = z]
    OBVIOUS
  <2>3. q = [b EXCEPT !.current_entry = n + 1]
    BY <1>16, <2>1, <2>2
  <2>4. a = [entry |-> E, prop |-> m.prop, sym |-> m.sym, current_menu |-> m.current_menu,
            current_entry |-> m.current_entry, last_entry_ptr |-> m.last_entry_ptr]
    BY <2>1, MenusSet DEF IsTree
  <2>5. IsMenus(a) /\ a.entry = E /\ a.prop = m.prop /\ a.sym = m.sym /\ a.current_menu = m.current_menu
        /\ a.current_entry = m.current_entry
    BY <2>4 DEF IsMenus
  <2>6. b = [entry |-> E, prop |-> m.prop, sym |-> m.sym, current_menu |-> m.current_menu,
            current_entry |-> m.current_entry, last_entry_ptr |-> z]
    <3>1. [a EXCEPT !.last_entry_ptr = z]
            = [entry |-> a.entry, prop |-> a.prop, sym |-> a.sym, current_menu |-> a.current_menu,
               current_entry |-> a.current_entry, last_entry_ptr |-> z]
      BY <2>5, MenusSet
    <3> QED BY <2>2, <2>5, <3>1
  <2>7. IsMenus(b) /\ b.entry = E /\ b.prop = m.prop /\ b.sym = m.sym /\ b.current_menu = m.current_menu
        /\ b.last_entry_ptr = z
    BY <2>6 DEF IsMenus
  <2>8. [b EXCEPT !.current_entry = n + 1]
          = [entry |-> b.entry, prop |-> b.prop, sym |-> b.sym, current_menu |-> b.current_menu,
             current_entry |-> n + 1, last_entry_ptr |-> b.last_entry_ptr]
    BY <2>7, MenusSet
  <2> QED BY <2>3, <2>7, <2>8
<1>18. IsMenus(q) /\ q.entry = E /\ q.current_menu = m.current_menu /\ q.current_entry = n + 1
       /\ q.last_entry_ptr = z
  BY <1>17 DEF IsMenus
<1>19. \A x \in 1..(n + 1) : IsEntry(E[x])
  <2>1. ASSUME NEW x \in 1..(n + 1)
        PROVE  IsEntry(E[x])
    <3>1. CASE x \in 1..n
      <4>1. E[x] = IF x = k THEN r ELSE m.entry[x]
        BY <1>9, <1>13, <3>1
      <4>2. IsEntry(m.entry[x])
        BY <1>1, <3>1 DEF IsTree
      <4> QED BY <4>1, <4>2, <1>6
    <3>2. CASE x = n + 1
      BY <1>11, <1>13, <3>2
    <3> QED BY <3>1, <3>2
  <2> QED BY <2>1
<1>20. \A x \in 1..n : Same(E[x], m.entry[x])
  <2>1. ASSUME NEW x \in 1..n
        PROVE  Same(E[x], m.entry[x])
    <3>1. E[x] = IF x = k THEN r ELSE m.entry[x]
      BY <1>9, <1>13
    <3>2. Same(m.entry[x], m.entry[x])
      BY DEF Same
    <3> QED BY <3>1, <3>2, <1>6
  <2> QED BY <2>1
<1>21. m.current_menu \in 1..(n + 1) /\ n + 1 \in 1..(n + 1) /\ z.of = n + 1
  BY <1>1, <1>14 DEF IsTree
<1>22. IsTree(q)
  BY <1>13, <1>18, <1>19, <1>21 DEF IsTree
<1> QED BY <1>1, <1>11, <1>13, <1>15, <1>18, <1>20, <1>22

LEMMA AddMenuIs ==
    ASSUME NEW m, IsTree(m)
    PROVE  LET q == menu_add_menu(m)
           IN  IsTree(q) /\ q.entry = m.entry /\ q.current_menu = m.current_entry
<1>1. PICK z : z = [of |-> m.current_entry, field |-> "list"]
  OBVIOUS
<1>2. PICK q : q = menu_add_menu(m)
  OBVIOUS
<1>3. PICK a : a = [m EXCEPT !.last_entry_ptr = z]
  OBVIOUS
<1>4. q = [a EXCEPT !.current_menu = m.current_entry]
  BY <1>1, <1>2, <1>3 DEF menu_add_menu
<1>5. a = [entry |-> m.entry, prop |-> m.prop, sym |-> m.sym, current_menu |-> m.current_menu,
           current_entry |-> m.current_entry, last_entry_ptr |-> z]
  BY <1>3, PointerSet DEF IsTree
<1>6. IsMenus(a) /\ a.entry = m.entry /\ a.prop = m.prop /\ a.sym = m.sym
      /\ a.current_entry = m.current_entry /\ a.last_entry_ptr = z
  BY <1>5 DEF IsMenus
<1>s. [a EXCEPT !.current_menu = m.current_entry] = [entry |-> a.entry, prop |-> a.prop, sym |-> a.sym, current_menu |-> m.current_entry,
           current_entry |-> a.current_entry, last_entry_ptr |-> a.last_entry_ptr]
  BY <1>6, CurrentSet
<1>7. q = [entry |-> m.entry, prop |-> m.prop, sym |-> m.sym, current_menu |-> m.current_entry,
           current_entry |-> m.current_entry, last_entry_ptr |-> z]
  BY <1>4, <1>6, <1>s
<1>8. IsMenus(q) /\ q.entry = m.entry /\ q.current_menu = m.current_entry
      /\ q.current_entry = m.current_entry /\ q.last_entry_ptr = z
  BY <1>7 DEF IsMenus
<1>9. z.of = m.current_entry
  BY <1>1
<1>10. IsTree(q)
  BY <1>8, <1>9 DEF IsTree
<1> QED BY <1>2, <1>8, <1>10

LEMMA EndMenuIs ==
    ASSUME NEW m, IsTree(m), m.entry[m.current_menu].parent \in 1..Len(m.entry)
    PROVE  LET q == menu_end_menu(m)
           IN  IsTree(q) /\ q.entry = m.entry /\ q.current_menu = m.entry[m.current_menu].parent
<1>1. PICK z : z = [of |-> m.current_menu, field |-> "next"]
  OBVIOUS
<1>2. PICK q : q = menu_end_menu(m)
  OBVIOUS
<1>3. PICK a : a = [m EXCEPT !.last_entry_ptr = z]
  OBVIOUS
<1>p. PICK p : p = m.entry[m.current_menu].parent
  OBVIOUS
<1>5. a = [entry |-> m.entry, prop |-> m.prop, sym |-> m.sym, current_menu |-> m.current_menu,
           current_entry |-> m.current_entry, last_entry_ptr |-> z]
  BY <1>3, PointerSet DEF IsTree
<1>6. IsMenus(a) /\ a.entry = m.entry /\ a.prop = m.prop /\ a.sym = m.sym /\ a.current_menu = m.current_menu
      /\ a.current_entry = m.current_entry /\ a.last_entry_ptr = z
  BY <1>5 DEF IsMenus
<1>4. q = [a EXCEPT !.current_menu = p]
  BY <1>1, <1>2, <1>3, <1>p, <1>6 DEF menu_end_menu
<1>s. [a EXCEPT !.current_menu = p] = [entry |-> a.entry, prop |-> a.prop, sym |-> a.sym, current_menu |-> p,
           current_entry |-> a.current_entry, last_entry_ptr |-> a.last_entry_ptr]
  BY <1>6, CurrentSet
<1>7. q = [entry |-> m.entry, prop |-> m.prop, sym |-> m.sym, current_menu |-> p,
           current_entry |-> m.current_entry, last_entry_ptr |-> z]
  BY <1>4, <1>6, <1>s
<1>8. IsMenus(q) /\ q.entry = m.entry /\ q.current_menu = p
      /\ q.current_entry = m.current_entry /\ q.last_entry_ptr = z
  BY <1>7 DEF IsMenus
<1>9. z.of = m.current_menu /\ p \in 1..Len(m.entry)
  BY <1>1, <1>p
<1>10. IsTree(q)
  BY <1>8, <1>9 DEF IsTree
<1> QED BY <1>2, <1>p, <1>8, <1>10

\* q is m with the conditions c at the current entry.
DepAdded(m, q, c) ==
    /\ IsTree(q) /\ Len(q.entry) = Len(m.entry)
    /\ \A x \in 1..Len(m.entry) :
          /\ q.entry[x].parent = m.entry[x].parent /\ q.entry[x].file = m.entry[x].file
          /\ q.entry[x].dep = IF x = m.current_entry THEN m.entry[x].dep \union menu_check_dep(c)
                              ELSE m.entry[x].dep
    /\ q.current_menu = m.current_menu /\ q.current_entry = m.current_entry

LEMMA AddDepIs ==
    ASSUME NEW m, IsTree(m), NEW c
    PROVE  DepAdded(m, menu_add_dep(m, c), c)
<1>1. PICK k \in 1..Len(m.entry) : k = m.current_entry
  BY DEF IsTree
<1>2. PICK d : d = menu_check_dep(c)
  OBVIOUS
<1>3. PICK x : x = m.entry[k]
  OBVIOUS
<1>4. PICK r : r = [x EXCEPT !.dep = x.dep \union d]
  OBVIOUS
<1>5. IsEntry(x)
  BY <1>3 DEF IsTree
<1>6. r = [sym |-> x.sym, file |-> x.file, dep |-> x.dep \union d, prompt |-> x.prompt,
           parent |-> x.parent, next |-> x.next, list |-> x.list]
  BY <1>4, <1>5, EntrySet
<1>7. IsEntry(r) /\ r.parent = x.parent /\ r.file = x.file /\ r.dep = x.dep \union d
  BY <1>6 DEF IsEntry
<1>8. PICK q : q = menu_add_dep(m, c)
  OBVIOUS
<1>9. q = [m EXCEPT !.entry = [m.entry EXCEPT ![k] = r]]
  <2>1. q = [m EXCEPT !.entry[k].dep = @ \union d]
    BY <1>1, <1>2, <1>8 DEF menu_add_dep
  <2>2. m.entry = [m.entry EXCEPT ![k] = m.entry[k]] \/ TRUE
    OBVIOUS
  <2> QED BY <2>1, <1>3, <1>4
<1>10. /\ IsTree(q) /\ Len(q.entry) = Len(m.entry)
       /\ \A y \in 1..Len(m.entry) : q.entry[y] = IF y = k THEN r ELSE m.entry[y]
       /\ q.current_menu = m.current_menu /\ q.current_entry = m.current_entry
  BY <1>7, <1>9, EntryPut
<1>11. \A y \in 1..Len(m.entry) :
          /\ q.entry[y].parent = m.entry[y].parent /\ q.entry[y].file = m.entry[y].file
          /\ q.entry[y].dep = IF y = m.current_entry THEN m.entry[y].dep \union menu_check_dep(c)
                              ELSE m.entry[y].dep
  BY <1>1, <1>2, <1>3, <1>7, <1>10
<1>12. DepAdded(m, q, c)
  BY <1>10, <1>11 DEF DepAdded
<1> QED BY <1>8, <1>12

LEMMA SymbolIs ==
    ASSUME NEW m, IsTree(m), NEW type, NEW s, NEW c
    PROVE  Alike(m, menu_add_symbol(m, type, s, c))
BY AlikeProp DEF menu_add_symbol, PropOf

LEMMA PromptIs ==
    ASSUME NEW m, IsTree(m), NEW type, NEW c
    PROVE  Alike(m, menu_add_prompt(m, type, c))
<1>1. PICK a : a = menu_add_symbol(m, type, Nobody, c)
  OBVIOUS
<1>2. Alike(m, a)
  BY <1>1, SymbolIs
<1>3. PICK k \in 1..Len(a.entry) : k = m.current_entry
  BY <1>2 DEF Alike, IsTree
<1>4. PICK v : v = Len(m.prop) + 1
  OBVIOUS
<1>5. PICK x : x = a.entry[k]
  OBVIOUS
<1>6. PICK r : r = [x EXCEPT !.prompt = v]
  OBVIOUS
<1>7. IsEntry(x)
  BY <1>2, <1>5 DEF Alike, IsTree
<1>8. r = [sym |-> x.sym, file |-> x.file, dep |-> x.dep, prompt |-> v,
           parent |-> x.parent, next |-> x.next, list |-> x.list]
  BY <1>6, <1>7, EntrySet
<1>9. IsEntry(r) /\ Same(r, x)
  BY <1>8 DEF IsEntry, Same
<1>10. PICK q : q = menu_add_prompt(m, type, c)
  OBVIOUS
<1>11. q = [a EXCEPT !.entry = [a.entry EXCEPT ![k] = r]]
  <2>1. q = [a EXCEPT !.entry[k].prompt = v]
    BY <1>1, <1>3, <1>4, <1>10 DEF menu_add_prompt
  <2> QED BY <2>1, <1>5, <1>6
<1>12. IsTree(a) /\ Len(a.entry) = Len(m.entry)
  BY <1>2 DEF Alike
<1>13. /\ IsTree(q) /\ Len(q.entry) = Len(a.entry)
       /\ \A y \in 1..Len(a.entry) : q.entry[y] = IF y = k THEN r ELSE a.entry[y]
       /\ q.current_menu = a.current_menu /\ q.current_entry = a.current_entry
  BY <1>9, <1>11, <1>12, EntryPut
<1>14. \A y \in 1..Len(m.entry) : Same(q.entry[y], m.entry[y])
  <2>1. ASSUME NEW y \in 1..Len(m.entry)
        PROVE  Same(q.entry[y], m.entry[y])
    <3>1. Same(a.entry[y], m.entry[y])
      BY <1>2 DEF Alike
    <3>2. q.entry[y] = IF y = k THEN r ELSE a.entry[y]
      BY <1>12, <1>13
    <3> QED BY <3>1, <3>2, <1>5, <1>9 DEF Same
  <2> QED BY <2>1
<1> QED BY <1>2, <1>10, <1>12, <1>13, <1>14 DEF Alike

LEMMA TypeIs ==
    ASSUME NEW m, IsTree(m), NEW type
    PROVE  Alike(m, menu_set_type(m, type))
<1>1. PICK x : x = m.entry[m.current_entry].sym
  OBVIOUS
<1>2. PICK v : v = [m.sym EXCEPT ![x].type = type]
  OBVIOUS
<1>3. menu_set_type(m, type) = m \/ menu_set_type(m, type) = [m EXCEPT !.sym = v]
  <2>1. [m EXCEPT !.sym[x].type = type] = [m EXCEPT !.sym = v]
    BY <1>2
  <2> QED BY <1>1, <2>1 DEF menu_set_type, TypeSet
<1>4. Alike(m, m) /\ Alike(m, [m EXCEPT !.sym = v])
  BY AlikeProp, AlikeSelf
<1> QED BY <1>3, <1>4

LEMMA OptionalIs ==
    ASSUME NEW m, IsTree(m), NEW s
    PROVE  Alike(m, OptionalSym(m, s))
<1>1. PICK v : v = [m.sym EXCEPT ![s].optional = TRUE]
  OBVIOUS
<1>2. OptionalSym(m, s) = [m EXCEPT !.sym = v]
  BY <1>1 DEF OptionalSym
<1>3. Alike(m, [m EXCEPT !.sym = v])
  BY AlikeProp
<1> QED BY <1>2, <1>3

LEMMA ModulesIs ==
    ASSUME NEW m, IsTree(m), NEW s, NEW f
    PROVE  Alike(m, ModulesDefault(m, s, f))
BY AlikeProp DEF ModulesDefault

-----------------------------------------------------------------------------
(***************************************************************************)
(* What the entries are while the text t is read, os being its open        *)
(* blocks.                                                                 *)
(***************************************************************************)
Pending    == {"if", "menu", "choice"}
Statements == {"config", "menuconfig", "comment", "menu", "choice"}

\* The entry of the k-th open block.
Upto(t, os, k) == IF k = 0 THEN Root ELSE EntryOf(t, os[k])

HeadOK(m, t, i) ==
    /\ m.entry[EntryOf(t, i)].parent = IF Within(t, i) = {} THEN Root ELSE EntryOf(t, Max(Within(t, i)))
    /\ m.entry[EntryOf(t, i)].dep = Own(t, i)

\* An if has its file when a statement follows it.
Followed(t, j) == \E k \in (j + 1)..Len(t) : What(t, k) # "blank"
BlockOK(m, t, j) == /\ m.entry[EntryOf(t, j)].file = BlockFile(t, j)
                    /\ What(t, j) = "if" => Followed(t, j)

Blocks(bs, t, os, k) == IsSeq(bs) /\ Len(bs) = k /\ \A a \in 1..k : bs[a] = What(t, os[a])

Heading(m, t, h)  == \A i \in 1..Len(t) : What(t, i) \in Heads /\ i # h => HeadOK(m, t, i)
Placing(m, t, os, k) == \A a \in 1..k : BlockOK(m, t, os[a])

\* Between two lines: n is the number of lines, o the statement that option lines would
\* belong to, and k the number of blocks that are entered.
HungAt(m, list, c, bs, t, os, n, o, k) ==
    /\ list \in Statements \union {"if", "none"}
    /\ IsTree(m)
    /\ Len(m.entry) = EntryOf(t, n) - (IF list = "if" THEN 1 ELSE 0)
    /\ Heading(m, t, IF list = "if" THEN o ELSE 0)
    /\ Placing(m, t, os, IF list = "if" THEN k ELSE Len(os))
    /\ m.current_menu = Upto(t, os, k)
    /\ Blocks(bs, t, os, k)
    /\ list \in Pending => os # <<>> /\ os[Len(os)] = o
    /\ list # "none" => o # 0 /\ What(t, o) = list /\ EntryOf(t, o) = EntryOf(t, n)
    /\ list \in Statements => m.current_entry = EntryOf(t, n)
    /\ list = "if" => (\A i \in (o + 1)..n : What(t, i) = "blank") /\ Own(t, o) = menu_check_dep(c)
    /\ list = "none" => o = 0 \/ What(t, o) \in {"source", "end"}
Hung(m, list, c, bs, t, os) ==
    HungAt(m, list, c, bs, t, os, Len(t), Owner(t, Len(t) + 1), IF list \in Pending THEN Len(os) - 1 ELSE Len(os))

\* When the line e, which is not blank, has come, and what waits for it is done.
Ready(m, bs, t, os, e) ==
    /\ IsTree(m)
    /\ Len(m.entry) = EntryOf(t, Len(t))
    /\ Heading(m, t, 0)
    /\ \A a \in 1..Len(os) : m.entry[EntryOf(t, os[a])].file = BlockFile(Append(t, e), os[a])
    /\ m.current_menu = Upto(t, os, Len(os))
    /\ Blocks(bs, t, os, Len(os))

\* The files that are open or read are those the text names.
Sourced(t) == {MainFile} \union {t[j].line.file : j \in {i \in 1..Len(t) : What(t, i) = "source"}}
IsOpen(s) == s = [file |-> s.file, at |-> s.at]
Files(ss, sc, t) == /\ IsSeq(ss) /\ \A k \in 1..Len(ss) : IsOpen(ss[k])
                    /\ sc \union {ss[k].file : k \in 1..Len(ss)} = Sourced(t)

Reading == phase = "reading" =>
              /\ IsSeq(read)
              /\ \A i \in 1..Len(read) : FitsIn(script, read, i)
              /\ Files(sources, scanned, read)
              /\ \E os : Opened(read, os) /\ Hung(menus, option_list, condition, blocks, read, os)

IInv == Reading /\ ReadRight

-----------------------------------------------------------------------------
(***************************************************************************)
(* One line more.                                                          *)
(***************************************************************************)
\* u is t with the line e behind it; n is the number of lines of t.
Long(t, e, u, n) ==
    /\ n \in Nat /\ IsSeq(u) /\ Len(t) = n /\ Len(u) = n + 1 /\ u = Append(t, e)
    /\ \A i \in 1..n : What(u, i) = What(t, i) /\ u[i] = t[i]
    /\ What(u, n + 1) = e.line.what /\ u[n + 1] = e
    /\ \A i \in 0..n : EntryOf(u, i) = EntryOf(t, i)
    /\ EntryOf(t, n) \in Nat /\ EntryOf(t, n) >= 1
    /\ EntryOf(u, n + 1) = EntryOf(t, n) + (IF e.line.what \in Heads THEN 1 ELSE 0)
    /\ \A i \in 1..(n + 1) : Within(u, i) = Within(t, i)
    /\ Owner(t, n + 1) \in 0..n
    /\ Owner(u, n + 1 + 1) = IF e.line.what \notin Options \union {"blank"} THEN n + 1 ELSE Owner(t, n + 1)

LEMMA Longer ==
    ASSUME NEW t, IsSeq(t), NEW e
    PROVE  \E u, n : Long(t, e, u, n)
<1>a. PICK u : u = Append(t, e)
  OBVIOUS
<1>b. PICK n : n = Len(t)
  OBVIOUS
<1>1. n \in Nat
  BY <1>b, SeqShape
<1>2. IsSeq(u) /\ Len(u) = n + 1
  BY <1>a, <1>b, Pushed
<1>3. \A i \in 1..n : What(u, i) = What(t, i) /\ u[i] = t[i]
  BY <1>a, <1>b, WhatSame
<1>4. What(u, n + 1) = e.line.what /\ u[n + 1] = e
  BY <1>a, <1>b, WhatNew
<1>5. \A i \in 0..n : EntryOf(u, i) = EntryOf(t, i)
  BY <1>a, <1>b, EntrySame
<1>6. EntryOf(t, n) \in Nat /\ EntryOf(t, n) >= 1
  BY <1>1, EntryNext
<1>7. EntryOf(u, n + 1) = EntryOf(u, n) + (IF What(u, n + 1) \in Heads THEN 1 ELSE 0)
  BY <1>1, EntryNext
<1>8. EntryOf(u, n) = EntryOf(t, n)
  BY <1>1, <1>5
<1>9. \A i \in 1..(n + 1) : Within(u, i) = Within(t, i)
  BY <1>a, <1>b, WithinSame
<1>10. n + 1 \in Nat /\ n + 1 > 0 /\ n + 1 \in 1..(n + 1) /\ n + 1 - 1 = n
  BY <1>1
<1>11. Owner(u, n + 1) = Owner(t, n + 1)
  BY <1>a, <1>b, <1>10, OwnerSame
<1>12. Owner(t, n + 1) \in 0..n
  <2>1. PICK j : j = n + 1
    OBVIOUS
  <2>2. j \in Nat /\ j > 0 /\ j - 1 = n
    BY <1>1, <2>1
  <2>3. Owner(t, j) \in 0..(j - 1)
    BY <2>2, OwnerRange
  <2> QED BY <2>1, <2>2, <2>3
<1>13. Owner(u, n + 1 + 1) = IF What(u, n + 1) \notin Options \union {"blank"} THEN n + 1 ELSE Owner(u, n + 1)
  BY <1>10, OwnerNext
<1>14. EntryOf(u, n + 1) = EntryOf(t, n) + (IF e.line.what \in Heads THEN 1 ELSE 0)
  BY <1>4, <1>7, <1>8
<1>15. Owner(u, n + 1 + 1) = IF e.line.what \notin Options \union {"blank"} THEN n + 1 ELSE Owner(t, n + 1)
  BY <1>4, <1>11, <1>13
<1>16. Long(t, e, u, n)
  BY <1>a, <1>b, <1>1, <1>2, <1>3, <1>4, <1>5, <1>6, <1>9, <1>12, <1>14, <1>15 DEF Long
<1> QED BY <1>16

LEMMA WithinMax ==
    ASSUME NEW t, NEW i \in Nat, Within(t, i) # {}
    PROVE  Max(Within(t, i)) \in 1..(i - 1)
<1>1. Within(t, i) \subseteq 1..(i - 1)
  BY WithinRange
<1>2. i - 1 \in Nat
  BY <1>1
<1>3. Within(t, i) \in SUBSET (0..(i - 1))
  BY <1>1
<1> QED BY <1>1, <1>2, <1>3, MaxIs

\* An entry keeps its place, and gets the conditions of its new text.
LEMMA HeadKept ==
    ASSUME NEW t, IsSeq(t), NEW e, NEW i \in 1..Len(t), NEW m, NEW q, HeadOK(m, t, i),
           q.entry[EntryOf(t, i)].parent = m.entry[EntryOf(t, i)].parent,
           q.entry[EntryOf(t, i)].dep = Own(Append(t, e), i)
    PROVE  HeadOK(q, Append(t, e), i)
<1>1. PICK u, n : Long(t, e, u, n)
  BY Longer
<1>2. u = Append(t, e) /\ n = Len(t)
  BY <1>1 DEF Long
<1>3. /\ n \in Nat /\ (\A k \in 0..n : EntryOf(u, k) = EntryOf(t, k))
      /\ (\A k \in 1..(n + 1) : Within(u, k) = Within(t, k))
  BY <1>1 DEF Long
<1>4. i \in 0..n /\ i \in 1..(n + 1) /\ i \in Nat
  BY <1>2, <1>3
<1>5. EntryOf(u, i) = EntryOf(t, i) /\ Within(u, i) = Within(t, i)
  BY <1>3, <1>4
<1>6. Within(t, i) # {} => EntryOf(u, Max(Within(t, i))) = EntryOf(t, Max(Within(t, i)))
  <2>1. ASSUME Within(t, i) # {}
        PROVE  Max(Within(t, i)) \in 0..n
    <3>1. Max(Within(t, i)) \in 1..(i - 1)
      BY <1>4, <2>1, WithinMax
    <3> QED BY <3>1, <1>2, <1>3
  <2> QED BY <2>1, <1>3
<1>7. HeadOK(q, u, i)
  BY <1>2, <1>5, <1>6 DEF HeadOK
<1> QED BY <1>2, <1>7

LEMMA BlockKept ==
    ASSUME NEW t, IsSeq(t), NEW e, NEW j \in 1..Len(t), NEW m, NEW q, BlockOK(m, t, j),
           q.entry[EntryOf(t, j)].file = m.entry[EntryOf(t, j)].file
    PROVE  BlockOK(q, Append(t, e), j)
<1>1. PICK u, n : Long(t, e, u, n)
  BY Longer
<1>2. u = Append(t, e) /\ n = Len(t)
  BY <1>1 DEF Long
<1>3. /\ n \in Nat /\ Len(u) = n + 1 /\ (\A k \in 0..n : EntryOf(u, k) = EntryOf(t, k))
      /\ (\A k \in 1..n : What(u, k) = What(t, k))
  BY <1>1 DEF Long
<1>4. What(t, j) = "if" => \E k \in (j + 1)..Len(t) : What(t, k) # "blank"
  BY DEF BlockOK, Followed
<1>5. BlockFile(u, j) = BlockFile(t, j)
  BY <1>2, <1>4, BlockFileKept
<1>6. EntryOf(u, j) = EntryOf(t, j) /\ What(u, j) = What(t, j)
  BY <1>2, <1>3
<1>7. What(u, j) = "if" => Followed(u, j)
  <2>1. ASSUME What(u, j) = "if"
        PROVE  Followed(u, j)
    <3>1. PICK k \in (j + 1)..n : What(t, k) # "blank"
      BY <1>2, <1>4, <1>6, <2>1
    <3>2. k \in 1..n /\ k \in (j + 1)..(n + 1)
      BY <1>3
    <3>3. What(u, k) # "blank"
      BY <1>3, <3>1, <3>2
    <3> QED BY <1>3, <3>2, <3>3 DEF Followed
  <2> QED BY <2>1
<1>8. BlockOK(q, u, j)
  BY <1>5, <1>6, <1>7 DEF BlockOK
<1> QED BY <1>2, <1>8

LEMMA UptoSame ==
    ASSUME NEW t, IsSeq(t), NEW e, NEW os, Opened(t, os), NEW k \in 0..Len(os),
           NEW vs, \A a \in 1..k : vs[a] = os[a]
    PROVE  Upto(Append(t, e), vs, k) = Upto(t, os, k)
<1>1. CASE k = 0
  BY <1>1 DEF Upto
<1>2. CASE k # 0
  <2>1. Len(os) \in Nat
    BY SeqShape DEF Opened
  <2>2. k \in 1..Len(os) /\ k \in 1..k
    BY <1>2, <2>1
  <2>3. os[k] \in 1..Len(t) /\ vs[k] = os[k]
    BY <2>2 DEF Opened
  <2>4. os[k] \in 0..Len(t)
    BY <2>3, SeqShape
  <2>5. EntryOf(Append(t, e), os[k]) = EntryOf(t, os[k])
    BY <2>4, EntrySame
  <2> QED BY <1>2, <2>3, <2>5 DEF Upto
<1> QED BY <1>1, <1>2

LEMMA BlocksSame ==
    ASSUME NEW t, IsSeq(t), NEW e, NEW os, Opened(t, os), NEW k \in 0..Len(os), NEW bs, Blocks(bs, t, os, k),
           NEW vs, \A a \in 1..k : vs[a] = os[a]
    PROVE  Blocks(bs, Append(t, e), vs, k)
<1>1. Len(os) \in Nat
  BY SeqShape DEF Opened
<1>2. \A a \in 1..k : a \in 1..Len(os)
  BY <1>1
<1>3. \A a \in 1..k : os[a] \in 1..Len(t)
  BY <1>2 DEF Opened
<1>4. \A a \in 1..k : What(Append(t, e), vs[a]) = What(t, os[a])
  BY <1>3, WhatSame
<1> QED BY <1>4 DEF Blocks

LEMMA KindsApart ==
    /\ Heads = Statements \union {"if"}
    /\ Pending \subseteq Heads /\ Opens = Pending
    /\ Heads \intersect (Options \union {"blank", "end", "source"}) = {}
    /\ Options \intersect {"blank", "end", "source"} = {}
    /\ "none" \notin Heads /\ "if" \notin Statements
BY DEF Heads, Opens, Statements, Pending, Options

\* Lines that make no statement: an option of the one before, or a blank one.
LEMMA HungStay ==
    ASSUME NEW t, IsSeq(t), NEW e, NEW os, Opened(t, os), NEW m, NEW list, NEW c, NEW bs, NEW q,
           Hung(m, list, c, bs, t, os),
           e.line.what \in Options \union {"blank"},
           e.line.what # "blank" => list \in Statements,
           IsTree(q), Len(q.entry) = Len(m.entry),
           q.current_menu = m.current_menu, q.current_entry = m.current_entry,
           \A x \in 1..Len(m.entry) : q.entry[x].parent = m.entry[x].parent /\ q.entry[x].file = m.entry[x].file,
           \A i \in 1..Len(t) : What(t, i) \in Heads /\ HeadOK(m, t, i) /\ EntryOf(t, i) \in 1..Len(m.entry)
                                 => q.entry[EntryOf(t, i)].dep = Own(Append(t, e), i)
    PROVE  Hung(q, list, c, bs, Append(t, e), os)
<1>1. PICK u, n : Long(t, e, u, n)
  BY Longer
<1>2. u = Append(t, e) /\ n = Len(t) /\ n \in Nat /\ Len(u) = n + 1
  BY <1>1 DEF Long
<1>3. PICK o : o = Owner(t, n + 1)
  OBVIOUS
<1>4. PICK k : k = IF list \in Pending THEN Len(os) - 1 ELSE Len(os)
  OBVIOUS
<1>5. HungAt(m, list, c, bs, t, os, n, o, k)
  BY <1>2, <1>3, <1>4 DEF Hung
<1>6. /\ list \in Statements \union {"if", "none"} /\ IsTree(m)
      /\ Len(m.entry) = EntryOf(t, n) - (IF list = "if" THEN 1 ELSE 0)
      /\ Heading(m, t, IF list = "if" THEN o ELSE 0)
      /\ Placing(m, t, os, IF list = "if" THEN k ELSE Len(os))
      /\ m.current_menu = Upto(t, os, k)
      /\ Blocks(bs, t, os, k)
      /\ (list \in Pending => os # <<>> /\ os[Len(os)] = o)
      /\ (list # "none" => o # 0 /\ What(t, o) = list /\ EntryOf(t, o) = EntryOf(t, n))
      /\ (list \in Statements => m.current_entry = EntryOf(t, n))
      /\ (list = "if" => (\A i \in (o + 1)..n : What(t, i) = "blank") /\ Own(t, o) = menu_check_dep(c))
      /\ (list = "none" => o = 0 \/ What(t, o) \in {"source", "end"})
  BY <1>5 DEF HungAt
<1>7. /\ Owner(u, n + 1 + 1) = o /\ o \in 0..n /\ e.line.what \notin Heads
      /\ EntryOf(u, n + 1) = EntryOf(t, n) /\ EntryOf(t, n) \in Nat /\ What(u, n + 1) = e.line.what
  BY <1>1, <1>3, KindsApart DEF Long
<1>8. Len(os) \in Nat /\ k \in 0..Len(os)
  <2>1. IsSeq(os)
    BY DEF Opened
  <2> QED BY <1>4, <1>6, <2>1, SeqShape
<1>k. (IF list = "if" THEN k ELSE Len(os)) \in 0..Len(os)
  BY <1>8
<1>9. \A i \in 1..n : What(u, i) = What(t, i)
  BY <1>1 DEF Long
<1>10. ASSUME NEW i \in 1..n, What(t, i) \in Heads, i # IF list = "if" THEN o ELSE 0
       PROVE  EntryOf(t, i) \in 1..Len(m.entry)
  <2>1. EntryOf(t, i) \in 2..EntryOf(t, n)
    BY <1>2, <1>10, EntryOwn
  <2>2. CASE list # "if"
    BY <1>6, <1>7, <2>1, <2>2
  <2>3. CASE list = "if"
    <3>1. o \in 1..n /\ What(t, o) \in Heads /\ EntryOf(t, o) = EntryOf(t, n) /\ o # i
      BY <1>6, <1>7, <1>10, <2>3, KindsApart
    <3>2. EntryOf(t, i) # EntryOf(t, o)
      BY <1>2, <1>10, <3>1, EntryOwn
    <3>3. Len(m.entry) = EntryOf(t, n) - 1
      BY <1>6, <2>3
    <3> QED BY <1>7, <2>1, <3>1, <3>2, <3>3
  <2> QED BY <2>2, <2>3
<1>11. Heading(q, u, IF list = "if" THEN o ELSE 0)
  <2>1. ASSUME NEW i \in 1..(n + 1), What(u, i) \in Heads, i # IF list = "if" THEN o ELSE 0
        PROVE  HeadOK(q, u, i)
    <3>1. i \in 1..n
      BY <1>2, <1>7, <2>1
    <3>2. What(t, i) \in Heads
      BY <1>9, <2>1, <3>1
    <3>3. HeadOK(m, t, i)
      BY <1>2, <1>6, <2>1, <3>1, <3>2 DEF Heading
    <3>4. EntryOf(t, i) \in 1..Len(m.entry)
      BY <1>10, <2>1, <3>1, <3>2
    <3>5. q.entry[EntryOf(t, i)].dep = Own(u, i)
      BY <1>2, <3>1, <3>2, <3>3, <3>4
    <3>6. q.entry[EntryOf(t, i)].parent = m.entry[EntryOf(t, i)].parent
      BY <3>4
    <3> QED BY <1>2, <3>1, <3>3, <3>5, <3>6, HeadKept
  <2> QED BY <1>2, <2>1 DEF Heading
<1>12. Placing(q, u, os, IF list = "if" THEN k ELSE Len(os))
  <2>1. ASSUME NEW a \in 1..(IF list = "if" THEN k ELSE Len(os))
        PROVE  BlockOK(q, u, os[a])
    <3>1. a \in 1..Len(os)
      BY <1>k
    <3>2. os[a] \in 1..n /\ What(t, os[a]) \in Heads
      BY <1>2, <3>1, KindsApart DEF Opened
    <3>3. BlockOK(m, t, os[a])
      BY <1>6 DEF Placing
    <3>4. os[a] # IF list = "if" THEN o ELSE 0
      <4>1. CASE list # "if"
        BY <3>2, <4>1
      <4>2. CASE list = "if"
        <5>1. list \in Pending
          BY <4>2 DEF Pending
        <5>2. os[Len(os)] = o /\ k = Len(os) - 1
          BY <1>4, <1>6, <5>1
        <5>3. a < Len(os) /\ Len(os) \in 1..Len(os)
          BY <1>8, <3>1, <4>2, <5>2
        <5>4. os[a] < os[Len(os)]
          BY <3>1, <5>3 DEF Opened
        <5> QED BY <3>2, <1>7, <4>2, <5>2, <5>4
      <4> QED BY <4>1, <4>2
    <3>5. EntryOf(t, os[a]) \in 1..Len(m.entry)
      BY <1>10, <3>2, <3>4
    <3>6. q.entry[EntryOf(t, os[a])].file = m.entry[EntryOf(t, os[a])].file
      BY <3>5
    <3> QED BY <1>2, <3>2, <3>3, <3>6, BlockKept
  <2> QED BY <2>1 DEF Placing
<1>13. q.current_menu = Upto(u, os, k)
  <2>1. Upto(u, os, k) = Upto(t, os, k)
    BY <1>2, <1>8, UptoSame
  <2> QED BY <1>6, <2>1
<1>14. Blocks(bs, u, os, k)
  BY <1>2, <1>6, <1>8, BlocksSame
<1>15. list # "none" => o # 0 /\ What(u, o) = list /\ EntryOf(u, o) = EntryOf(u, n + 1)
  <2>1. ASSUME list # "none"
        PROVE  o # 0 /\ What(u, o) = list /\ EntryOf(u, o) = EntryOf(u, n + 1)
    <3>1. o \in 1..n /\ o \in 0..n
      BY <1>6, <1>7, <2>1
    <3>2. EntryOf(u, o) = EntryOf(t, o)
      BY <1>1, <3>1 DEF Long
    <3> QED BY <1>6, <1>7, <1>9, <2>1, <3>1, <3>2
  <2> QED BY <2>1
<1>16. list = "if" => (\A i \in (o + 1)..(n + 1) : What(u, i) = "blank") /\ Own(u, o) = menu_check_dep(c)
  <2>1. ASSUME list = "if"
        PROVE  (\A i \in (o + 1)..(n + 1) : What(u, i) = "blank") /\ Own(u, o) = menu_check_dep(c)
    <3>1. e.line.what = "blank"
      BY <2>1, KindsApart
    <3>2. o \in 1..n
      BY <1>6, <1>7, <2>1
    <3>3. Own(u, o) = Own(t, o)
      BY <1>2, <3>1, <3>2, OwnSame
    <3>4. ASSUME NEW i \in (o + 1)..(n + 1)
          PROVE  What(u, i) = "blank"
      <4>1. CASE i = n + 1
        BY <1>7, <3>1, <4>1
      <4>2. CASE i # n + 1
        <5>0. o \in Nat /\ n \in Nat /\ i \in (o + 1)..(n + 1)
          BY <1>2, <3>2, <3>4
        <5>1. i \in (o + 1)..n /\ i \in 1..n
          BY <4>2, <5>0
        <5> QED BY <1>6, <1>9, <2>1, <5>1
      <4> QED BY <4>1, <4>2
    <3> QED BY <1>6, <2>1, <3>3, <3>4
  <2> QED BY <2>1
<1>17. list = "none" => o = 0 \/ What(u, o) \in {"source", "end"}
  BY <1>6, <1>7, <1>9
<1>18. HungAt(q, list, c, bs, u, os, n + 1, o, k)
  BY <1>6, <1>7, <1>11, <1>12, <1>13, <1>14, <1>15, <1>16, <1>17 DEF HungAt
<1> QED BY <1>2, <1>4, <1>7, <1>18 DEF Hung

\* What is there stays as it is when a statement comes.
LEMMA ReadyKept ==
    ASSUME NEW t, IsSeq(t), NEW e, NEW os, Opened(t, os), NEW m, NEW bs, Ready(m, bs, t, os, e),
           e.line.what \notin Options \union {"blank"},
           NEW q, \A x \in 1..Len(m.entry) : Same(q.entry[x], m.entry[x])
    PROVE  /\ \A i \in 1..Len(t) : What(t, i) \in Heads => HeadOK(q, Append(t, e), i)
           /\ \A a \in 1..Len(os) : os[a] \in 1..Len(t) /\ BlockOK(q, Append(t, e), os[a])
<1>1. PICK u, n : Long(t, e, u, n)
  BY Longer
<1>2. u = Append(t, e) /\ n = Len(t) /\ n \in Nat /\ Len(u) = n + 1
  BY <1>1 DEF Long
<1>3. Len(m.entry) = EntryOf(t, n)
  BY <1>2 DEF Ready
<1>4. ASSUME NEW i \in 1..n, What(t, i) \in Heads
      PROVE  Same(q.entry[EntryOf(t, i)], m.entry[EntryOf(t, i)])
  <2>1. EntryOf(t, i) \in 2..EntryOf(t, n)
    BY <1>2, <1>4, EntryOwn
  <2>2. EntryOf(t, i) \in 1..Len(m.entry)
    BY <1>3, <2>1
  <2> QED BY <2>2
<1>5. ASSUME NEW i \in 1..n, What(t, i) \in Heads
      PROVE  HeadOK(q, u, i)
  <2>1. HeadOK(m, t, i)
    <3>1. i # 0
      OBVIOUS
    <3> QED BY <1>2, <1>5, <3>1 DEF Ready, Heading
  <2>2. /\ q.entry[EntryOf(t, i)].parent = m.entry[EntryOf(t, i)].parent
        /\ q.entry[EntryOf(t, i)].dep = m.entry[EntryOf(t, i)].dep
    BY <1>4, <1>5 DEF Same
  <2>3. e.line.what # "depends"
    BY DEF Options
  <2>4. Own(u, i) = Own(t, i)
    BY <1>2, <2>3, OwnSame
  <2>5. q.entry[EntryOf(t, i)].dep = Own(u, i)
    BY <2>1, <2>2, <2>4 DEF HeadOK
  <2> QED BY <1>2, <2>1, <2>2, <2>5, HeadKept
<1>6. ASSUME NEW a \in 1..Len(os)
      PROVE  os[a] \in 1..n /\ BlockOK(q, u, os[a])
  <2>1. os[a] \in 1..n /\ What(t, os[a]) \in Heads
    BY <1>2, KindsApart DEF Opened
  <2>2. os[a] \in 0..n
    BY <1>2, <2>1
  <2>3. EntryOf(u, os[a]) = EntryOf(t, os[a])
    BY <1>1, <2>2 DEF Long
  <2>4. q.entry[EntryOf(t, os[a])].file = m.entry[EntryOf(t, os[a])].file
    BY <1>4, <2>1 DEF Same
  <2>5. m.entry[EntryOf(t, os[a])].file = BlockFile(u, os[a])
    BY <1>2 DEF Ready
  <2>6. Followed(u, os[a])
    <3>1. n + 1 \in (os[a] + 1)..(n + 1)
      BY <1>2, <2>1
    <3>2. What(u, n + 1) # "blank"
      BY <1>1 DEF Long
    <3> QED BY <1>2, <3>1, <3>2 DEF Followed
  <2> QED BY <2>1, <2>3, <2>4, <2>5, <2>6 DEF BlockOK
<1> QED BY <1>2, <1>5, <1>6

LEMMA HungSource ==
    ASSUME NEW t, IsSeq(t), NEW e, NEW os, Opened(t, os), NEW m, NEW bs, NEW c, Ready(m, bs, t, os, e),
           e.line.what = "source"
    PROVE  Hung(m, "none", c, bs, Append(t, e), os)
<1>1. PICK u, n : Long(t, e, u, n)
  BY Longer
<1>2. u = Append(t, e) /\ n = Len(t) /\ n \in Nat /\ Len(u) = n + 1 /\ What(u, n + 1) = "source"
  BY <1>1 DEF Long
<1>3. e.line.what \notin Heads /\ e.line.what \notin Options \union {"blank"}
  BY KindsApart
<1>4. Owner(u, n + 1 + 1) = n + 1 /\ EntryOf(u, n + 1) = EntryOf(t, n)
  BY <1>1, <1>3 DEF Long
<1>5. \A x \in 1..Len(m.entry) : Same(m.entry[x], m.entry[x])
  BY DEF Same
<1>6. /\ \A i \in 1..n : What(t, i) \in Heads => HeadOK(m, u, i)
      /\ \A a \in 1..Len(os) : os[a] \in 1..n /\ BlockOK(m, u, os[a])
  BY <1>2, <1>3, <1>5, ReadyKept
<1>7. Heading(m, u, 0)
  <2>1. ASSUME NEW i \in 1..(n + 1), What(u, i) \in Heads
        PROVE  HeadOK(m, u, i)
    <3>1. i \in 1..n
      BY <1>2, <1>3, <2>1
    <3>2. What(t, i) \in Heads
      BY <1>1, <2>1, <3>1 DEF Long
    <3> QED BY <1>6, <3>1, <3>2
  <2> QED BY <1>2, <2>1 DEF Heading
<1>8. Placing(m, u, os, Len(os))
  BY <1>6 DEF Placing
<1>9. Len(os) \in 0..Len(os)
  BY SeqShape DEF Opened
<1>10. Upto(u, os, Len(os)) = Upto(t, os, Len(os))
  BY <1>2, <1>9, UptoSame
<1>11. Blocks(bs, t, os, Len(os))
  BY DEF Ready
<1>12. Blocks(bs, u, os, Len(os))
  BY <1>2, <1>9, <1>11, BlocksSame
<1>13. "none" \notin Pending /\ "none" \notin Statements
  BY DEF Pending, Statements
<1>14. EntryOf(t, n) - 0 = EntryOf(t, n)
  BY <1>1 DEF Long
<1>15. IsTree(m) /\ Len(m.entry) = EntryOf(t, n) /\ m.current_menu = Upto(t, os, Len(os))
  BY <1>2 DEF Ready
<1>16. HungAt(m, "none", c, bs, u, os, n + 1, n + 1, Len(os))
  BY <1>2, <1>4, <1>7, <1>8, <1>10, <1>12, <1>13, <1>14, <1>15 DEF HungAt
<1> QED BY <1>2, <1>4, <1>13, <1>16 DEF Hung

\* A statement with an entry q has and m has not; f is the file it has.
Added(m, q, f) ==
    /\ IsTree(q) /\ Len(q.entry) = Len(m.entry) + 1
    /\ \A x \in 1..Len(m.entry) : Same(q.entry[x], m.entry[x])
    /\ q.entry[Len(m.entry) + 1].parent = m.current_menu
    /\ q.entry[Len(m.entry) + 1].file = f
    /\ q.entry[Len(m.entry) + 1].dep = {}
    /\ q.current_menu = m.current_menu /\ q.current_entry = Len(m.entry) + 1

LEMMA AddedEntry ==
    ASSUME NEW m, IsTree(m), NEW s, NEW f
    PROVE  Added(m, menu_add_entry(m, s, f), f)
BY AddEntryIs DEF Added

LEMMA AddedAlike ==
    ASSUME NEW m, IsTree(m), NEW q, NEW f, Added(m, q, f), NEW r, Alike(q, r)
    PROVE  Added(m, r, f)
<1>1. PICK n \in Nat : n = Len(m.entry)
  BY SeqShape DEF IsTree
<1>2. \A x \in 1..(n + 1) : Same(r.entry[x], q.entry[x])
  BY <1>1 DEF Added, Alike
<1>3. \A x \in 1..n : Same(r.entry[x], m.entry[x])
  <2>1. ASSUME NEW x \in 1..n
        PROVE  Same(r.entry[x], m.entry[x])
    <3>1. x \in 1..(n + 1)
      OBVIOUS
    <3>2. Same(r.entry[x], q.entry[x])
      BY <1>2, <3>1
    <3>3. Same(q.entry[x], m.entry[x])
      BY <1>1 DEF Added
    <3> QED BY <3>2, <3>3 DEF Same
  <2> QED BY <2>1
<1>4. Same(r.entry[n + 1], q.entry[n + 1])
  BY <1>2
<1>5. /\ q.entry[n + 1].parent = m.current_menu /\ q.entry[n + 1].file = f /\ q.entry[n + 1].dep = {}
      /\ Len(q.entry) = n + 1 /\ q.current_menu = m.current_menu /\ q.current_entry = n + 1
  BY <1>1 DEF Added
<1>6. r.entry[n + 1].parent = m.current_menu /\ r.entry[n + 1].file = f /\ r.entry[n + 1].dep = {}
  BY <1>4, <1>5 DEF Same
<1> QED BY <1>1, <1>3, <1>5, <1>6 DEF Added, Alike

\* The entry of a new line hangs in the block the line stands in.
LEMMA HeadNew ==
    ASSUME NEW t, IsSeq(t), NEW e, NEW os, Opened(t, os), NEW q, e.line.what # "if", e.line.what \in Heads,
           q.entry[EntryOf(t, Len(t)) + 1].parent = Upto(t, os, Len(os)),
           q.entry[EntryOf(t, Len(t)) + 1].dep = {}
    PROVE  HeadOK(q, Append(t, e), Len(t) + 1)
<1>1. PICK u, n : Long(t, e, u, n)
  BY Longer
<1>2. u = Append(t, e) /\ n = Len(t) /\ n \in Nat
  BY <1>1 DEF Long
<1>3. EntryOf(u, n + 1) = EntryOf(t, n) + 1
  BY <1>1 DEF Long
<1>4. Within(u, n + 1) = Within(t, n + 1)
  <2>1. n + 1 \in 1..(n + 1)
    BY <1>2
  <2> QED BY <2>1, <1>1 DEF Long
<1>5. Within(t, n + 1) = {os[a] : a \in 1..Len(os)}
  BY <1>2 DEF Opened
<1>6. Len(os) \in Nat
  BY SeqShape DEF Opened
<1>7. Own(u, n + 1) = {}
  BY <1>2, OwnNew
<1>8. Upto(t, os, Len(os)) = IF Within(u, n + 1) = {} THEN Root ELSE EntryOf(u, Max(Within(u, n + 1)))
  <2>1. CASE Len(os) = 0
    <3>1. Within(u, n + 1) = {}
      BY <1>4, <1>5, <2>1
    <3> QED BY <2>1, <3>1 DEF Upto
  <2>2. CASE Len(os) # 0
    <3>1. Len(os) \in 1..Len(os)
      BY <1>6, <2>2
    <3>2. Max({os[b] : b \in 1..Len(os)}) = os[Len(os)]
      BY <3>1, Innermost
    <3>3. os[Len(os)] \in {os[b] : b \in 1..Len(os)}
      BY <3>1
    <3>4. os[Len(os)] \in 1..n
      BY <1>2, <3>1 DEF Opened
    <3>5. os[Len(os)] \in 0..n
      BY <1>2, <3>4
    <3>6. EntryOf(u, os[Len(os)]) = EntryOf(t, os[Len(os)])
      BY <1>1, <3>5 DEF Long
    <3>7. Within(u, n + 1) # {} /\ Max(Within(u, n + 1)) = os[Len(os)]
      BY <1>4, <1>5, <3>2, <3>3
    <3> QED BY <2>2, <3>6, <3>7 DEF Upto
  <2> QED BY <2>1, <2>2
<1>9. HeadOK(q, u, n + 1)
  BY <1>2, <1>3, <1>7, <1>8 DEF HeadOK
<1> QED BY <1>2, <1>9

LEMMA HungNew ==
    ASSUME NEW t, IsSeq(t), NEW e, NEW os, Opened(t, os), NEW m, NEW bs, NEW c, Ready(m, bs, t, os, e),
           e.line.what \in Statements, NEW q, Added(m, q, e.after)
    PROVE  Hung(q, e.line.what, c, bs, Append(t, e),
                IF e.line.what \in Pending THEN Append(os, Len(t) + 1) ELSE os)
<1>1. PICK u, n : Long(t, e, u, n)
  BY Longer
<1>2. u = Append(t, e) /\ n = Len(t) /\ n \in Nat /\ Len(u) = n + 1 /\ What(u, n + 1) = e.line.what
      /\ EntryOf(t, n) \in Nat
  BY <1>1 DEF Long
<1>3. /\ e.line.what \in Heads /\ e.line.what \notin Options \union {"blank"}
      /\ e.line.what # "if" /\ e.line.what # "none"
  BY KindsApart
<1>4. Owner(u, n + 1 + 1) = n + 1 /\ EntryOf(u, n + 1) = EntryOf(t, n) + 1
  BY <1>1, <1>3 DEF Long
<1>5. PICK vs : vs = IF e.line.what \in Pending THEN Append(os, n + 1) ELSE os
  OBVIOUS
<1>6. PICK k \in Nat : k = Len(os) /\ IsSeq(os)
  BY SeqShape DEF Opened
<1>7. /\ \A a \in 1..k : vs[a] = os[a]
      /\ e.line.what \in Pending => Len(vs) = k + 1 /\ vs[k + 1] = n + 1 /\ vs # <<>>
      /\ e.line.what \notin Pending => Len(vs) = k
  <2>1. CASE e.line.what \in Pending
    <3>1. IsSeq(vs) /\ Len(vs) = k + 1 /\ (\A a \in 1..k : vs[a] = os[a]) /\ vs[k + 1] = n + 1
      BY <1>5, <1>6, <2>1, Pushed
    <3>2. vs # <<>>
      BY <1>6, <3>1
    <3> QED BY <2>1, <3>1, <3>2
  <2>2. CASE e.line.what \notin Pending
    BY <1>5, <1>6, <2>2
  <2> QED BY <2>1, <2>2
<1>8. \A x \in 1..Len(m.entry) : Same(q.entry[x], m.entry[x])
  BY DEF Added
<1>9. /\ \A i \in 1..n : What(t, i) \in Heads => HeadOK(q, u, i)
      /\ \A a \in 1..k : os[a] \in 1..n /\ BlockOK(q, u, os[a])
  BY <1>2, <1>3, <1>6, <1>8, ReadyKept
<1>10. IsTree(m) /\ Len(m.entry) = EntryOf(t, n) /\ m.current_menu = Upto(t, os, k)
  BY <1>2, <1>6 DEF Ready
<1>11. /\ IsTree(q) /\ Len(q.entry) = EntryOf(t, n) + 1
       /\ q.entry[EntryOf(t, n) + 1].parent = Upto(t, os, k)
       /\ q.entry[EntryOf(t, n) + 1].file = e.after
       /\ q.entry[EntryOf(t, n) + 1].dep = {}
       /\ q.current_menu = Upto(t, os, k) /\ q.current_entry = EntryOf(t, n) + 1
  BY <1>10 DEF Added
<1>12. HeadOK(q, u, n + 1)
  BY <1>2, <1>3, <1>6, <1>11, HeadNew
<1>13. Heading(q, u, 0)
  <2>1. ASSUME NEW i \in 1..(n + 1), What(u, i) \in Heads
        PROVE  HeadOK(q, u, i)
    <3>1. CASE i \in 1..n
      <4>1. What(t, i) \in Heads
        BY <1>1, <2>1, <3>1 DEF Long
      <4> QED BY <1>9, <3>1, <4>1
    <3>2. CASE i = n + 1
      BY <1>12, <3>2
    <3>3. i \in 1..n \/ i = n + 1
      BY <1>2
    <3> QED BY <3>1, <3>2, <3>3
  <2> QED BY <1>2, <2>1 DEF Heading
<1>14. e.line.what \in Pending => BlockOK(q, u, n + 1)
  <2>1. BlockFile(u, n + 1) = e.after
    BY <1>2, <1>3, BlockFileNew
  <2> QED BY <1>2, <1>3, <1>4, <1>11, <2>1 DEF BlockOK
<1>15. Placing(q, u, vs, Len(vs))
  <2>1. ASSUME NEW a \in 1..Len(vs)
        PROVE  BlockOK(q, u, vs[a])
    <3>1. CASE a \in 1..k
      BY <1>7, <1>9, <3>1
    <3>2. CASE a \notin 1..k
      <4>1. e.line.what \in Pending /\ a = k + 1
        BY <1>6, <1>7, <3>2
      <4> QED BY <1>7, <1>14, <4>1
    <3> QED BY <3>1, <3>2
  <2> QED BY <2>1 DEF Placing
<1>16. k \in 0..Len(os)
  BY <1>6
<1>17. Upto(u, vs, k) = Upto(t, os, k)
  BY <1>2, <1>7, <1>16, UptoSame
<1>18. Blocks(bs, t, os, k)
  BY <1>6 DEF Ready
<1>19. Blocks(bs, u, vs, k)
  BY <1>2, <1>7, <1>16, <1>18, BlocksSame
<1>20. e.line.what \in Pending => vs # <<>> /\ vs[Len(vs)] = n + 1
  BY <1>7
<1>21. Len(q.entry) = EntryOf(u, n + 1) - 0 /\ n + 1 # 0
  BY <1>2, <1>4, <1>11
<1>22. HungAt(q, e.line.what, c, bs, u, vs, n + 1, n + 1, k)
  BY <1>2, <1>3, <1>4, <1>11, <1>13, <1>15, <1>17, <1>19, <1>20, <1>21 DEF HungAt
<1>23. k = IF e.line.what \in Pending THEN Len(vs) - 1 ELSE Len(vs)
  BY <1>6, <1>7
<1>24. Hung(q, e.line.what, c, bs, u, vs)
  BY <1>2, <1>4, <1>22, <1>23 DEF Hung
<1> QED BY <1>2, <1>5, <1>24

LEMMA HungIf ==
    ASSUME NEW t, IsSeq(t), NEW e, NEW os, Opened(t, os), NEW m, NEW bs, Ready(m, bs, t, os, e),
           e.line.what = "if"
    PROVE  Hung(m, "if", e.line.on, bs, Append(t, e), Append(os, Len(t) + 1))
<1>1. PICK u, n : Long(t, e, u, n)
  BY Longer
<1>2. u = Append(t, e) /\ n = Len(t) /\ n \in Nat /\ Len(u) = n + 1 /\ What(u, n + 1) = "if"
      /\ EntryOf(t, n) \in Nat
  BY <1>1 DEF Long
<1>3. "if" \in Heads /\ "if" \notin Options \union {"blank"} /\ "if" \in Pending /\ "if" # "none" /\ "if" \notin Statements
  BY KindsApart DEF Pending, Heads
<1>4. Owner(u, n + 1 + 1) = n + 1 /\ EntryOf(u, n + 1) = EntryOf(t, n) + 1
  BY <1>1, <1>3 DEF Long
<1>5. PICK vs : vs = Append(os, n + 1)
  OBVIOUS
<1>6. PICK k \in Nat : k = Len(os) /\ IsSeq(os)
  BY SeqShape DEF Opened
<1>7. (\A a \in 1..k : vs[a] = os[a]) /\ Len(vs) = k + 1 /\ vs[k + 1] = n + 1
  BY <1>5, <1>6, Pushed
<1>8. vs # <<>>
  BY <1>6, <1>7
<1>9. \A x \in 1..Len(m.entry) : Same(m.entry[x], m.entry[x])
  BY DEF Same
<1>10. /\ \A i \in 1..n : What(t, i) \in Heads => HeadOK(m, u, i)
       /\ \A a \in 1..k : os[a] \in 1..n /\ BlockOK(m, u, os[a])
  BY <1>2, <1>3, <1>6, <1>9, ReadyKept
<1>11. IsTree(m) /\ Len(m.entry) = EntryOf(t, n) /\ m.current_menu = Upto(t, os, k)
  BY <1>2, <1>6 DEF Ready
<1>12. Heading(m, u, n + 1)
  <2>1. ASSUME NEW i \in 1..(n + 1), What(u, i) \in Heads, i # n + 1
        PROVE  HeadOK(m, u, i)
    <3>1. i \in 1..n
      BY <1>2, <2>1
    <3>2. What(t, i) \in Heads
      BY <1>1, <2>1, <3>1 DEF Long
    <3> QED BY <1>10, <3>1, <3>2
  <2> QED BY <1>2, <2>1 DEF Heading
<1>13. Placing(m, u, vs, k)
  BY <1>7, <1>10 DEF Placing
<1>14. k \in 0..Len(os)
  BY <1>6
<1>15. Upto(u, vs, k) = Upto(t, os, k)
  BY <1>2, <1>7, <1>14, UptoSame
<1>16. Blocks(bs, t, os, k)
  BY <1>6 DEF Ready
<1>17. Blocks(bs, u, vs, k)
  BY <1>2, <1>7, <1>14, <1>16, BlocksSame
<1>18. \A i \in (n + 1 + 1)..(n + 1) : What(u, i) = "blank"
  BY <1>2
<1>19. Own(u, n + 1) = menu_check_dep(e.line.on)
  BY <1>2, OwnNew
<1>20. Len(m.entry) = EntryOf(u, n + 1) - 1 /\ n + 1 # 0 /\ vs[Len(vs)] = n + 1
  BY <1>2, <1>4, <1>7, <1>11
<1>21. HungAt(m, "if", e.line.on, bs, u, vs, n + 1, n + 1, k)
  BY <1>2, <1>3, <1>8, <1>11, <1>12, <1>13, <1>15, <1>17, <1>18, <1>19, <1>20 DEF HungAt
<1>22. k = Len(vs) - 1
  BY <1>7
<1>23. Hung(m, "if", e.line.on, bs, u, vs)
  BY <1>2, <1>3, <1>4, <1>21, <1>22 DEF Hung
<1> QED BY <1>2, <1>5, <1>23

\* What an open block hangs in is the block before it.
LEMMA UptoParent ==
    ASSUME NEW t, IsSeq(t), NEW os, Opened(t, os), NEW k \in 1..Len(os)
    PROVE  /\ (IF Within(t, os[k]) = {} THEN Root ELSE EntryOf(t, Max(Within(t, os[k])))) = Upto(t, os, k - 1)
           /\ Upto(t, os, k - 1) \in 1..EntryOf(t, Len(t))
<1>1. PICK n \in Nat : n = Len(t)
  BY SeqShape
<1>2. Len(os) \in Nat
  BY SeqShape DEF Opened
<1>3. Within(t, os[k]) = {os[b] : b \in 1..(k - 1)}
  BY DEF Opened
<1>4. EntryOf(t, n) \in Nat /\ EntryOf(t, n) >= 1
  BY EntryNext
<1>5. CASE k = 1
  <2>1. Within(t, os[k]) = {} /\ k - 1 = 0
    BY <1>3, <1>5
  <2> QED BY <1>1, <1>4, <2>1 DEF Upto, Root
<1>6. CASE k # 1
  <2>1. PICK j : j = k - 1
    OBVIOUS
  <2>2. j \in 1..Len(os) /\ j \in 1..j /\ j # 0
    BY <1>2, <1>6, <2>1
  <2>3. Max({os[b] : b \in 1..j}) = os[j]
    BY <2>2, Innermost
  <2>4. os[j] \in {os[b] : b \in 1..j}
    BY <2>2
  <2>5. os[j] \in 1..n /\ What(t, os[j]) \in Heads
    BY <1>1, <2>2, KindsApart DEF Opened
  <2>6. EntryOf(t, os[j]) \in 2..EntryOf(t, n)
    BY <2>5, EntryOwn
  <2>7. Upto(t, os, j) = EntryOf(t, os[j])
    BY <2>2 DEF Upto
  <2>8. Within(t, os[k]) # {} /\ Max(Within(t, os[k])) = os[j]
    BY <1>3, <2>1, <2>3, <2>4
  <2>9. EntryOf(t, os[j]) \in 1..EntryOf(t, n)
    BY <1>4, <2>6
  <2> QED BY <1>1, <2>1, <2>7, <2>8, <2>9
<1> QED BY <1>5, <1>6

LEMMA HungEnd ==
    ASSUME NEW t, IsSeq(t), NEW e, NEW os, Opened(t, os), NEW m, NEW bs, NEW c, Ready(m, bs, t, os, e),
           e.line.what = "end", os # <<>>
    PROVE  Hung(menu_end_menu(m), "none", c, SubSeq(bs, 1, Len(bs) - 1), Append(t, e), SubSeq(os, 1, Len(os) - 1))
<1>1. PICK u, n : Long(t, e, u, n)
  BY Longer
<1>2. u = Append(t, e) /\ n = Len(t) /\ n \in Nat /\ Len(u) = n + 1 /\ What(u, n + 1) = "end"
      /\ EntryOf(t, n) \in Nat
  BY <1>1 DEF Long
<1>3. e.line.what \notin Heads /\ e.line.what \notin Options \union {"blank"}
  BY KindsApart
<1>4. Owner(u, n + 1 + 1) = n + 1 /\ EntryOf(u, n + 1) = EntryOf(t, n)
  BY <1>1, <1>3 DEF Long
<1>5. PICK k \in Nat : k = Len(os) /\ IsSeq(os) /\ k > 0
  <2>1. IsSeq(os)
    BY DEF Opened
  <2> QED BY <2>1, SeqShape
<1>6. PICK vs : vs = SubSeq(os, 1, Len(os) - 1)
  OBVIOUS
<1>7. IsSeq(vs) /\ Len(vs) = k - 1 /\ \A a \in 1..(k - 1) : vs[a] = os[a]
  BY <1>5, <1>6, Popped
<1>8. PICK ds : ds = SubSeq(bs, 1, Len(bs) - 1)
  OBVIOUS
<1>9. Blocks(bs, t, os, k)
  BY <1>5 DEF Ready
<1>10. Blocks(ds, t, os, k - 1)
  <2>1. IsSeq(bs) /\ Len(bs) = k /\ \A a \in 1..k : bs[a] = What(t, os[a])
    BY <1>9 DEF Blocks
  <2>2. bs # <<>>
    BY <1>5, <2>1
  <2>3. IsSeq(ds) /\ Len(ds) = k - 1 /\ \A a \in 1..(k - 1) : ds[a] = bs[a]
    BY <1>8, <2>1, <2>2, Popped
  <2>4. \A a \in 1..(k - 1) : a \in 1..k
    BY <1>5
  <2> QED BY <2>1, <2>3, <2>4 DEF Blocks
<1>11. /\ IsTree(m) /\ Len(m.entry) = EntryOf(t, n) /\ m.current_menu = Upto(t, os, k)
       /\ Heading(m, t, 0)
  BY <1>2, <1>5 DEF Ready
<1>12. k \in 1..Len(os) /\ k - 1 \in 0..Len(os)
  BY <1>5
<1>13. os[k] \in 1..n /\ What(t, os[k]) \in Heads
  BY <1>2, <1>12, KindsApart DEF Opened
<1>14. m.entry[m.current_menu].parent = Upto(t, os, k - 1)
  <2>1. HeadOK(m, t, os[k])
    <3>1. os[k] # 0
      BY <1>13
    <3> QED BY <1>2, <1>11, <1>13, <3>1 DEF Heading
  <2>2. m.current_menu = EntryOf(t, os[k])
    BY <1>5, <1>11 DEF Upto
  <2>3. m.entry[EntryOf(t, os[k])].parent = IF Within(t, os[k]) = {} THEN Root ELSE EntryOf(t, Max(Within(t, os[k])))
    BY <2>1 DEF HeadOK
  <2>4. (IF Within(t, os[k]) = {} THEN Root ELSE EntryOf(t, Max(Within(t, os[k])))) = Upto(t, os, k - 1)
    BY <1>12, UptoParent
  <2> QED BY <2>2, <2>3, <2>4
<1>15. Upto(t, os, k - 1) \in 1..Len(m.entry)
  BY <1>2, <1>11, <1>12, UptoParent
<1>16. PICK q : q = menu_end_menu(m)
  OBVIOUS
<1>17. IsTree(q) /\ q.entry = m.entry /\ q.current_menu = Upto(t, os, k - 1)
  BY <1>11, <1>14, <1>15, <1>16, EndMenuIs
<1>18. \A x \in 1..Len(m.entry) : Same(q.entry[x], m.entry[x])
  BY <1>17 DEF Same
<1>19. /\ \A i \in 1..n : What(t, i) \in Heads => HeadOK(q, u, i)
       /\ \A a \in 1..k : os[a] \in 1..n /\ BlockOK(q, u, os[a])
  BY <1>2, <1>3, <1>5, <1>18, ReadyKept
<1>20. Heading(q, u, 0)
  <2>1. ASSUME NEW i \in 1..(n + 1), What(u, i) \in Heads
        PROVE  HeadOK(q, u, i)
    <3>1. i \in 1..n
      BY <1>2, <1>3, <2>1
    <3>2. What(t, i) \in Heads
      BY <1>1, <2>1, <3>1 DEF Long
    <3> QED BY <1>19, <3>1, <3>2
  <2> QED BY <1>2, <2>1 DEF Heading
<1>21. Placing(q, u, vs, k - 1)
  <2>1. ASSUME NEW a \in 1..(k - 1)
        PROVE  BlockOK(q, u, vs[a])
    <3>1. a \in 1..k
      BY <1>5
    <3> QED BY <1>7, <1>19, <3>1
  <2> QED BY <2>1 DEF Placing
<1>22. Upto(u, vs, k - 1) = Upto(t, os, k - 1)
  BY <1>2, <1>7, <1>12, UptoSame
<1>23. Blocks(ds, u, vs, k - 1)
  BY <1>2, <1>7, <1>10, <1>12, BlocksSame
<1>24. "none" \notin Pending /\ "none" \notin Statements
  BY DEF Pending, Statements
<1>25. Len(q.entry) = EntryOf(u, n + 1) - 0
  BY <1>2, <1>4, <1>11, <1>17
<1>26. HungAt(q, "none", c, ds, u, vs, n + 1, n + 1, k - 1)
  BY <1>2, <1>7, <1>17, <1>20, <1>21, <1>22, <1>23, <1>24, <1>25 DEF HungAt
<1>27. Hung(q, "none", c, ds, u, vs)
  BY <1>2, <1>4, <1>7, <1>24, <1>26 DEF Hung
<1> QED BY <1>2, <1>6, <1>8, <1>16, <1>27

(***************************************************************************)
(* What waits for a line that is not blank is done when it comes.          *)
(***************************************************************************)
LEMMA BegunIs ==
    ASSUME NEW t, IsSeq(t), NEW e, NEW os, Opened(t, os), e.line.what # "blank",
           Hung(menus, option_list, condition, blocks, t, os)
    PROVE  Ready(Begun(e.file), Entered, t, os, e)
<1>1. PICK u, n : Long(t, e, u, n)
  BY Longer
<1>2. u = Append(t, e) /\ n = Len(t) /\ n \in Nat /\ EntryOf(t, n) \in Nat /\ EntryOf(t, n) >= 1
  BY <1>1 DEF Long
<1>3. PICK o : o = Owner(t, n + 1) /\ o \in 0..n
  BY <1>1 DEF Long
<1>4. PICK K \in Nat : K = Len(os) /\ IsSeq(os)
  BY SeqShape DEF Opened
<1>m. PICK m : m = menus
  OBVIOUS
<1>l. PICK list : list = option_list
  OBVIOUS
<1>c. PICK c : c = condition
  OBVIOUS
<1>b. PICK bs : bs = blocks
  OBVIOUS
<1>5. PICK k : k = IF list \in Pending THEN K - 1 ELSE K
  OBVIOUS
<1>6. HungAt(m, list, c, bs, t, os, n, o, k)
  BY <1>2, <1>3, <1>4, <1>5, <1>m, <1>l, <1>c, <1>b DEF Hung
<1>7. /\ list \in Statements \union {"if", "none"} /\ IsTree(m)
      /\ Len(m.entry) = EntryOf(t, n) - (IF list = "if" THEN 1 ELSE 0)
      /\ Heading(m, t, IF list = "if" THEN o ELSE 0)
      /\ Placing(m, t, os, IF list = "if" THEN k ELSE K)
      /\ m.current_menu = Upto(t, os, k)
      /\ Blocks(bs, t, os, k)
      /\ (list \in Pending => os # <<>> /\ os[K] = o)
      /\ (list # "none" => o # 0 /\ What(t, o) = list /\ EntryOf(t, o) = EntryOf(t, n))
      /\ (list \in Statements => m.current_entry = EntryOf(t, n))
      /\ (list = "if" => (\A i \in (o + 1)..n : What(t, i) = "blank") /\ Own(t, o) = menu_check_dep(c))
  BY <1>4, <1>6 DEF HungAt
<1>8. list \in Pending => K > 0
  BY <1>4, <1>7, SeqShape
<1>9. Blocks(Entered, t, os, K)
  <2>1. IsSeq(bs) /\ Len(bs) = k /\ \A a \in 1..k : bs[a] = What(t, os[a])
    BY <1>7 DEF Blocks
  <2>2. CASE list \in Pending
    <3>1. Entered = Append(bs, list)
      BY <1>b, <1>l, <2>2 DEF Entered, Pending
    <3>2. IsSeq(Entered) /\ Len(Entered) = k + 1 /\ (\A a \in 1..k : Entered[a] = bs[a]) /\ Entered[k + 1] = list
      BY <2>1, <3>1, Pushed
    <3>3. k + 1 = K /\ k \in Nat
      BY <1>4, <1>5, <1>8, <2>2
    <3>4. list = What(t, os[K])
      <4>1. list # "none"
        BY <2>2 DEF Pending
      <4> QED BY <1>7, <2>2, <4>1
    <3>5. \A a \in 1..K : a \in 1..k \/ a = K
      BY <3>3
    <3> QED BY <2>1, <3>2, <3>3, <3>4, <3>5 DEF Blocks
  <2>3. CASE list \notin Pending
    <3>1. Entered = bs /\ k = K
      BY <1>5, <1>b, <1>l, <2>3 DEF Entered, Pending
    <3> QED BY <1>7, <3>1
  <2> QED BY <2>2, <2>3
<1>10. \A a \in 1..K : os[a] \in 1..n /\ What(t, os[a]) \in Heads
  BY <1>2, <1>4, KindsApart DEF Opened
<1>11. PICK q : q = Begun(e.file)
  OBVIOUS
<1>12. CASE list # "if"
  <2>1. /\ IsTree(q) /\ Len(q.entry) = Len(m.entry)
        /\ (\A x \in 1..Len(m.entry) : Same(q.entry[x], m.entry[x]))
        /\ q.current_menu = IF list \in Pending THEN m.current_entry ELSE m.current_menu
    <3>1. CASE list \in {"menu", "choice"}
      <4>1. q = menu_add_menu(m)
        BY <1>11, <1>12, <1>m, <1>l, <3>1 DEF Begun
      <4>2. IsTree(q) /\ q.entry = m.entry /\ q.current_menu = m.current_entry
        BY <1>7, <4>1, AddMenuIs
      <4> QED BY <3>1, <4>2 DEF Same, Pending
    <3>2. CASE list \notin {"menu", "choice"}
      <4>1. list \notin Pending
        BY <1>12, <3>2 DEF Pending
      <4>2. Alike(m, q)
        <5>1. PICK v : v = [m.prop EXCEPT ![m.entry[m.current_entry].prompt].type = "menu"]
          OBVIOUS
        <5>2. q = m \/ q = [m EXCEPT !.prop = v]
          <6>1. [m EXCEPT !.prop[m.entry[m.current_entry].prompt].type = "menu"] = [m EXCEPT !.prop = v]
            BY <5>1
          <6>2. q = m \/ q = [m EXCEPT !.prop[m.entry[m.current_entry].prompt].type = "menu"]
            BY <1>11, <1>12, <1>m, <1>l, <3>2 DEF Begun
          <6> QED BY <6>1, <6>2
        <5>3. Alike(m, m) /\ Alike(m, [m EXCEPT !.prop = v])
          BY <1>7, AlikeProp, AlikeSelf
        <5> QED BY <5>2, <5>3
      <4> QED BY <4>1, <4>2 DEF Alike
    <3> QED BY <3>1, <3>2
  <2>2. Len(q.entry) = EntryOf(t, n)
    BY <1>2, <1>7, <1>12, <2>1
  <2>3. \A i \in 1..n : What(t, i) \in Heads => EntryOf(t, i) \in 1..Len(m.entry)
    <3>1. ASSUME NEW i \in 1..n, What(t, i) \in Heads
          PROVE  EntryOf(t, i) \in 1..Len(m.entry)
      <4>1. EntryOf(t, i) \in 2..EntryOf(t, n)
        BY <1>2, <3>1, EntryOwn
      <4>2. EntryOf(t, i) \in 1..EntryOf(t, n)
        BY <4>1
      <4> QED BY <2>1, <2>2, <4>2
    <3> QED BY <3>1
  <2>4. Heading(q, t, 0)
    <3>1. ASSUME NEW i \in 1..n, What(t, i) \in Heads, i # 0
          PROVE  HeadOK(q, t, i)
      <4>1. HeadOK(m, t, i)
        BY <1>2, <1>7, <1>12, <3>1 DEF Heading
      <4>2. Same(q.entry[EntryOf(t, i)], m.entry[EntryOf(t, i)])
        BY <2>1, <2>3, <3>1
      <4> QED BY <4>1, <4>2 DEF HeadOK, Same
    <3> QED BY <1>2, <3>1 DEF Heading
  <2>5. ASSUME NEW a \in 1..K
        PROVE  q.entry[EntryOf(t, os[a])].file = BlockFile(u, os[a])
    <3>1. os[a] \in 1..n /\ What(t, os[a]) \in Heads
      BY <1>10
    <3>2. Same(q.entry[EntryOf(t, os[a])], m.entry[EntryOf(t, os[a])])
      BY <2>1, <2>3, <3>1
    <3>3. BlockOK(m, t, os[a])
      BY <1>7, <1>12 DEF Placing
    <3>4. BlockFile(u, os[a]) = BlockFile(t, os[a])
      <4>1. What(t, os[a]) = "if" => \E j \in (os[a] + 1)..Len(t) : What(t, j) # "blank"
        BY <3>3 DEF BlockOK, Followed
      <4>2. os[a] \in 1..Len(t)
        BY <1>2, <3>1
      <4> QED BY <1>2, <4>1, <4>2, BlockFileKept
    <3> QED BY <3>2, <3>3, <3>4 DEF BlockOK, Same
  <2>6. q.current_menu = Upto(t, os, K)
    <3>1. CASE list \in Pending
      <4>1. list \in Statements /\ list # "none"
        BY <1>12, <3>1 DEF Pending, Statements
      <4>2. m.current_entry = EntryOf(t, n) /\ os[K] = o /\ EntryOf(t, o) = EntryOf(t, n)
        BY <1>7, <3>1, <4>1
      <4>3. K # 0
        BY <1>8, <3>1
      <4> QED BY <2>1, <3>1, <4>2, <4>3 DEF Upto
    <3>2. CASE list \notin Pending
      BY <1>5, <1>7, <2>1, <3>2
    <3> QED BY <3>1, <3>2
  <2>7. Ready(q, Entered, t, os, e)
    BY <1>2, <1>4, <1>9, <2>1, <2>2, <2>4, <2>5, <2>6 DEF Ready
  <2> QED BY <1>11, <2>7
<1>13. CASE list = "if"
  <2>1. /\ "if" \in Pending /\ "if" # "none" /\ "if" \in Heads
    BY DEF Pending, Heads, Opens
  <2>2. /\ K > 0 /\ os[K] = o /\ o \in 1..n /\ What(t, o) = "if" /\ EntryOf(t, o) = EntryOf(t, n)
        /\ k = K - 1 /\ k \in Nat /\ K \in 1..Len(os)
    BY <1>3, <1>4, <1>5, <1>7, <1>8, <1>13, <2>1
  <2>3. PICK E \in Nat : E = EntryOf(t, n) /\ Len(m.entry) = E - 1 /\ E >= 1
    BY <1>2, <1>7, <1>13
  <2>4. PICK a : a = menu_add_entry(m, Nobody, e.file)
    OBVIOUS
  <2>5. Added(m, a, e.file)
    BY <1>7, <2>4, AddedEntry
  <2>6. /\ IsTree(a) /\ Len(a.entry) = E
        /\ (\A x \in 1..(E - 1) : Same(a.entry[x], m.entry[x]))
        /\ a.entry[E].parent = m.current_menu /\ a.entry[E].file = e.file /\ a.entry[E].dep = {}
        /\ a.current_menu = m.current_menu /\ a.current_entry = E
    <3>1. Len(m.entry) + 1 = E
      BY <2>3
    <3> QED BY <2>3, <2>5, <3>1 DEF Added
  <2>7. PICK d : d = menu_add_dep(a, c)
    OBVIOUS
  <2>8. /\ IsTree(d) /\ Len(d.entry) = E
        /\ \A x \in 1..E :
                     /\ d.entry[x].parent = a.entry[x].parent /\ d.entry[x].file = a.entry[x].file
                     /\ d.entry[x].dep = IF x = E THEN a.entry[x].dep \union menu_check_dep(c)
                                         ELSE a.entry[x].dep
        /\ d.current_entry = E
    <3>1. IsTree(a) /\ Len(a.entry) = E /\ a.current_entry = E
      BY <2>6
    <3>2. DepAdded(a, d, c)
      BY <2>7, <3>1, AddDepIs
    <3>3. IsTree(d) /\ Len(d.entry) = E /\ d.current_entry = E
      BY <3>1, <3>2 DEF DepAdded
    <3>4. \A x \in 1..E :
                     /\ d.entry[x].parent = a.entry[x].parent /\ d.entry[x].file = a.entry[x].file
                     /\ d.entry[x].dep = IF x = E THEN a.entry[x].dep \union menu_check_dep(c)
                                         ELSE a.entry[x].dep
      BY <3>1, <3>2 DEF DepAdded
    <3> QED BY <3>3, <3>4
  <2>9. q = menu_add_menu(d)
    BY <1>11, <1>m, <1>l, <1>c, <1>13, <2>4, <2>7 DEF Begun
  <2>10. IsTree(q) /\ q.entry = d.entry /\ q.current_menu = E
    BY <2>8, <2>9, AddMenuIs
  <2>11. \A x \in 1..(E - 1) : Same(q.entry[x], m.entry[x])
    <3>1. ASSUME NEW x \in 1..(E - 1)
          PROVE  Same(q.entry[x], m.entry[x])
      <4>1. x \in 1..E /\ x # E
        BY <2>3
      <4>2. Same(a.entry[x], m.entry[x])
        BY <2>6
      <4> QED BY <2>8, <2>10, <4>1, <4>2 DEF Same
    <3> QED BY <3>1
  <2>12. q.entry[E].parent = m.current_menu /\ q.entry[E].file = e.file /\ q.entry[E].dep = menu_check_dep(c)
    <3>1. E \in 1..E
      BY <2>3
    <3>2. {} \union menu_check_dep(c) = menu_check_dep(c)
      OBVIOUS
    <3> QED BY <2>6, <2>8, <2>10, <3>1, <3>2
  <2>13. ASSUME NEW i \in 1..n, What(t, i) \in Heads, i # o
         PROVE  EntryOf(t, i) \in 1..(E - 1)
    <3>1. EntryOf(t, i) \in 2..EntryOf(t, n)
      BY <1>2, <2>13, EntryOwn
    <3>2. EntryOf(t, i) # EntryOf(t, o)
      BY <1>2, <2>1, <2>2, <2>13, EntryOwn
    <3> QED BY <2>2, <2>3, <3>1, <3>2
  <2>14. HeadOK(q, t, o)
    <3>1. (IF Within(t, os[K]) = {} THEN Root ELSE EntryOf(t, Max(Within(t, os[K])))) = Upto(t, os, K - 1)
      BY <2>2, UptoParent
    <3>2. m.current_menu = Upto(t, os, K - 1)
      BY <1>7, <2>2
    <3>3. Own(t, o) = menu_check_dep(c)
      BY <1>7, <1>13
    <3> QED BY <2>2, <2>3, <2>12, <3>1, <3>2, <3>3 DEF HeadOK
  <2>15. Heading(q, t, 0)
    <3>1. ASSUME NEW i \in 1..n, What(t, i) \in Heads
          PROVE  HeadOK(q, t, i)
      <4>1. CASE i = o
        BY <2>14, <4>1
      <4>2. CASE i # o
        <5>1. HeadOK(m, t, i)
          BY <1>2, <1>7, <1>13, <3>1, <4>2 DEF Heading
        <5>2. Same(q.entry[EntryOf(t, i)], m.entry[EntryOf(t, i)])
          BY <2>11, <2>13, <3>1, <4>2
        <5> QED BY <5>1, <5>2 DEF HeadOK, Same
      <4> QED BY <4>1, <4>2
    <3> QED BY <1>2, <3>1 DEF Heading
  <2>16. ASSUME NEW x \in 1..K
         PROVE  q.entry[EntryOf(t, os[x])].file = BlockFile(u, os[x])
    <3>1. os[x] \in 1..n /\ What(t, os[x]) \in Heads
      BY <1>10
    <3>2. CASE x = K
      <4>1. \A j \in (o + 1)..Len(t) : What(t, j) = "blank"
        BY <1>2, <1>7, <1>13
      <4>2. o \in 1..Len(t)
        BY <1>2, <2>2
      <4>3. BlockFile(u, o) = e.file
        BY <1>2, <2>2, <4>1, <4>2, BlockFileNow
      <4> QED BY <2>2, <2>3, <2>12, <3>2, <4>3
    <3>3. CASE x # K
      <4>1. x \in 1..k /\ x < K
        BY <2>2, <3>3
      <4>2. BlockOK(m, t, os[x])
        BY <1>7, <1>13, <4>1 DEF Placing
      <4>3. os[x] # o
        <5>1. x \in 1..Len(os) /\ K \in 1..Len(os)
          BY <1>4, <2>2
        <5>2. os[x] < os[K]
          BY <4>1, <5>1 DEF Opened
        <5> QED BY <2>2, <3>1, <5>2
      <4>4. Same(q.entry[EntryOf(t, os[x])], m.entry[EntryOf(t, os[x])])
        BY <2>11, <2>13, <3>1, <4>3
      <4>5. BlockFile(u, os[x]) = BlockFile(t, os[x])
        <5>1. What(t, os[x]) = "if" => \E j \in (os[x] + 1)..Len(t) : What(t, j) # "blank"
          BY <4>2 DEF BlockOK, Followed
        <5>2. os[x] \in 1..Len(t)
          BY <1>2, <3>1
        <5> QED BY <1>2, <5>1, <5>2, BlockFileKept
      <4> QED BY <4>2, <4>4, <4>5 DEF BlockOK, Same
    <3> QED BY <3>2, <3>3
  <2>17. q.current_menu = Upto(t, os, K)
    BY <2>2, <2>3, <2>10 DEF Upto
  <2>18. Len(q.entry) = EntryOf(t, n)
    BY <2>3, <2>8, <2>10
  <2>19. Ready(q, Entered, t, os, e)
    BY <1>2, <1>4, <1>9, <2>10, <2>15, <2>16, <2>17, <2>18 DEF Ready
  <2> QED BY <1>11, <2>19
<1> QED BY <1>12, <1>13

-----------------------------------------------------------------------------
(***************************************************************************)
(* The files.                                                              *)
(***************************************************************************)
LEMMA FilesPop ==
    ASSUME NEW ss, NEW sc, NEW t, Files(ss, sc, t), ss # <<>>
    PROVE  Files(Front(ss), sc \union {Last(ss).file}, t)
<1>1. PICK n \in Nat : n = Len(ss) /\ IsSeq(ss) /\ n > 0
  <2>1. IsSeq(ss)
    BY DEF Files
  <2> QED BY <2>1, SeqShape
<1>2. PICK p : p = Front(ss)
  OBVIOUS
<1>3. IsSeq(p) /\ Len(p) = n - 1 /\ \A k \in 1..(n - 1) : p[k] = ss[k]
  BY <1>1, <1>2, Popped DEF Front
<1>4. Last(ss) = ss[n]
  BY <1>1 DEF Last
<1>5. \A k \in 1..n : k \in 1..(n - 1) \/ k = n
  BY <1>1
<1>6. \A k \in 1..(n - 1) : k \in 1..n
  BY <1>1
<1>7. n \in 1..n
  BY <1>1
<1>8. {ss[k].file : k \in 1..n} = {p[k].file : k \in 1..(n - 1)} \union {ss[n].file}
  BY <1>3, <1>5, <1>6, <1>7
<1>9. sc \union {ss[k].file : k \in 1..n} = Sourced(t)
  BY <1>1 DEF Files
<1>10. (sc \union {ss[n].file}) \union {p[k].file : k \in 1..(n - 1)} = Sourced(t)
  BY <1>8, <1>9
<1>11. \A k \in 1..(n - 1) : IsOpen(p[k])
  BY <1>1, <1>3, <1>6 DEF Files
<1>12. Files(p, sc \union {ss[n].file}, t)
  BY <1>3, <1>10, <1>11 DEF Files
<1> QED BY <1>2, <1>4, <1>12

LEMMA FilesGoOn ==
    ASSUME NEW ss, NEW sc, NEW t, Files(ss, sc, t), ss # <<>>, NEW at
    PROVE  Files([ss EXCEPT ![Len(ss)].at = at], sc, t)
<1>1. Len(ss) \in Nat /\ IsSeq(ss) /\ Len(ss) > 0
  <2>1. IsSeq(ss)
    BY DEF Files
  <2> QED BY <2>1, SeqShape
<1>2. PICK n : n = Len(ss)
  OBVIOUS
<1>3. n \in 1..Len(ss)
  BY <1>1, <1>2
<1>4. PICK x : x = ss[n]
  OBVIOUS
<1>5. x = [file |-> x.file, at |-> x.at]
  BY <1>3, <1>4 DEF Files, IsOpen
<1>6. PICK y : y = [x EXCEPT !.at = at]
  OBVIOUS
<1>7. y = [file |-> x.file, at |-> at]
  BY <1>5, <1>6
<1>8. IsOpen(y) /\ y.file = x.file
  BY <1>7 DEF IsOpen
<1>9. PICK p : p = [ss EXCEPT ![n] = y]
  OBVIOUS
<1>10. p = [ss EXCEPT ![Len(ss)].at = at]
  <2>1. [ss EXCEPT ![n].at = at] = [ss EXCEPT ![n] = [ss[n] EXCEPT !.at = at]]
    OBVIOUS
  <2> QED BY <1>2, <1>4, <1>6, <1>9, <2>1
<1>11. /\ IsSeq([ss EXCEPT ![n] = y]) /\ Len([ss EXCEPT ![n] = y]) = Len(ss)
       /\ \A k \in 1..Len(ss) : [ss EXCEPT ![n] = y][k] = IF k = n THEN y ELSE ss[k]
  BY <1>1, <1>3, Replaced
<1>12. IsSeq(p) /\ Len(p) = Len(ss) /\ \A k \in 1..Len(ss) : p[k] = IF k = n THEN y ELSE ss[k]
  BY <1>9, <1>11
<1>13. \A k \in 1..Len(ss) : IsOpen(p[k]) /\ p[k].file = ss[k].file
  BY <1>4, <1>8, <1>12 DEF Files
<1>14. {p[k].file : k \in 1..Len(ss)} = {ss[k].file : k \in 1..Len(ss)}
  BY <1>13
<1>15. Files(p, sc, t)
  BY <1>12, <1>13, <1>14 DEF Files
<1> QED BY <1>10, <1>15

LEMMA FilesPush ==
    ASSUME NEW ss, NEW sc, NEW t, Files(ss, sc, t), NEW f
    PROVE  /\ IsSeq(Append(ss, [file |-> f, at |-> 0]))
           /\ \A k \in 1..Len(Append(ss, [file |-> f, at |-> 0])) : IsOpen(Append(ss, [file |-> f, at |-> 0])[k])
           /\ sc \union {Append(ss, [file |-> f, at |-> 0])[k].file : k \in 1..Len(Append(ss, [file |-> f, at |-> 0]))}
                = Sourced(t) \union {f}
<1>1. PICK n \in Nat : n = Len(ss) /\ IsSeq(ss)
  BY SeqShape DEF Files
<1>2. PICK x : x = [file |-> f, at |-> 0]
  OBVIOUS
<1>3. PICK p : p = Append(ss, x)
  OBVIOUS
<1>4. IsSeq(p) /\ Len(p) = n + 1 /\ (\A k \in 1..n : p[k] = ss[k]) /\ p[n + 1] = x
  BY <1>1, <1>3, Pushed
<1>5. IsOpen(x) /\ x.file = f
  BY <1>2 DEF IsOpen
<1>6. \A k \in 1..(n + 1) : k \in 1..n \/ k = n + 1
  OBVIOUS
<1>7. \A k \in 1..n : k \in 1..(n + 1)
  OBVIOUS
<1>8. n + 1 \in 1..(n + 1)
  OBVIOUS
<1>9. {p[k].file : k \in 1..(n + 1)} = {ss[k].file : k \in 1..n} \union {f}
  BY <1>4, <1>5, <1>6, <1>7, <1>8
<1>10. sc \union {ss[k].file : k \in 1..n} = Sourced(t)
  BY <1>1 DEF Files
<1>11. sc \union {p[k].file : k \in 1..(n + 1)} = Sourced(t) \union {f}
  BY <1>9, <1>10
<1>12. \A k \in 1..(n + 1) : IsOpen(p[k])
  BY <1>1, <1>4, <1>5, <1>6 DEF Files
<1> QED BY <1>2, <1>3, <1>4, <1>11, <1>12

LEMMA SourcedNext ==
    ASSUME NEW t, IsSeq(t), NEW e
    PROVE  Sourced(Append(t, e)) = Sourced(t) \union (IF e.line.what = "source" THEN {e.line.file} ELSE {})
<1>1. PICK n \in Nat : n = Len(t)
  BY SeqShape
<1>2. PICK u : u = Append(t, e)
  OBVIOUS
<1>3. Len(u) = n + 1
  BY <1>1, <1>2, Pushed
<1>4. \A j \in 1..n : What(u, j) = What(t, j) /\ u[j] = t[j]
  BY <1>1, <1>2, WhatSame
<1>5. What(u, n + 1) = e.line.what /\ u[n + 1] = e
  BY <1>1, <1>2, WhatNew
<1>6. PICK T : T = {i \in 1..n : What(t, i) = "source"}
  OBVIOUS
<1>7. PICK U : U = {i \in 1..(n + 1) : What(u, i) = "source"}
  OBVIOUS
<1>8. U = T \union (IF e.line.what = "source" THEN {n + 1} ELSE {})
  <2>1. \A i : i \in 1..(n + 1) <=> i \in 1..n \/ i = n + 1
    OBVIOUS
  <2> QED BY <1>4, <1>5, <1>6, <1>7, <2>1
<1>9. \A j \in T : u[j].line.file = t[j].line.file
  BY <1>4, <1>6
<1>10. {u[j].line.file : j \in U}
         = {t[j].line.file : j \in T} \union (IF e.line.what = "source" THEN {e.line.file} ELSE {})
  BY <1>5, <1>8, <1>9
<1>11. Sourced(u) = {MainFile} \union {u[j].line.file : j \in U}
  BY <1>3, <1>7 DEF Sourced
<1>12. Sourced(t) = {MainFile} \union {t[j].line.file : j \in T}
  BY <1>1, <1>6 DEF Sourced
<1> QED BY <1>2, <1>10, <1>11, <1>12

\* The files when a line is read.
LEMMA FilesAfter ==
    ASSUME NEW t, Files(sources, scanned, t), sources # <<>>
    PROVE  Files(After, IF EndsFile THEN scanned \union {Top.file} ELSE scanned, t)
<1>1. CASE EndsFile
  <2>1. After = Front(sources)
    BY <1>1 DEF After
  <2>2. Files(Front(sources), scanned \union {Last(sources).file}, t)
    BY FilesPop
  <2> QED BY <1>1, <2>1, <2>2 DEF Top
<1>2. CASE ~EndsFile
  <2>1. PICK at : at = LineHere
    OBVIOUS
  <2>2. After = [sources EXCEPT ![Len(sources)].at = at]
    BY <1>2, <2>1 DEF After
  <2>3. Files([sources EXCEPT ![Len(sources)].at = at], scanned, t)
    BY FilesGoOn
  <2> QED BY <1>2, <2>2, <2>3
<1> QED BY <1>1, <1>2

LEMMA FilesStay ==
    ASSUME NEW ss, NEW sc, NEW t, IsSeq(t), Files(ss, sc, t), NEW e, e.line.what # "source"
    PROVE  Files(ss, sc, Append(t, e))
<1>1. Sourced(Append(t, e)) = Sourced(t)
  BY SourcedNext
<1> QED BY <1>1 DEF Files

-----------------------------------------------------------------------------
(***************************************************************************)
(* Whether the new line fits.                                              *)
(***************************************************************************)
\* The innermost block of line i of u.
InnerIs(t, u, i, os) ==
    /\ os = <<>> => Within(u, i) = {}
    /\ os # <<>> => /\ Within(u, i) # {} /\ Max(Within(u, i)) = os[Len(os)]
                    /\ Inner(u, i) = What(t, os[Len(os)])

LEMMA InnerNew ==
    ASSUME NEW t, IsSeq(t), NEW e, NEW os, Opened(t, os)
    PROVE  InnerIs(t, Append(t, e), Len(t) + 1, os)
<1>u. PICK u : u = Append(t, e)
  OBVIOUS
<1>i. PICK i : i = Len(t) + 1
  OBVIOUS
<1>1. Len(os) \in Nat /\ (os = <<>> <=> Len(os) = 0) /\ Len(t) \in Nat
  <2>1. IsSeq(os)
    BY DEF Opened
  <2> QED BY <2>1, SeqShape
<1>2. Within(u, i) = {os[a] : a \in 1..Len(os)}
  <2>1. Len(t) + 1 \in 1..(Len(t) + 1)
    BY <1>1
  <2>2. Within(u, i) = Within(t, i)
    BY <1>u, <1>i, <2>1, WithinSame
  <2> QED BY <1>i, <2>2 DEF Opened
<1>3. ASSUME os = <<>>
      PROVE  Within(u, i) = {}
  BY <1>1, <1>2, <1>3
<1>4. ASSUME os # <<>>
      PROVE  Within(u, i) # {} /\ Max(Within(u, i)) = os[Len(os)] /\ Inner(u, i) = What(t, os[Len(os)])
  <2>1. Len(os) \in 1..Len(os)
    BY <1>1, <1>4
  <2>2. Max({os[b] : b \in 1..Len(os)}) = os[Len(os)]
    BY <2>1, Innermost
  <2>3. os[Len(os)] \in 1..Len(t)
    BY <2>1 DEF Opened
  <2>4. What(u, os[Len(os)]) = What(t, os[Len(os)])
    BY <1>u, <2>3, WhatSame
  <2>5. os[Len(os)] \in {os[b] : b \in 1..Len(os)}
    BY <2>1
  <2> QED BY <1>2, <1>4, <2>2, <2>4, <2>5 DEF Inner
<1> QED BY <1>u, <1>i, <1>3, <1>4 DEF InnerIs

LEMMA LastBlock ==
    ASSUME NEW t, NEW os, IsSeq(os), NEW bs, Blocks(bs, t, os, Len(os))
    PROVE  /\ bs = <<>> <=> os = <<>>
           /\ os # <<>> => Last(bs) = What(t, os[Len(os)])
<1>1. IsSeq(bs) /\ Len(bs) = Len(os) /\ \A a \in 1..Len(os) : bs[a] = What(t, os[a])
  BY DEF Blocks
<1>2. Len(os) \in Nat /\ (os = <<>> <=> Len(os) = 0) /\ (bs = <<>> <=> Len(bs) = 0)
  BY <1>1, SeqShape
<1>3. os # <<>> => Len(os) \in 1..Len(os)
  BY <1>2
<1> QED BY <1>1, <1>2, <1>3 DEF Last

LEMMA FitsPlaced ==
    ASSUME NEW t, IsSeq(t), NEW e, NEW os, Opened(t, os), NEW sc, e.line.what \in {"menu", "choice"},
           Blocks(Entered, t, os, Len(os))
    PROVE  FitsIn(sc, Append(t, e), Len(t) + 1) <=> ~Misplaced
<1>1. PICK u : u = Append(t, e)
  OBVIOUS
<1>2. PICK i : i = Len(t) + 1
  OBVIOUS
<1>3. What(u, i) = e.line.what
  BY <1>1, <1>2, WhatNew
<1>4. FitsIn(sc, u, i) <=> Within(u, i) = {} \/ Inner(u, i) # "choice"
  BY <1>3, FitsKinds
<1>5. IsSeq(os)
  BY DEF Opened
<1>6. /\ Entered = <<>> <=> os = <<>>
      /\ os # <<>> => Last(Entered) = What(t, os[Len(os)])
  BY <1>5, LastBlock
<1>7. /\ os = <<>> => Within(u, i) = {}
      /\ os # <<>> => Within(u, i) # {} /\ Inner(u, i) = What(t, os[Len(os)])
  <2>1. InnerIs(t, u, i, os)
    BY <1>1, <1>2, InnerNew
  <2> QED BY <2>1 DEF InnerIs
<1>8. FitsIn(sc, u, i) <=> ~Misplaced
  BY <1>4, <1>6, <1>7 DEF Misplaced
<1> QED BY <1>1, <1>2, <1>8

LEMMA FitsEnd ==
    ASSUME NEW t, IsSeq(t), NEW e, NEW os, Opened(t, os), NEW sc, e.line.what = "end", e.after = current_file,
           NEW m, NEW bs, Ready(m, bs, t, os, e)
    PROVE  /\ FitsIn(sc, Append(t, e), Len(t) + 1) <=> EndAllowed(m, bs, e.line.of)
           /\ EndAllowed(m, bs, e.line.of) => os # <<>>
<1>1. PICK u : u = Append(t, e)
  OBVIOUS
<1>2. PICK i : i = Len(t) + 1
  OBVIOUS
<1>3. What(u, i) = e.line.what /\ u[i] = e
  BY <1>1, <1>2, WhatNew
<1>4. FitsIn(sc, u, i) <=> /\ Within(u, i) # {} /\ Inner(u, i) = u[i].line.of
                           /\ BlockFile(u, Max(Within(u, i))) = u[i].after
  BY <1>3, FitsKinds
<1>5. IsSeq(os) /\ Blocks(bs, t, os, Len(os))
  BY DEF Opened, Ready
<1>6. /\ bs = <<>> <=> os = <<>>
      /\ os # <<>> => Last(bs) = What(t, os[Len(os)])
  BY <1>5, LastBlock
<1>7. /\ os = <<>> => Within(u, i) = {}
      /\ os # <<>> => /\ Within(u, i) # {} /\ Max(Within(u, i)) = os[Len(os)]
                      /\ Inner(u, i) = What(t, os[Len(os)])
  <2>1. InnerIs(t, u, i, os)
    BY <1>1, <1>2, InnerNew
  <2> QED BY <2>1 DEF InnerIs
<1>8. os # <<>> => m.entry[m.current_menu].file = BlockFile(u, os[Len(os)])
  <2>1. ASSUME os # <<>>
        PROVE  m.entry[m.current_menu].file = BlockFile(u, os[Len(os)])
    <3>1. Len(os) \in 1..Len(os) /\ Len(os) # 0
      BY <1>5, <2>1, SeqShape
    <3>2. m.current_menu = EntryOf(t, os[Len(os)])
      BY <3>1 DEF Ready, Upto
    <3>3. m.entry[EntryOf(t, os[Len(os)])].file = BlockFile(u, os[Len(os)])
      BY <1>1, <3>1 DEF Ready
    <3> QED BY <3>2, <3>3
  <2> QED BY <2>1
<1>9. /\ FitsIn(sc, u, i) <=> EndAllowed(m, bs, e.line.of)
      /\ EndAllowed(m, bs, e.line.of) => os # <<>>
  BY <1>3, <1>4, <1>6, <1>7, <1>8 DEF EndAllowed
<1> QED BY <1>1, <1>2, <1>9

LEMMA FitsSource ==
    ASSUME NEW t, IsSeq(t), NEW e, NEW sc, e.line.what = "source"
    PROVE  FitsIn(sc, Append(t, e), Len(t) + 1) <=> e.line.file \in DOMAIN sc /\ e.line.file \notin Sourced(t)
<1>1. PICK u, n : Long(t, e, u, n)
  BY Longer
<1>2. u = Append(t, e) /\ n = Len(t) /\ n \in Nat /\ What(u, n + 1) = "source" /\ u[n + 1] = e
  BY <1>1 DEF Long
<1>3. PICK i : i = n + 1
  OBVIOUS
<1>4. FitsIn(sc, u, i) <=> /\ u[i].line.file \in DOMAIN sc \ {MainFile}
                           /\ \A j \in 1 .. i - 1 : What(u, j) = "source" => u[j].line.file # u[i].line.file
  <2>1. What(u, i) = "source"
    BY <1>2, <1>3
  <2> QED BY <2>1, FitsKinds, Zenon
<1>5. \A j : j \in 1..(i - 1) <=> j \in 1..n
  BY <1>2, <1>3
<1>6. \A j \in 1..n : What(u, j) = What(t, j) /\ u[j] = t[j]
  BY <1>1 DEF Long
<1>7. (\A j \in 1..(i - 1) : What(u, j) = "source" => u[j].line.file # e.line.file)
         <=> (\A j \in 1..n : What(t, j) = "source" => t[j].line.file # e.line.file)
  BY <1>5, <1>6
<1>8. e.line.file \notin Sourced(t) <=>
         /\ e.line.file # MainFile
         /\ \A j \in 1..n : What(t, j) = "source" => t[j].line.file # e.line.file
  BY <1>2 DEF Sourced
<1>9. u[i].line.file = e.line.file
  BY <1>2, <1>3
<1>10. FitsIn(sc, u, i) <=> e.line.file \in DOMAIN sc /\ e.line.file \notin Sourced(t)
  BY <1>4, <1>7, <1>8, <1>9
<1> QED BY <1>2, <1>3, <1>10

LEMMA FitsOption ==
    ASSUME NEW t, IsSeq(t), NEW e, NEW os, NEW sc, e.line.what \in Options,
           NEW m, NEW list, NEW c, NEW bs, Hung(m, list, c, bs, t, os)
    PROVE  /\ FitsIn(sc, Append(t, e), Len(t) + 1) <=> e.line.what \in OptionsOf(list)
           /\ e.line.what \in OptionsOf(list) => list \in Statements
<1>1. PICK u, n : Long(t, e, u, n)
  BY Longer
<1>2. u = Append(t, e) /\ n = Len(t) /\ n \in Nat /\ What(u, n + 1) = e.line.what
  BY <1>1 DEF Long
<1>3. PICK i : i = n + 1
  OBVIOUS
<1>4. FitsIn(sc, u, i) <=> Owner(u, i) # 0 /\ What(u, i) \in OptionsOf(What(u, Owner(u, i)))
  BY <1>2, <1>3, FitsKinds
<1>5. PICK o : o = Owner(t, i) /\ o \in 0..n
  BY <1>1, <1>3 DEF Long
<1>6. Owner(u, i) = o
  <2>1. i \in 1..(Len(t) + 1)
    BY <1>2, <1>3
  <2> QED BY <1>2, <1>5, <2>1, OwnerSame
<1>7. o # 0 => What(u, o) = What(t, o)
  <2>1. o # 0 => o \in 1..n
    BY <1>5
  <2> QED BY <1>1, <2>1 DEF Long
<1>8. /\ list \in Statements \union {"if", "none"}
      /\ (list # "none" => o # 0 /\ What(t, o) = list)
      /\ (list = "none" => o = 0 \/ What(t, o) \in {"source", "end"})
  BY <1>2, <1>3, <1>5 DEF Hung, HungAt
<1>9. OptionsOf("none") = {} /\ OptionsOf("if") = {} /\ OptionsOf("source") = {} /\ OptionsOf("end") = {}
  BY DEF OptionsOf
<1>10. CASE list # "none"
  <2>1. FitsIn(sc, u, i) <=> e.line.what \in OptionsOf(list)
    BY <1>2, <1>3, <1>4, <1>6, <1>7, <1>8, <1>10
  <2> QED BY <1>2, <1>3, <1>8, <1>9, <1>10, <2>1
<1>11. CASE list = "none"
  <2>1. ~FitsIn(sc, u, i)
    BY <1>4, <1>6, <1>7, <1>8, <1>9, <1>11
  <2> QED BY <1>2, <1>3, <1>9, <1>11, <2>1
<1> QED BY <1>10, <1>11

-----------------------------------------------------------------------------
(***************************************************************************)
(* The steps.                                                              *)
(***************************************************************************)
NewLine(l) == [line |-> l, file |-> Top.file, after |-> current_file]

LEMMA NewLineIs ==
    ASSUME NEW l
    PROVE  NewLine(l).line = l /\ NewLine(l).file = Top.file /\ NewLine(l).after = current_file
BY DEF NewLine

LEMMA LineIs ==
    ASSUME NEW kind, NEW l \in Line(kind)
    PROVE  phase = "reading" /\ sources # <<>> /\ l.what = kind
BY DEF Line

LEMMA InitReads == Init => IInv
<1> SUFFICES ASSUME Init
             PROVE  IInv
  OBVIOUS
<1>1. read = <<>> /\ phase = "reading" /\ sources = <<[file |-> MainFile, at |-> 0]>> /\ scanned = {}
      /\ menus = EmptyTree /\ blocks = <<>> /\ option_list = "none"
  BY DEF Init
<1>2. IsSeq(<<>>) /\ Len(<<>>) = 0
  <2>1. <<>> \in Seq({}) /\ Len(<<>>) = 0
    OBVIOUS
  <2> QED BY <2>1, SeqFromAny
<1>3. Files(<<[file |-> MainFile, at |-> 0]>>, {}, <<>>)
  <2>1. PICK x : x = [file |-> MainFile, at |-> 0]
    OBVIOUS
  <2>2. IsOpen(x) /\ x.file = MainFile
    BY <2>1 DEF IsOpen
  <2>3. PICK p : p = <<x>>
    OBVIOUS
  <2>4. p \in Seq({x}) /\ Len(p) = 1 /\ p[1] = x
    BY <2>3
  <2>5. IsSeq(p)
    BY <2>4, SeqFromAny
  <2>6. \A k \in 1..Len(p) : p[k] = x
    BY <2>4
  <2>7. {p[k].file : k \in 1..Len(p)} = {MainFile}
    <3>1. 1 \in 1..Len(p)
      BY <2>4
    <3> QED BY <2>2, <2>6, <3>1
  <2>8. Sourced(<<>>) = {MainFile}
    <3>1. {i \in 1..Len(<<>>) : What(<<>>, i) = "source"} = {}
      BY <1>2
    <3> QED BY <3>1 DEF Sourced
  <2>9. \A k \in 1..Len(p) : IsOpen(p[k])
    BY <2>2, <2>6
  <2>10. Files(p, {}, <<>>)
    BY <2>5, <2>7, <2>8, <2>9 DEF Files
  <2> QED BY <2>1, <2>3, <2>10
<1>4. IsTree(EmptyTree) /\ Len(EmptyTree.entry) = 1 /\ EmptyTree.current_menu = Root
  <2>1. PICK x : x = [sym |-> Nobody, file |-> Nobody, dep |-> {}, prompt |-> 1,
                      parent |-> Null, next |-> Null, list |-> Null]
    OBVIOUS
  <2>2. IsEntry(x)
    BY <2>1 DEF IsEntry
  <2>3. PICK E : E = <<x>>
    OBVIOUS
  <2>4. E \in Seq({x}) /\ Len(E) = 1 /\ E[1] = x
    BY <2>3
  <2>5. IsSeq(E)
    BY <2>4, SeqFromAny
  <2>6. \A k \in 1..Len(E) : IsEntry(E[k])
    BY <2>2, <2>4
  <2>7. PICK m : m = EmptyTree
    OBVIOUS
  <2>8. IsMenus(m)
    BY <2>7 DEF EmptyTree, IsMenus
  <2>9. m.entry = E /\ m.current_menu = Root /\ m.current_entry = Root /\ m.last_entry_ptr.of = Root
    BY <2>1, <2>3, <2>7 DEF EmptyTree
  <2>10. Root \in 1..Len(E)
    BY <2>4 DEF Root
  <2>11. IsTree(m)
    BY <2>5, <2>6, <2>8, <2>9, <2>10 DEF IsTree
  <2> QED BY <2>4, <2>7, <2>9, <2>11
<1>5. Owner(<<>>, 1) = 0
  <2>1. Owner(<<>>, 1) \in 0..(1 - 1)
    BY OwnerRange
  <2> QED BY <2>1
<1>6. EntryOf(<<>>, 0) = 1
  BY EntryNone
<1>7. Hung(EmptyTree, "none", condition, <<>>, <<>>, <<>>)
  <2>1. "none" \notin Pending /\ "none" \notin Statements
    BY DEF Pending, Statements
  <2>2. Heading(EmptyTree, <<>>, 0) /\ Placing(EmptyTree, <<>>, <<>>, 0)
    BY <1>2 DEF Heading, Placing
  <2>3. Upto(<<>>, <<>>, 0) = Root /\ Blocks(<<>>, <<>>, <<>>, 0)
    BY <1>2 DEF Upto, Blocks
  <2>4. HungAt(EmptyTree, "none", condition, <<>>, <<>>, <<>>, 0, 0, 0)
    BY <1>2, <1>4, <1>6, <2>1, <2>2, <2>3 DEF HungAt
  <2> QED BY <1>2, <1>5, <2>1, <2>4 DEF Hung
<1>8. Reading
  <2>1. IsSeq(read) /\ (\A i \in 1..Len(read) : FitsIn(script, read, i))
    BY <1>1, <1>2
  <2>2. Files(sources, scanned, read)
    BY <1>1, <1>3
  <2>3. Opened(read, <<>>) /\ Hung(menus, option_list, condition, blocks, read, <<>>)
    BY <1>1, <1>7, OpenedNone
  <2> QED BY <2>1, <2>2, <2>3 DEF Reading
<1>9. ReadRight
  BY <1>1 DEF ReadRight
<1> QED BY <1>8, <1>9 DEF IInv

\* A line is read that fits.
LEMMA Goes ==
    ASSUME Reading, phase = "reading", phase' = "reading", NEW l,
           read' = Append(read, NewLine(l)), script' = script,
           FitsIn(script, Append(read, NewLine(l)), Len(read) + 1),
           Files(sources', scanned', Append(read, NewLine(l))),
           NEW vs, Opened(Append(read, NewLine(l)), vs),
           Hung(menus', option_list', condition', blocks', Append(read, NewLine(l)), vs)
    PROVE  IInv'
<1>1. IsSeq(read) /\ \A i \in 1..Len(read) : FitsIn(script, read, i)
  BY DEF Reading
<1>2. PICK u : u = Append(read, NewLine(l))
  OBVIOUS
<1>3. PICK n \in Nat : n = Len(read)
  BY <1>1, SeqShape
<1>4. IsSeq(u) /\ Len(u) = n + 1
  BY <1>1, <1>2, <1>3, Pushed
<1>5. \A i \in 1..(n + 1) : FitsIn(script, u, i)
  <2>1. ASSUME NEW i \in 1..n
        PROVE  FitsIn(script, u, i)
    BY <1>1, <1>2, <1>3, FitsSame
  <2>2. FitsIn(script, u, n + 1)
    BY <1>2, <1>3
  <2>3. \A i \in 1..(n + 1) : i \in 1..n \/ i = n + 1
    OBVIOUS
  <2> QED BY <2>1, <2>2, <2>3
<1>6. Reading'
  BY <1>2, <1>4, <1>5 DEF Reading
<1>7. ReadRight'
  BY DEF ReadRight
<1> QED BY <1>6, <1>7 DEF IInv

\* A line is read that does not.
LEMMA Refused ==
    ASSUME Reading, phase = "reading", phase' = "rejected", NEW l,
           read' = Append(read, NewLine(l)), script' = script,
           ~FitsIn(script, Append(read, NewLine(l)), Len(read) + 1)
    PROVE  IInv'
<1>1. IsSeq(read) /\ \A i \in 1..Len(read) : FitsIn(script, read, i)
  BY DEF Reading
<1>2. PICK u : u = Append(read, NewLine(l))
  OBVIOUS
<1>3. PICK n \in Nat : n = Len(read)
  BY <1>1, SeqShape
<1>4. IsSeq(u) /\ Len(u) = n + 1 /\ u # <<>>
  <2>1. IsSeq(u) /\ Len(u) = n + 1
    BY <1>1, <1>2, <1>3, Pushed
  <2> QED BY <2>1, SeqShape
<1>5. \A i \in 1..n : FitsIn(script, u, i)
  BY <1>1, <1>2, <1>3, FitsSame
<1>6. ~FitsIn(script, u, n + 1)
  BY <1>2, <1>3
<1>7. \A i : Fits(read, i)' <=> FitsIn(script, u, i)
  BY <1>2 DEF Fits, FitsIn
<1>8. read' = u
  BY <1>2
<1>9. \A i \in 1..(Len(read) - 1)' : Fits(read, i)'
  <2>1. (Len(read) - 1)' = n
    BY <1>3, <1>4, <1>8
  <2> QED BY <1>5, <1>7, <2>1
<1>10. (read # <<>> /\ ~Fits(read, Len(read)))'
  <2>1. Len(read)' = n + 1
    BY <1>4, <1>8
  <2>2. ~FitsIn(script, u, Len(read)')
    BY <1>6, <2>1
  <2> QED BY <1>2, <1>4, <1>8, <2>2 DEF Fits, FitsIn
<1>11. ReadRight'
  BY <1>9, <1>10 DEF ReadRight
<1>12. Reading'
  BY DEF Reading
<1> QED BY <1>11, <1>12 DEF IInv

\* What every line does.
LEMMA TakenIs ==
    ASSUME NEW l, Taken(l)
    PROVE  read' = Append(read, NewLine(l)) /\ script' = script
BY DEF Taken, NewLine

LEMMA SteppedIs ==
    ASSUME Reading, phase = "reading", sources # <<>>, NEW l, Stepped(l), l.what # "source"
    PROVE  Files(sources', scanned', Append(read, NewLine(l)))
<1>1. IsSeq(read) /\ Files(sources, scanned, read)
  BY DEF Reading
<1>2. Files(After, IF EndsFile THEN scanned \union {Top.file} ELSE scanned, read)
  BY <1>1, FilesAfter
<1>3. NewLine(l).line.what # "source"
  BY NewLineIs
<1>4. PICK ss : ss = After
  OBVIOUS
<1>5. PICK sc : sc = IF EndsFile THEN scanned \union {Top.file} ELSE scanned
  OBVIOUS
<1>6. PICK t : t = read
  OBVIOUS
<1>7. PICK e : e = NewLine(l)
  OBVIOUS
<1>8. Files(ss, sc, Append(t, e))
  BY <1>1, <1>2, <1>3, <1>4, <1>5, <1>6, <1>7, FilesStay
<1>9. sources' = ss /\ scanned' = sc
  BY <1>4, <1>5 DEF Stepped, Taken
<1> QED BY <1>6, <1>7, <1>8, <1>9

\* What waits for the first token of a statement is done when it is read.
LEMMA NewStatement ==
    ASSUME Reading, phase = "reading", NEW l, l.what # "blank"
    PROVE  \E os : /\ Opened(read, os) /\ Hung(menus, option_list, condition, blocks, read, os)
                   /\ Ready(Begun(Top.file), Entered, read, os, NewLine(l))
<1>1. IsSeq(read)
  BY DEF Reading
<1>2. PICK os : Opened(read, os) /\ Hung(menus, option_list, condition, blocks, read, os)
  BY DEF Reading
<1>3. PICK t : t = read
  OBVIOUS
<1>4. PICK e : e = NewLine(l)
  OBVIOUS
<1>5. e.line.what # "blank" /\ e.file = Top.file
  BY <1>4, NewLineIs
<1>6. Ready(Begun(e.file), Entered, t, os, e)
  BY <1>1, <1>2, <1>3, <1>5, BegunIs
<1>7. Ready(Begun(Top.file), Entered, read, os, NewLine(l))
  BY <1>3, <1>4, <1>5, <1>6
<1> QED BY <1>2, <1>7

\* A statement that makes an entry and fits.
LEMMA EntryGoes ==
    ASSUME Reading, phase = "reading", phase' = "reading", sources # <<>>, NEW l, l.what \in Statements,
           Stepped(l), FitsIn(script, Append(read, NewLine(l)), Len(read) + 1),
           Added(Begun(Top.file), menus', current_file),
           option_list' = l.what, condition' = condition, blocks' = Entered
    PROVE  IInv'
<1>1. IsSeq(read)
  BY DEF Reading
<1>2. l.what # "blank" /\ l.what # "source" /\ l.what \notin {"if", "end"}
  BY DEF Statements
<1>3. PICK os : Opened(read, os) /\ Ready(Begun(Top.file), Entered, read, os, NewLine(l))
  BY <1>2, NewStatement
<1>4. PICK t : t = read
  OBVIOUS
<1>5. PICK e : e = NewLine(l)
  OBVIOUS
<1>6. e.line = l /\ e.after = current_file
  BY <1>5, NewLineIs
<1>7. PICK m : m = Begun(Top.file)
  OBVIOUS
<1>8. PICK bs : bs = Entered
  OBVIOUS
<1>9. PICK q : q = menus'
  OBVIOUS
<1>10. PICK c : c = condition
  OBVIOUS
<1>11. Added(m, q, e.after)
  BY <1>6, <1>7, <1>9
<1>12. Ready(m, bs, t, os, e) /\ Opened(t, os) /\ IsSeq(t)
  BY <1>1, <1>3, <1>4, <1>5, <1>7, <1>8
<1>13. PICK vs : vs = IF e.line.what \in Pending THEN Append(os, Len(t) + 1) ELSE os
  OBVIOUS
<1>14. Hung(q, e.line.what, c, bs, Append(t, e), vs)
  BY <1>6, <1>11, <1>12, <1>13, HungNew
<1>15. Opened(Append(t, e), vs)
  <2>1. CASE e.line.what \in Pending
    <3>1. e.line.what \in Opens
      BY <2>1, KindsApart
    <3> QED BY <1>12, <1>13, <2>1, <3>1, OpenedPush
  <2>2. CASE e.line.what \notin Pending
    <3>1. e.line.what \notin Opens \union {"end"}
      BY <1>2, <1>6, <2>2, KindsApart
    <3> QED BY <1>12, <1>13, <2>2, <3>1, OpenedKeep
  <2> QED BY <2>1, <2>2
<1>16. read' = Append(read, NewLine(l)) /\ script' = script
  BY TakenIs DEF Stepped
<1>17. Files(sources', scanned', Append(read, NewLine(l)))
  BY <1>2, SteppedIs
<1>18. Opened(Append(read, NewLine(l)), vs)
  BY <1>4, <1>5, <1>15
<1>19. Hung(menus', option_list', condition', blocks', Append(read, NewLine(l)), vs)
  BY <1>4, <1>5, <1>6, <1>8, <1>9, <1>10, <1>14
<1> QED BY <1>16, <1>17, <1>18, <1>19, Goes


LEMMA RejectIs ==
    ASSUME Reading, phase = "reading", NEW l, Reject(l),
           ~FitsIn(script, Append(read, NewLine(l)), Len(read) + 1)
    PROVE  IInv'
<1>1. phase' = "rejected" /\ Taken(l)
  BY DEF Reject, Stepped
<1>2. read' = Append(read, NewLine(l)) /\ script' = script
  BY <1>1, TakenIs
<1> QED BY <1>1, <1>2, Refused

\* The new line is the last one of the text.
LEMMA NewKind ==
    ASSUME Reading, phase = "reading", NEW l
    PROVE  What(Append(read, NewLine(l)), Len(read) + 1) = l.what
<1>1. IsSeq(read)
  BY DEF Reading
<1>2. PICK e : e = NewLine(l)
  OBVIOUS
<1>3. What(Append(read, e), Len(read) + 1) = e.line.what
  BY <1>1, WhatNew
<1> QED BY <1>2, <1>3, NewLineIs

\* The entries that are there when a statement comes are a tree.
LEMMA BegunTree ==
    ASSUME Reading, phase = "reading", NEW l, l.what # "blank"
    PROVE  IsTree(Begun(Top.file))
<1>1. \E os : Ready(Begun(Top.file), Entered, read, os, NewLine(l))
  BY NewStatement
<1> QED BY <1>1 DEF Ready

LEMMA FitsFree ==
    ASSUME Reading, phase = "reading", NEW l, l.what \notin Options \union {"end", "menu", "choice", "source"}
    PROVE  FitsIn(script, Append(read, NewLine(l)), Len(read) + 1)
<1>1. PICK u, i : u = Append(read, NewLine(l)) /\ i = Len(read) + 1
  OBVIOUS
<1>2. What(u, i) = l.what
  BY <1>1, NewKind
<1>3. FitsIn(script, u, i)
  BY <1>2, FitsKinds
<1> QED BY <1>1, <1>3

LEMMA ConfigGoes == Reading /\ phase = "reading" /\ Config => IInv'
<1> SUFFICES ASSUME Reading, phase = "reading", Config
             PROVE  IInv'
  OBVIOUS
<1>1. PICK kind \in {"config", "menuconfig"} : \E l \in Line(kind) :
        Statement(l, OptionalSym(menu_add_entry(Begun(Top.file), l.name, current_file), l.name), Entered, kind)
  BY DEF Config
<1>2. PICK l \in Line(kind) :
        Statement(l, OptionalSym(menu_add_entry(Begun(Top.file), l.name, current_file), l.name), Entered, kind)
  BY <1>1
<1>3. l.what = kind /\ sources # <<>>
  BY LineIs
<1>4. l.what \in Statements /\ l.what # "blank" /\ l.what \notin Options \union {"end", "menu", "choice", "source"}
  BY <1>3 DEF Statements, Options
<1>5. /\ Stepped(l) /\ menus' = OptionalSym(menu_add_entry(Begun(Top.file), l.name, current_file), l.name)
      /\ blocks' = Entered /\ option_list' = kind /\ condition' = condition /\ phase' = phase
  BY <1>2 DEF Statement
<1>6. PICK m : m = Begun(Top.file)
  OBVIOUS
<1>7. PICK f : f = current_file
  OBVIOUS
<1>8. IsTree(m)
  BY <1>4, <1>6, BegunTree
<1>9. PICK q : q = menu_add_entry(m, l.name, f)
  OBVIOUS
<1>10. PICK r : r = OptionalSym(q, l.name)
  OBVIOUS
<1>11. Added(m, q, f)
  BY <1>8, <1>9, AddedEntry
<1>12. IsTree(q)
  BY <1>11 DEF Added
<1>13. Alike(q, r)
  BY <1>10, <1>12, OptionalIs
<1>14. Added(m, r, f)
  BY <1>8, <1>11, <1>13, AddedAlike
<1>15. Added(Begun(Top.file), menus', current_file)
  BY <1>5, <1>6, <1>7, <1>9, <1>10, <1>14
<1>16. FitsIn(script, Append(read, NewLine(l)), Len(read) + 1)
  BY <1>4, FitsFree
<1> QED BY <1>3, <1>4, <1>5, <1>15, <1>16, EntryGoes

LEMMA CommentGoes == Reading /\ phase = "reading" /\ Comment => IInv'
<1> SUFFICES ASSUME Reading, phase = "reading", Comment
             PROVE  IInv'
  OBVIOUS
<1>2. PICK l \in Line("comment") :
        Statement(l, menu_add_prompt(menu_add_entry(Begun(Top.file), Nobody, current_file), "comment", {}),
                  Entered, "comment")
  BY DEF Comment
<1>3. l.what = "comment" /\ sources # <<>>
  BY LineIs
<1>4. l.what \in Statements /\ l.what # "blank" /\ l.what \notin Options \union {"end", "menu", "choice", "source"}
  BY <1>3 DEF Statements, Options
<1>5. /\ Stepped(l)
      /\ menus' = menu_add_prompt(menu_add_entry(Begun(Top.file), Nobody, current_file), "comment", {})
      /\ blocks' = Entered /\ option_list' = "comment" /\ condition' = condition /\ phase' = phase
  BY <1>2 DEF Statement
<1>6. PICK m : m = Begun(Top.file)
  OBVIOUS
<1>7. PICK f : f = current_file
  OBVIOUS
<1>8. IsTree(m)
  BY <1>4, <1>6, BegunTree
<1>9. PICK q : q = menu_add_entry(m, Nobody, f)
  OBVIOUS
<1>10. PICK r : r = menu_add_prompt(q, "comment", {})
  OBVIOUS
<1>11. Added(m, q, f)
  BY <1>8, <1>9, AddedEntry
<1>12. IsTree(q)
  BY <1>11 DEF Added
<1>13. Alike(q, r)
  BY <1>10, <1>12, PromptIs
<1>14. Added(m, r, f)
  BY <1>8, <1>11, <1>13, AddedAlike
<1>15. Added(Begun(Top.file), menus', current_file)
  BY <1>5, <1>6, <1>7, <1>9, <1>10, <1>14
<1>16. FitsIn(script, Append(read, NewLine(l)), Len(read) + 1)
  BY <1>4, FitsFree
<1> QED BY <1>3, <1>4, <1>5, <1>15, <1>16, EntryGoes

\* A menu and a choice fit unless they stand directly in a choice.
LEMMA FitsHere ==
    ASSUME Reading, phase = "reading", NEW l, l.what \in {"menu", "choice"}
    PROVE  FitsIn(script, Append(read, NewLine(l)), Len(read) + 1) <=> ~Misplaced
<1>1. PICK t, e, sc : t = read /\ e = NewLine(l) /\ sc = script
  OBVIOUS
<1>2. e.line.what \in {"menu", "choice"}
  BY <1>1, NewLineIs
<1>3. l.what # "blank"
  OBVIOUS
<1>4. PICK os : Opened(read, os) /\ Ready(Begun(Top.file), Entered, read, os, NewLine(l))
  BY <1>3, NewStatement
<1>5. IsSeq(t) /\ Opened(t, os) /\ Blocks(Entered, t, os, Len(os))
  BY <1>1, <1>4 DEF Ready, Reading
<1>6. FitsIn(sc, Append(t, e), Len(t) + 1) <=> ~Misplaced
  BY <1>2, <1>5, FitsPlaced
<1> QED BY <1>1, <1>6

LEMMA MenuGoes == Reading /\ phase = "reading" /\ Menu => IInv'
<1> SUFFICES ASSUME Reading, phase = "reading", Menu
             PROVE  IInv'
  OBVIOUS
<1>2. PICK l \in Line("menu") :
        IF Misplaced THEN Reject(l)
        ELSE Statement(l, menu_add_prompt(menu_add_entry(Begun(Top.file), Nobody, current_file), "menu", {}),
                       Entered, "menu")
  BY DEF Menu
<1>3. l.what = "menu" /\ sources # <<>>
  BY LineIs
<1>4. l.what \in Statements /\ l.what # "blank" /\ l.what \in {"menu", "choice"}
  BY <1>3 DEF Statements
<1>16. FitsIn(script, Append(read, NewLine(l)), Len(read) + 1) <=> ~Misplaced
  BY <1>4, FitsHere
<1>17. ASSUME Misplaced
       PROVE  IInv'
  BY <1>2, <1>16, <1>17, RejectIs
<1>18. ASSUME ~Misplaced
       PROVE  IInv'
  <2>5. /\ Stepped(l)
        /\ menus' = menu_add_prompt(menu_add_entry(Begun(Top.file), Nobody, current_file), "menu", {})
        /\ blocks' = Entered /\ option_list' = "menu" /\ condition' = condition /\ phase' = phase
    BY <1>2, <1>18 DEF Statement
  <2>6. PICK m : m = Begun(Top.file)
    OBVIOUS
  <2>7. PICK f : f = current_file
    OBVIOUS
  <2>8. IsTree(m)
    BY <1>4, <2>6, BegunTree
  <2>9. PICK q : q = menu_add_entry(m, Nobody, f)
    OBVIOUS
  <2>10. PICK r : r = menu_add_prompt(q, "menu", {})
    OBVIOUS
  <2>11. Added(m, q, f)
    BY <2>8, <2>9, AddedEntry
  <2>12. IsTree(q)
    BY <2>11 DEF Added
  <2>13. Alike(q, r)
    BY <2>10, <2>12, PromptIs
  <2>14. Added(m, r, f)
    BY <2>8, <2>11, <2>13, AddedAlike
  <2>15. Added(Begun(Top.file), menus', current_file)
    BY <2>5, <2>6, <2>7, <2>9, <2>10, <2>14
  <2> QED BY <1>3, <1>4, <1>16, <1>18, <2>5, <2>15, EntryGoes
<1> QED BY <1>17, <1>18

LEMMA ChoiceGoes == Reading /\ phase = "reading" /\ Choice => IInv'
<1> SUFFICES ASSUME Reading, phase = "reading", Choice
             PROVE  IInv'
  OBVIOUS
<1>2. PICK l \in Line("choice") :
        IF Misplaced THEN Reject(l)
        ELSE Statement(l, menu_add_symbol(menu_add_entry(Begun(Top.file), Len(Begun(Top.file).entry) + 1, current_file),
                                          "choice", Nobody, {}),
                       Entered, "choice")
  BY DEF Choice
<1>3. l.what = "choice" /\ sources # <<>>
  BY LineIs
<1>4. l.what \in Statements /\ l.what # "blank" /\ l.what \in {"menu", "choice"}
  BY <1>3 DEF Statements
<1>16. FitsIn(script, Append(read, NewLine(l)), Len(read) + 1) <=> ~Misplaced
  BY <1>4, FitsHere
<1>17. ASSUME Misplaced
       PROVE  IInv'
  BY <1>2, <1>16, <1>17, RejectIs
<1>18. ASSUME ~Misplaced
       PROVE  IInv'
  <2>5. /\ Stepped(l)
        /\ menus' = menu_add_symbol(menu_add_entry(Begun(Top.file), Len(Begun(Top.file).entry) + 1, current_file),
                                    "choice", Nobody, {})
        /\ blocks' = Entered /\ option_list' = "choice" /\ condition' = condition /\ phase' = phase
    BY <1>2, <1>18 DEF Statement
  <2>6. PICK m : m = Begun(Top.file)
    OBVIOUS
  <2>7. PICK f : f = current_file
    OBVIOUS
  <2>8. IsTree(m)
    BY <1>4, <2>6, BegunTree
  <2>s. PICK s : s = Len(m.entry) + 1
    OBVIOUS
  <2>9. PICK q : q = menu_add_entry(m, s, f)
    OBVIOUS
  <2>10. PICK r : r = menu_add_symbol(q, "choice", Nobody, {})
    OBVIOUS
  <2>11. Added(m, q, f)
    BY <2>8, <2>9, AddedEntry
  <2>12. IsTree(q)
    BY <2>11 DEF Added
  <2>13. Alike(q, r)
    BY <2>10, <2>12, SymbolIs
  <2>14. Added(m, r, f)
    BY <2>8, <2>11, <2>13, AddedAlike
  <2>15. Added(Begun(Top.file), menus', current_file)
    BY <2>5, <2>6, <2>7, <2>s, <2>9, <2>10, <2>14
  <2> QED BY <1>3, <1>4, <1>16, <1>18, <2>5, <2>15, EntryGoes
<1> QED BY <1>17, <1>18


LEMMA IfGoes == Reading /\ phase = "reading" /\ If => IInv'
<1> SUFFICES ASSUME Reading, phase = "reading", If
             PROVE  IInv'
  OBVIOUS
<1>1. PICK l \in Line("if") : /\ Stepped(l)
                              /\ menus' = Begun(Top.file) /\ blocks' = Entered
                              /\ option_list' = "if" /\ condition' = l.on
                              /\ phase' = phase
  BY DEF If
<1>2. l.what = "if" /\ sources # <<>>
  BY LineIs
<1>3. l.what # "blank" /\ l.what # "source" /\ l.what \notin Options \union {"end", "menu", "choice", "source"}
  BY <1>2 DEF Options
<1>4. PICK os : Opened(read, os) /\ Ready(Begun(Top.file), Entered, read, os, NewLine(l))
  BY <1>3, NewStatement
<1>5. PICK t, e : t = read /\ e = NewLine(l)
  OBVIOUS
<1>6. PICK m, bs : m = Begun(Top.file) /\ bs = Entered
  OBVIOUS
<1>7. e.line = l
  BY <1>5, NewLineIs
<1>8. IsSeq(t) /\ Opened(t, os) /\ Ready(m, bs, t, os, e)
  BY <1>4, <1>5, <1>6 DEF Reading
<1>9. PICK vs : vs = Append(os, Len(t) + 1)
  OBVIOUS
<1>10. Hung(m, "if", e.line.on, bs, Append(t, e), vs)
  BY <1>2, <1>7, <1>8, <1>9, HungIf
<1>11. e.line.what \in Opens
  BY <1>2, <1>7 DEF Opens
<1>12. Opened(Append(t, e), vs)
  BY <1>8, <1>9, <1>11, OpenedPush
<1>13. FitsIn(script, Append(read, NewLine(l)), Len(read) + 1)
  BY <1>3, FitsFree
<1>14. Files(sources', scanned', Append(read, NewLine(l)))
  BY <1>1, <1>2, <1>3, SteppedIs
<1>15. read' = Append(read, NewLine(l)) /\ script' = script
  BY <1>1, TakenIs DEF Stepped
<1>16. Hung(menus', option_list', condition', blocks', Append(read, NewLine(l)), vs)
  BY <1>1, <1>5, <1>6, <1>7, <1>10
<1>17. Opened(Append(read, NewLine(l)), vs)
  BY <1>5, <1>12
<1> QED BY <1>1, <1>13, <1>14, <1>15, <1>16, <1>17, Goes

\* The files that are open or read are those of the text.
LEMMA SourcesAre ==
    ASSUME Files(sources, scanned, read)
    PROVE  scanned \union {s.file : s \in ToSet(sources)} = Sourced(read)
<1>1. IsSeq(sources)
  BY DEF Files
<1>2. DOMAIN sources = 1..Len(sources)
  BY <1>1, SeqShape
<1>3. {s.file : s \in ToSet(sources)} = {sources[k].file : k \in 1..Len(sources)}
  BY <1>2 DEF ToSet
<1> QED BY <1>3 DEF Files

LEMMA SourceGoes == Reading /\ phase = "reading" /\ Source => IInv'
<1> SUFFICES ASSUME Reading, phase = "reading", Source
             PROVE  IInv'
  OBVIOUS
<1>1. PICK l \in Line("source") :
        IF l.file \notin DOMAIN script \/ l.file \in scanned \union {s.file : s \in ToSet(sources)} THEN Reject(l)
        ELSE /\ Taken(l)
             /\ sources' = Append(After, [file |-> l.file, at |-> 0])
             /\ menus' = Begun(Top.file) /\ blocks' = Entered /\ option_list' = "none"
             /\ condition' = condition /\ phase' = phase
  BY DEF Source
<1>2. l.what = "source" /\ sources # <<>>
  BY LineIs
<1>3. l.what # "blank"
  BY <1>2
<1>4. PICK t, e, sc : t = read /\ e = NewLine(l) /\ sc = script
  OBVIOUS
<1>5. e.line = l
  BY <1>4, NewLineIs
<1>6. IsSeq(t) /\ Files(sources, scanned, read)
  BY <1>4 DEF Reading
<1>7. FitsIn(sc, Append(t, e), Len(t) + 1) <=> e.line.file \in DOMAIN sc /\ e.line.file \notin Sourced(t)
  BY <1>2, <1>5, <1>6, FitsSource
<1>8. scanned \union {s.file : s \in ToSet(sources)} = Sourced(read)
  BY <1>6, SourcesAre
<1>9. FitsIn(script, Append(read, NewLine(l)), Len(read) + 1)
        <=> ~(l.file \notin DOMAIN script \/ l.file \in scanned \union {s.file : s \in ToSet(sources)})
  BY <1>4, <1>5, <1>7, <1>8
<1>10. ASSUME l.file \notin DOMAIN script \/ l.file \in scanned \union {s.file : s \in ToSet(sources)}
       PROVE  IInv'
  BY <1>1, <1>9, <1>10, RejectIs
<1>11. ASSUME ~(l.file \notin DOMAIN script \/ l.file \in scanned \union {s.file : s \in ToSet(sources)})
       PROVE  IInv'
  <2>1. /\ Taken(l)
        /\ sources' = Append(After, [file |-> l.file, at |-> 0])
        /\ menus' = Begun(Top.file) /\ blocks' = Entered /\ option_list' = "none"
        /\ condition' = condition /\ phase' = phase
    BY <1>1, <1>11
  <2>2. read' = Append(read, NewLine(l)) /\ script' = script
    BY <2>1, TakenIs
  <2>3. PICK os : Opened(read, os) /\ Ready(Begun(Top.file), Entered, read, os, NewLine(l))
    BY <1>3, NewStatement
  <2>4. PICK m, bs, c : m = Begun(Top.file) /\ bs = Entered /\ c = condition
    OBVIOUS
  <2>5. Opened(t, os) /\ Ready(m, bs, t, os, e)
    BY <1>4, <2>3, <2>4
  <2>6. Hung(m, "none", c, bs, Append(t, e), os)
    BY <1>2, <1>5, <1>6, <2>5, HungSource
  <2>7. e.line.what \notin Opens \union {"end"}
    BY <1>2, <1>5 DEF Opens
  <2>8. Opened(Append(t, e), os)
    BY <1>6, <2>5, <2>7, OpenedKeep
  <2>9. Files(sources', scanned', Append(read, NewLine(l)))
    <3>1. PICK ss : ss = After
      OBVIOUS
    <3>2. PICK sd : sd = IF EndsFile THEN scanned \union {Top.file} ELSE scanned
      OBVIOUS
    <3>3. Files(ss, sd, t)
      BY <1>2, <1>4, <1>6, <3>1, <3>2, FilesAfter
    <3>4. PICK f, st : f = l.file /\ st = Append(ss, [file |-> f, at |-> 0])
      OBVIOUS
    <3>5. IsSeq(st) /\ (\A k \in 1..Len(st) : IsOpen(st[k])) /\ sd \union {st[k].file : k \in 1..Len(st)} = Sourced(t) \union {f}
      BY <3>3, <3>4, FilesPush
    <3>6. Sourced(Append(t, e)) = Sourced(t) \union {f}
      BY <1>2, <1>5, <1>6, <3>4, SourcedNext
    <3>7. Files(st, sd, Append(t, e))
      BY <3>5, <3>6 DEF Files
    <3>8. sources' = st /\ scanned' = sd
      BY <2>1, <3>1, <3>2, <3>4 DEF Taken
    <3> QED BY <1>4, <3>7, <3>8
  <2>10. FitsIn(script, Append(read, NewLine(l)), Len(read) + 1)
    BY <1>9, <1>11
  <2>11. Opened(Append(read, NewLine(l)), os)
    BY <1>4, <2>8
  <2>12. Hung(menus', option_list', condition', blocks', Append(read, NewLine(l)), os)
    BY <1>4, <2>1, <2>4, <2>6
  <2>13. phase' = "reading"
    BY <2>1
  <2> QED BY <2>2, <2>9, <2>10, <2>11, <2>12, <2>13, Goes
<1> QED BY <1>10, <1>11

LEMMA EndGoes == Reading /\ phase = "reading" /\ End => IInv'
<1> SUFFICES ASSUME Reading, phase = "reading", End
             PROVE  IInv'
  OBVIOUS
<1>1. PICK l \in Line("end") :
        IF EndAllowed(Begun(Top.file), Entered, l.of)
        THEN Statement(l, menu_end_menu(Begun(Top.file)), Front(Entered), "none")
        ELSE Reject(l)
  BY DEF End
<1>2. l.what = "end" /\ sources # <<>>
  BY LineIs
<1>3. l.what # "blank" /\ l.what # "source"
  BY <1>2
<1>4. PICK os : Opened(read, os) /\ Ready(Begun(Top.file), Entered, read, os, NewLine(l))
  BY <1>3, NewStatement
<1>5. PICK t, e, sc, c : t = read /\ e = NewLine(l) /\ sc = script /\ c = condition
  OBVIOUS
<1>6. PICK m, bs : m = Begun(Top.file) /\ bs = Entered
  OBVIOUS
<1>7. e.line = l /\ e.after = current_file
  BY <1>5, NewLineIs
<1>8. IsSeq(t) /\ Opened(t, os) /\ Ready(m, bs, t, os, e)
  BY <1>4, <1>5, <1>6 DEF Reading
<1>9. /\ FitsIn(sc, Append(t, e), Len(t) + 1) <=> EndAllowed(m, bs, e.line.of)
      /\ EndAllowed(m, bs, e.line.of) => os # <<>>
  BY <1>2, <1>7, <1>8, FitsEnd
<1>10. FitsIn(script, Append(read, NewLine(l)), Len(read) + 1) <=> EndAllowed(Begun(Top.file), Entered, l.of)
  BY <1>5, <1>6, <1>7, <1>9
<1>11. ASSUME ~EndAllowed(Begun(Top.file), Entered, l.of)
       PROVE  IInv'
  BY <1>1, <1>10, <1>11, RejectIs
<1>12. ASSUME EndAllowed(Begun(Top.file), Entered, l.of)
       PROVE  IInv'
  <2>1. /\ Stepped(l) /\ menus' = menu_end_menu(Begun(Top.file)) /\ blocks' = Front(Entered)
        /\ option_list' = "none" /\ condition' = condition /\ phase' = phase
    BY <1>1, <1>12 DEF Statement
  <2>2. os # <<>>
    BY <1>6, <1>7, <1>9, <1>12
  <2>3. PICK vs : vs = SubSeq(os, 1, Len(os) - 1)
    OBVIOUS
  <2>4. Opened(Append(t, e), vs)
    BY <1>2, <1>7, <1>8, <2>2, <2>3, OpenedPop
  <2>5. Hung(menu_end_menu(m), "none", c, SubSeq(bs, 1, Len(bs) - 1), Append(t, e), vs)
    BY <1>2, <1>7, <1>8, <2>2, <2>3, HungEnd
  <2>6. Front(bs) = SubSeq(bs, 1, Len(bs) - 1)
    BY DEF Front
  <2>7. Hung(menus', option_list', condition', blocks', Append(read, NewLine(l)), vs)
    BY <1>5, <1>6, <2>1, <2>5, <2>6
  <2>8. Opened(Append(read, NewLine(l)), vs)
    BY <1>5, <2>4
  <2>9. read' = Append(read, NewLine(l)) /\ script' = script
    BY <2>1, TakenIs DEF Stepped
  <2>10. Files(sources', scanned', Append(read, NewLine(l)))
    BY <1>2, <1>3, <2>1, SteppedIs
  <2>11. FitsIn(script, Append(read, NewLine(l)), Len(read) + 1)
    BY <1>10, <1>12
  <2>12. phase' = "reading"
    BY <2>1
  <2> QED BY <2>7, <2>8, <2>9, <2>10, <2>11, <2>12, Goes
<1> QED BY <1>11, <1>12

LEMMA BlankGoes == Reading /\ phase = "reading" /\ Blank => IInv'
<1> SUFFICES ASSUME Reading, phase = "reading", Blank
             PROVE  IInv'
  OBVIOUS
<1>1. PICK l \in Line("blank") :
        /\ Stepped(l) /\ menus' = menus /\ blocks' = blocks /\ option_list' = option_list
        /\ condition' = condition /\ phase' = phase
  BY DEF Blank
<1>2. l.what = "blank" /\ sources # <<>>
  BY LineIs
<1>3. l.what # "source" /\ l.what \notin Options \union {"end", "menu", "choice", "source"}
  BY <1>2 DEF Options
<1>4. PICK os : Opened(read, os) /\ Hung(menus, option_list, condition, blocks, read, os)
  BY DEF Reading
<1>5. PICK t, e, c : t = read /\ e = NewLine(l) /\ c = condition
  OBVIOUS
<1>6. PICK m, bs, list : m = menus /\ bs = blocks /\ list = option_list
  OBVIOUS
<1>7. e.line = l
  BY <1>5, NewLineIs
<1>8. IsSeq(t) /\ Opened(t, os) /\ Hung(m, list, c, bs, t, os)
  BY <1>4, <1>5, <1>6 DEF Reading
<1>9. IsTree(m)
  BY <1>8 DEF Hung, HungAt
<1>10. e.line.what \in Options \union {"blank"} /\ ~(e.line.what # "blank") /\ e.line.what # "depends"
  BY <1>2, <1>7
<1>11. \A i \in 1..Len(t) : What(t, i) \in Heads /\ HeadOK(m, t, i) /\ EntryOf(t, i) \in 1..Len(m.entry)
                                 => m.entry[EntryOf(t, i)].dep = Own(Append(t, e), i)
  BY <1>8, <1>10, OwnSame DEF HeadOK
<1>12. Hung(m, list, c, bs, Append(t, e), os)
  BY <1>8, <1>9, <1>10, <1>11, HungStay
<1>13. e.line.what \notin Opens \union {"end"}
  BY <1>2, <1>7 DEF Opens
<1>14. Opened(Append(t, e), os)
  BY <1>8, <1>13, OpenedKeep
<1>15. FitsIn(script, Append(read, NewLine(l)), Len(read) + 1)
  BY <1>3, FitsFree
<1>16. Files(sources', scanned', Append(read, NewLine(l)))
  BY <1>1, <1>2, <1>3, SteppedIs
<1>17. read' = Append(read, NewLine(l)) /\ script' = script
  BY <1>1, TakenIs DEF Stepped
<1>18. Hung(menus', option_list', condition', blocks', Append(read, NewLine(l)), os)
  BY <1>1, <1>5, <1>6, <1>12
<1>19. Opened(Append(read, NewLine(l)), os)
  BY <1>5, <1>14
<1> QED BY <1>1, <1>15, <1>16, <1>17, <1>18, <1>19, Goes


-----------------------------------------------------------------------------
(***************************************************************************)
(* The lines that belong to a statement.                                   *)
(***************************************************************************)
LEMMA NowTree == Reading /\ phase = "reading" => IsTree(menus)
BY DEF Reading, Hung, HungAt

LEMMA OptionFits ==
    ASSUME Reading, phase = "reading", NEW l, l.what \in Options
    PROVE  /\ FitsIn(script, Append(read, NewLine(l)), Len(read) + 1) <=> l.what \in OptionsOf(option_list)
           /\ l.what \in OptionsOf(option_list) => option_list \in Statements
<1>1. PICK t, e, sc : t = read /\ e = NewLine(l) /\ sc = script
  OBVIOUS
<1>2. PICK m, list, c, bs : m = menus /\ list = option_list /\ c = condition /\ bs = blocks
  OBVIOUS
<1>3. PICK os : Hung(m, list, c, bs, t, os)
  BY <1>1, <1>2 DEF Reading
<1>4. IsSeq(t) /\ e.line = l
  BY <1>1, NewLineIs DEF Reading
<1>5. /\ FitsIn(sc, Append(t, e), Len(t) + 1) <=> e.line.what \in OptionsOf(list)
      /\ e.line.what \in OptionsOf(list) => list \in Statements
  BY <1>3, <1>4, FitsOption
<1> QED BY <1>1, <1>2, <1>4, <1>5

\* A line that fits and is about the last entry: the conditions of the entries are
\* what the text has then.
LEMMA LineGoes ==
    ASSUME Reading, phase = "reading", phase' = "reading", sources # <<>>, NEW l, l.what \in Options,
           l.what \in OptionsOf(option_list), Stepped(l),
           blocks' = blocks, option_list' = option_list, condition' = condition,
           NEW os, Opened(read, os), Hung(menus, option_list, condition, blocks, read, os),
           NEW q, q = menus', IsTree(q), Len(q.entry) = Len(menus.entry),
           q.current_menu = menus.current_menu, q.current_entry = menus.current_entry,
           \A x \in 1..Len(menus.entry) :
              q.entry[x].parent = menus.entry[x].parent /\ q.entry[x].file = menus.entry[x].file,
           \A i \in 1..Len(read) : What(read, i) \in Heads /\ HeadOK(menus, read, i) /\ EntryOf(read, i) \in 1..Len(menus.entry)
                                 => q.entry[EntryOf(read, i)].dep = Own(Append(read, NewLine(l)), i)
    PROVE  IInv'
<1>1. PICK t, e, c : t = read /\ e = NewLine(l) /\ c = condition
  OBVIOUS
<1>2. PICK m, bs, list : m = menus /\ bs = blocks /\ list = option_list
  OBVIOUS
<1>3. e.line = l
  BY <1>1, NewLineIs
<1>4. IsSeq(t) /\ Opened(t, os) /\ Hung(m, list, c, bs, t, os)
  BY <1>1, <1>2 DEF Reading
<1>5. list \in Statements
  BY <1>2, OptionFits
<1>6. e.line.what \in Options \union {"blank"}
  BY <1>3
<1>7. IsTree(q) /\ Len(q.entry) = Len(m.entry) /\ q.current_menu = m.current_menu /\ q.current_entry = m.current_entry
  BY <1>2
<1>8. \A x \in 1..Len(m.entry) : q.entry[x].parent = m.entry[x].parent /\ q.entry[x].file = m.entry[x].file
  BY <1>2
<1>9. \A i \in 1..Len(t) : What(t, i) \in Heads /\ HeadOK(m, t, i) /\ EntryOf(t, i) \in 1..Len(m.entry)
                                 => q.entry[EntryOf(t, i)].dep = Own(Append(t, e), i)
  BY <1>1, <1>2
<1>10. Hung(q, list, c, bs, Append(t, e), os)
  BY <1>4, <1>5, <1>6, <1>7, <1>8, <1>9, HungStay
<1>11. e.line.what \notin Opens \union {"end"} /\ l.what # "source"
  BY <1>3 DEF Opens, Options
<1>12. Opened(Append(t, e), os)
  BY <1>4, <1>11, OpenedKeep
<1>13. FitsIn(script, Append(read, NewLine(l)), Len(read) + 1)
  BY OptionFits
<1>14. Files(sources', scanned', Append(read, NewLine(l)))
  BY <1>11, SteppedIs
<1>15. read' = Append(read, NewLine(l)) /\ script' = script
  BY TakenIs DEF Stepped
<1>16. Hung(menus', option_list', condition', blocks', Append(read, NewLine(l)), os)
  BY <1>1, <1>2, <1>10
<1>17. Opened(Append(read, NewLine(l)), os)
  BY <1>1, <1>12
<1> QED BY <1>13, <1>14, <1>15, <1>16, <1>17, Goes

\* One that is no condition leaves the entries where they are.
LEMMA OptionGoes ==
    ASSUME Reading, phase = "reading", phase' = "reading", sources # <<>>, NEW l, l.what \in Options,
           l.what # "depends", l.what \in OptionsOf(option_list), Stepped(l), Alike(menus, menus'),
           blocks' = blocks, option_list' = option_list, condition' = condition
    PROVE  IInv'
<1>1. PICK os : Opened(read, os) /\ Hung(menus, option_list, condition, blocks, read, os)
  BY DEF Reading
<1>2. PICK q : q = menus'
  OBVIOUS
<1>3. Alike(menus, q)
  BY <1>2
<1>4. IsTree(q) /\ Len(q.entry) = Len(menus.entry)
      /\ q.current_menu = menus.current_menu /\ q.current_entry = menus.current_entry
  BY <1>3 DEF Alike
<1>5. \A x \in 1..Len(menus.entry) :
         /\ q.entry[x].parent = menus.entry[x].parent /\ q.entry[x].file = menus.entry[x].file
         /\ q.entry[x].dep = menus.entry[x].dep
  BY <1>3 DEF Alike, Same
<1>6. PICK e : e = NewLine(l)
  OBVIOUS
<1>7. e.line.what # "depends" /\ IsSeq(read)
  BY <1>6, NewLineIs DEF Reading
<1>8. \A i \in 1..Len(read) : Own(Append(read, e), i) = Own(read, i)
  BY <1>7, OwnSame
<1>9. \A i \in 1..Len(read) : What(read, i) \in Heads /\ HeadOK(menus, read, i) /\ EntryOf(read, i) \in 1..Len(menus.entry)
                                 => q.entry[EntryOf(read, i)].dep = Own(Append(read, NewLine(l)), i)
  BY <1>5, <1>6, <1>8 DEF HeadOK
<1> QED BY <1>1, <1>2, <1>4, <1>5, <1>9, LineGoes

LEMMA TypeGoes == Reading /\ phase = "reading" /\ Type => IInv'
<1> SUFFICES ASSUME Reading, phase = "reading", Type
             PROVE  IInv'
  OBVIOUS
<1>1. PICK l \in Line("type") :
        IF "type" \in OptionsOf(option_list)
        THEN Statement(l, menu_set_type(menus, l.type), blocks, option_list)
        ELSE Reject(l)
  BY DEF Type, Option
<1>2. l.what = "type" /\ sources # <<>>
  BY LineIs
<1>3. l.what \in Options /\ l.what # "depends"
  BY <1>2 DEF Options
<1>4. FitsIn(script, Append(read, NewLine(l)), Len(read) + 1) <=> l.what \in OptionsOf(option_list)
  BY <1>3, OptionFits
<1>5. ASSUME l.what \notin OptionsOf(option_list)
      PROVE  IInv'
  BY <1>1, <1>2, <1>4, <1>5, RejectIs
<1>6. ASSUME l.what \in OptionsOf(option_list)
      PROVE  IInv'
  <2>1. /\ Stepped(l) /\ menus' = menu_set_type(menus, l.type) /\ blocks' = blocks
        /\ option_list' = option_list /\ condition' = condition /\ phase' = phase
    BY <1>1, <1>2, <1>6 DEF Statement
  <2>2. IsTree(menus)
    BY NowTree
  <2>3. Alike(menus, menus')
    BY <2>1, <2>2, TypeIs
  <2>4. phase' = "reading"
    BY <2>1
  <2> QED BY <1>2, <1>3, <1>6, <2>1, <2>3, <2>4, OptionGoes
<1> QED BY <1>5, <1>6

LEMMA PromptGoes == Reading /\ phase = "reading" /\ Prompt => IInv'
<1> SUFFICES ASSUME Reading, phase = "reading", Prompt
             PROVE  IInv'
  OBVIOUS
<1>1. PICK l \in Line("prompt") :
        IF "prompt" \in OptionsOf(option_list)
        THEN Statement(l, menu_add_prompt(menus, "prompt", l.on), blocks, option_list)
        ELSE Reject(l)
  BY DEF Prompt, Option
<1>2. l.what = "prompt" /\ sources # <<>>
  BY LineIs
<1>3. l.what \in Options /\ l.what # "depends"
  BY <1>2 DEF Options
<1>4. FitsIn(script, Append(read, NewLine(l)), Len(read) + 1) <=> l.what \in OptionsOf(option_list)
  BY <1>3, OptionFits
<1>5. ASSUME l.what \notin OptionsOf(option_list)
      PROVE  IInv'
  BY <1>1, <1>2, <1>4, <1>5, RejectIs
<1>6. ASSUME l.what \in OptionsOf(option_list)
      PROVE  IInv'
  <2>1. /\ Stepped(l) /\ menus' = menu_add_prompt(menus, "prompt", l.on) /\ blocks' = blocks
        /\ option_list' = option_list /\ condition' = condition /\ phase' = phase
    BY <1>1, <1>2, <1>6 DEF Statement
  <2>2. IsTree(menus)
    BY NowTree
  <2>3. Alike(menus, menus')
    BY <2>1, <2>2, PromptIs
  <2>4. phase' = "reading"
    BY <2>1
  <2> QED BY <1>2, <1>3, <1>6, <2>1, <2>3, <2>4, OptionGoes
<1> QED BY <1>5, <1>6

LEMMA DefaultToGoes == Reading /\ phase = "reading" /\ DefaultTo => IInv'
<1> SUFFICES ASSUME Reading, phase = "reading", DefaultTo
             PROVE  IInv'
  OBVIOUS
<1>1. PICK l \in Line("default") :
        IF "default" \in OptionsOf(option_list)
        THEN Statement(l, menu_add_symbol(menus, "default", l.name, l.on), blocks, option_list)
        ELSE Reject(l)
  BY DEF DefaultTo, Option
<1>2. l.what = "default" /\ sources # <<>>
  BY LineIs
<1>3. l.what \in Options /\ l.what # "depends"
  BY <1>2 DEF Options
<1>4. FitsIn(script, Append(read, NewLine(l)), Len(read) + 1) <=> l.what \in OptionsOf(option_list)
  BY <1>3, OptionFits
<1>5. ASSUME l.what \notin OptionsOf(option_list)
      PROVE  IInv'
  BY <1>1, <1>2, <1>4, <1>5, RejectIs
<1>6. ASSUME l.what \in OptionsOf(option_list)
      PROVE  IInv'
  <2>1. /\ Stepped(l) /\ menus' = menu_add_symbol(menus, "default", l.name, l.on) /\ blocks' = blocks
        /\ option_list' = option_list /\ condition' = condition /\ phase' = phase
    BY <1>1, <1>2, <1>6 DEF Statement
  <2>2. IsTree(menus)
    BY NowTree
  <2>3. Alike(menus, menus')
    BY <2>1, <2>2, SymbolIs
  <2>4. phase' = "reading"
    BY <2>1
  <2> QED BY <1>2, <1>3, <1>6, <2>1, <2>3, <2>4, OptionGoes
<1> QED BY <1>5, <1>6

LEMMA SelectGoes == Reading /\ phase = "reading" /\ Select => IInv'
<1> SUFFICES ASSUME Reading, phase = "reading", Select
             PROVE  IInv'
  OBVIOUS
<1>1. PICK l \in Line("select") :
        IF "select" \in OptionsOf(option_list)
        THEN Statement(l, menu_add_symbol(menus, "select", l.name, l.on), blocks, option_list)
        ELSE Reject(l)
  BY DEF Select, Option
<1>2. l.what = "select" /\ sources # <<>>
  BY LineIs
<1>3. l.what \in Options /\ l.what # "depends"
  BY <1>2 DEF Options
<1>4. FitsIn(script, Append(read, NewLine(l)), Len(read) + 1) <=> l.what \in OptionsOf(option_list)
  BY <1>3, OptionFits
<1>5. ASSUME l.what \notin OptionsOf(option_list)
      PROVE  IInv'
  BY <1>1, <1>2, <1>4, <1>5, RejectIs
<1>6. ASSUME l.what \in OptionsOf(option_list)
      PROVE  IInv'
  <2>1. /\ Stepped(l) /\ menus' = menu_add_symbol(menus, "select", l.name, l.on) /\ blocks' = blocks
        /\ option_list' = option_list /\ condition' = condition /\ phase' = phase
    BY <1>1, <1>2, <1>6 DEF Statement
  <2>2. IsTree(menus)
    BY NowTree
  <2>3. Alike(menus, menus')
    BY <2>1, <2>2, SymbolIs
  <2>4. phase' = "reading"
    BY <2>1
  <2> QED BY <1>2, <1>3, <1>6, <2>1, <2>3, <2>4, OptionGoes
<1> QED BY <1>5, <1>6

LEMMA OptionalGoes == Reading /\ phase = "reading" /\ Optional => IInv'
<1> SUFFICES ASSUME Reading, phase = "reading", Optional
             PROVE  IInv'
  OBVIOUS
<1>1. PICK l \in Line("optional") :
        IF "optional" \in OptionsOf(option_list)
        THEN Statement(l, OptionalSym(menus, menus.entry[menus.current_entry].sym), blocks, option_list)
        ELSE Reject(l)
  BY DEF Optional, Option
<1>2. l.what = "optional" /\ sources # <<>>
  BY LineIs
<1>3. l.what \in Options /\ l.what # "depends"
  BY <1>2 DEF Options
<1>4. FitsIn(script, Append(read, NewLine(l)), Len(read) + 1) <=> l.what \in OptionsOf(option_list)
  BY <1>3, OptionFits
<1>5. ASSUME l.what \notin OptionsOf(option_list)
      PROVE  IInv'
  BY <1>1, <1>2, <1>4, <1>5, RejectIs
<1>6. ASSUME l.what \in OptionsOf(option_list)
      PROVE  IInv'
  <2>1. /\ Stepped(l) /\ menus' = OptionalSym(menus, menus.entry[menus.current_entry].sym) /\ blocks' = blocks
        /\ option_list' = option_list /\ condition' = condition /\ phase' = phase
    BY <1>1, <1>2, <1>6 DEF Statement
  <2>2. IsTree(menus)
    BY NowTree
  <2>3. Alike(menus, menus')
    BY <2>1, <2>2, OptionalIs
  <2>4. phase' = "reading"
    BY <2>1
  <2> QED BY <1>2, <1>3, <1>6, <2>1, <2>3, <2>4, OptionGoes
<1> QED BY <1>5, <1>6

LEMMA ModulesGoes == Reading /\ phase = "reading" /\ Modules => IInv'
<1> SUFFICES ASSUME Reading, phase = "reading", Modules
             PROVE  IInv'
  OBVIOUS
<1>1. PICK l \in Line("modules") :
        IF "modules" \in OptionsOf(option_list)
        THEN Statement(l, ModulesDefault(menus, menus.entry[menus.current_entry].sym, Top.file), blocks, option_list)
        ELSE Reject(l)
  BY DEF Modules, Option
<1>2. l.what = "modules" /\ sources # <<>>
  BY LineIs
<1>3. l.what \in Options /\ l.what # "depends"
  BY <1>2 DEF Options
<1>4. FitsIn(script, Append(read, NewLine(l)), Len(read) + 1) <=> l.what \in OptionsOf(option_list)
  BY <1>3, OptionFits
<1>5. ASSUME l.what \notin OptionsOf(option_list)
      PROVE  IInv'
  BY <1>1, <1>2, <1>4, <1>5, RejectIs
<1>6. ASSUME l.what \in OptionsOf(option_list)
      PROVE  IInv'
  <2>1. /\ Stepped(l) /\ menus' = ModulesDefault(menus, menus.entry[menus.current_entry].sym, Top.file) /\ blocks' = blocks
        /\ option_list' = option_list /\ condition' = condition /\ phase' = phase
    BY <1>1, <1>2, <1>6 DEF Statement
  <2>2. IsTree(menus)
    BY NowTree
  <2>3. Alike(menus, menus')
    BY <2>1, <2>2, ModulesIs
  <2>4. phase' = "reading"
    BY <2>1
  <2> QED BY <1>2, <1>3, <1>6, <2>1, <2>3, <2>4, OptionGoes
<1> QED BY <1>5, <1>6

\* A condition is one of the statement that owns the line.
LEMMA OwnedBy ==
    ASSUME NEW t, IsSeq(t), NEW os, NEW m, NEW list, NEW c, NEW bs, Hung(m, list, c, bs, t, os), list \in Statements
    PROVE  \E o \in 1..Len(t) : /\ o = Owner(t, Len(t) + 1) /\ What(t, o) \in Heads
                                /\ m.current_entry = EntryOf(t, o)
                                /\ \A i \in 1..Len(t) : What(t, i) \in Heads => (EntryOf(t, i) = m.current_entry <=> i = o)
<1>1. PICK n \in Nat : n = Len(t)
  BY SeqShape
<1>2. PICK o : o = Owner(t, n + 1)
  OBVIOUS
<1>3. o \in 0..n
  <2>1. o \in 0..((n + 1) - 1)
    BY <1>2, OwnerRange
  <2> QED BY <2>1
<1>4. o # 0 /\ What(t, o) = list /\ EntryOf(t, o) = EntryOf(t, n) /\ m.current_entry = EntryOf(t, n)
  BY <1>1, <1>2, KindsApart DEF Hung, HungAt, Statements
<1>5. o \in 1..n /\ What(t, o) \in Heads
  BY <1>3, <1>4, KindsApart
<1>6. ASSUME NEW i \in 1..n, What(t, i) \in Heads
      PROVE  EntryOf(t, i) = m.current_entry <=> i = o
  <2>1. i # o => EntryOf(t, i) # EntryOf(t, o)
    BY <1>5, <1>6, EntryOwn
  <2> QED BY <1>4, <2>1
<1> QED BY <1>1, <1>2, <1>4, <1>5, <1>6

LEMMA DependsGoes == Reading /\ phase = "reading" /\ Depends => IInv'
<1> SUFFICES ASSUME Reading, phase = "reading", Depends
             PROVE  IInv'
  OBVIOUS
<1>1. PICK l \in Line("depends") :
        IF "depends" \in OptionsOf(option_list)
        THEN Statement(l, menu_add_dep(menus, l.on), blocks, option_list)
        ELSE Reject(l)
  BY DEF Depends, Option
<1>2. l.what = "depends" /\ sources # <<>>
  BY LineIs
<1>3. l.what \in Options
  BY <1>2 DEF Options
<1>4. /\ FitsIn(script, Append(read, NewLine(l)), Len(read) + 1) <=> l.what \in OptionsOf(option_list)
      /\ l.what \in OptionsOf(option_list) => option_list \in Statements
  BY <1>3, OptionFits
<1>5. ASSUME l.what \notin OptionsOf(option_list)
      PROVE  IInv'
  BY <1>1, <1>2, <1>4, <1>5, RejectIs
<1>6. ASSUME l.what \in OptionsOf(option_list)
      PROVE  IInv'
  <2>1. /\ Stepped(l) /\ menus' = menu_add_dep(menus, l.on) /\ blocks' = blocks
        /\ option_list' = option_list /\ condition' = condition /\ phase' = phase
    BY <1>1, <1>2, <1>6 DEF Statement
  <2>2. IsTree(menus) /\ option_list \in Statements
    BY <1>4, <1>6, NowTree
  <2>3. PICK os : Opened(read, os) /\ Hung(menus, option_list, condition, blocks, read, os)
    BY DEF Reading
  <2>4. PICK t, e : t = read /\ e = NewLine(l)
    OBVIOUS
  <2>5. PICK q : q = menus'
    OBVIOUS
  <2>m. PICK m : m = menus
    OBVIOUS
  <2>6. DepAdded(m, q, l.on)
    BY <2>1, <2>2, <2>5, <2>m, AddDepIs
  <2>7. IsTree(q) /\ Len(q.entry) = Len(m.entry)
        /\ q.current_menu = m.current_menu /\ q.current_entry = m.current_entry
    BY <2>6 DEF DepAdded
  <2>8. \A x \in 1..Len(m.entry) :
          /\ q.entry[x].parent = m.entry[x].parent /\ q.entry[x].file = m.entry[x].file
          /\ q.entry[x].dep = IF x = m.current_entry THEN m.entry[x].dep \union menu_check_dep(l.on)
                              ELSE m.entry[x].dep
    BY <2>6 DEF DepAdded
  <2>9. IsSeq(t) /\ e.line = l /\ e.line.what = "depends"
    BY <1>2, <2>4, NewLineIs DEF Reading
  <2>10. PICK o \in 1..Len(t) :
            /\ o = Owner(t, Len(t) + 1) /\ What(t, o) \in Heads /\ m.current_entry = EntryOf(t, o)
            /\ \A i \in 1..Len(t) : What(t, i) \in Heads => (EntryOf(t, i) = m.current_entry <=> i = o)
    BY <2>2, <2>3, <2>4, <2>9, <2>m, OwnedBy
  <2>11. ASSUME NEW i \in 1..Len(t), What(t, i) \in Heads, HeadOK(m, t, i), EntryOf(t, i) \in 1..Len(m.entry)
         PROVE  q.entry[EntryOf(t, i)].dep = Own(Append(t, e), i)
    <3>1. m.entry[EntryOf(t, i)].dep = Own(t, i)
      BY <2>11 DEF HeadOK
    <3>2. CASE i = o
      <4>1. Owner(t, Len(t) + 1) = i /\ EntryOf(t, i) = m.current_entry
        BY <2>10, <3>2
      <4>2. Own(Append(t, e), i) = Own(t, i) \union menu_check_dep(e.line.on)
        BY <2>9, <4>1, OwnDepends
      <4> QED BY <2>8, <2>9, <2>11, <3>1, <4>1, <4>2
    <3>3. CASE i # o
      <4>1. Owner(t, Len(t) + 1) # i /\ EntryOf(t, i) # m.current_entry
        BY <2>10, <2>11, <3>3
      <4>2. Own(Append(t, e), i) = Own(t, i)
        BY <2>9, <4>1, OwnSame
      <4> QED BY <2>8, <2>11, <3>1, <4>1, <4>2
    <3> QED BY <3>2, <3>3
  <2>12. \A x \in 1..Len(menus.entry) :
            q.entry[x].parent = menus.entry[x].parent /\ q.entry[x].file = menus.entry[x].file
    BY <2>8, <2>m
  <2>13. \A i \in 1..Len(read) : What(read, i) \in Heads /\ HeadOK(menus, read, i) /\ EntryOf(read, i) \in 1..Len(menus.entry)
                                 => q.entry[EntryOf(read, i)].dep = Own(Append(read, NewLine(l)), i)
    BY <2>4, <2>11, <2>m
  <2>14. phase' = "reading"
    BY <2>1
  <2> QED BY <1>2, <1>3, <1>6, <2>1, <2>3, <2>5, <2>7, <2>m, <2>12, <2>13, <2>14, LineGoes
<1> QED BY <1>5, <1>6


-----------------------------------------------------------------------------
(***************************************************************************)
(* The end of a file and of the input, and what comes after.               *)
(***************************************************************************)
LEMMA EndOfFileGoes == Reading /\ phase = "reading" /\ EndOfFile => IInv'
<1> SUFFICES ASSUME Reading, phase = "reading", EndOfFile
             PROVE  IInv'
  OBVIOUS
<1>1. /\ sources # <<>> /\ sources' = Front(sources) /\ scanned' = scanned \union {Last(sources).file}
      /\ script' = script /\ menus' = menus /\ blocks' = blocks /\ option_list' = option_list
      /\ condition' = condition /\ phase' = phase /\ read' = read
  BY DEF EndOfFile, Top
<1>2. Files(sources, scanned, read)
  BY DEF Reading
<1>3. Files(Front(sources), scanned \union {Last(sources).file}, read)
  BY <1>1, <1>2, FilesPop
<1>4. Files(sources', scanned', read')
  BY <1>1, <1>3
<1>5. Reading'
  <2>1. IsSeq(read') /\ \A i \in 1..Len(read') : FitsIn(script', read', i)
    BY <1>1 DEF Reading
  <2>2. \E os : Opened(read', os) /\ Hung(menus', option_list', condition', blocks', read', os)
    BY <1>1 DEF Reading
  <2> QED BY <1>4, <2>1, <2>2 DEF Reading
<1>6. ReadRight'
  BY <1>1 DEF ReadRight
<1> QED BY <1>5, <1>6 DEF IInv

LEMMA EndOfInputGoes == Reading /\ phase = "reading" /\ EndOfInput => IInv'
<1> SUFFICES ASSUME Reading, phase = "reading", EndOfInput
             PROVE  IInv'
  OBVIOUS
<1>1. /\ sources = <<>>
      /\ phase' = IF Entered = <<>> THEN "parsed" ELSE IF option_list = "if" THEN "crashed" ELSE "rejected"
      /\ menus' = Begun(Nobody) /\ script' = script /\ sources' = sources /\ read' = read
  BY DEF EndOfInput
<1>2. PICK t, sc : t = read /\ sc = script
  OBVIOUS
<1>3. IsSeq(t) /\ \A i \in 1..Len(t) : FitsIn(sc, t, i)
  BY <1>2 DEF Reading
<1>4. PICK os : Opened(t, os) /\ Hung(menus, option_list, condition, blocks, t, os)
  BY <1>2 DEF Reading
<1>5. PICK e : e = [line |-> [what |-> "end"], file |-> Nobody]
  OBVIOUS
<1>6. e.line.what # "blank" /\ e.file = Nobody
  BY <1>5
<1>7. PICK m, bs : m = Begun(Nobody) /\ bs = Entered
  OBVIOUS
<1>8. Ready(m, bs, t, os, e)
  <2>1. Ready(Begun(e.file), Entered, t, os, e)
    BY <1>3, <1>4, <1>6, BegunIs
  <2> QED BY <1>6, <1>7, <2>1
<1>9. IsSeq(os) /\ Within(t, Len(t) + 1) = {os[a] : a \in 1..Len(os)}
  BY <1>4 DEF Opened
<1>10. Len(os) \in Nat /\ (os = <<>> <=> Len(os) = 0) /\ Len(t) \in Nat /\ (t = <<>> <=> Len(t) = 0)
       /\ DOMAIN t = 1..Len(t)
  BY <1>3, <1>9, SeqShape
<1>11. bs = <<>> <=> os = <<>>
  <2>1. Blocks(bs, t, os, Len(os))
    BY <1>8 DEF Ready
  <2> QED BY <1>9, <2>1, LastBlock
<1>12. os = <<>> <=> Within(t, Len(t) + 1) = {}
  <2>1. CASE os = <<>>
    BY <1>9, <1>10, <2>1
  <2>2. CASE os # <<>>
    <3>1. 1 \in 1..Len(os)
      BY <1>10, <2>2
    <3> QED BY <1>9, <2>2, <3>1
  <2> QED BY <2>1, <2>2
<1>13. phase' \in {"rejected", "crashed"} <=> Within(t, Len(t) + 1) # {}
  BY <1>1, <1>7, <1>11, <1>12
<1>14. read' = t /\ script' = sc /\ sources' = <<>> /\ menus' = m
  BY <1>1, <1>2, <1>7
<1>15. \A i : Fits(read, i)' <=> FitsIn(sc, t, i)
  BY <1>14 DEF Fits, FitsIn
<1>16. (\A i \in 1..(Len(read) - 1) : Fits(read, i))'
  <2>1. \A i \in 1..(Len(t) - 1) : FitsIn(sc, t, i)
    <3>1. \A i \in 1..(Len(t) - 1) : i \in 1..Len(t)
      BY <1>10
    <3> QED BY <1>3, <3>1
  <2> QED BY <1>14, <1>15, <2>1
<1>17. ~(read # <<>> /\ ~Fits(read, Len(read)))'
  <2>1. t # <<>> => FitsIn(sc, t, Len(t))
    <3>1. t # <<>> => Len(t) \in 1..Len(t)
      BY <1>10
    <3> QED BY <1>3, <3>1
  <2>2. Fits(read, Len(read))' <=> FitsIn(sc, t, Len(t))
    BY <1>14 DEF Fits, FitsIn
  <2> QED BY <1>14, <2>1, <2>2
<1>18. (sources = <<>> /\ Within(read, Len(read) + 1) # {})' <=> Within(t, Len(t) + 1) # {}
  BY <1>14
<1>19. \A i \in {j \in DOMAIN t : What(t, j) \in Heads} : HeadOK(m, t, i)
  <2>1. Heading(m, t, 0)
    BY <1>8 DEF Ready
  <2>2. \A i \in 1..Len(t) : i # 0
    BY <1>10
  <2> QED BY <1>10, <2>1, <2>2 DEF Heading
<1>20. ReadRight'
  BY <1>13, <1>14, <1>16, <1>17, <1>18, <1>19 DEF ReadRight, HeadOK
<1>21. Reading'
  BY <1>1 DEF Reading
<1> QED BY <1>20, <1>21 DEF IInv

\* What comes after the reading leaves the text and the verdict alone.
LEMMA LaterGoes == IInv /\ Later => IInv'
<1> SUFFICES ASSUME IInv, Later
             PROVE  IInv'
  OBVIOUS
<1>1. /\ phase \in {"parsed", "finalized"} /\ phase' \in {"finalized", "accepted", "recursive", "aborted"}
      /\ script' = script /\ sources' = sources /\ read' = read
  BY DEF Later
<1>2. ReadRight
  BY DEF IInv
<1>3. \A i : Fits(read, i)' <=> Fits(read, i)
  BY <1>1 DEF Fits
<1>4. phase # "reading" /\ phase \notin {"rejected", "crashed"}
  BY <1>1
<1>5. phase' \notin {"rejected", "crashed", "parsed", "reading"}
  BY <1>1
<1>6. (\A i \in 1..(Len(read) - 1) : Fits(read, i)) /\ ~(read # <<>> /\ ~Fits(read, Len(read)))
      /\ ~(sources = <<>> /\ Within(read, Len(read) + 1) # {})
  BY <1>2, <1>4 DEF ReadRight
<1>7. Fits(read, Len(read))' <=> Fits(read, Len(read))
  BY <1>1 DEF Fits
<1>8. (\A i \in 1..(Len(read) - 1) : Fits(read, i))'
  BY <1>1, <1>3, <1>6
<1>9. (~(read # <<>> /\ ~Fits(read, Len(read))))'
  BY <1>1, <1>6, <1>7
<1>10. (~(sources = <<>> /\ Within(read, Len(read) + 1) # {}))'
  BY <1>1, <1>6
<1>11. ReadRight'
  BY <1>5, <1>8, <1>9, <1>10 DEF ReadRight
<1>12. Reading'
  BY <1>5 DEF Reading
<1> QED BY <1>11, <1>12 DEF IInv

LEMMA StutterGoes == IInv /\ UNCHANGED vars => IInv'
BY DEF IInv, Reading, ReadRight, vars, Files, Hung, HungAt, Fits

LEMMA NowReading == ReadNext => phase = "reading"
<1>1. (\E kind : \E l \in Line(kind) : TRUE) => phase = "reading"
  BY LineIs
<1>2. Config \/ Menu \/ Comment \/ Choice \/ If \/ Source \/ End \/ Blank => phase = "reading"
  BY <1>1 DEF Config, Menu, Comment, Choice, If, Source, End, Blank
<1>3. Type \/ Prompt \/ DefaultTo \/ Select \/ Depends \/ Optional \/ Modules => phase = "reading"
  BY <1>1 DEF Type, Prompt, DefaultTo, Select, Depends, Optional, Modules, Option
<1>4. EndOfFile \/ EndOfInput => phase = "reading"
  BY DEF EndOfFile, EndOfInput
<1> QED BY <1>2, <1>3, <1>4 DEF ReadNext

LEMMA ReadsOn == IInv /\ [ReadNext \/ Later]_vars => IInv'
<1> SUFFICES ASSUME IInv, [ReadNext \/ Later]_vars
             PROVE  IInv'
  OBVIOUS
<1>1. CASE ReadNext
  <2>1. Reading /\ phase = "reading"
    BY <1>1, NowReading DEF IInv
  <2>2. CASE Config \/ Menu \/ Comment \/ Choice \/ If \/ Source \/ End \/ Blank
    BY <2>1, <2>2, ConfigGoes, MenuGoes, CommentGoes, ChoiceGoes, IfGoes, SourceGoes, EndGoes, BlankGoes
  <2>3. CASE Type \/ Prompt \/ DefaultTo \/ Select \/ Depends \/ Optional \/ Modules
    BY <2>1, <2>3, TypeGoes, PromptGoes, DefaultToGoes, SelectGoes, DependsGoes, OptionalGoes, ModulesGoes
  <2>4. CASE EndOfFile \/ EndOfInput
    BY <2>1, <2>4, EndOfFileGoes, EndOfInputGoes
  <2> QED BY <1>1, <2>2, <2>3, <2>4 DEF ReadNext
<1>2. CASE Later
  BY <1>2, LaterGoes
<1>3. CASE UNCHANGED vars
  BY <1>3, StutterGoes
<1> QED BY <1>1, <1>2, <1>3

\* conf_parse exits with an error at the first line that does not fit, or at the end
\* when a block is open (zconf_endtoken, zconf_nextfile, the grammar); of any other
\* Kconfig every entry that menu_add_entry made hangs below the block its line stands
\* in, and has the conditions that are written below it.  The steps that KconfigParser
\* adds, the passes after the reading, are steps of Later.
THEOREM ReadRightCorrect == ReadSpec => []ReadRight
<1>1. Init => IInv
  BY InitReads
<1>2. IInv /\ [ReadNext \/ Later]_vars => IInv'
  BY ReadsOn
<1>3. IInv => ReadRight
  BY DEF IInv
<1> QED BY <1>1, <1>2, <1>3, PTL DEF ReadSpec

=============================================================================
