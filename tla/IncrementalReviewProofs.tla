------------------------ MODULE IncrementalReviewProofs ------------------------
(***************************************************************************)
(* Proofs about a review from its plan on: about BatchPlan for any atoms,      *)
(* contexts and limits, about IncrementalReview for every plan and every set   *)
(* of submission identities, decision values and blocking reasons, and about   *)
(* CoverageJournal for any callers, stores and failures of their writes.       *)
(***************************************************************************)
EXTENDS IncrementalReview, BatchPlan, CoverageLedgerProofs, CoverageJournal

-----------------------------------------------------------------------------
(* Payloads.  They are sums, and what is proved of sums is proved by induction. *)

\* f lists the sums of the first n weights, as Total computes them.
IsSum(f, weights, n) ==
  f = [i \in 0 .. n |-> IF i = 0 THEN 0 ELSE f[i - 1] + weights[i]]

\* Any number of weights can be added up.
LEMMA SumExists ==
  ASSUME NEW weights, NEW n \in Nat PROVE \E f : IsSum(f, weights, n)
<1> DEFINE T == {k \in Nat : \E f : IsSum(f, weights, k)}
<1>1. 0 \in T
  <2> DEFINE f == [i \in 0 .. 0 |-> 0]
  <2>1. IsSum(f, weights, 0)
    BY DEF IsSum
  <2> QED BY <2>1
<1>2. ASSUME NEW k \in Nat, k \in T PROVE k + 1 \in T
  <2>1. PICK f : IsSum(f, weights, k)
    BY <1>2
  <2> DEFINE g == [i \in 0 .. k + 1 |-> IF i = k + 1 THEN f[k] + weights[k + 1] ELSE f[i]]
  <2>2. \A i \in 0 .. k : f[i] = IF i = 0 THEN 0 ELSE f[i - 1] + weights[i]
    BY <2>1 DEF IsSum
  <2>3. ASSUME NEW i \in 0 .. k + 1
        PROVE  g[i] = IF i = 0 THEN 0 ELSE g[i - 1] + weights[i]
    <3>1. CASE i = k + 1
      BY <3>1
    <3>2. CASE i # k + 1
      <4>1. i \in 0 .. k /\ g[i] = f[i] /\ (i # 0 => g[i - 1] = f[i - 1])
        BY <3>2
      <4> QED BY <2>2, <4>1
    <3> QED BY <3>1, <3>2
  <2>4. g = [i \in 0 .. k + 1 |-> g[i]]
    OBVIOUS
  <2> HIDE DEF g
  <2>5. IsSum(g, weights, k + 1)
    BY <2>3, <2>4 DEF IsSum
  <2> QED BY <2>5
<1> HIDE DEF T
<1>3. n \in T
  BY <1>1, <1>2, Induction
<1> QED BY <1>3 DEF T

\* Adding more weights up begins with the same sums.
LEMMA SumsAgree ==
  ASSUME NEW weights, NEW n \in Nat, NEW m \in Nat, n <= m,
         NEW f, IsSum(f, weights, n), NEW g, IsSum(g, weights, m)
  PROVE  f[n] = g[n]
<1> DEFINE T == {k \in Nat : k <= n => f[k] = g[k]}
<1>1. /\ \A k \in 0 .. n : f[k] = IF k = 0 THEN 0 ELSE f[k - 1] + weights[k]
      /\ \A k \in 0 .. m : g[k] = IF k = 0 THEN 0 ELSE g[k - 1] + weights[k]
  BY DEF IsSum
<1>2. 0 \in T
  BY <1>1
<1>3. ASSUME NEW k \in Nat, k \in T PROVE k + 1 \in T
  <2> SUFFICES ASSUME k + 1 <= n PROVE f[k + 1] = g[k + 1]
    OBVIOUS
  <2>1. f[k] = g[k]
    BY <1>3
  <2>2. f[k + 1] = f[k] + weights[k + 1] /\ g[k + 1] = g[k] + weights[k + 1]
    BY <1>1
  <2> QED BY <2>1, <2>2
<1> HIDE DEF T
<1>4. Nat \subseteq T
  BY <1>2, <1>3, Induction
<1> QED BY <1>4 DEF T

\* A total is where any list of its sums ends.
LEMMA TotalEndsSum ==
  ASSUME NEW weights, NEW n \in Nat, NEW f, IsSum(f, weights, n)
  PROVE  Total(weights, n) = f[n]
<1> DEFINE g == CHOOSE h : IsSum(h, weights, n)
<1>1. IsSum(g, weights, n)
  OBVIOUS
<1>2. Total(weights, n) = g[n]
  BY DEF Total, IsSum
<1> HIDE DEF g
<1>3. f[n] = g[n]
  BY <1>1, SumsAgree
<1> QED BY <1>2, <1>3

\* A total is that of the weights before the last, and the last.
LEMMA TotalUnfolds ==
  ASSUME NEW weights
  PROVE  /\ Total(weights, 0) = 0
         /\ \A n \in Nat : Total(weights, n + 1) = Total(weights, n) + weights[n + 1]
<1>1. Total(weights, 0) = 0
  <2>1. PICK f : IsSum(f, weights, 0)
    BY SumExists
  <2>2. f[0] = 0
    BY <2>1 DEF IsSum
  <2> QED BY <2>1, <2>2, TotalEndsSum
<1>2. ASSUME NEW n \in Nat PROVE Total(weights, n + 1) = Total(weights, n) + weights[n + 1]
  <2>0. n + 1 \in Nat /\ n <= n + 1
    OBVIOUS
  <2>1. PICK f : IsSum(f, weights, n)
    BY SumExists
  <2>2. PICK g : IsSum(g, weights, n + 1)
    BY <2>0, SumExists
  <2>3. f[n] = g[n]
    BY <2>0, <2>1, <2>2, SumsAgree
  <2>4. g[n + 1] = g[n] + weights[n + 1]
    BY <2>2 DEF IsSum
  <2>5. Total(weights, n) = f[n]
    BY <2>1, TotalEndsSum
  <2>6. Total(weights, n + 1) = g[n + 1]
    BY <2>0, <2>2, TotalEndsSum
  <2> QED BY <2>3, <2>4, <2>5, <2>6
<1> QED BY <1>1, <1>2

\* What an atom adds is a number of bytes, and atoms before the first add nothing.
LEMMA AddedType ==
  ASSUME NEW atoms \in Seq(PlanAtom), NEW lo \in Nat \ {0}
  PROVE  \A i \in 1 .. Len(atoms) :
           /\ Added(atoms, lo)[i] \in Nat
           /\ i < lo => Added(atoms, lo)[i] = 0
<1> SUFFICES ASSUME NEW i \in 1 .. Len(atoms)
             PROVE  Added(atoms, lo)[i] \in Nat /\ (i < lo => Added(atoms, lo)[i] = 0)
  OBVIOUS
<1>1. Added(atoms, lo)[i] =
        IF i < lo THEN 0
        ELSE atoms[i].bytes
             + IF BringsContext(atoms, lo, i) THEN ContextBytes[atoms[i].context] ELSE 0
  BY DEF Added
<1>2. atoms[i] \in PlanAtom
  OBVIOUS
<1>3. atoms[i].bytes \in Nat /\ atoms[i].context \in Context \cup {NoContext}
  BY <1>2 DEF PlanAtom
<1>4. BringsContext(atoms, lo, i) => ContextBytes[atoms[i].context] \in Nat
  BY <1>3, ContextAssumption DEF BringsContext
<1> QED BY <1>1, <1>3, <1>4

\* A payload is the one of its atoms before the last, and what the last one adds.
LEMMA PayloadUnfolds ==
  ASSUME NEW atoms, NEW lo, NEW n \in Nat
  PROVE  PayloadSize(atoms, lo, n + 1) = PayloadSize(atoms, lo, n) + Added(atoms, lo)[n + 1]
BY TotalUnfolds DEF PayloadSize

\* A payload is a number of bytes, and none without an atom.
LEMMA PayloadType ==
  ASSUME NEW atoms \in Seq(PlanAtom), NEW lo \in Nat \ {0}, NEW hi \in 0 .. Len(atoms)
  PROVE  PayloadSize(atoms, lo, hi) \in Nat /\ (hi < lo => PayloadSize(atoms, lo, hi) = 0)
<1> DEFINE P(n) == PayloadSize(atoms, lo, n)
           A(n) == Added(atoms, lo)[n]
           T == {n \in Nat : n <= Len(atoms) => P(n) \in Nat /\ (n < lo => P(n) = 0)}
<1>1. P(0) = 0 /\ \A n \in Nat : P(n + 1) = P(n) + A(n + 1)
  BY TotalUnfolds, PayloadUnfolds DEF PayloadSize
<1>2. \A n \in 1 .. Len(atoms) : A(n) \in Nat /\ (n < lo => A(n) = 0)
  BY AddedType
<1>3. Len(atoms) \in Nat /\ hi \in Nat /\ hi <= Len(atoms)
  OBVIOUS
<1> HIDE DEF P, A
<1>4. 0 \in T
  <2>1. P(0) = 0
    BY <1>1
  <2>2. P(0) \in Nat /\ (0 < lo => P(0) = 0)
    BY <2>1
  <2> HIDE DEF P
  <2> QED BY <2>2
<1>5. ASSUME NEW n \in Nat, n \in T PROVE n + 1 \in T
  <2> SUFFICES ASSUME n + 1 <= Len(atoms)
               PROVE  P(n + 1) \in Nat /\ (n + 1 < lo => P(n + 1) = 0)
    OBVIOUS
  <2>1. P(n) \in Nat /\ (n < lo => P(n) = 0)
    BY <1>3, <1>5
  <2>2. A(n + 1) \in Nat /\ (n + 1 < lo => A(n + 1) = 0)
    BY <1>2, <1>3
  <2>3. P(n + 1) = P(n) + A(n + 1)
    BY <1>1
  <2> HIDE DEF T
  <2> QED BY <2>1, <2>2, <2>3
<1> HIDE DEF T
<1>6. hi \in T
  BY <1>3, <1>4, <1>5, Induction
<1> QED BY <1>3, <1>6 DEF T, P

\* Of two payloads that end with the same atom the one that starts earlier is not
\* smaller.  Where they differ in the context of an atom, an earlier one has brought it.
LEMMA LongerStart ==
  ASSUME NEW atoms \in Seq(PlanAtom), NEW lo \in 1 .. Len(atoms), NEW hi \in lo .. Len(atoms)
  PROVE  PayloadSize(atoms, lo + 1, hi) <= PayloadSize(atoms, lo, hi)
<1> DEFINE P(n) == PayloadSize(atoms, lo, n)
           Q(n) == PayloadSize(atoms, lo + 1, n)
           a == atoms[lo].context
           Unshared(n) == a # NoContext /\ \A k \in lo + 1 .. n : atoms[k].context # a
           Spare(n) == IF Unshared(n) THEN ContextBytes[a] ELSE 0
           T == {n \in Nat : lo + n <= Len(atoms) => Q(lo + n) + Spare(lo + n) <= P(lo + n)}
<1>1. /\ \A n \in 0 .. Len(atoms) : P(n) \in Nat /\ Q(n) \in Nat
      /\ \A n \in Nat : P(n + 1) = P(n) + Added(atoms, lo)[n + 1]
      /\ \A n \in Nat : Q(n + 1) = Q(n) + Added(atoms, lo + 1)[n + 1]
      /\ Q(lo) = 0
  <2>1. lo \in Nat \ {0} /\ lo + 1 \in Nat \ {0} /\ lo < lo + 1 /\ lo \in 0 .. Len(atoms)
    OBVIOUS
  <2>2. \A n \in 0 .. Len(atoms) : P(n) \in Nat /\ Q(n) \in Nat
    BY <2>1, PayloadType
  <2>3. Q(lo) = 0
    BY <2>1, PayloadType
  <2> QED BY <2>2, <2>3, PayloadUnfolds
<1>2. a # NoContext => ContextBytes[a] \in Nat
  <2>1. atoms[lo] \in PlanAtom
    OBVIOUS
  <2> QED BY <2>1, ContextAssumption DEF PlanAtom
<1>3. \A n : Spare(n) \in Nat
  BY <1>2
<1>4. 0 \in T
  <2>1. P(lo) = P(lo - 1) + Added(atoms, lo)[lo]
    <3>1. lo - 1 \in Nat /\ (lo - 1) + 1 = lo
      OBVIOUS
    <3> QED BY <1>1, <3>1
  <2>2. P(lo - 1) \in Nat
    <3>1. lo - 1 \in 0 .. Len(atoms)
      OBVIOUS
    <3> QED BY <1>1, <3>1
  <2>3. BringsContext(atoms, lo, lo) <=> a # NoContext
    BY DEF BringsContext
  <2>4. Unshared(lo) <=> a # NoContext
    OBVIOUS
  <2>5. Added(atoms, lo)[lo] = atoms[lo].bytes + Spare(lo)
    BY <2>3, <2>4 DEF Added
  <2>6. atoms[lo].bytes \in Nat
    <3>1. atoms[lo] \in PlanAtom
      OBVIOUS
    <3> QED BY <3>1 DEF PlanAtom
  <2>7. Q(lo) + Spare(lo) <= P(lo)
    <3>1. Q(lo) = 0 /\ Spare(lo) \in Nat
      BY <1>1, <1>3
    <3> HIDE DEF P, Q, Spare
    <3>2. P(lo) = P(lo - 1) + (atoms[lo].bytes + Spare(lo))
      BY <2>1, <2>5
    <3> QED BY <2>2, <2>6, <3>1, <3>2
  <2> HIDE DEF P, Q, Spare
  <2> QED BY <2>7
<1>5. ASSUME NEW n \in Nat, n \in T PROVE n + 1 \in T
  <2> DEFINE m == lo + n
             i == m + 1
             x == atoms[i].context
             c == IF BringsContext(atoms, lo, i) THEN ContextBytes[x] ELSE 0
             d == IF BringsContext(atoms, lo + 1, i) THEN ContextBytes[x] ELSE 0
  <2> SUFFICES ASSUME i <= Len(atoms) PROVE Q(i) + Spare(i) <= P(i)
    OBVIOUS
  <2>1. /\ m \in Nat /\ i \in 1 .. Len(atoms) /\ lo <= m /\ m \in 0 .. Len(atoms)
        /\ ~(i < lo) /\ ~(i < lo + 1)
    OBVIOUS
  <2>2. atoms[i] \in PlanAtom
    BY <2>1
  <2>3. atoms[i].bytes \in Nat /\ (x # NoContext => ContextBytes[x] \in Nat)
    BY <2>2, ContextAssumption DEF PlanAtom
  <2>4. /\ P(i) = P(m) + (atoms[i].bytes + c)
        /\ Q(i) = Q(m) + (atoms[i].bytes + d)
    <3>1. Added(atoms, lo)[i] = atoms[i].bytes + c
      BY <2>1 DEF Added
    <3>2. Added(atoms, lo + 1)[i] = atoms[i].bytes + d
      BY <2>1 DEF Added
    <3> HIDE DEF P, Q, c, d, m
    <3> QED BY <1>1, <2>1, <3>1, <3>2
  <2>5. /\ BringsContext(atoms, lo, i) <=> x # NoContext /\ \A k \in lo .. m : atoms[k].context # x
        /\ BringsContext(atoms, lo + 1, i) <=> x # NoContext /\ \A k \in lo + 1 .. m : atoms[k].context # x
    <3>1. i - 1 = m
      BY <2>1
    <3> HIDE DEF i
    <3> QED BY <3>1 DEF BringsContext
  <2>6. d + Spare(i) <= c + Spare(m)
    <3>1. lo .. m = {lo} \cup (lo + 1 .. m) /\ lo + 1 .. i = (lo + 1 .. m) \cup {i}
      BY <2>1
    <3>2. BringsContext(atoms, lo, i) <=> BringsContext(atoms, lo + 1, i) /\ x # a
      BY <2>5, <3>1
    <3>3. Unshared(i) <=> Unshared(m) /\ x # a
      BY <3>1
    <3>4. BringsContext(atoms, lo + 1, i) /\ x = a => Unshared(m)
      BY <2>5
    <3>5. BringsContext(atoms, lo + 1, i) => x # NoContext
      BY <2>5
    <3> HIDE DEF Unshared, x, a
    <3>6. CASE x = a
      <4>1. c = 0 /\ Spare(i) = 0
        BY <3>2, <3>3, <3>6
      <4>2. CASE BringsContext(atoms, lo + 1, i)
        <5>1. d = Spare(m) /\ d \in Nat
          BY <2>3, <3>4, <3>5, <3>6, <4>2
        <5> HIDE DEF c, d, Spare
        <5> QED BY <4>1, <5>1
      <4>3. CASE ~BringsContext(atoms, lo + 1, i)
        <5>1. d = 0 /\ Spare(m) \in Nat
          BY <1>3, <4>3
        <5> HIDE DEF c, d, Spare
        <5> QED BY <4>1, <5>1
      <4> QED BY <4>2, <4>3
    <3>7. CASE x # a
      <4>1. c = d /\ Spare(i) = Spare(m)
        BY <3>2, <3>3, <3>7
      <4>2. d \in Nat
        BY <2>3, <3>5
      <4> HIDE DEF c, d, Spare
      <4> QED BY <1>3, <4>1, <4>2
    <3> QED BY <3>6, <3>7
  <2>7. Q(m) + Spare(m) <= P(m)
    BY <1>5, <2>1
  <2>8. c \in Nat /\ d \in Nat
    BY <2>3, <2>5
  <2> HIDE DEF P, Q, Spare, c, d
  <2>9. P(m) \in Nat /\ Q(m) \in Nat
    BY <1>1, <2>1
  <2>10. Spare(m) \in Nat /\ Spare(i) \in Nat /\ atoms[i].bytes \in Nat
    BY <1>3, <2>3
  <2> DEFINE e == atoms[i].bytes
  <2>11. P(i) = P(m) + (e + c) /\ Q(i) = Q(m) + (e + d) /\ e \in Nat
    BY <2>4, <2>10
  <2> HIDE DEF m, i, T, e
  <2> QED BY <2>6, <2>7, <2>8, <2>9, <2>10, <2>11, SMTT(30)
<1> HIDE DEF P, Q, Spare
<1>6. hi - lo \in T
  <2>1. hi - lo \in Nat
    OBVIOUS
  <2> HIDE DEF T
  <2> QED BY <1>4, <1>5, <2>1, Induction
<1>7. Q(hi) + Spare(hi) <= P(hi)
  <2>1. lo + (hi - lo) = hi
    OBVIOUS
  <2> QED BY <1>6, <2>1
<1>8. P(hi) \in Nat /\ Q(hi) \in Nat
  <2>1. hi \in 0 .. Len(atoms)
    OBVIOUS
  <2> QED BY <1>1, <2>1
<1>9. Q(hi) <= P(hi)
  BY <1>3, <1>7, <1>8
<1> QED BY <1>9 DEF P, Q

\* A part of a payload is not larger than the whole.
LEMMA PayloadGrows ==
  ASSUME NEW atoms \in Seq(PlanAtom), NEW lo \in 1 .. Len(atoms), NEW hi \in 1 .. Len(atoms),
         NEW i \in lo .. hi, NEW j \in i .. hi
  PROVE  /\ PayloadSize(atoms, i, j) \in Nat
         /\ PayloadSize(atoms, lo, hi) \in Nat
         /\ PayloadSize(atoms, i, j) <= PayloadSize(atoms, lo, hi)
<1>1. /\ i \in 1 .. Len(atoms) /\ j \in 1 .. Len(atoms) /\ lo \in Nat \ {0} /\ i \in Nat \ {0}
      /\ hi \in 0 .. Len(atoms) /\ j \in 0 .. Len(atoms) /\ i <= j /\ j <= hi /\ lo <= i
      /\ Len(atoms) \in Nat
  OBVIOUS
<1>2. PayloadSize(atoms, i, j) \in Nat /\ PayloadSize(atoms, lo, hi) \in Nat
  BY <1>1, PayloadType
<1>3. PayloadSize(atoms, i, j) <= PayloadSize(atoms, lo, j)
  <2> DEFINE T == {n \in Nat : lo + n <= i => PayloadSize(atoms, lo + n, j) <= PayloadSize(atoms, lo, j)}
  <2>1. 0 \in T
    <3>1. PayloadSize(atoms, lo, j) \in Nat
      BY <1>1, PayloadType
    <3>2. lo + 0 = lo
      BY <1>1
    <3> QED BY <3>1, <3>2
  <2>2. ASSUME NEW n \in Nat, n \in T PROVE n + 1 \in T
    <3> DEFINE m == lo + n
    <3> SUFFICES ASSUME m + 1 <= i
                 PROVE  PayloadSize(atoms, m + 1, j) <= PayloadSize(atoms, lo, j)
      <4>1. lo + (n + 1) = m + 1
        BY <1>1
      <4> HIDE DEF m
      <4> QED BY <4>1
    <3>1. /\ m \in 1 .. Len(atoms) /\ j \in m .. Len(atoms) /\ m <= i
          /\ m \in Nat \ {0} /\ m + 1 \in Nat \ {0}
      BY <1>1
    <3>2. PayloadSize(atoms, m, j) <= PayloadSize(atoms, lo, j)
      BY <2>2, <3>1
    <3> HIDE DEF m, T
    <3>3. PayloadSize(atoms, m + 1, j) <= PayloadSize(atoms, m, j)
      BY <3>1, LongerStart
    <3>4. /\ PayloadSize(atoms, m + 1, j) \in Nat /\ PayloadSize(atoms, m, j) \in Nat
          /\ PayloadSize(atoms, lo, j) \in Nat
      BY <1>1, <3>1, PayloadType
    <3> QED BY <3>2, <3>3, <3>4
  <2> HIDE DEF T
  <2>3. i - lo \in T
    <3>1. i - lo \in Nat
      BY <1>1
    <3> QED BY <2>1, <2>2, <3>1, Induction
  <2>4. lo + (i - lo) = i
    BY <1>1
  <2>5. i <= i
    BY <1>1
  <2> QED BY <2>3, <2>4, <2>5 DEF T
<1>4. PayloadSize(atoms, lo, j) <= PayloadSize(atoms, lo, hi)
  <2> DEFINE P(n) == PayloadSize(atoms, lo, n)
             T == {n \in Nat : j + n <= hi => P(j) <= P(j + n)}
  <2>0. /\ \A n \in 0 .. Len(atoms) : P(n) \in Nat
        /\ \A n \in Nat : P(n + 1) = P(n) + Added(atoms, lo)[n + 1]
        /\ \A n \in 1 .. Len(atoms) : Added(atoms, lo)[n] \in Nat
    BY <1>1, PayloadType, PayloadUnfolds, AddedType, ZenonT(60)
  <2> HIDE DEF P
  <2>1. 0 \in T
    <3>1. j + 0 = j /\ P(j) \in Nat
      BY <1>1, <2>0
    <3> QED BY <3>1
  <2>2. ASSUME NEW n \in Nat, n \in T PROVE n + 1 \in T
    <3> DEFINE m == j + n
    <3>1. j + (n + 1) = m + 1
      BY <1>1
    <3> SUFFICES ASSUME m + 1 <= hi PROVE P(j) <= P(m + 1)
      <4> HIDE DEF m
      <4> QED BY <3>1
    <3>2. m \in 0 .. Len(atoms) /\ m + 1 \in 1 .. Len(atoms) /\ m \in Nat /\ m <= hi
      BY <1>1
    <3>3. P(j) <= P(m)
      BY <2>2, <3>2
    <3> HIDE DEF m, T
    <3>4. /\ P(m) \in Nat /\ P(j) \in Nat /\ Added(atoms, lo)[m + 1] \in Nat
          /\ P(m + 1) = P(m) + Added(atoms, lo)[m + 1]
      BY <1>1, <2>0, <3>2
    <3> QED BY <3>3, <3>4
  <2> HIDE DEF T
  <2>3. hi - j \in T
    <3>1. hi - j \in Nat
      BY <1>1
    <3> QED BY <2>1, <2>2, <3>1, Induction
  <2>4. j + (hi - j) = hi /\ hi <= hi
    BY <1>1
  <2>5. P(j) <= P(hi)
    BY <2>3, <2>4 DEF T
  <2> QED BY <2>5 DEF P
<1>5. PayloadSize(atoms, lo, j) \in Nat
  BY <1>1, PayloadType
<1> QED BY <1>2, <1>3, <1>4, <1>5

-----------------------------------------------------------------------------
(* The plan: it is one that the loader accepts, and the pass keeps ahead of    *)
(* every other such plan, so that none has fewer batches.                    *)

Size == Len(input.atoms)

\* The plans of all the atoms that the loader would accept.
Rivals == {s \in Cuts(Size) : Acceptable(input, s, Size)}

Shape ==
  /\ input \in Inputs
  /\ next \in 1 .. Size + 1
  /\ starts \in Seq(1 .. Size)
  /\ (starts = <<>>) <=> (next = 1)
  /\ \A k \in DOMAIN starts : starts[k] < next
  /\ Len(starts) < next
  /\ refused \in BOOLEAN

\* What is planned so far is a plan of the atoms before next.
Sound == next > 1 => Acceptable(input, starts, next - 1)

\* No rival has closed a batch later.
Ahead ==
  \A s \in Rivals : /\ Len(starts) <= Len(s)
                    /\ \A k \in 1 .. Len(starts) : s[k] <= starts[k]

\* Every atom up to next is in a batch of every rival.
Covered ==
  \A s \in Rivals : next <= Size =>
    \E k \in DOMAIN s : s[k] <= next /\ next <= EndOf(s, k, Size)

\* The pass is given up at an atom that does not fit alone.
Hopeless ==
  refused => next <= Size /\ PayloadSize(input.atoms, next, next) > input.maxBytes

PlanInv == Shape /\ Sound /\ Ahead /\ Covered /\ Hopeless

\* A list of atoms is not empty, and its limits are numbers.
LEMMA InputType ==
  ASSUME NEW in \in Inputs
  PROVE  /\ Len(in.atoms) \in Nat \ {0}
         /\ in.maxItems \in Nat \ {0} /\ in.maxBytes \in Nat
BY InputAssumption

\* A rival's batches lie within the list, and it starts with the first atom.
LEMMA RivalType ==
  ASSUME input \in Inputs, NEW s \in Rivals
  PROVE  /\ Len(s) \in Nat \ {0} /\ DOMAIN s = 1 .. Len(s)
         /\ \A k \in 1 .. Len(s) : s[k] \in 1 .. Size
         /\ \A k \in 1 .. Len(s) : EndOf(s, k, Size) \in s[k] .. Size
         /\ s[1] = 1
         /\ \A k \in 1 .. Len(s) : Fits(input, s[k], EndOf(s, k, Size))
<1>1. Size \in Nat \ {0}
  BY InputType DEF Size
<1>2. PICK m \in 1 .. Size : s \in [1 .. m -> 1 .. Size]
  BY DEF Rivals, Cuts
<1>3. Len(s) = m /\ DOMAIN s = 1 .. m
  BY <1>1, <1>2
<1>4. Acceptable(input, s, Size)
  BY DEF Rivals
<1>5. \A k \in 1 .. m : s[k] \in 1 .. Size
  BY <1>2
<1>6. \A k \in 1 .. m : s[k] <= EndOf(s, k, Size) /\ Fits(input, s[k], EndOf(s, k, Size))
  BY <1>3, <1>4 DEF Acceptable
<1>7. \A k \in 1 .. m : EndOf(s, k, Size) \in s[k] .. Size
  BY <1>1, <1>3, <1>5, <1>6 DEF EndOf
<1> QED BY <1>1, <1>3, <1>4, <1>5, <1>6, <1>7 DEF Acceptable

\* What fits, fits in parts.
LEMMA PartFits ==
  ASSUME input \in Inputs, NEW lo \in 1 .. Size, NEW hi \in 1 .. Size, Fits(input, lo, hi),
         NEW i \in lo .. hi, NEW j \in i .. hi
  PROVE  Fits(input, i, j)
<1>1. PayloadSize(input.atoms, i, j) <= PayloadSize(input.atoms, lo, hi)
      /\ PayloadSize(input.atoms, i, j) \in Nat /\ PayloadSize(input.atoms, lo, hi) \in Nat
  BY PayloadGrows, InputAssumption DEF Size
<1>2. input.maxItems \in Nat /\ input.maxBytes \in Nat
  BY InputType
<1> QED BY <1>1, <1>2, InputType DEF Fits, Size

LEMMA EmptyHasNoElement == ASSUME NEW S PROVE <<>> \in Seq(S) /\ Len(<<>>) = 0 /\ DOMAIN <<>> = {}
OBVIOUS

LEMMA InitInv == PlanInit => PlanInv
<1> SUFFICES ASSUME PlanInit PROVE PlanInv
  OBVIOUS
<1>1. Size \in Nat \ {0} /\ input \in Inputs
  BY InputType DEF PlanInit, Size
<1>2. Shape /\ Sound /\ Hopeless
  <2>1. starts \in Seq(1 .. Size) /\ DOMAIN starts = {} /\ Len(starts) = 0
    BY EmptyHasNoElement DEF PlanInit
  <2>2. next \in 1 .. Size + 1 /\ next = 1
    BY <1>1 DEF PlanInit
  <2>3. starts = <<>> /\ refused \in BOOLEAN
    BY DEF PlanInit
  <2>4. Shape
    BY <1>1, <2>1, <2>2, <2>3 DEF Shape
  <2> QED BY <2>2, <2>4 DEF PlanInit, Sound, Hopeless
<1>3. Ahead
  BY <1>1, RivalType DEF Ahead, PlanInit
<1>4. Covered
  <2> SUFFICES ASSUME NEW s \in Rivals
               PROVE  \E k \in DOMAIN s : s[k] <= next /\ next <= EndOf(s, k, Size)
    BY DEF Covered
  <2>1. 1 \in DOMAIN s /\ s[1] = 1 /\ EndOf(s, 1, Size) \in s[1] .. Size
    BY <1>1, RivalType
  <2> QED BY <1>1, <2>1 DEF PlanInit
<1> QED BY <1>2, <1>3, <1>4 DEF PlanInv

\* The batch a rival has the next atom in either has the one after it too, or ends
\* with it, and then another starts.
LEMMA CoveredStep ==
  ASSUME PlanInv, Turn
  PROVE  Covered'
<1>1. /\ input \in Inputs /\ input' = input /\ Size' = Size /\ Rivals' = Rivals
      /\ next' = next + 1 /\ next \in 1 .. Size
      /\ Size \in Nat
  <2>1. input \in Inputs /\ input' = input /\ next' = next + 1
    BY DEF PlanInv, Shape, Turn
  <2>2. next \in 1 .. Size
    BY <2>1, InputType DEF PlanInv, Shape, Turn, More, Size
  <2> QED BY <2>1, <2>2, InputType DEF Size, Rivals
<1> SUFFICES ASSUME NEW s \in Rivals, next + 1 <= Size
             PROVE  \E k \in DOMAIN s : s[k] <= next + 1 /\ next + 1 <= EndOf(s, k, Size)
  BY <1>1 DEF Covered
<1>2. PICK k \in DOMAIN s : s[k] <= next /\ next <= EndOf(s, k, Size)
  BY <1>1 DEF PlanInv, Covered
<1>3. /\ Len(s) \in Nat \ {0} /\ DOMAIN s = 1 .. Len(s)
      /\ \A j \in 1 .. Len(s) : s[j] \in 1 .. Size
      /\ \A j \in 1 .. Len(s) : EndOf(s, j, Size) \in s[j] .. Size
  BY <1>1, RivalType
<1>4. CASE next + 1 <= EndOf(s, k, Size)
  BY <1>1, <1>2, <1>3, <1>4
<1>5. CASE EndOf(s, k, Size) = next
  <2>1. k # Len(s)
    BY <1>1, <1>5 DEF EndOf
  <2>2. k + 1 \in 1 .. Len(s)
    BY <1>2, <1>3, <2>1
  <2>3. s[k + 1] \in Nat /\ s[k + 1] - 1 = next
    <3>1. s[k + 1] - 1 = next
      BY <1>5, <2>1 DEF EndOf
    <3>2. s[k + 1] \in 1 .. Size
      BY <1>3, <2>2
    <3> QED BY <1>1, <3>1, <3>2
  <2> QED BY <1>1, <1>3, <2>2, <2>3
<1>6. EndOf(s, k, Size) \in Int
  BY <1>1, <1>2, <1>3
<1> QED BY <1>1, <1>2, <1>4, <1>5, <1>6

\* The batches so far, if the next atom joins the last one ...
LEMMA JoinSound ==
  ASSUME PlanInv, Join
  PROVE  Shape' /\ Sound'
<1>1. /\ input \in Inputs /\ input' = input /\ Size' = Size /\ Size \in Nat
      /\ next' = next + 1 /\ next \in 1 .. Size /\ starts' = starts /\ refused' = refused
  BY InputType DEF PlanInv, Shape, Join, Turn, More, Size
<1>2. /\ starts \in Seq(1 .. Size) /\ starts # <<>> /\ next > 1
      /\ Len(starts) \in Nat \ {0} /\ Len(starts) < next /\ DOMAIN starts = 1 .. Len(starts)
      /\ \A k \in 1 .. Len(starts) : starts[k] \in 1 .. Size /\ starts[k] < next
  BY <1>1 DEF PlanInv, Shape, Join, HasRoomFor
<1>3. Shape'
  BY <1>1, <1>2 DEF PlanInv, Shape
<1>4. Acceptable(input, starts, next - 1) /\ Fits(input, starts[Len(starts)], next)
  BY <1>2 DEF PlanInv, Sound, Join, HasRoomFor
<1>5. ASSUME NEW k \in 1 .. Len(starts)
      PROVE  starts[k] <= EndOf(starts, k, next) /\ Fits(input, starts[k], EndOf(starts, k, next))
  <2>1. CASE k = Len(starts)
    BY <1>1, <1>2, <1>4, <2>1 DEF EndOf
  <2>2. CASE k # Len(starts)
    BY <1>2, <1>4, <2>2, ZenonT(60) DEF EndOf, Acceptable
  <2> QED BY <2>1, <2>2
<1>6. Acceptable(input, starts, next)
  BY <1>2, <1>4, <1>5 DEF Acceptable
<1> QED BY <1>1, <1>3, <1>6 DEF Sound

\* ... and if it starts a batch of its own.
LEMMA OpenSound ==
  ASSUME PlanInv, Open
  PROVE  Shape' /\ Sound'
<1>1. /\ input \in Inputs /\ input' = input /\ Size' = Size /\ Size \in Nat
      /\ next' = next + 1 /\ next \in 1 .. Size /\ starts' = Append(starts, next)
      /\ refused' = refused
  BY InputType DEF PlanInv, Shape, Open, Turn, More, Size
<1> DEFINE m == Len(starts)
           t == Append(starts, next)
<1>2. /\ starts \in Seq(1 .. Size) /\ m \in Nat /\ m < next /\ DOMAIN starts = 1 .. m
      /\ \A k \in 1 .. m : starts[k] \in 1 .. Size /\ starts[k] < next
      /\ (starts = <<>> <=> m = 0) /\ (starts = <<>> <=> next = 1)
  BY <1>1 DEF PlanInv, Shape
<1>3. /\ t \in Seq(1 .. Size) /\ Len(t) = m + 1 /\ DOMAIN t = 1 .. (m + 1)
      /\ t[m + 1] = next /\ \A k \in 1 .. m : t[k] = starts[k]
  BY <1>1, <1>2
<1>4. Fits(input, next, next)
  BY <1>1, InputType DEF Open, Turn, Fits
<1> HIDE DEF t, m
<1>5. Shape'
  <2>1. t # <<>> /\ next' # 1 /\ next' \in 1 .. Size' + 1
    BY <1>1, <1>2, <1>3
  <2>2. \A k \in DOMAIN t : t[k] < next + 1
    BY <1>1, <1>2, <1>3
  <2>3. Len(t) < next + 1
    BY <1>1, <1>2, <1>3
  <2> QED BY <1>1, <1>3, <2>1, <2>2, <2>3 DEF PlanInv, Shape, t
<1>6. t[1] = 1
  <2>1. CASE m = 0
    BY <1>2, <1>3, <2>1
  <2>2. CASE m # 0
    BY <1>1, <1>2, <1>3, <2>2 DEF PlanInv, Sound, Acceptable
  <2> QED BY <2>1, <2>2
<1>7. ASSUME NEW k \in 1 .. (m + 1)
      PROVE  t[k] <= EndOf(t, k, next) /\ Fits(input, t[k], EndOf(t, k, next))
  <2>1. CASE k = m + 1
    BY <1>1, <1>3, <1>4, <2>1 DEF EndOf
  <2>2. CASE k \in 1 .. m
    <3>1. next > 1 /\ Acceptable(input, starts, next - 1)
      BY <1>1, <1>2, <2>2 DEF PlanInv, Sound
    <3>2. starts[k] <= EndOf(starts, k, next - 1) /\ Fits(input, starts[k], EndOf(starts, k, next - 1))
      BY <1>2, <2>2, <3>1 DEF Acceptable
    <3>3. EndOf(t, k, next) = EndOf(starts, k, next - 1)
      <4>1. EndOf(t, k, next) = t[k + 1] - 1
        BY <1>2, <1>3, <2>2 DEF EndOf
      <4>2. CASE k = m
        BY <1>3, <4>1, <4>2 DEF EndOf, m
      <4>3. CASE k # m
        <5>1. k + 1 \in 1 .. m
          BY <1>2, <2>2, <4>3
        <5>2. EndOf(starts, k, next - 1) = starts[k + 1] - 1
          BY <4>3 DEF EndOf, m
        <5> QED BY <1>3, <4>1, <5>1, <5>2
      <4> QED BY <4>2, <4>3
    <3> QED BY <1>3, <2>2, <3>2, <3>3
  <2> QED BY <1>2, <2>1, <2>2
<1>8. Acceptable(input, t, next)
  BY <1>3, <1>6, <1>7 DEF Acceptable
<1> QED BY <1>1, <1>5, <1>8 DEF Sound, t

\* When a batch is closed because the next atom does not fit in, no rival has that
\* batch go on beyond the atom: it has closed one batch more, no later.
LEMMA AheadStep ==
  ASSUME PlanInv, Open
  PROVE  Ahead'
<1>1. /\ input \in Inputs /\ input' = input /\ Size' = Size /\ Size \in Nat /\ Rivals' = Rivals
      /\ next \in 1 .. Size /\ starts' = Append(starts, next)
  BY InputType DEF PlanInv, Shape, Open, Turn, More, Size, Rivals
<1> DEFINE m == Len(starts)
           t == Append(starts, next)
<1>2. /\ m \in Nat /\ \A k \in 1 .. m : starts[k] \in 1 .. Size /\ starts[k] < next
      /\ (starts = <<>> <=> m = 0) /\ (starts = <<>> <=> next = 1)
  BY <1>1 DEF PlanInv, Shape
<1>3. /\ Len(t) = m + 1 /\ t[m + 1] = next /\ \A k \in 1 .. m : t[k] = starts[k]
  BY <1>1, <1>2 DEF PlanInv, Shape
<1> SUFFICES ASSUME NEW s \in Rivals
             PROVE  m + 1 <= Len(s) /\ \A k \in 1 .. (m + 1) : s[k] <= t[k]
  BY <1>1, <1>3 DEF Ahead
<1> HIDE DEF t
<1>4. /\ Len(s) \in Nat \ {0} /\ s[1] = 1
      /\ \A k \in 1 .. Len(s) : s[k] \in 1 .. Size
      /\ \A k \in 1 .. Len(s) : EndOf(s, k, Size) \in s[k] .. Size
      /\ \A k \in 1 .. Len(s) : Fits(input, s[k], EndOf(s, k, Size))
  BY <1>1, RivalType
<1>5. m <= Len(s) /\ \A k \in 1 .. m : s[k] <= starts[k]
  BY DEF PlanInv, Ahead
<1>6. m + 1 <= Len(s) /\ s[m + 1] <= next
  <2>1. CASE m = 0
    BY <1>1, <1>2, <1>4, <2>1
  <2>2. CASE m # 0
    <3>1. m \in 1 .. Len(s) /\ m \in 1 .. m /\ ~Fits(input, starts[m], next)
      BY <1>2, <1>4, <1>5, <2>2 DEF Open, HasRoomFor
    <3>2. EndOf(s, m, Size) < next
      <4> SUFFICES ASSUME next <= EndOf(s, m, Size) PROVE FALSE
        BY <1>1, <1>4, <3>1
      <4>1. /\ s[m] \in 1 .. Size /\ EndOf(s, m, Size) \in 1 .. Size
            /\ Fits(input, s[m], EndOf(s, m, Size))
        BY <1>1, <1>4, <3>1
      <4>2. starts[m] \in s[m] .. EndOf(s, m, Size) /\ next \in starts[m] .. EndOf(s, m, Size)
        BY <1>1, <1>2, <1>5, <3>1, <4>1
      <4> QED BY <1>1, <3>1, <4>1, <4>2, PartFits
    <3>3. m # Len(s) /\ EndOf(s, m, Size) = s[m + 1] - 1
      BY <1>1, <3>2 DEF EndOf
    <3>4. m + 1 \in 1 .. Len(s)
      BY <1>4, <3>1, <3>3
    <3> QED BY <1>1, <1>4, <3>2, <3>3, <3>4
  <2> QED BY <2>1, <2>2
<1>7. \A k \in 1 .. (m + 1) : k \in 1 .. m \/ k = m + 1
  BY <1>2
<1> QED BY <1>3, <1>5, <1>6, <1>7

LEMMA InvStep == PlanInv /\ [PlanNext]_planVars => PlanInv'
<1> SUFFICES ASSUME PlanInv, [PlanNext]_planVars PROVE PlanInv'
  OBVIOUS
<1>1. CASE Refuse
  <2>1. /\ input' = input /\ next' = next /\ starts' = starts /\ Size' = Size /\ Rivals' = Rivals
    BY <1>1 DEF Refuse, Size, Rivals
  <2>2. Hopeless'
    BY <1>1, <2>1 DEF Refuse, More, Hopeless, Size
  <2>3. Shape'
    BY <1>1, <2>1 DEF Refuse, PlanInv, Shape
  <2> QED BY <2>1, <2>2, <2>3 DEF PlanInv, Sound, Ahead, Covered
<1>2. CASE Join
  <2>1. input' = input /\ starts' = starts /\ refused' = FALSE /\ Rivals' = Rivals
    BY <1>2 DEF Join, Turn, More, PlanInv, Shape, Rivals, Size
  <2>2. Ahead' /\ Hopeless'
    BY <2>1 DEF PlanInv, Ahead, Hopeless
  <2>3. Covered'
    BY <1>2, CoveredStep DEF Join
  <2> QED BY <1>2, <2>2, <2>3, JoinSound DEF PlanInv
<1>3. CASE Open
  <2>1. Hopeless'
    BY <1>3 DEF Open, Turn, More, Hopeless
  <2>2. Covered'
    BY <1>3, CoveredStep DEF Open
  <2> QED BY <1>3, <2>1, <2>2, OpenSound, AheadStep DEF PlanInv
<1>4. CASE UNCHANGED planVars
  BY <1>4 DEF planVars, PlanInv, Shape, Sound, Ahead, Covered, Hopeless, Rivals, Size
<1> QED BY <1>1, <1>2, <1>3, <1>4 DEF PlanNext

\* A rival would have the atom that does not fit alone in one of its batches.
LEMMA NoRivalIfRefused ==
  ASSUME PlanInv, refused
  PROVE  Rivals = {}
<1> SUFFICES ASSUME NEW s \in Rivals PROVE FALSE
  OBVIOUS
<1>1. /\ input \in Inputs /\ Size \in Nat /\ next \in 1 .. Size
      /\ PayloadSize(input.atoms, next, next) > input.maxBytes
  BY InputType DEF PlanInv, Shape, Hopeless, Size
<1>2. PICK k \in DOMAIN s : s[k] <= next /\ next <= EndOf(s, k, Size)
  BY <1>1 DEF PlanInv, Covered
<1>3. /\ s[k] \in 1 .. Size /\ EndOf(s, k, Size) \in s[k] .. Size
      /\ Fits(input, s[k], EndOf(s, k, Size))
  BY <1>1, <1>2, RivalType
<1>4. next \in s[k] .. EndOf(s, k, Size) /\ EndOf(s, k, Size) \in 1 .. Size /\ next \in next .. EndOf(s, k, Size)
  BY <1>1, <1>2, <1>3
<1>5. Fits(input, next, next)
  <2>1. next \in next .. EndOf(s, k, Size)
    BY <1>4
  <2> QED BY <1>1, <1>3, <1>4, <2>1, PartFits
<1>6. PayloadSize(input.atoms, next, next) \in Nat /\ input.maxBytes \in Nat
  <2>1. /\ input.atoms \in Seq(PlanAtom) /\ next \in Nat \ {0} /\ next \in 0 .. Len(input.atoms)
        /\ input \in Inputs
    BY <1>1, <1>4, InputAssumption DEF Size, PlanInv, Shape
  <2> QED BY <2>1, PayloadType, InputType
<1> QED BY <1>1, <1>5, <1>6 DEF Fits

LEMMA InvIsBest == PlanInv => PlansAreBest
<1> SUFFICES ASSUME PlanInv PROVE PlansAreBest
  OBVIOUS
<1>1. refused => Rivals = {}
  BY NoRivalIfRefused
<1>2. ASSUME Done PROVE starts \in Rivals /\ \A s \in Rivals : Len(starts) <= Len(s)
  <2>1. /\ Size \in Nat \ {0} /\ next = Size + 1 /\ starts \in Seq(1 .. Size) /\ starts # <<>>
        /\ Len(starts) < next
    BY <1>2, InputType DEF PlanInv, Shape, Done, Size
  <2>2. Acceptable(input, starts, Size)
    BY <2>1 DEF PlanInv, Sound
  <2>3. Len(starts) \in 1 .. Size
    BY <2>1
  <2>4. starts \in Cuts(Size)
    BY <2>1, <2>3 DEF Cuts
  <2> QED BY <2>2, <2>4 DEF Rivals, PlanInv, Ahead
<1> QED BY <1>1, <1>2 DEF PlansAreBest, Rivals, Size

\* The greedy pass makes plans that the loader accepts and that no other plan it would
\* accept undercuts, and gives up only if there is none: for any atoms, shared
\* contexts and limits (CoverageLedger.plan).
THEOREM GreedyIsBest == PlanSpec => []PlansAreBest
<1> QED BY InitInv, InvStep, InvIsBest, PTL DEF PlanSpec

-----------------------------------------------------------------------------
(* The ledger.  The inductive invariant is TypeOK /\ ValidLedger(ledger); what  *)
(* each transition keeps is proved in CoverageLedgerProofs.                   *)

\* The inductive invariant of the ledger: every sequence of calls keeps it
\* well-typed and passing the checks the code makes only on load.
LEMMA ValidLedgerIsInvariant == Spec => [](TypeOK /\ ValidLedger(ledger))
<1>1. Init => TypeOK /\ ValidLedger(ledger)
  BY PlannedIsValid DEF Init, TypeOK
<1>2. TypeOK /\ ValidLedger(ledger) /\ [Next]_ledger => (TypeOK /\ ValidLedger(ledger))'
  <2> SUFFICES ASSUME ledger \in Ledger, ValidLedger(ledger), [Next]_ledger
               PROVE  ledger' \in Ledger /\ ValidLedger(ledger')
    BY DEF TypeOK
  <2>1. ASSUME NEW b \in Batch, OfferBatch(b)
        PROVE  ledger' \in Ledger /\ ValidLedger(ledger')
    BY <2>1, OfferPreserves DEF OfferBatch
  <2>2. ASSUME NEW v \in NewVerdict, Accept(v)
        PROVE  ledger' \in Ledger /\ ValidLedger(ledger')
    BY <2>2, AcceptPreserves DEF Accept
  <2>3. ASSUME NEW b \in Batch, NEW r \in Reason, Block(b, r)
        PROVE  ledger' \in Ledger /\ ValidLedger(ledger')
    BY <2>3, BlockPreserves DEF Block
  <2>4. ASSUME NEW s \in TerminalStates, Finalize(s)
        PROVE  ledger' \in Ledger /\ ValidLedger(ledger')
    BY <2>4, FinalizePreserves DEF Finalize
  <2>5. CASE UNCHANGED ledger
    BY <2>5
  <2> QED BY <2>1, <2>2, <2>3, <2>4, <2>5 DEF Next
<1> QED BY <1>1, <1>2, PTL DEF Spec

\* Every transition of the class returns a well-formed ledger.
THEOREM TypeCorrect == Spec => []TypeOK
BY ValidLedgerIsInvariant, PTL

\* A ledger reached by the transitions, which skip __post_init__
\* (_transitioned), would pass it: whatever is persisted can be loaded back.
THEOREM LedgerStaysLoadable == Spec => []LoaderAccepts
<1>1. ValidLedger(ledger) => LoaderAccepts
  BY DEF LoaderAccepts, ValidLedger, StatusesAgree, HistoryIsAChain, EffectiveIsLatest, TerminalIsTruthful
<1> QED BY <1>1, ValidLedgerIsInvariant, PTL

\* No transition drops, reorders or edits a stored verdict; the only change
\* it ever undergoes is from accepted to superseded.
THEOREM HistoryIsNeverRewritten == Spec => HistoryAppendOnly
<1>1. ASSUME TypeOK, ValidLedger(ledger), [Next]_ledger, NEW b \in Batch
      PROVE  Extends(ledger.verdicts[b], ledger'.verdicts[b]) \/ UNCHANGED ledger
  <2>1. ASSUME NEW v \in NewVerdict, Accept(v)
        PROVE  Extends(ledger.verdicts[b], ledger'.verdicts[b])
    BY <1>1, <2>1, AcceptExtends DEF Accept, TypeOK
  <2>2. ASSUME ledger'.verdicts = ledger.verdicts
        PROVE  Extends(ledger.verdicts[b], ledger'.verdicts[b])
    <3>1. Len(ledger.verdicts[b]) \in Nat
      BY <1>1 DEF TypeOK, Ledger
    <3> QED BY <2>2, <3>1 DEF Extends, SameContent
  <2>3. ASSUME NEW c \in Batch, OfferBatch(c)
        PROVE  ledger'.verdicts = ledger.verdicts
    BY <1>1, <2>3 DEF OfferBatch, OfferResult, TypeOK, Ledger
  <2>4. ASSUME NEW c \in Batch, NEW r \in Reason, Block(c, r)
        PROVE  ledger'.verdicts = ledger.verdicts
    BY <1>1, <2>4 DEF Block, BlockResult, TypeOK, Ledger
  <2>5. ASSUME NEW s \in TerminalStates, Finalize(s)
        PROVE  ledger'.verdicts = ledger.verdicts
    BY <1>1, <2>5 DEF Finalize, FinalizeResult, TypeOK, Ledger
  <2> QED BY <1>1, <2>1, <2>2, <2>3, <2>4, <2>5 DEF Next
<1>2. TypeOK /\ ValidLedger(ledger) /\ [Next]_ledger
        => [\A b \in Batch : Extends(ledger.verdicts[b], ledger'.verdicts[b])]_ledger
  BY <1>1
<1> QED BY <1>2, ValidLedgerIsInvariant, PTL DEF Spec, HistoryAppendOnly

-----------------------------------------------------------------------------
(* The promise of ReviewOutcome.                                            *)

\* What stands about an atom is what the last verdict of its batch says: that
\* verdict's identity is used once in the whole Run.
LEMMA StandingIsLatest ==
  ASSUME NEW l \in Ledger, ValidLedger(l), NEW a \in Atom
  PROVE  LET chain == l.verdicts[BatchOf[a]]
         IN  /\ Len(chain) = 0 => StandingDecision(l, a) = None
             /\ Len(chain) > 0 => /\ StandingDecision(l, a) = chain[Len(chain)].decisions[a]
                                  /\ StandingDecision(l, a) \in Value
<1> DEFINE b == BatchOf[a]
           chain == l.verdicts[b]
           n == Len(chain)
           v == chain[n]
<1>1. b \in Batch /\ chain \in Seq(Verdict) /\ n \in Nat
  BY PlanAssumption DEF Ledger
<1>2. l.entries[a].effective = IF n = 0 THEN None ELSE v.id
  BY DEF ValidLedger, EffectiveVerdict, LatestId
<1>3. CASE n = 0
  BY <1>2, <1>3 DEF StandingDecision
<1>4. CASE n > 0
  <2>1. n \in 1..n /\ v \in Verdict
    BY <1>1, <1>4
  <2>2. v.id \in SubmissionId /\ v.id # None /\ v.decisions \in Decisions
    BY <2>1, NoneAssumption DEF Verdict
  <2>3. Stored(l, v.id) = {v}
    <3>1. v \in Stored(l, v.id)
      BY <1>1, <2>1 DEF Stored
    <3>2. ASSUME NEW w \in Stored(l, v.id) PROVE w = v
      <4>1. PICK c \in Batch : \E j \in 1..Len(l.verdicts[c]) : w = l.verdicts[c][j] /\ w.id = v.id
        BY <3>2 DEF Stored
      <4>2. PICK j \in 1..Len(l.verdicts[c]) : w = l.verdicts[c][j] /\ w.id = v.id
        BY <4>1
      <4>3. c = b /\ j = n
        BY <1>1, <2>1, <4>2 DEF ValidLedger, RevisionChain
      <4> QED BY <4>2, <4>3
    <3> QED BY <3>1, <3>2
  <2>4. DOMAIN v.decisions = AtomsOf(b)
    BY <1>1, <2>1 DEF ValidLedger, RevisionChain
  <2>5. a \in AtomsOf(b)
    BY DEF AtomsOf
  <2>6. v.decisions[a] \in Value
    BY <2>2, <2>4, <2>5 DEF Decisions
  <2>7. StandingDecision(l, a) = v.decisions[a]
    <3>1. l.entries[a].effective = v.id
      BY <1>2, <1>4
    <3>2. (CHOOSE w \in {v} : TRUE) = v
      OBVIOUS
    <3> HIDE DEF v
    <3> QED BY <2>2, <2>3, <3>1, <3>2 DEF StandingDecision
  <2> QED BY <1>1, <1>4, <2>6, <2>7
<1> QED BY <1>1, <1>3, <1>4

\* What ReviewOutcome sees of a ledger, beside its terminal status.
DecidedIn(l) == [a \in Atom |-> StandingDecision(l, a)]
BlockedIn(l) == {b \in Batch : \E a \in AtomsOf(b) : l.entries[a].status = "blocked"}

\* It reads the stored verdicts and nothing else.
LEMMA SameDecisions ==
  ASSUME NEW l \in Ledger, NEW m \in Ledger, ValidLedger(l), ValidLedger(m),
         m.verdicts = l.verdicts
  PROVE  DecidedIn(m) = DecidedIn(l)
<1>1. ASSUME NEW a \in Atom PROVE StandingDecision(m, a) = StandingDecision(l, a)
  <2> DEFINE n == Len(l.verdicts[BatchOf[a]])
  <2>1. n \in Nat
    BY PlanAssumption DEF Ledger
  <2>2. n = 0 => StandingDecision(m, a) = None /\ StandingDecision(l, a) = None
    BY StandingIsLatest
  <2>3. n > 0 => StandingDecision(m, a) = StandingDecision(l, a)
    BY StandingIsLatest
  <2> QED BY <2>1, <2>2, <2>3
<1> QED BY <1>1 DEF DecidedIn

\* offer() says nothing about any atom.
LEMMA OfferIsSilent ==
  ASSUME NEW l \in Ledger, ValidLedger(l), NEW b \in Batch, CanOffer(l, b)
  PROVE  LET m == OfferResult(l, b) IN
         DecidedIn(m) = DecidedIn(l) /\ BlockedIn(m) = BlockedIn(l) /\ m.terminal = l.terminal
<1> DEFINE m == OfferResult(l, b)
           B == [l.batches EXCEPT ![b].status = "offered"]
           E == [a \in Atom |-> IF BatchOf[a] = b
                   THEN [l.entries[a] EXCEPT !.status = "offered"] ELSE l.entries[a]]
<1>1. m \in Ledger /\ ValidLedger(m) /\ m = [l EXCEPT !.batches = B, !.entries = E]
  BY OfferPreserves DEF OfferResult
<1>2. /\ m.verdicts = l.verdicts /\ m.terminal = l.terminal
      /\ \A a \in Atom : m.entries[a] = IF BatchOf[a] = b
                                        THEN [l.entries[a] EXCEPT !.status = "offered"]
                                        ELSE l.entries[a]
  <2>1. \A a \in Atom : E[a] = IF BatchOf[a] = b THEN [l.entries[a] EXCEPT !.status = "offered"]
                               ELSE l.entries[a]
    OBVIOUS
  <2> HIDE DEF B, E, m
  <2> QED BY <1>1, <2>1 DEF Ledger
<1>4. DecidedIn(m) = DecidedIn(l)
  BY <1>1, <1>2, SameDecisions
<1>5. \A a \in Atom : BatchOf[a] = b => /\ m.entries[a].status = "offered"
                                       /\ l.entries[a].status # "blocked"
  <2>1. \A a \in Atom : BatchOf[a] = b => l.entries[a].status # "blocked"
    BY DEF ValidLedger, StatusAgreement, CanOffer
  <2> HIDE DEF m, B, E
  <2> QED BY <1>2, <2>1 DEF Ledger, CoverageEntry
<1>6. \A a \in Atom : m.entries[a].status = "blocked" <=> l.entries[a].status = "blocked"
  BY <1>2, <1>5
<1>7. BlockedIn(m) = BlockedIn(l)
  BY <1>6 DEF BlockedIn, AtomsOf
<1> QED BY <1>2, <1>4, <1>7

\* A new verdict decides its batch, all of it and nothing else.
LEMMA AcceptDecides ==
  ASSUME NEW l \in Ledger, ValidLedger(l), NEW v \in NewVerdict, CanAccept(l, v),
         Stored(l, v.id) = {}
  PROVE  LET m == AcceptResult(l, v) IN
         /\ l.terminal = None /\ m.terminal = None
         /\ v.batch \notin BlockedIn(l) /\ BlockedIn(m) = BlockedIn(l)
         /\ v.decisions \in [AtomsOf(v.batch) -> Value]
         /\ DecidedIn(m) = [a \in Atom |-> IF BatchOf[a] = v.batch THEN v.decisions[a]
                                           ELSE DecidedIn(l)[a]]
<1> DEFINE m == AcceptResult(l, v)
           b == v.batch
           B == [l.batches EXCEPT ![b].status = "accepted"]
           V == [l.verdicts EXCEPT ![b] = Revised(l, v)]
           E == [a \in Atom |-> IF BatchOf[a] = b
                   THEN [l.entries[a] EXCEPT !.status = "accepted", !.effective = v.id,
                                             !.revisions = RevisionIds(l, v)]
                   ELSE l.entries[a]]
<1>1. v \in Verdict /\ b \in Batch /\ l.terminal = None /\ IsNew(l, v)
  BY DEF NewVerdict, Verdict, CanAccept, IsReplay
<1>2. m \in Ledger /\ ValidLedger(m) /\ m = [l EXCEPT !.batches = B, !.verdicts = V, !.entries = E]
  BY AcceptPreserves DEF AcceptResult, Recorded
<1>3. /\ m.terminal = l.terminal
      /\ m.verdicts[b] = Revised(l, v)
      /\ \A c \in Batch \ {b} : m.verdicts[c] = l.verdicts[c]
      /\ \A a \in Atom : BatchOf[a] # b => m.entries[a] = l.entries[a]
      /\ \A a \in Atom : BatchOf[a] = b => m.entries[a].status = "accepted"
  <2>1. V[b] = Revised(l, v) /\ \A c \in Batch \ {b} : V[c] = l.verdicts[c]
    BY <1>1 DEF Ledger
  <2>2. \A a \in Atom : IF BatchOf[a] = b THEN E[a].status = "accepted" ELSE E[a] = l.entries[a]
    BY DEF Ledger, CoverageEntry
  <2> HIDE DEF B, E, V, m
  <2> QED BY <1>2, <2>1, <2>2 DEF Ledger
<1>4. Len(m.verdicts[b]) \in Nat \ {0} /\ m.verdicts[b][Len(m.verdicts[b])] = v
  <2>1. Len(l.verdicts[b]) \in Nat
    BY <1>1 DEF Ledger
  <2> QED BY <1>1, <1>3, <2>1, RevisedChain
<1>5. \A a \in Atom : BatchOf[a] = b => l.entries[a].status \in {"offered", "accepted"}
  BY <1>1 DEF ValidLedger, StatusAgreement, IsNew, IsInitial, IsCorrection
<1>6. b \notin BlockedIn(l) /\ BlockedIn(m) = BlockedIn(l)
  BY <1>3, <1>5 DEF BlockedIn, AtomsOf
<1>7. v.decisions \in [AtomsOf(b) -> Value]
  BY <1>1 DEF IsNew, Verdict, Decisions
<1>8. ASSUME NEW a \in Atom
      PROVE  StandingDecision(m, a) = IF BatchOf[a] = b THEN v.decisions[a]
                                      ELSE StandingDecision(l, a)
  <2>1. CASE BatchOf[a] = b
    <3>1. Len(m.verdicts[BatchOf[a]]) > 0
      BY <1>4, <2>1
    <3> HIDE DEF m, B, V, E
    <3>2. StandingDecision(m, a) = v.decisions[a]
      <4>1. /\ m.verdicts[BatchOf[a]] = m.verdicts[b]
            /\ m.verdicts[b][Len(m.verdicts[b])] = v
        BY <1>4, <2>1
      <4>2. StandingDecision(m, a) = m.verdicts[b][Len(m.verdicts[b])].decisions[a]
        BY <1>2, <3>1, <4>1, StandingIsLatest
      <4> QED BY <4>1, <4>2
    <3> QED BY <2>1, <3>2
  <2>2. CASE BatchOf[a] # b
    <3>1. BatchOf[a] \in Batch /\ m.verdicts[BatchOf[a]] = l.verdicts[BatchOf[a]]
      BY <1>3, <2>2, PlanAssumption
    <3>2. Len(l.verdicts[BatchOf[a]]) \in Nat
      BY <3>1 DEF Ledger
    <3> DEFINE n == Len(l.verdicts[BatchOf[a]])
    <3> HIDE DEF m, B, V, E
    <3>3. n = 0 => StandingDecision(m, a) = None /\ StandingDecision(l, a) = None
      BY <1>2, <3>1, StandingIsLatest
    <3>4. n > 0 => StandingDecision(m, a) = StandingDecision(l, a)
      <4>1. n > 0 => StandingDecision(l, a) = l.verdicts[BatchOf[a]][n].decisions[a]
        BY StandingIsLatest
      <4>2. n > 0 => /\ Len(m.verdicts[BatchOf[a]]) = n
                     /\ StandingDecision(m, a) = m.verdicts[BatchOf[a]][n].decisions[a]
        BY <1>2, <3>1, StandingIsLatest
      <4> QED BY <3>1, <4>1, <4>2
    <3> QED BY <2>2, <3>2, <3>3, <3>4
  <2> QED BY <2>1, <2>2
<1> QED BY <1>1, <1>3, <1>6, <1>7, <1>8 DEF DecidedIn

\* block() gives up on a batch without a decision, and decides nothing.
LEMMA BlockGivesUp ==
  ASSUME NEW l \in Ledger, ValidLedger(l), NEW b \in Batch, NEW r \in Reason, CanBlock(l, b, r)
  PROVE  LET m == BlockResult(l, b, r) IN
         /\ l.terminal = None /\ m.terminal = None
         /\ \A a \in AtomsOf(b) : DecidedIn(l)[a] = None
         /\ DecidedIn(m) = DecidedIn(l) /\ BlockedIn(m) = BlockedIn(l) \cup {b}
<1> DEFINE m == BlockResult(l, b, r)
           B == [l.batches EXCEPT ![b] = [status |-> "blocked", reason |-> r]]
           E == [a \in Atom |-> IF BatchOf[a] = b
                   THEN [l.entries[a] EXCEPT !.status = "blocked", !.reason = r]
                   ELSE l.entries[a]]
<1>1. /\ m \in Ledger /\ ValidLedger(m) /\ l.terminal = None
      /\ m = [l EXCEPT !.batches = B, !.entries = E]
  BY BlockPreserves DEF CanBlock, BlockResult
<1>2. /\ m.verdicts = l.verdicts /\ m.terminal = l.terminal
      /\ \A a \in Atom : m.entries[a] = IF BatchOf[a] = b
                        THEN [l.entries[a] EXCEPT !.status = "blocked", !.reason = r]
                        ELSE l.entries[a]
  <2>1. \A a \in Atom : E[a] = IF BatchOf[a] = b
                        THEN [l.entries[a] EXCEPT !.status = "blocked", !.reason = r]
                        ELSE l.entries[a]
    OBVIOUS
  <2> HIDE DEF B, E, m
  <2> QED BY <1>1, <2>1 DEF Ledger
<1>4. DecidedIn(m) = DecidedIn(l)
  BY <1>1, <1>2, SameDecisions
<1>5. \A a \in Atom : BatchOf[a] = b => m.entries[a].status = "blocked"
  BY <1>2 DEF Ledger, CoverageEntry
<1>6. AtomsOf(b) # {}
  BY PlanAssumption
<1>7. BlockedIn(m) = BlockedIn(l) \cup {b}
  <2> HIDE DEF m, B, E
  <2>1. \A a \in Atom : m.entries[a].status = "blocked"
                      <=> BatchOf[a] = b \/ l.entries[a].status = "blocked"
    BY <1>2, <1>5
  <2>2. \A c \in Batch : \A a \in AtomsOf(c) : a \in Atom /\ BatchOf[a] = c
    BY DEF AtomsOf
  <2>3. \A c \in Batch \ {b} : c \in BlockedIn(m) <=> c \in BlockedIn(l)
    BY <2>1, <2>2 DEF BlockedIn
  <2>4. b \in BlockedIn(m)
    BY <1>6, <2>1, <2>2 DEF BlockedIn
  <2> QED BY <2>3, <2>4 DEF BlockedIn
<1>8. ASSUME NEW a \in AtomsOf(b) PROVE StandingDecision(l, a) = None
  <2>1. a \in Atom /\ BatchOf[a] = b
    BY DEF AtomsOf
  <2>2. l.entries[a].status # "accepted"
    BY <2>1 DEF CanBlock, ValidLedger, StatusAgreement
  <2>3. Len(l.verdicts[b]) \in Nat /\ ~(Len(l.verdicts[b]) > 0)
    BY <2>1, <2>2 DEF ValidLedger, EffectiveVerdict, Ledger
  <2>4. Len(l.verdicts[b]) = 0
    BY <2>3
  <2> QED BY <2>1, <2>4, StandingIsLatest
<1>9. \A a \in AtomsOf(b) : DecidedIn(l)[a] = None
  BY <1>8 DEF DecidedIn, AtomsOf
<1> QED BY <1>1, <1>2, <1>4, <1>7, <1>9

\* finalize() tells the truth about what is decided and what was given up.
LEMMA FinalizeIsTruthful ==
  ASSUME NEW l \in Ledger, ValidLedger(l), NEW s \in TerminalStates, CanFinalize(l, s)
  PROVE  LET m == FinalizeResult(l, s) IN
         /\ DecidedIn(m) = DecidedIn(l) /\ BlockedIn(m) = BlockedIn(l) /\ m.terminal = s
         /\ l.terminal = None \/ l.terminal = s
         /\ l.terminal = None /\ s = "completed" => \A a \in Atom : DecidedIn(l)[a] # None
         /\ l.terminal = None /\ s = "partial" =>
              \A b \in Batch : b \in BlockedIn(l) \/ \A a \in AtomsOf(b) : DecidedIn(l)[a] # None
<1> DEFINE m == FinalizeResult(l, s)
<1>1. m \in Ledger /\ ValidLedger(m)
  BY FinalizePreserves
<1>2. m.verdicts = l.verdicts /\ m.entries = l.entries /\ m.terminal = s
  BY DEF FinalizeResult, Ledger
<1>3. DecidedIn(m) = DecidedIn(l) /\ BlockedIn(m) = BlockedIn(l)
  BY <1>1, <1>2, SameDecisions DEF BlockedIn
<1>4. ASSUME NEW a \in Atom, l.batches[BatchOf[a]].status = "accepted"
      PROVE  DecidedIn(l)[a] # None
  <2>1. Len(l.verdicts[BatchOf[a]]) > 0
    BY <1>4 DEF ValidLedger, StatusAgreement, EffectiveVerdict
  <2>2. StandingDecision(l, a) \in Value
    BY <2>1, StandingIsLatest
  <2> QED BY <2>2, NoneAssumption DEF DecidedIn
<1>5. \A b \in Batch : \A a \in AtomsOf(b) : a \in Atom /\ BatchOf[a] = b /\ b \in Batch
  BY DEF AtomsOf
<1>6. l.terminal = None /\ s = "completed" => \A a \in Atom : DecidedIn(l)[a] # None
  <2>1. \A a \in Atom : BatchOf[a] \in Batch
    BY PlanAssumption
  <2> QED BY <1>4, <2>1, NoneAssumption DEF CanFinalize, TerminalStates
<1>7. ASSUME l.terminal = None, s = "partial", NEW b \in Batch
      PROVE  b \in BlockedIn(l) \/ \A a \in AtomsOf(b) : DecidedIn(l)[a] # None
  <2>1. l.batches[b].status \in {"accepted", "blocked"}
    BY <1>7, NoneAssumption DEF CanFinalize, TerminalStates
  <2>2. CASE l.batches[b].status = "accepted"
    BY <1>4, <1>5, <2>2
  <2>3. CASE l.batches[b].status = "blocked"
    <3>1. PICK a \in AtomsOf(b) : TRUE
      BY PlanAssumption
    <3>2. l.entries[a].status = "blocked"
      BY <1>5, <2>3, <3>1 DEF ValidLedger, StatusAgreement
    <3> QED BY <3>1, <3>2 DEF BlockedIn
  <2> QED BY <2>1, <2>2, <2>3
<1>8. l.terminal = None \/ l.terminal = s
  BY DEF CanFinalize
<1> QED BY <1>2, <1>3, <1>6, <1>7, <1>8

\* The ledger keeps the promise of ReviewOutcome: seen through the decisions that
\* stand, each transition of the class decides a whole batch, gives up on an
\* undecided one, freezes the review truthfully, or changes nothing.
THEOREM LedgerImplementsOutcome == Spec => ImplementsOutcome
<1> DEFINE d == DecidedIn(ledger)
           k == BlockedIn(ledger)
<1>1. Init => Outcome!Init
  <2> SUFFICES ASSUME Init PROVE Outcome!Init
    OBVIOUS
  <2>1. \A a \in Atom : /\ ledger.entries[a].effective = None
                       /\ ledger.entries[a].status = "planned"
    BY DEF Init, Planned
  <2>2. \A a \in Atom : StandingDecision(ledger, a) = None
    BY <2>1 DEF StandingDecision
  <2>3. ledger.terminal = None
    BY DEF Init, Planned
  <2> QED BY <2>1, <2>2, <2>3 DEF Outcome!Init, AtomsOf
<1>2. TypeOK /\ ValidLedger(ledger) /\ [Next]_ledger => [Outcome!Next]_(Outcome!vars)
  <2> SUFFICES ASSUME ledger \in Ledger, ValidLedger(ledger), [Next]_ledger
               PROVE  Outcome!Next \/ UNCHANGED Outcome!vars
    BY DEF TypeOK
  <2>1. ASSUME d' = d, k' = k, ledger'.terminal = ledger.terminal
        PROVE  UNCHANGED Outcome!vars
    BY <2>1 DEF Outcome!vars, DecidedIn, BlockedIn
  <2>2. ASSUME NEW b \in Batch, OfferBatch(b)
        PROVE  UNCHANGED Outcome!vars
    BY <2>1, <2>2, OfferIsSilent DEF OfferBatch
  <2>3. ASSUME NEW v \in NewVerdict, Accept(v)
        PROVE  Outcome!Next \/ UNCHANGED Outcome!vars
    <3>1. CASE Stored(ledger, v.id) # {}
      BY <2>1, <2>3, <3>1 DEF Accept, AcceptResult
    <3>2. CASE Stored(ledger, v.id) = {}
      <4>1. v.batch \in Batch
        BY DEF NewVerdict, Verdict
      <4>2. Outcome!Decide(v.batch)
        <5> DEFINE b == v.batch
                   choice == v.decisions
        <5>1. /\ ledger.terminal = None /\ ledger'.terminal = None
              /\ b \notin k /\ k' = k
              /\ choice \in [AtomsOf(b) -> Value]
              /\ d' = [a \in Atom |-> IF BatchOf[a] = b THEN choice[a] ELSE d[a]]
          BY <2>3, <3>2, AcceptDecides DEF Accept
        <5> HIDE DEF b, choice
        <5>2. Outcome!Decide(b)
          BY <5>1 DEF Outcome!Decide, Outcome!AtomsIn, DecidedIn, BlockedIn, AtomsOf
        <5> QED BY <5>2 DEF b
      <4> QED BY <4>1, <4>2 DEF Outcome!Next
    <3> QED BY <3>1, <3>2
  <2>4. ASSUME NEW b \in Batch, NEW r \in Reason, Block(b, r)
        PROVE  Outcome!Next
    <3>1. Outcome!GiveUp(b)
      BY <2>4, BlockGivesUp
      DEF Block, Outcome!GiveUp, Outcome!Undecided, Outcome!AtomsIn, DecidedIn, BlockedIn, AtomsOf
    <3> QED BY <3>1 DEF Outcome!Next
  <2>5. ASSUME NEW s \in TerminalStates, Finalize(s)
        PROVE  Outcome!Next \/ UNCHANGED Outcome!vars
    <3>1. CASE ledger.terminal = s
      BY <2>1, <2>5, <3>1, FinalizeIsTruthful DEF Finalize
    <3>2. CASE ledger.terminal = None
      <4>1. Outcome!Finish(s)
        BY <2>5, <3>2, FinalizeIsTruthful
        DEF Finalize, Outcome!Finish, Outcome!Decided, Outcome!AtomsIn, DecidedIn, BlockedIn, AtomsOf
      <4> QED BY <4>1 DEF Outcome!Next, TerminalStates
    <3> QED BY <2>5, <3>1, <3>2, FinalizeIsTruthful DEF Finalize
  <2>6. CASE UNCHANGED ledger
    BY <2>1, <2>6
  <2> QED BY <2>2, <2>3, <2>4, <2>5, <2>6 DEF Next
<1> QED BY <1>1, <1>2, ValidLedgerIsInvariant, PTL DEF Spec, ImplementsOutcome, Outcome!Spec
-----------------------------------------------------------------------------
(* The journal: what was acknowledged is never truncated away, and a load that *)
(* succeeds has followed the digests, so that it returns a continuation of it. *)
(* A line that is spoiled, or chained to another history, is a refusal.        *)

\* Where an interrupted write is truncated away, all who append share a store.
OneJournalist(d) ==
  "write" \notin d.faults \/ \A c, e \in Caller \ d.legacy : d.storeOf[c] = d.storeOf[e]

\* One of the first n lines ends the history h.
Kept(lines, n, h) == \E i \in 1 .. n : EventDigest(lines[i]) = h

Writing(w) == w # None /\ w.doing \in {"append", "rollback"}

\* A write goes on, and is rolled back only where writes fail.
Continues(w, v) ==
  Writing(v) => /\ Writing(w) /\ v.caller = w.caller /\ v.offset = w.offset
                /\ v.doing = w.doing \/ "write" \in Faults
                /\ DOMAIN v = DOMAIN w

JournalShape ==
  /\ deployment \in Deployments
  /\ busy = [p \in Store |-> busy[p]]
  /\ journal.lines = [i \in 1 .. Len(journal.lines) |-> journal.lines[i]]
  /\ Len(journal.lines) \in Nat
  /\ \A p \in Store : Writing(busy[p]) => {"doing", "caller", "offset"} \subseteq DOMAIN busy[p]

AckedStay == \A h \in acked : Kept(journal.lines, Len(journal.lines), h)

\* What is truncated away was written after everything acknowledged.
TruncationIsSafe ==
  \A p \in Store : Writing(busy[p]) =>
    /\ busy[p].caller \in Caller \ Legacy /\ StoreOf[busy[p].caller] = p
    /\ busy[p].offset \in 0 .. Len(journal.lines)
    /\ "write" \in Faults => \A h \in acked : Kept(journal.lines, busy[p].offset, h)
    /\ busy[p].doing = "rollback" => "write" \in Faults

JournalInv == JournalShape /\ AckedStay /\ TruncationIsSafe

\* A sequence is the function of its elements.
LEMMA SequenceIsFunction ==
  ASSUME NEW S, NEW s \in Seq(S)
  PROVE  s = [i \in 1 .. Len(s) |-> s[i]] /\ Len(s) \in Nat
OBVIOUS

\* A file that is only appended to, and by whom.
LEMMA AppendKeeps ==
  ASSUME NEW lines, lines = [i \in 1 .. Len(lines) |-> lines[i]], Len(lines) \in Nat, NEW e
  PROVE  /\ Append(lines, e) = [i \in 1 .. Len(lines) + 1 |->
                                  IF i = Len(lines) + 1 THEN e ELSE lines[i]]
         /\ Len(Append(lines, e)) = Len(lines) + 1
         /\ Append(lines, e)[Len(lines) + 1] = e
         /\ \A i \in 1 .. Len(lines) : Append(lines, e)[i] = lines[i]
<1> DEFINE S == {lines[i] : i \in 1 .. Len(lines)} \cup {e}
<1>1. lines \in Seq(S) /\ e \in S
  <2>1. lines \in [1 .. Len(lines) -> S]
    OBVIOUS
  <2> QED BY <2>1
<1> HIDE DEF S
<1>2. /\ Append(lines, e) \in Seq(S) /\ Len(Append(lines, e)) = Len(lines) + 1
      /\ \A i \in 1 .. Len(lines) : Append(lines, e)[i] = lines[i]
      /\ Append(lines, e)[Len(lines) + 1] = e
  BY <1>1
<1>3. Append(lines, e) = [i \in 1 .. Len(lines) + 1 |-> Append(lines, e)[i]]
  BY <1>2, SequenceIsFunction
<1> QED BY <1>2, <1>3

\* A part of a sequence and its next element are the next part.
LEMMA UpToNext ==
  ASSUME NEW S, NEW s \in Seq(S), NEW i \in 1 .. Len(s)
  PROVE  Append(SubSeq(s, 1, i - 1), s[i]) = SubSeq(s, 1, i)
OBVIOUS

\* A file that is truncated keeps the lines before the truncation.
LEMMA TruncationKeeps ==
  ASSUME NEW lines, lines = [i \in 1 .. Len(lines) |-> lines[i]], Len(lines) \in Nat,
         NEW n \in 0 .. Len(lines)
  PROVE  /\ SubSeq(lines, 1, n) = [i \in 1 .. n |-> lines[i]]
         /\ Len(SubSeq(lines, 1, n)) = n
<1> DEFINE S == {lines[i] : i \in 1 .. Len(lines)}
<1>1. lines \in Seq(S)
  <2>1. lines \in [1 .. Len(lines) -> S]
    OBVIOUS
  <2> QED BY <2>1
<1> HIDE DEF S
<1>2. /\ SubSeq(lines, 1, n) \in Seq(S) /\ Len(SubSeq(lines, 1, n)) = n
      /\ \A i \in 1 .. n : SubSeq(lines, 1, n)[i] = lines[i]
  BY <1>1
<1> QED BY <1>2
\* An event digests the history before it and its own operation.
LEMMA DigestUnfolds ==
  ASSUME NEW e, NEW base, NEW ops, e.previous = Digest(base, ops)
  PROVE  EventDigest(e) = Digest(base, Append(ops, e.operation))
BY DEF EventDigest, Digest

\* A load that succeeds has checked, at the line of every acknowledged
\* history, that this history is the snapshot and the operations up to there.
LEMMA JournalTruthful ==
  ASSUME JournalShape, AckedStay PROVE LoadNeverLies
<1> DEFINE lines == journal.lines
           n == Len(lines)
           ops == OpsOf(lines)
<1> SUFFICES ASSUME Loadable(snapshot, journal), NEW h \in acked
             PROVE  h.base = snapshot /\ IsPrefix(h.operations, ops)
  BY DEF LoadNeverLies
<1>1. lines = [i \in 1 .. n |-> lines[i]] /\ n \in Nat
  BY DEF JournalShape
<1>2. PICK i \in 1 .. n : EventDigest(lines[i]) = h
  BY DEF AckedStay, Kept
<1>3. Intact(snapshot, lines)
  BY DEF Loadable
<1> DEFINE S == {lines[j].operation : j \in 1 .. n}
<1>4. /\ ops \in Seq(S) /\ Len(ops) = n
      /\ ops[i] = lines[i].operation
  BY <1>1, <1>2 DEF OpsOf
<1>5. lines[i].previous = Digest(snapshot, SubSeq(ops, 1, i - 1))
  BY <1>2, <1>3 DEF Intact
<1>6. h = Digest(snapshot, Append(SubSeq(ops, 1, i - 1), ops[i]))
  BY <1>2, <1>4, <1>5, DigestUnfolds
<1> HIDE DEF lines, n, ops, S
<1>7. Append(SubSeq(ops, 1, i - 1), ops[i]) = SubSeq(ops, 1, i)
  BY <1>1, <1>2, <1>4, UpToNext
<1>8. IsPrefix(SubSeq(ops, 1, i), ops)
  BY <1>1, <1>2, <1>4 DEF IsPrefix
<1> QED BY <1>6, <1>7, <1>8 DEF Digest

\* A Run without files has acknowledged nothing.
LEMMA JournalInitInv == ASSUME JournalInit PROVE JournalInv
<1>1. JournalShape
  BY DEF JournalInit, JournalShape, NoFile, Writing
<1>2. AckedStay /\ TruncationIsSafe
  BY DEF JournalInit, AckedStay, TruncationIsSafe, Writing
<1> QED BY <1>1, <1>2 DEF JournalInv

\* A line that is added, and no store that starts to write, disturbs nothing.
LEMMA JournalGrows ==
  ASSUME JournalInv, UNCHANGED deployment, acked' = acked,
         busy' = [p \in Store |-> busy'[p]],
         Len(journal'.lines) \in Nat, Len(journal.lines) <= Len(journal'.lines),
         journal'.lines = [i \in 1 .. Len(journal'.lines) |-> journal'.lines[i]],
         \A i \in 1 .. Len(journal.lines) : journal'.lines[i] = journal.lines[i],
         \A p \in Store : Continues(busy[p], busy'[p])
  PROVE  JournalInv'
<1>1. JournalShape'
  BY DEF JournalInv, JournalShape, Continues
<1>2. ASSUME NEW h, NEW k \in 0 .. Len(journal.lines), Kept(journal.lines, k, h)
      PROVE  Kept(journal'.lines, k, h) /\ Kept(journal'.lines, Len(journal'.lines), h)
  BY <1>2 DEF Kept, JournalInv, JournalShape
<1>3. AckedStay'
  BY <1>2 DEF AckedStay, JournalInv, JournalShape
<1>4. TruncationIsSafe'
  <2> SUFFICES ASSUME NEW p \in Store, Writing(busy'[p])
               PROVE  /\ busy'[p].caller \in Caller \ Legacy' /\ StoreOf'[busy'[p].caller] = p
                      /\ busy'[p].offset \in 0 .. Len(journal'.lines)
                      /\ "write" \in Faults' =>
                           \A h \in acked' : Kept(journal'.lines, busy'[p].offset, h)
                      /\ busy'[p].doing = "rollback" => "write" \in Faults'
    BY DEF TruncationIsSafe, Writing
  <2>1. /\ Writing(busy[p]) /\ busy'[p].caller = busy[p].caller
        /\ busy'[p].offset = busy[p].offset
        /\ busy'[p].doing = busy[p].doing \/ "write" \in Faults
    BY DEF Continues
  <2>2. Legacy' = Legacy /\ StoreOf' = StoreOf /\ Faults' = Faults
    BY DEF Legacy, StoreOf, Faults
  <2> QED BY <2>1, <2>2, <1>2 DEF JournalInv, JournalShape, TruncationIsSafe
<1> QED BY <1>1, <1>3, <1>4 DEF JournalInv

\* One store's write in progress becomes another, or none.
LEMMA BusyChanges ==
  ASSUME busy = [p \in Store |-> busy[p]], NEW q \in Store, NEW w,
         busy' = [busy EXCEPT ![q] = w]
  PROVE  /\ busy' = [p \in Store |-> busy'[p]]
         /\ busy'[q] = w
         /\ \A p \in Store \ {q} : busy'[p] = busy[p]
OBVIOUS

\* A write that ends or stays as it is.
LEMMA Unchanging ==
  ASSUME NEW w, NEW v, ~Writing(v) \/ v = w PROVE Continues(w, v)
BY DEF Continues

\* A store starts, or ends, something that is not a write to the journal.
LEMMA BusyIsIdle ==
  ASSUME busy = [p \in Store |-> busy[p]], NEW q \in Store, NEW w, ~Writing(w),
         busy' = [busy EXCEPT ![q] = w]
  PROVE  /\ busy' = [p \in Store |-> busy'[p]]
         /\ \A p \in Store : Continues(busy[p], busy'[p])
<1>1. /\ busy' = [p \in Store |-> busy'[p]]
      /\ busy'[q] = w
      /\ \A p \in Store \ {q} : busy'[p] = busy[p]
  BY BusyChanges
<1> QED BY <1>1, Unchanging

\* Neither an idle store nor a save writes to the journal.
LEMMA NotWriting ==
  ASSUME NEW c, NEW l
  PROVE  ~Writing(None) /\ ~Writing([doing |-> "save", caller |-> c, result |-> l])
BY DEF Writing

\* The journal stays as it is.
LEMMA JournalIsLeft ==
  ASSUME JournalInv, UNCHANGED deployment, acked' = acked, journal'.lines = journal.lines,
         busy' = [p \in Store |-> busy'[p]],
         \A p \in Store : Continues(busy[p], busy'[p])
  PROVE  JournalInv'
<1>1. /\ Len(journal'.lines) = Len(journal.lines) /\ Len(journal.lines) \in Nat
      /\ journal.lines = [i \in 1 .. Len(journal.lines) |-> journal.lines[i]]
  BY DEF JournalInv, JournalShape
<1>2. journal'.lines = [i \in 1 .. Len(journal'.lines) |-> journal'.lines[i]]
  BY <1>1
<1>3. /\ Len(journal'.lines) \in Nat /\ Len(journal.lines) <= Len(journal'.lines)
      /\ \A i \in 1 .. Len(journal.lines) : journal'.lines[i] = journal.lines[i]
  BY <1>1
<1> QED BY <1>2, <1>3, JournalGrows

\* The lines of a file, with and without one that is added to it.
LEMMA FileLines == ASSUME NEW lines PROVE File(lines).lines = lines
BY DEF File

\* The journal's file is opened and one line, or a piece of it, is written.
LEMMA JournalIsWritten ==
  ASSUME JournalInv, UNCHANGED deployment, acked' = acked, NEW e,
         journal' \in Remains(journal.lines, e),
         busy' = [p \in Store |-> busy'[p]],
         \A p \in Store : Continues(busy[p], busy'[p])
  PROVE  JournalInv'
<1>1. \/ journal' = File(journal.lines)
      \/ \E f \in {e, Short(e)} : journal' = File(Append(journal.lines, f))
  BY DEF Remains
<1>2. CASE journal' = File(journal.lines)
  BY <1>2, FileLines, JournalIsLeft
<1>3. ASSUME NEW f, journal' = File(Append(journal.lines, f))
      PROVE  JournalInv'
  <2>1. journal'.lines = Append(journal.lines, f)
    BY <1>3, FileLines
  <2>2. /\ Len(journal.lines) \in Nat
        /\ journal.lines = [i \in 1 .. Len(journal.lines) |-> journal.lines[i]]
    BY DEF JournalInv, JournalShape
  <2>3. /\ Len(journal'.lines) = Len(journal.lines) + 1
        /\ \A i \in 1 .. Len(journal.lines) : journal'.lines[i] = journal.lines[i]
    BY <2>1, <2>2, AppendKeeps
  <2>4. Append(journal.lines, f) = [i \in 1 .. Len(journal.lines) + 1 |->
                                      IF i = Len(journal.lines) + 1 THEN f ELSE journal.lines[i]]
    BY <2>2, AppendKeeps
  <2>5. journal'.lines = [i \in 1 .. Len(journal'.lines) |-> journal'.lines[i]]
    BY <2>1, <2>3, <2>4, <2>2
  <2>6. Len(journal'.lines) \in Nat /\ Len(journal.lines) <= Len(journal'.lines)
    BY <2>2, <2>3
  <2> QED BY <2>3, <2>5, <2>6, JournalGrows
<1> QED BY <1>1, <1>2, <1>3

\* Of two stores that write where writes fail, one is the other.
LEMMA NobodyElseWrites ==
  ASSUME JournalInv, \A d \in Deployments : OneJournalist(d), "write" \in Faults,
         NEW p \in Store, NEW q \in Store, Writing(busy[p]), Writing(busy[q])
  PROVE  p = q
<1>1. /\ busy[p].caller \in Caller \ Legacy /\ StoreOf[busy[p].caller] = p
      /\ busy[q].caller \in Caller \ Legacy /\ StoreOf[busy[q].caller] = q
  BY DEF JournalInv, TruncationIsSafe
<1>2. \A c, e \in Caller \ deployment.legacy : deployment.storeOf[c] = deployment.storeOf[e]
  BY DEF JournalInv, JournalShape, OneJournalist, Faults
<1> QED BY <1>1, <1>2 DEF StoreOf, Legacy

\* Everything acknowledged lies before the offset of a write that begins.
LEMMA BeginAppendKeeps ==
  ASSUME JournalInv, UNCHANGED deployment, NEW c \in Caller, NEW op, BeginAppend(c, op),
         StoreOf[c] \in Store
  PROVE  JournalInv'
<1> DEFINE p == StoreOf[c]
           w == [doing |-> "append", caller |-> c, result |-> Apply(held[c], op),
                 event |-> Event(cache[p].head, op), offset |-> Len(journal.lines)]
<1>1. /\ c \notin Legacy /\ journal' = File(journal.lines)
      /\ busy' = [busy EXCEPT ![p] = w] /\ acked' = acked
  BY DEF BeginAppend
<1>2. /\ w.doing = "append" /\ w.caller = c /\ w.offset = Len(journal.lines)
      /\ {"doing", "caller", "offset"} \subseteq DOMAIN w
  OBVIOUS
<1>3. p \in Store
  OBVIOUS
<1> HIDE DEF w
<1>4. /\ busy = [q \in Store |-> busy[q]] /\ Len(journal.lines) \in Nat
      /\ journal.lines = [i \in 1 .. Len(journal.lines) |-> journal.lines[i]]
  BY DEF JournalInv, JournalShape
<1>5. /\ busy' = [q \in Store |-> busy'[q]]
      /\ busy'[p] = w
      /\ \A q \in Store \ {p} : busy'[q] = busy[q]
  BY <1>1, <1>3, <1>4, BusyChanges
<1>6. journal'.lines = journal.lines
  BY <1>1, FileLines
<1>7. JournalShape'
  BY <1>2, <1>4, <1>5, <1>6 DEF JournalShape, JournalInv
<1>8. AckedStay'
  BY <1>1, <1>6 DEF AckedStay, JournalInv
<1>9. TruncationIsSafe'
  <2>0. Legacy' = Legacy /\ StoreOf' = StoreOf /\ Faults' = Faults
    BY DEF Legacy, StoreOf, Faults
  <2> SUFFICES ASSUME NEW q \in Store, Writing(busy'[q])
               PROVE  /\ busy'[q].caller \in Caller \ Legacy /\ StoreOf[busy'[q].caller] = q
                      /\ busy'[q].offset \in 0 .. Len(journal.lines)
                      /\ "write" \in Faults =>
                           \A h \in acked : Kept(journal.lines, busy'[q].offset, h)
                      /\ busy'[q].doing = "rollback" => "write" \in Faults
    BY <1>1, <1>6, <2>0 DEF TruncationIsSafe, Writing
  <2>1. CASE q = p
    BY <1>1, <1>2, <1>4, <1>5, <2>1 DEF AckedStay, JournalInv
  <2>2. CASE q # p
    BY <1>5, <2>2 DEF TruncationIsSafe, JournalInv
  <2> QED BY <2>1, <2>2
<1> QED BY <1>7, <1>8, <1>9 DEF JournalInv

\* No other store is writing where it might truncate the new line away.
LEMMA FinishAppendKeeps ==
  ASSUME JournalInv, \A d \in Deployments : OneJournalist(d), UNCHANGED deployment,
         NEW p \in Store, FinishAppend(p)
  PROVE  JournalInv'
<1> DEFINE event == busy[p].event
           lines == journal.lines
           n == Len(lines)
<1>1. /\ Writing(busy[p]) /\ journal' = File(Append(lines, event))
      /\ acked' = acked \cup {EventDigest(event)}
      /\ busy' = [busy EXCEPT ![p] = None]
  BY DEF FinishAppend, Writing
<1>2. /\ busy = [q \in Store |-> busy[q]] /\ n \in Nat
      /\ lines = [i \in 1 .. n |-> lines[i]]
  BY DEF JournalInv, JournalShape
<1>3. /\ busy' = [q \in Store |-> busy'[q]]
      /\ busy'[p] = None
      /\ \A q \in Store \ {p} : busy'[q] = busy[q]
  BY <1>1, <1>2, BusyChanges
<1>4. journal'.lines = Append(lines, event)
  BY <1>1, FileLines
<1>5. /\ Len(journal'.lines) = n + 1 /\ journal'.lines[n + 1] = event
      /\ \A i \in 1 .. n : journal'.lines[i] = lines[i]
  BY <1>2, <1>4, AppendKeeps
<1>6. Append(lines, event) = [i \in 1 .. n + 1 |-> IF i = n + 1 THEN event ELSE lines[i]]
  BY <1>2, AppendKeeps
<1> HIDE DEF lines, n, event
<1>7. JournalShape'
  <2>1. journal'.lines = [i \in 1 .. Len(journal'.lines) |-> journal'.lines[i]]
    BY <1>4, <1>5, <1>6
  <2>2. Len(journal'.lines) \in Nat
    BY <1>2, <1>5
  <2>3. \A q \in Store : Writing(busy'[q]) =>
          {"doing", "caller", "offset"} \subseteq DOMAIN busy'[q]
    BY <1>3 DEF JournalShape, JournalInv, Writing
  <2> QED BY <1>3, <2>1, <2>2, <2>3 DEF JournalShape, JournalInv, Writing
<1>8. AckedStay'
  <2> SUFFICES ASSUME NEW h \in acked' PROVE Kept(journal'.lines, n + 1, h)
    BY <1>5 DEF AckedStay
  <2>1. CASE h \in acked
    <3>1. PICK i \in 1 .. n : EventDigest(lines[i]) = h
      BY <2>1 DEF AckedStay, JournalInv, Kept, lines, n
    <3> QED BY <1>2, <1>5, <3>1 DEF Kept
  <2>2. CASE h = EventDigest(event)
    BY <1>2, <1>5, <2>2 DEF Kept
  <2> QED BY <1>1, <2>1, <2>2
<1>9. TruncationIsSafe'
  <2>0. Legacy' = Legacy /\ StoreOf' = StoreOf /\ Faults' = Faults
    BY DEF Legacy, StoreOf, Faults
  <2> SUFFICES ASSUME NEW q \in Store, Writing(busy'[q])
               PROVE  /\ busy'[q].caller \in Caller \ Legacy /\ StoreOf[busy'[q].caller] = q
                      /\ busy'[q].offset \in 0 .. Len(journal'.lines)
                      /\ "write" \notin Faults
                      /\ busy'[q].doing = "rollback" => "write" \in Faults
    BY <2>0 DEF TruncationIsSafe, Writing
  <2>1. q # p /\ busy'[q] = busy[q] /\ Writing(busy[q])
    BY <1>3 DEF Writing
  <2>2. "write" \notin Faults
    BY <1>1, <2>1, NobodyElseWrites
  <2>3. busy[q].offset \in 0 .. n
    BY <2>1 DEF JournalInv, TruncationIsSafe, n, lines
  <2> QED BY <1>2, <1>5, <2>1, <2>2, <2>3 DEF JournalInv, TruncationIsSafe
<1> QED BY <1>7, <1>8, <1>9 DEF JournalInv

\* What is truncated away came after everything acknowledged.
LEMMA RollbackKeeps ==
  ASSUME JournalInv, \A d \in Deployments : OneJournalist(d), UNCHANGED deployment,
         NEW p \in Store, Rollback(p)
  PROVE  JournalInv'
<1> DEFINE lines == journal.lines
           n == busy[p].offset
<1>1. /\ Writing(busy[p]) /\ busy[p].doing = "rollback"
      /\ journal' = File(IF n <= Len(lines) THEN SubSeq(lines, 1, n)
                         ELSE Append(lines, Short(busy[p].event)))
      /\ busy' = [busy EXCEPT ![p] = None]
      /\ acked' = acked
  BY DEF Rollback, Writing
<1>2. /\ busy = [q \in Store |-> busy[q]] /\ Len(lines) \in Nat
      /\ lines = [i \in 1 .. Len(lines) |-> lines[i]]
  BY DEF JournalInv, JournalShape
<1>3. /\ n \in 0 .. Len(lines) /\ "write" \in Faults
      /\ \A h \in acked : Kept(lines, n, h)
  BY <1>1 DEF JournalInv, TruncationIsSafe
<1>4. /\ busy' = [q \in Store |-> busy'[q]]
      /\ busy'[p] = None
      /\ \A q \in Store \ {p} : busy'[q] = busy[q]
  BY <1>1, <1>2, BusyChanges
<1> HIDE DEF lines, n
<1>5. journal'.lines = SubSeq(lines, 1, n)
  <2>1. n <= Len(lines)
    BY <1>2, <1>3
  <2> QED BY <1>1, <2>1, FileLines
<1>6. /\ SubSeq(lines, 1, n) = [i \in 1 .. n |-> lines[i]] /\ Len(SubSeq(lines, 1, n)) = n
  BY <1>2, <1>3, TruncationKeeps
<1>7. JournalShape'
  <2>1. Len(journal'.lines) = n /\ n \in Nat
    BY <1>2, <1>3, <1>5, <1>6
  <2>2. journal'.lines = [i \in 1 .. Len(journal'.lines) |-> journal'.lines[i]]
    BY <1>5, <1>6, <2>1
  <2>3. \A q \in Store : Writing(busy'[q]) =>
          {"doing", "caller", "offset"} \subseteq DOMAIN busy'[q]
    BY <1>4 DEF JournalShape, JournalInv, Writing
  <2> QED BY <1>4, <2>1, <2>2, <2>3 DEF JournalShape, JournalInv, Writing
<1>8. AckedStay'
  <2> SUFFICES ASSUME NEW h \in acked PROVE Kept(journal'.lines, n, h)
    BY <1>1, <1>5, <1>6 DEF AckedStay
  <2>1. PICK i \in 1 .. n : EventDigest(lines[i]) = h
    BY <1>3 DEF Kept
  <2> QED BY <1>5, <1>6, <2>1 DEF Kept
<1>9. TruncationIsSafe'
  <2>1. \A q \in Store : ~Writing(busy'[q])
    BY <1>1, <1>3, <1>4, NobodyElseWrites DEF Writing
  <2> QED BY <2>1 DEF TruncationIsSafe, Writing
<1> QED BY <1>7, <1>8, <1>9 DEF JournalInv

\* A write that fails has only added to the file.
LEMMA FailAppendKeeps ==
  ASSUME JournalInv, UNCHANGED deployment, NEW p \in Store, FailAppend(p)
  PROVE  JournalInv'
<1> DEFINE w == busy[p]
           v == [w EXCEPT !.doing = "rollback"]
<1>1. /\ "write" \in Faults /\ Writing(w) /\ journal' \in Remains(journal.lines, w.event)
      /\ busy' = [busy EXCEPT ![p] = [busy[p] EXCEPT !.doing = "rollback"]] /\ acked' = acked
  BY DEF FailAppend, Writing
<1>2. v.caller = w.caller /\ v.offset = w.offset /\ DOMAIN v = DOMAIN w
  BY <1>1 DEF JournalInv, JournalShape
<1>3. busy' = [busy EXCEPT ![p] = v]
  BY <1>1
<1>4. busy = [q \in Store |-> busy[q]]
  BY DEF JournalInv, JournalShape
<1> HIDE DEF v
<1>5. /\ busy' = [q \in Store |-> busy'[q]]
      /\ busy'[p] = v
      /\ \A q \in Store \ {p} : busy'[q] = busy[q]
  BY <1>3, <1>4, BusyChanges
<1>6. ASSUME NEW q \in Store PROVE Continues(busy[q], busy'[q])
  <2>1. CASE q = p
    BY <1>1, <1>2, <1>5, <2>1 DEF Continues
  <2>2. CASE q # p
    BY <1>5, <2>2, Unchanging
  <2> QED BY <2>1, <2>2
<1> QED BY <1>1, <1>5, <1>6, JournalIsWritten

\* Every caller uses one of the stores.
LEMMA OneStoreOf ==
  ASSUME JournalInv, NEW c \in Caller PROVE StoreOf[c] \in Store
BY StoreAssumption DEF JournalInv, JournalShape, StoreOf

\* What the stores do, as a function.
LEMMA BusyShape ==
  ASSUME JournalInv PROVE busy = [q \in Store |-> busy[q]]
BY DEF JournalInv, JournalShape

\* Every step of a caller, of a store and of a crash.
LEMMA StepKeepsJournal ==
  ASSUME JournalInv, \A d \in Deployments : OneJournalist(d), JournalNext
  PROVE  JournalInv'
<1>0. UNCHANGED deployment
  BY DEF JournalNext
<1>1. ASSUME NEW q \in Store, UNCHANGED <<journal, acked>>,
             \/ busy' = busy
             \/ \E w : ~Writing(w) /\ busy' = [busy EXCEPT ![q] = w]
      PROVE  JournalInv'
  <2>1. CASE busy' = busy
    <3>1. /\ busy' = [p \in Store |-> busy'[p]]
          /\ \A p \in Store : Continues(busy[p], busy'[p])
      BY <2>1, BusyShape, Unchanging
    <3> QED BY <1>0, <1>1, <3>1, JournalIsLeft
  <2>2. ASSUME NEW w, ~Writing(w), busy' = [busy EXCEPT ![q] = w]
        PROVE  JournalInv'
    <3>1. /\ busy' = [p \in Store |-> busy'[p]]
          /\ \A p \in Store : Continues(busy[p], busy'[p])
      BY <2>2, BusyShape, BusyIsIdle
    <3> QED BY <1>0, <1>1, <3>1, JournalIsLeft
  <2> QED BY <1>1, <2>1, <2>2
<1>2. ASSUME NEW c \in Caller, Load(c) PROVE JournalInv'
  <2>1. UNCHANGED <<journal, acked, busy>>
    BY <1>2 DEF Load
  <2> QED BY <1>1, <2>1, OneStoreOf
<1>3. ASSUME NEW c \in Caller, NEW l, BeginSave(c, l) PROVE JournalInv'
  <2>1. /\ UNCHANGED <<journal, acked>>
        /\ busy' = [busy EXCEPT ![StoreOf[c]] =
                      [doing |-> "save", caller |-> c, result |-> l]]
    BY <1>3 DEF BeginSave
  <2> QED BY <1>1, <2>1, OneStoreOf, NotWriting
<1>4. ASSUME NEW c \in Caller, Initialize(c) PROVE JournalInv'
  BY <1>3, <1>4 DEF Initialize
<1>5. ASSUME NEW c \in Caller, NEW op, Resave(c, op) PROVE JournalInv'
  BY <1>3, <1>5 DEF Resave
<1>6. ASSUME NEW c \in Caller, NEW op, BeginAppend(c, op) PROVE JournalInv'
  BY <1>0, <1>6, BeginAppendKeeps, OneStoreOf
<1>7. ASSUME NEW p \in Store, FinishSave(p) \/ FailSave(p) \/ FailRollback(p)
      PROVE  JournalInv'
  <2>1. UNCHANGED <<journal, acked>> /\ busy' = [busy EXCEPT ![p] = None]
    BY <1>7 DEF FinishSave, FailSave, FailRollback
  <2> QED BY <1>1, <2>1, NotWriting
<1>8. ASSUME NEW p \in Store, FinishAppend(p) PROVE JournalInv'
  BY <1>0, <1>8, FinishAppendKeeps
<1>9. ASSUME NEW p \in Store, FailAppend(p) PROVE JournalInv'
  BY <1>0, <1>9, FailAppendKeeps
<1>10. ASSUME NEW p \in Store, Rollback(p) PROVE JournalInv'
  BY <1>0, <1>10, RollbackKeeps
<1>11. ASSUME NEW p \in Store, Crash(p) PROVE JournalInv'
  <2>1. /\ busy' = [busy EXCEPT ![p] = None] /\ acked' = acked
        /\ \/ journal' \in Remains(journal.lines, busy[p].event)
           \/ journal' = journal
    BY <1>11 DEF Crash
  <2>2. /\ busy' = [q \in Store |-> busy'[q]]
        /\ \A q \in Store : Continues(busy[q], busy'[q])
    BY <2>1, BusyShape, BusyIsIdle, NotWriting
  <2>3. CASE journal' = journal
    BY <1>0, <2>1, <2>2, <2>3, JournalIsLeft
  <2>4. CASE journal' \in Remains(journal.lines, busy[p].event)
    BY <1>0, <2>1, <2>2, <2>4, JournalIsWritten
  <2> QED BY <2>1, <2>3, <2>4
<1> QED BY <1>2, <1>4, <1>5, <1>6, <1>7, <1>8, <1>9, <1>10, <1>11 DEF JournalNext

\* No step at all.
LEMMA StutterKeepsJournal ==
  ASSUME JournalInv, UNCHANGED journalVars PROVE JournalInv'
BY DEF JournalInv, JournalShape, AckedStay, TruncationIsSafe, journalVars,
       Legacy, StoreOf, Faults, Writing

\* Of JsonCoverageLedgerStore: where writes may fail, let those who append share
\* one store, as the documents' single writer does.  Then a load that succeeds
\* continues the history of every append that ever returned, whatever processes
\* die, whichever truncations fail and whoever saves whole snapshots meanwhile.
THEOREM AcknowledgedStays ==
  ASSUME \A d \in Deployments : OneJournalist(d)
  PROVE  JournalSpec => []LoadNeverLies
<1>1. JournalInit => JournalInv
  BY JournalInitInv
<1>2. JournalInv /\ [JournalNext]_journalVars => JournalInv'
  BY StepKeepsJournal, StutterKeepsJournal
<1>3. JournalInv => LoadNeverLies
  BY JournalTruthful DEF JournalInv
<1> QED BY <1>1, <1>2, <1>3, PTL DEF JournalSpec
-----------------------------------------------------------------------------
(* Replays.  What a load computes from a journal is proved by induction on the *)
(* number of its lines.                                                        *)

\* f lists the ledgers of a replay of the first n operations, as Replay computes them.
IsRun(f, l, ops, n) ==
  f = [k \in 0 .. n |-> IF k = 0 THEN l ELSE Step(f[k - 1], ops[k])]

\* A replay may be carried out over any number of operations (_load_journal).
LEMMA RunExists ==
  ASSUME NEW l, NEW ops, NEW n \in Nat
  PROVE  \E f : IsRun(f, l, ops, n)
<1> DEFINE T == {k \in Nat : \E f : IsRun(f, l, ops, k)}
<1>1. 0 \in T
  <2> DEFINE f == [k \in 0 .. 0 |-> l]
  <2>1. IsRun(f, l, ops, 0)
    BY DEF IsRun
  <2> QED BY <2>1
<1>2. ASSUME NEW k \in Nat, k \in T PROVE k + 1 \in T
  <2>1. PICK f : IsRun(f, l, ops, k)
    BY <1>2
  <2> DEFINE g == [j \in 0 .. k + 1 |-> IF j = k + 1 THEN Step(f[k], ops[k + 1]) ELSE f[j]]
  <2>2. \A j \in 0 .. k : f[j] = IF j = 0 THEN l ELSE Step(f[j - 1], ops[j])
    BY <2>1 DEF IsRun
  <2>3. ASSUME NEW j \in 0 .. k + 1
        PROVE  g[j] = IF j = 0 THEN l ELSE Step(g[j - 1], ops[j])
    <3>1. CASE j = k + 1
      BY <3>1
    <3>2. CASE j # k + 1
      <4>1. j \in 0 .. k /\ g[j] = f[j] /\ (j # 0 => g[j - 1] = f[j - 1])
        BY <3>2
      <4> QED BY <2>2, <4>1
    <3> QED BY <3>1, <3>2
  <2>4. g = [j \in 0 .. k + 1 |-> g[j]]
    OBVIOUS
  <2> HIDE DEF g
  <2>5. IsRun(g, l, ops, k + 1)
    BY <2>3, <2>4 DEF IsRun
  <2> QED BY <2>5
<1> HIDE DEF T
<1>3. n \in T
  BY <1>1, <1>2, Induction
<1> QED BY <1>3 DEF T

\* Two replays of operations that begin alike begin alike.
LEMMA RunsAgree ==
  ASSUME NEW l, NEW ops, NEW more, NEW n \in Nat, NEW m \in Nat, n <= m,
         \A k \in 1 .. n : ops[k] = more[k],
         NEW f, IsRun(f, l, ops, n), NEW g, IsRun(g, l, more, m)
  PROVE  \A k \in 0 .. n : f[k] = g[k]
<1> DEFINE T == {k \in Nat : k <= n => f[k] = g[k]}
<1>1. /\ \A k \in 0 .. n : f[k] = IF k = 0 THEN l ELSE Step(f[k - 1], ops[k])
      /\ \A k \in 0 .. m : g[k] = IF k = 0 THEN l ELSE Step(g[k - 1], more[k])
  BY DEF IsRun
<1>2. 0 \in T
  BY <1>1
<1>3. ASSUME NEW k \in Nat, k \in T PROVE k + 1 \in T
  <2> SUFFICES ASSUME k + 1 <= n PROVE f[k + 1] = g[k + 1]
    OBVIOUS
  <2>1. f[k] = g[k] /\ ops[k + 1] = more[k + 1]
    BY <1>3
  <2>2. f[k + 1] = Step(f[k], ops[k + 1]) /\ g[k + 1] = Step(g[k], more[k + 1])
    BY <1>1
  <2> QED BY <2>1, <2>2
<1> HIDE DEF T
<1>4. Nat \subseteq T
  BY <1>2, <1>3, Induction
<1> QED BY <1>4 DEF T

\* Replay is where any list of its ledgers ends.
LEMMA ReplayEndsRun ==
  ASSUME NEW l, NEW ops, Len(ops) \in Nat, NEW f, IsRun(f, l, ops, Len(ops))
  PROVE  Replay(l, ops) = f[Len(ops)]
<1> DEFINE g == CHOOSE h : IsRun(h, l, ops, Len(ops))
<1>1. IsRun(g, l, ops, Len(ops))
  OBVIOUS
<1>2. Replay(l, ops) = g[Len(ops)]
  BY DEF Replay, IsRun
<1> HIDE DEF g
<1>3. f[Len(ops)] = g[Len(ops)]
  BY <1>1, RunsAgree
<1> QED BY <1>2, <1>3

\* A load without a journal returns the snapshot.
LEMMA ReplayNothing ==
  ASSUME NEW l PROVE Replay(l, << >>) = l
<1>0. Len(<< >>) = 0
  OBVIOUS
<1>1. PICK f : IsRun(f, l, << >>, 0)
  BY RunExists
<1>2. f[0] = l
  BY <1>1 DEF IsRun
<1> QED BY <1>0, <1>1, <1>2, ReplayEndsRun

\* Replaying one event more applies its operation to what the others made.
LEMMA ReplayOneMore ==
  ASSUME NEW l, NEW S, NEW ops \in Seq(S), NEW op \in S
  PROVE  Replay(l, Append(ops, op)) = Step(Replay(l, ops), op)
<1> DEFINE more == Append(ops, op)
           n == Len(ops)
<1>1. /\ n \in Nat /\ n + 1 \in Nat /\ n <= n + 1
      /\ Len(more) = n + 1 /\ more[n + 1] = op
      /\ \A k \in 1 .. n : ops[k] = more[k]
  OBVIOUS
<1> HIDE DEF more, n
<1>2. PICK f : IsRun(f, l, ops, n)
  BY <1>1, RunExists
<1>3. PICK g : IsRun(g, l, more, n + 1)
  BY <1>1, RunExists
<1>4. f[n] = g[n]
  BY <1>1, <1>2, <1>3, RunsAgree
<1>5. g[n + 1] = Step(g[n], more[n + 1])
  BY <1>1, <1>3 DEF IsRun
<1>6. Replay(l, ops) = f[n]
  BY <1>1, <1>2, ReplayEndsRun DEF n
<1>7. Replay(l, more) = g[n + 1]
  BY <1>1, <1>3, ReplayEndsRun
<1> QED BY <1>1, <1>4, <1>5, <1>6, <1>7 DEF more

\* A ledger that passes the checks of __post_init__.
Sane(l) == l \in Ledger /\ ValidLedger(l)

\* An offer_batch event makes a valid ledger of a valid one.
LEMMA OfferApplies ==
  ASSUME NEW l, Sane(l), NEW op \in [kind : {"offer"}, batch : Batch], CanApply(l, op)
  PROVE  Sane(Apply(l, op)) /\ CanOffer(l, op.batch) /\ Apply(l, op) = OfferResult(l, op.batch)
<1>1. op.kind = "offer" /\ op.batch \in Batch
  OBVIOUS
<1>2. CanOffer(l, op.batch) /\ Apply(l, op) = OfferResult(l, op.batch)
  BY <1>1 DEF CanApply, Apply
<1> QED BY <1>1, <1>2, OfferPreserves DEF Sane

\* An accept_batch event makes a valid ledger of a valid one.
LEMMA AcceptApplies ==
  ASSUME NEW l, Sane(l), NEW op \in [kind : {"accept"}, verdict : NewVerdict], CanApply(l, op)
  PROVE  /\ Sane(Apply(l, op)) /\ CanAccept(l, op.verdict)
         /\ Apply(l, op) = AcceptResult(l, op.verdict)
<1>1. op.kind = "accept" /\ op.verdict \in NewVerdict
  OBVIOUS
<1>2. CanAccept(l, op.verdict) /\ Apply(l, op) = AcceptResult(l, op.verdict)
  BY <1>1 DEF CanApply, Apply
<1> QED BY <1>1, <1>2, AcceptPreserves DEF Sane

\* A block_batch event makes a valid ledger of a valid one.
LEMMA BlockApplies ==
  ASSUME NEW l, Sane(l), NEW op \in [kind : {"block"}, batch : Batch, reason : Reason],
         CanApply(l, op)
  PROVE  /\ Sane(Apply(l, op)) /\ CanBlock(l, op.batch, op.reason)
         /\ Apply(l, op) = BlockResult(l, op.batch, op.reason)
<1>1. op.kind = "block" /\ op.batch \in Batch /\ op.reason \in Reason
  OBVIOUS
<1>2. CanBlock(l, op.batch, op.reason) /\ Apply(l, op) = BlockResult(l, op.batch, op.reason)
  BY <1>1 DEF CanApply, Apply
<1> QED BY <1>1, <1>2, BlockPreserves DEF Sane

\* A finalize event makes a valid ledger of a valid one.
LEMMA FinalizeApplies ==
  ASSUME NEW l, Sane(l), NEW op \in [kind : {"finalize"}, status : TerminalStates],
         CanApply(l, op)
  PROVE  /\ Sane(Apply(l, op)) /\ CanFinalize(l, op.status)
         /\ Apply(l, op) = FinalizeResult(l, op.status)
<1>1. op.kind = "finalize" /\ op.status \in TerminalStates
  OBVIOUS
<1>2. CanFinalize(l, op.status) /\ Apply(l, op) = FinalizeResult(l, op.status)
  BY <1>1 DEF CanApply, Apply
<1> QED BY <1>1, <1>2, FinalizePreserves DEF Sane

\* Whatever _apply_operation applies, a valid ledger stays one.
LEMMA ApplyIsSane ==
  ASSUME NEW l, Sane(l), NEW op \in Operation, CanApply(l, op)
  PROVE  Sane(Apply(l, op)) /\ Apply(l, op) # None
<1>1. Sane(Apply(l, op))
  BY OfferApplies, AcceptApplies, BlockApplies, FinalizeApplies DEF Operation
<1> QED BY <1>1, RecordAssumption DEF Sane

\* By induction on the journal: what a load returns is a valid ledger.
LEMMA ReplayIsSane ==
  ASSUME NEW l, Sane(l), NEW ops \in Seq(Operation)
  PROVE  Replay(l, ops) = None \/ Sane(Replay(l, ops))
<1> DEFINE Holds(o) == Replay(l, o) = None \/ Sane(Replay(l, o))
           T == {n \in Nat : \A o \in Seq(Operation) : Len(o) = n => Holds(o)}
<1>1. 0 \in T
  <2>1. \A o \in Seq(Operation) : Len(o) = 0 => o = << >>
    OBVIOUS
  <2> QED BY <2>1, ReplayNothing
<1>2. ASSUME NEW n \in Nat, n \in T PROVE n + 1 \in T
  <2> SUFFICES ASSUME NEW o \in Seq(Operation), Len(o) = n + 1 PROVE Holds(o)
    OBVIOUS
  <2> DEFINE most == SubSeq(o, 1, n)
             last == o[n + 1]
  <2>1. /\ most \in Seq(Operation) /\ Len(most) = n /\ last \in Operation
        /\ o = Append(most, last)
    <3>1. most \in Seq(Operation) /\ Len(most) = n /\ last \in Operation
      OBVIOUS
    <3>2. \A i \in 1 .. n + 1 : o[i] = Append(most, last)[i]
      OBVIOUS
    <3>3. Len(Append(most, last)) = n + 1 /\ Append(most, last) \in Seq(Operation)
      BY <3>1
    <3> QED BY <3>1, <3>2, <3>3, SeqEqual
  <2> HIDE DEF most, last
  <2>2. Holds(most)
    BY <1>2, <2>1
  <2>3. Replay(l, o) = Step(Replay(l, most), last)
    BY <2>1, ReplayOneMore
  <2> QED BY <2>1, <2>2, <2>3, ApplyIsSane DEF Step
<1> HIDE DEF T
<1>3. Len(ops) \in T
  BY <1>1, <1>2, Induction
<1> QED BY <1>3 DEF T

\* The operations of a journal.
LEMMA OperationsOf ==
  ASSUME NEW lines \in Seq(Line)
  PROVE  /\ OpsOf(lines) \in Seq(Operation) /\ Len(OpsOf(lines)) = Len(lines)
         /\ \A i \in 1 .. Len(lines) : OpsOf(lines)[i] = lines[i].operation
<1>1. \A i \in 1 .. Len(lines) : lines[i].operation \in Operation
  <2>1. \A e \in Line : e.operation \in Operation
    BY DEF Line
  <2>2. \A i \in 1 .. Len(lines) : lines[i] \in Line
    OBVIOUS
  <2> QED BY <2>1, <2>2
<1>2. OpsOf(lines) \in [1 .. Len(lines) -> Operation]
  BY <1>1 DEF OpsOf
<1>3. OpsOf(lines) \in Seq(Operation) /\ Len(OpsOf(lines)) = Len(lines)
  BY <1>2
<1> QED BY <1>3 DEF OpsOf

\* The operations of a journal that an event was appended to.
LEMMA OperationsOfAppend ==
  ASSUME NEW lines \in Seq(Line), NEW e \in Line
  PROVE  OpsOf(Append(lines, e)) = Append(OpsOf(lines), e.operation)
<1> DEFINE more == Append(lines, e)
<1>1. more \in Seq(Line) /\ Len(more) = Len(lines) + 1
      /\ more[Len(lines) + 1] = e /\ \A i \in 1 .. Len(lines) : more[i] = lines[i]
  OBVIOUS
<1> HIDE DEF more
<1>2. /\ OpsOf(lines) \in Seq(Operation) /\ Len(OpsOf(lines)) = Len(lines)
      /\ \A i \in 1 .. Len(lines) : OpsOf(lines)[i] = lines[i].operation
      /\ OpsOf(more) \in Seq(Operation) /\ Len(OpsOf(more)) = Len(lines) + 1
      /\ \A i \in 1 .. Len(lines) + 1 : OpsOf(more)[i] = more[i].operation
  BY <1>1, OperationsOf
<1>3. e.operation \in Operation
  BY DEF Line
<1> DEFINE a == OpsOf(more)
           b == Append(OpsOf(lines), e.operation)
<1>4. b \in Seq(Operation) /\ Len(b) = Len(lines) + 1 /\ b[Len(lines) + 1] = e.operation
      /\ \A i \in 1 .. Len(lines) : b[i] = lines[i].operation
  BY <1>2, <1>3
<1>5. \A i \in 1 .. Len(lines) + 1 : a[i] = b[i]
  BY <1>1, <1>2, <1>4
<1> HIDE DEF b
<1>6. a = b
  BY <1>2, <1>4, <1>5, SeqEqual
<1> QED BY <1>6 DEF b, more

\* The operations of the first lines of a journal.
LEMMA OperationsOfPart ==
  ASSUME NEW lines \in Seq(Line), NEW n \in 0 .. Len(lines)
  PROVE  OpsOf(SubSeq(lines, 1, n)) = SubSeq(OpsOf(lines), 1, n)
<1> DEFINE part == SubSeq(lines, 1, n)
<1>1. part \in Seq(Line) /\ Len(part) = n /\ \A i \in 1 .. n : part[i] = lines[i]
  OBVIOUS
<1> HIDE DEF part
<1>2. /\ OpsOf(lines) \in Seq(Operation) /\ Len(OpsOf(lines)) = Len(lines)
      /\ \A i \in 1 .. Len(lines) : OpsOf(lines)[i] = lines[i].operation
      /\ OpsOf(part) \in Seq(Operation) /\ Len(OpsOf(part)) = n
      /\ \A i \in 1 .. n : OpsOf(part)[i] = part[i].operation
  BY <1>1, OperationsOf
<1> DEFINE b == SubSeq(OpsOf(lines), 1, n)
<1>3. b \in Seq(Operation) /\ Len(b) = n /\ \A i \in 1 .. n : b[i] = OpsOf(lines)[i]
  BY <1>2
<1> HIDE DEF b
<1>4. OpsOf(part) = b
  BY <1>1, <1>2, <1>3, SeqEqual
<1> QED BY <1>4 DEF b, part

\* A journal passes the checks of a load line by line: the new line is whole and
\* carries the digest of everything before it, and the rest passes already.
LEMMA IntactOneMore ==
  ASSUME NEW base, NEW lines \in Seq(Line), NEW e \in Line
  PROVE  Intact(base, Append(lines, e)) <=>
           Intact(base, lines) /\ e.whole /\ e.previous = Digest(base, OpsOf(lines))
<1> DEFINE more == Append(lines, e)
           n == Len(lines)
           ops == OpsOf(lines)
           moreOps == OpsOf(more)
<1>1. more \in Seq(Line) /\ Len(more) = n + 1 /\ n \in Nat
      /\ more[n + 1] = e /\ \A i \in 1 .. n : more[i] = lines[i]
  OBVIOUS
<1>2. moreOps = Append(ops, e.operation) /\ ops \in Seq(Operation) /\ Len(ops) = n
      /\ e.operation \in Operation
  BY OperationsOfAppend, OperationsOf DEF Line
<1> HIDE DEF more, n, ops, moreOps
<1>3. SubSeq(moreOps, 1, n) = ops
  <2>1. SubSeq(moreOps, 1, n) \in Seq(Operation) /\ Len(SubSeq(moreOps, 1, n)) = n
    BY <1>1, <1>2
  <2>2. \A i \in 1 .. n : SubSeq(moreOps, 1, n)[i] = ops[i]
    BY <1>1, <1>2
  <2> QED BY <1>2, <2>1, <2>2, SeqEqual
<1>4. ASSUME NEW i \in 1 .. n
      PROVE  SubSeq(moreOps, 1, i - 1) = SubSeq(ops, 1, i - 1)
  <2>1. /\ SubSeq(moreOps, 1, i - 1) \in Seq(Operation) /\ Len(SubSeq(moreOps, 1, i - 1)) = i - 1
        /\ SubSeq(ops, 1, i - 1) \in Seq(Operation) /\ Len(SubSeq(ops, 1, i - 1)) = i - 1
    BY <1>1, <1>2
  <2>2. \A j \in 1 .. i - 1 : SubSeq(moreOps, 1, i - 1)[j] = SubSeq(ops, 1, i - 1)[j]
    BY <1>1, <1>2
  <2> QED BY <2>1, <2>2, SeqEqual
<1> DEFINE Good(s, o, i) == s[i].whole /\ s[i].previous = Digest(base, SubSeq(o, 1, i - 1))
<1>5. \A i \in 1 .. n : Good(more, moreOps, i) <=> Good(lines, ops, i)
  BY <1>1, <1>4
<1>6. Good(more, moreOps, n + 1) <=> e.whole /\ e.previous = Digest(base, ops)
  <2>1. (n + 1) - 1 = n
    BY <1>1
  <2> QED BY <1>1, <1>3, <2>1
<1>7. Intact(base, lines) <=> \A i \in 1 .. n : Good(lines, ops, i)
  BY DEF Intact, n, ops
<1>8. Intact(base, more) <=> \A i \in 1 .. n + 1 : Good(more, moreOps, i)
  BY <1>1 DEF Intact, moreOps
<1> HIDE DEF Good
<1>9. (\A i \in 1 .. n + 1 : Good(more, moreOps, i)) <=>
        (\A i \in 1 .. n : Good(more, moreOps, i)) /\ Good(more, moreOps, n + 1)
  BY <1>1
<1> QED BY <1>5, <1>6, <1>7, <1>8, <1>9 DEF more, ops

\* An empty journal passes.
LEMMA NothingIsIntact == ASSUME NEW base PROVE Intact(base, << >>)
BY DEF Intact

\* The longest intact part of a journal.
LEMMA LongestIntact ==
  ASSUME NEW base, NEW lines \in Seq(Line)
  PROVE  \E n \in 0 .. Len(lines) :
           /\ IntactPart(base, lines) = SubSeq(lines, 1, n)
           /\ Intact(base, SubSeq(lines, 1, n))
           /\ \A m \in 0 .. Len(lines) : Intact(base, SubSeq(lines, 1, m)) => m <= n
<1> DEFINE G == {n \in 0 .. Len(lines) : Intact(base, SubSeq(lines, 1, n))}
           U == {Len(lines) - n : n \in G}
<1>1. Len(lines) \in Nat
  OBVIOUS
<1>2. 0 \in G
  <2>1. SubSeq(lines, 1, 0) = << >>
    OBVIOUS
  <2>2. 0 \in 0 .. Len(lines)
    BY <1>1
  <2>3. Intact(base, SubSeq(lines, 1, 0))
    BY <2>1, NothingIsIntact
  <2> QED BY <2>2, <2>3
<1>3. U \subseteq Nat /\ U # {}
  BY <1>1, <1>2
<1>4. PICK u \in U : \A m \in U : u <= m
  BY <1>3, LeastNatural
<1>5. PICK n \in G : u = Len(lines) - n
  BY <1>4
<1>6. ASSUME NEW m \in G PROVE n >= m
  <2>1. m \in 0 .. Len(lines) /\ n \in 0 .. Len(lines)
    OBVIOUS
  <2>2. Len(lines) - m \in U
    OBVIOUS
  <2>3. Len(lines) - n <= Len(lines) - m
    BY <1>4, <1>5, <2>2
  <2> HIDE DEF G, U
  <2> QED BY <1>1, <2>1, <2>3
<1>7. Max(G) \in G /\ \A m \in G : Max(G) >= m
  BY <1>5, <1>6 DEF Max
<1>8. IntactPart(base, lines) = SubSeq(lines, 1, Max(G))
  BY DEF IntactPart
<1> DEFINE k == Max(G)
<1> HIDE DEF k
<1>9. k \in G /\ (\A m \in G : k >= m) /\ IntactPart(base, lines) = SubSeq(lines, 1, k)
  BY <1>7, <1>8 DEF k
<1>10. \A m \in 0 .. Len(lines) : Intact(base, SubSeq(lines, 1, m)) => m <= k
  BY <1>1, <1>9
<1> QED BY <1>9, <1>10

\* No other part of the journal is the longest intact one.
LEMMA IntactPartIsUnique ==
  ASSUME NEW base, NEW lines \in Seq(Line), NEW n \in 0 .. Len(lines),
         Intact(base, SubSeq(lines, 1, n)),
         \A m \in 0 .. Len(lines) : Intact(base, SubSeq(lines, 1, m)) => m <= n
  PROVE  IntactPart(base, lines) = SubSeq(lines, 1, n)
<1>1. PICK k \in 0 .. Len(lines) :
           /\ IntactPart(base, lines) = SubSeq(lines, 1, k)
           /\ Intact(base, SubSeq(lines, 1, k))
           /\ \A m \in 0 .. Len(lines) : Intact(base, SubSeq(lines, 1, m)) => m <= k
  BY LongestIntact
<1>2. k = n
  BY <1>1
<1> QED BY <1>1, <1>2

\* A line that is added continues an intact journal, or is not read.
LEMMA IntactPartOneMore ==
  ASSUME NEW base, NEW lines \in Seq(Line), NEW e \in Line
  PROVE  IF Intact(base, lines) /\ e.whole /\ e.previous = Digest(base, OpsOf(lines))
         THEN /\ IntactPart(base, Append(lines, e)) = Append(lines, e)
              /\ IntactPart(base, lines) = lines
         ELSE IntactPart(base, Append(lines, e)) = IntactPart(base, lines)
<1> DEFINE more == Append(lines, e)
           n == Len(lines)
<1>1. more \in Seq(Line) /\ Len(more) = n + 1 /\ n \in Nat
      /\ more[n + 1] = e /\ \A i \in 1 .. n : more[i] = lines[i]
  OBVIOUS
<1>2. SubSeq(lines, 1, n) = lines
  OBVIOUS
<1>3. Intact(base, more) <=>
        Intact(base, lines) /\ e.whole /\ e.previous = Digest(base, OpsOf(lines))
  BY IntactOneMore
<1> HIDE DEF more
<1>4. SubSeq(more, 1, n + 1) = more
  BY <1>1
<1>5. ASSUME NEW m \in 0 .. n PROVE SubSeq(more, 1, m) = SubSeq(lines, 1, m)
  <2>1. /\ SubSeq(more, 1, m) \in Seq(Line) /\ Len(SubSeq(more, 1, m)) = m
        /\ SubSeq(lines, 1, m) \in Seq(Line) /\ Len(SubSeq(lines, 1, m)) = m
    BY <1>1
  <2>2. \A j \in 1 .. m : SubSeq(more, 1, m)[j] = SubSeq(lines, 1, m)[j]
    BY <1>1
  <2> QED BY <2>1, <2>2, SeqEqual
<1>6. CASE Intact(base, more)
  <2>1. IntactPart(base, lines) = SubSeq(lines, 1, n)
    <3>1. n \in 0 .. Len(lines)
      BY <1>1
    <3>3. Intact(base, SubSeq(lines, 1, n))
      BY <1>2, <1>3, <1>6
    <3>2. \A m \in 0 .. Len(lines) : m <= n
      BY <1>1
    <3> QED BY <3>1, <3>2, <3>3, IntactPartIsUnique
  <2>2. IntactPart(base, more) = SubSeq(more, 1, n + 1)
    <3>1. n + 1 \in 0 .. Len(more)
      BY <1>1
    <3>3. Intact(base, SubSeq(more, 1, n + 1))
      BY <1>4, <1>6
    <3>2. \A m \in 0 .. Len(more) : m <= n + 1
      BY <1>1
    <3> QED BY <1>1, <3>1, <3>2, <3>3, IntactPartIsUnique
  <2> QED BY <1>2, <1>3, <1>4, <1>6, <2>1, <2>2, ZenonT(60) DEF more
<1>7. CASE ~Intact(base, more)
  <2>1. PICK k \in 0 .. n :
           /\ IntactPart(base, lines) = SubSeq(lines, 1, k)
           /\ Intact(base, SubSeq(lines, 1, k))
           /\ \A m \in 0 .. n : Intact(base, SubSeq(lines, 1, m)) => m <= k
    BY LongestIntact
  <2>2. k \in 0 .. Len(more)
    BY <1>1, <2>1
  <2>5. Intact(base, SubSeq(more, 1, k))
    BY <1>5, <2>1
  <2>3. ASSUME NEW m \in 0 .. Len(more), Intact(base, SubSeq(more, 1, m)) PROVE m <= k
    <3>1. m # n + 1
      BY <1>4, <1>7, <2>3
    <3>2. m \in 0 .. n
      BY <1>1, <3>1
    <3>3. Intact(base, SubSeq(lines, 1, m))
      BY <1>5, <2>3, <3>2
    <3> QED BY <2>1, <3>2, <3>3
  <2>4. IntactPart(base, more) = SubSeq(more, 1, k)
    BY <1>1, <2>2, <2>3, <2>5, IntactPartIsUnique
  <2> QED BY <1>3, <1>5, <1>7, <2>1, <2>4 DEF more
<1> QED BY <1>6, <1>7

-----------------------------------------------------------------------------
(* The memory of the processes and the files.  What a store believes to be      *)
(* persisted is the replay of the history it has the digest of, whoever else    *)
(* writes the same files.                                                      *)

\* A store's memory of what it persisted is the replay of the history it digests.
Believes(e) ==
  /\ e \in Entries /\ Sane(e.ledger) /\ Sane(e.head.base)
  /\ Replay(e.head.base, e.head.operations) = e.ledger

\* An event in the making continues what its store believes to be persisted.
Prepared(w, e) ==
  \E op \in Operation : /\ w.event = Event(e.head, op)
                        /\ CanApply(e.ledger, op) /\ w.result = Apply(e.ledger, op)

\* What a process has in memory is right, and so is a write it has in hand.
StoreOK(e, w) ==
  /\ e # None => Believes(e)
  /\ w # None => /\ w.doing \in {"save", "append", "rollback"}
                 /\ w.caller \in Caller /\ Sane(w.result)
                 /\ Writing(w) => w \in AppendWork /\ e # None /\ Prepared(w, e)

\* The memory of every process, and the ledgers its callers were given.
Memory ==
  /\ deployment \in Deployments
  /\ cache = [p \in Store |-> cache[p]]
  /\ busy = [p \in Store |-> busy[p]]
  /\ held = [c \in Caller |-> held[c]]
  /\ \A p \in Store : StoreOK(cache[p], busy[p])
  /\ \A p \in Store : busy[p] # None => StoreOf[busy[p].caller] = p
  /\ \A c \in Caller : held[c] # None => Sane(held[c]) /\ cache[StoreOf[c]] # None

\* The files hold well-formed ledgers and lines.
Files ==
  /\ snapshot # None => Sane(snapshot)
  /\ temporary # None => Sane(temporary)
  /\ journal \in [exists : BOOLEAN, lines : Seq(Line)]
  /\ acked \subseteq History

\* To see that memory stays right it is enough to look at the store that took the step.
LEMMA OneStep ==
  ASSUME Memory, UNCHANGED deployment, NEW p \in Store,
         cache' = [q \in Store |-> cache'[q]],
         busy' = [q \in Store |-> busy'[q]],
         held' = [c \in Caller |-> held'[c]],
         \A q \in Store \ {p} : cache'[q] = cache[q] /\ busy'[q] = busy[q],
         StoreOK(cache'[p], busy'[p]),
         busy'[p] # None => StoreOf[busy'[p].caller] = p,
         \A c \in Caller : held'[c] # None =>
           /\ Sane(held'[c])
           /\ IF StoreOf[c] = p THEN cache'[p] # None ELSE held[c] # None
  PROVE  Memory'
<1>0. StoreOf' = StoreOf
  BY DEF StoreOf
<1>1. \A q \in Store : StoreOK(cache'[q], busy'[q])
  BY DEF Memory
<1>2. \A q \in Store : busy'[q] # None => StoreOf'[busy'[q].caller] = q
  BY <1>0 DEF Memory
<1>3. \A c \in Caller : StoreOf[c] \in Store
  BY StoreAssumption DEF Memory, StoreOf
<1>4. \A c \in Caller : held'[c] # None => Sane(held'[c]) /\ cache'[StoreOf'[c]] # None
  BY <1>0, <1>3 DEF Memory
<1> QED BY <1>1, <1>2, <1>4 DEF Memory, StoreOK

\* An update of one element of a function.
LEMMA Changes ==
  ASSUME NEW S, NEW f, f = [x \in S |-> f[x]], NEW q \in S, NEW v, NEW g, g = [f EXCEPT ![q] = v]
  PROVE  g = [x \in S |-> g[x]] /\ g[q] = v /\ \A x \in S \ {q} : g[x] = f[x]
OBVIOUS

\* A caller belongs to a store.
LEMMA Belongs ==
  ASSUME Memory, NEW c \in Caller PROVE StoreOf[c] \in Store
BY StoreAssumption DEF Memory, StoreOf

\* A store that has an entry does not have nothing.
LEMMA EntryIsThere ==
  ASSUME NEW e \in Entries PROVE e # None
BY RecordAssumption DEF Entries

\* A ledger is not nothing.
LEMMA LedgerIsThere ==
  ASSUME NEW l, Sane(l) PROVE l # None
BY RecordAssumption DEF Sane

\* The digest of a ledger and operations is a history of both.
LEMMA DigestIsHistory ==
  ASSUME NEW base, Sane(base), NEW ops \in Seq(Operation), NEW l, Sane(l), l = Replay(base, ops)
  PROVE  Believes(Entry(l, Digest(base, ops))) /\ Entry(l, Digest(base, ops)) # None
<1> DEFINE h == Digest(base, ops)
<1>1. h \in History /\ h.base = base /\ h.operations = ops
  BY DEF Digest, History, Sane
<1> HIDE DEF h
<1>2. Entry(l, h) \in Entries /\ Entry(l, h).ledger = l /\ Entry(l, h).head = h
  BY <1>1 DEF Entry, Entries, Sane
<1> QED BY <1>1, <1>2, EntryIsThere DEF Believes, h

\* restore()
LEMMA LoadKeepsMemory ==
  ASSUME Memory, Files, UNCHANGED deployment, NEW c \in Caller, Load(c)
  PROVE  Memory'
<1> DEFINE p == StoreOf[c]
           ops == OpsOf(journal.lines)
           l == Loaded(snapshot, journal)
           e == Entry(l, Digest(snapshot, ops))
<1>1. /\ busy[p] = None /\ Loadable(snapshot, journal)
      /\ cache' = [cache EXCEPT ![p] = e] /\ held' = [held EXCEPT ![c] = l] /\ busy' = busy
  BY DEF Load
<1>2. p \in Store
  BY Belongs
<1>3. Sane(snapshot) /\ ops \in Seq(Operation) /\ l = Replay(snapshot, ops) /\ l # None
  BY <1>1, OperationsOf DEF Loadable, Loaded, Files
<1>4. Sane(l)
  BY <1>3, ReplayIsSane
<1>5. Believes(e) /\ e # None
  BY <1>3, <1>4, DigestIsHistory
<1> HIDE DEF l, e, ops, p
<1>6. /\ cache' = [q \in Store |-> cache'[q]] /\ cache'[p] = e
      /\ \A q \in Store \ {p} : cache'[q] = cache[q]
  BY <1>1, <1>2, Changes DEF Memory
<1>7. /\ held' = [d \in Caller |-> held'[d]] /\ held'[c] = l
      /\ \A d \in Caller \ {c} : held'[d] = held[d]
  BY <1>1, Changes DEF Memory
<1>8. busy' = [q \in Store |-> busy'[q]] /\ busy'[p] = None
  BY <1>1 DEF Memory
<1>9. StoreOK(cache'[p], busy'[p])
  BY <1>5, <1>6, <1>8 DEF StoreOK
<1>10. \A d \in Caller : held'[d] # None =>
           /\ Sane(held'[d])
           /\ IF StoreOf[d] = p THEN cache'[p] # None ELSE held[d] # None
  BY <1>4, <1>5, <1>6, <1>7 DEF Memory, p
<1> QED BY <1>1, <1>2, <1>6, <1>7, <1>8, <1>9, <1>10, OneStep

\* A write of a snapshot begins.
LEMMA BeginSaveKeepsMemory ==
  ASSUME Memory, UNCHANGED deployment, NEW c \in Caller, NEW l, Sane(l), BeginSave(c, l)
  PROVE  Memory'
<1> DEFINE p == StoreOf[c]
           w == [doing |-> "save", caller |-> c, result |-> l]
<1>1. busy' = [busy EXCEPT ![p] = w] /\ cache' = cache /\ held' = held
  BY DEF BeginSave
<1>2. p \in Store
  BY Belongs
<1>3. w.doing = "save" /\ w.caller = c /\ w.result = l
  OBVIOUS
<1> HIDE DEF w
<1>4. /\ busy' = [q \in Store |-> busy'[q]] /\ busy'[p] = w
      /\ \A q \in Store \ {p} : busy'[q] = busy[q]
  BY <1>1, <1>2, Changes DEF Memory
<1>5. StoreOK(cache'[p], busy'[p])
  BY <1>1, <1>2, <1>3, <1>4 DEF StoreOK, Memory, Writing
<1>6. \A d \in Caller : held'[d] # None =>
           /\ Sane(held'[d])
           /\ IF StoreOf[d] = p THEN cache'[p] # None ELSE held[d] # None
  BY <1>1 DEF Memory
<1>7. cache' = [q \in Store |-> cache'[q]] /\ held' = [d \in Caller |-> held'[d]]
  BY <1>1 DEF Memory
<1>8. busy'[p] # None => StoreOf[busy'[p].caller] = p
  BY <1>3, <1>4
<1> QED BY <1>1, <1>2, <1>4, <1>5, <1>6, <1>7, <1>8, OneStep

\* What a store is in the middle of.
LEMMA InHand ==
  ASSUME Memory, NEW p \in Store, busy[p] # None
  PROVE  /\ busy[p].caller \in Caller /\ StoreOf[busy[p].caller] = p
         /\ Sane(busy[p].result)
BY DEF Memory, StoreOK

\* The store's work ends, and it has nothing else in hand.
LEMMA EndKeepsMemory ==
  ASSUME Memory, UNCHANGED deployment, NEW p \in Store, busy' = [busy EXCEPT ![p] = None],
         NEW e, e # None => Believes(e), cache' = [cache EXCEPT ![p] = e],
         held' = [c \in Caller |-> held'[c]],
         \A c \in Caller : held'[c] # None =>
           /\ Sane(held'[c])
           /\ IF StoreOf[c] = p THEN e # None ELSE held[c] # None
  PROVE  Memory'
<1>1. /\ busy' = [q \in Store |-> busy'[q]] /\ busy'[p] = None
      /\ \A q \in Store \ {p} : busy'[q] = busy[q]
  BY Changes DEF Memory
<1>2. /\ cache' = [q \in Store |-> cache'[q]] /\ cache'[p] = e
      /\ \A q \in Store \ {p} : cache'[q] = cache[q]
  BY Changes DEF Memory
<1>3. StoreOK(cache'[p], busy'[p])
  BY <1>1, <1>2 DEF StoreOK
<1> QED BY <1>1, <1>2, <1>3, OneStep, ZenonT(60)

\* A write that fails leaves the ledgers in memory as they were.
LEMMA FailureKeepsMemory ==
  ASSUME Memory, UNCHANGED <<deployment, cache, held>>, NEW p \in Store,
         busy' = [busy EXCEPT ![p] = None]
  PROVE  Memory'
<1> DEFINE e == cache[p]
<1>1. e # None => Believes(e)
  BY DEF Memory, StoreOK
<1>2. cache' = [cache EXCEPT ![p] = e] /\ held' = [c \in Caller |-> held'[c]]
  BY DEF Memory
<1>3. \A c \in Caller : held'[c] # None =>
           /\ Sane(held'[c])
           /\ IF StoreOf[c] = p THEN e # None ELSE held[c] # None
  BY DEF Memory
<1> HIDE DEF e
<1> QED BY <1>1, <1>2, <1>3, EndKeepsMemory

\* The caller is given what its store has written.
LEMMA SuccessKeepsMemory ==
  ASSUME Memory, UNCHANGED deployment, NEW p \in Store, busy' = [busy EXCEPT ![p] = None],
         NEW e, Believes(e), cache' = [cache EXCEPT ![p] = e],
         NEW c \in Caller, StoreOf[c] = p, NEW l, Sane(l), held' = [held EXCEPT ![c] = l]
  PROVE  Memory'
<1>1. e # None
  BY EntryIsThere DEF Believes
<1>2. /\ held' = [d \in Caller |-> held'[d]] /\ held'[c] = l
      /\ \A d \in Caller \ {c} : held'[d] = held[d]
  BY Changes DEF Memory
<1>3. \A d \in Caller : held'[d] # None =>
           /\ Sane(held'[d])
           /\ IF StoreOf[d] = p THEN e # None ELSE held[d] # None
  BY <1>1, <1>2 DEF Memory
<1>4. held' = [d \in Caller |-> held'[d]]
  BY <1>2
<1>5. e # None => Believes(e)
  OBVIOUS
<1> QED BY <1>3, <1>4, <1>5, EndKeepsMemory, ZenonT(60)

\* save(): the store believes the snapshot it has written.
LEMMA FinishSaveKeepsMemory ==
  ASSUME Memory, UNCHANGED deployment, NEW p \in Store, FinishSave(p)
  PROVE  Memory'
<1> DEFINE l == busy[p].result
           c == busy[p].caller
           e == Entry(l, Digest(l, << >>))
<1>1. /\ busy' = [busy EXCEPT ![p] = None] /\ busy[p] # None
      /\ cache' = [cache EXCEPT ![p] = e] /\ held' = [held EXCEPT ![c] = l]
  BY DEF FinishSave
<1>2. Sane(l) /\ c \in Caller /\ StoreOf[c] = p
  BY <1>1, InHand
<1>3. << >> \in Seq(Operation)
  OBVIOUS
<1>4. Believes(e)
  BY <1>2, <1>3, ReplayNothing, DigestIsHistory
<1> HIDE DEF l, c, e
<1> QED BY <1>1, <1>2, <1>4, SuccessKeepsMemory

\* An event digests its head and its operation.
LEMMA EventIsLine ==
  ASSUME NEW h \in History, NEW op \in Operation
  PROVE  /\ Event(h, op) \in Line /\ Event(h, op).whole
         /\ Event(h, op).previous = h /\ Event(h, op).operation = op
         /\ EventDigest(Event(h, op)) = Digest(h.base, Append(h.operations, op))
         /\ EventDigest(Event(h, op)) \in History
<1>1. /\ Event(h, op) \in Line /\ Event(h, op).whole
      /\ Event(h, op).previous = h /\ Event(h, op).operation = op
  BY DEF Event, Line
<1>2. Append(h.operations, op) \in Seq(Operation) /\ h.base \in Ledger
  BY DEF History
<1>3. EventDigest(Event(h, op)) = Digest(h.base, Append(h.operations, op))
  BY <1>1 DEF EventDigest
<1> QED BY <1>1, <1>2, <1>3 DEF Digest, History

\* What a write to the journal will have made its store believe.
LEMMA WriteIsRight ==
  ASSUME Memory, NEW p \in Store, busy[p] # None, busy[p].doing \in {"append", "rollback"}
  PROVE  /\ busy[p] \in AppendWork /\ cache[p] # None /\ Believes(cache[p])
         /\ busy[p].event.whole /\ busy[p].event.previous = cache[p].head
         /\ Prepared(busy[p], cache[p])
         /\ Believes(Entry(busy[p].result, EventDigest(busy[p].event)))
         /\ EventDigest(busy[p].event) \in History
<1> DEFINE w == busy[p]
           e == cache[p]
           h == e.head
<1>1. w \in AppendWork /\ e # None /\ Prepared(w, e) /\ Believes(e) /\ Sane(w.result)
  BY DEF Memory, StoreOK, Writing
<1> HIDE DEF w, e
<1>2. PICK op \in Operation : /\ w.event = Event(h, op)
                              /\ CanApply(e.ledger, op) /\ w.result = Apply(e.ledger, op)
  BY <1>1 DEF Prepared
<1>3. /\ h \in History /\ Sane(h.base) /\ Replay(h.base, h.operations) = e.ledger
      /\ h.operations \in Seq(Operation) /\ e.ledger # None
  BY <1>1, LedgerIsThere DEF Believes, Entries, History
<1>4. Replay(h.base, Append(h.operations, op)) = w.result
  BY <1>2, <1>3, ReplayOneMore DEF Step
<1>5. Append(h.operations, op) \in Seq(Operation)
  BY <1>3
<1>6. Believes(Entry(w.result, EventDigest(w.event)))
  <2>1. EventDigest(w.event) = Digest(h.base, Append(h.operations, op))
    BY <1>2, <1>3, EventIsLine
  <2> QED BY <1>1, <1>3, <1>4, <1>5, <2>1, DigestIsHistory
<1>7. EventDigest(w.event) \in History /\ w.event.whole /\ w.event.previous = h
  BY <1>2, <1>3, EventIsLine
<1> QED BY <1>1, <1>6, <1>7 DEF w, e

\* _append_operation: the store believes the event it has written.
LEMMA FinishAppendKeepsMemory ==
  ASSUME Memory, UNCHANGED deployment, NEW p \in Store, FinishAppend(p)
  PROVE  Memory'
<1> DEFINE l == busy[p].result
           c == busy[p].caller
           e == Entry(l, EventDigest(busy[p].event))
<1>1. /\ busy' = [busy EXCEPT ![p] = None] /\ busy[p] # None /\ busy[p].doing = "append"
      /\ cache' = [cache EXCEPT ![p] = e] /\ held' = [held EXCEPT ![c] = l]
  BY DEF FinishAppend
<1>2. Sane(l) /\ c \in Caller /\ StoreOf[c] = p
  BY <1>1, InHand
<1>3. Believes(e)
  BY <1>1, WriteIsRight
<1> HIDE DEF l, c, e
<1> QED BY <1>1, <1>2, <1>3, SuccessKeepsMemory

\* A store's work begins or goes on, and its callers hold what they held.
LEMMA WorkKeepsMemory ==
  ASSUME Memory, UNCHANGED <<deployment, cache, held>>, NEW p \in Store,
         NEW w, busy' = [busy EXCEPT ![p] = w], w \in AppendWork, StoreOf[w.caller] = p,
         Sane(w.result), cache[p] # None, Prepared(w, cache[p])
  PROVE  Memory'
<1>1. /\ busy' = [q \in Store |-> busy'[q]] /\ busy'[p] = w
      /\ \A q \in Store \ {p} : busy'[q] = busy[q]
  BY Changes DEF Memory
<1>2. w.caller \in Caller /\ w.doing \in {"save", "append", "rollback"}
  BY DEF AppendWork
<1>3. StoreOK(cache'[p], busy'[p])
  BY <1>1, <1>2 DEF StoreOK, Memory
<1>4. /\ cache' = [q \in Store |-> cache'[q]] /\ held' = [c \in Caller |-> held'[c]]
      /\ \A c \in Caller : held'[c] # None =>
           /\ Sane(held'[c])
           /\ IF StoreOf[c] = p THEN cache'[p] # None ELSE held[c] # None
  BY DEF Memory
<1>5. busy'[p] # None => StoreOf[busy'[p].caller] = p
  BY <1>1
<1>6. \A q \in Store \ {p} : cache'[q] = cache[q]
  OBVIOUS
<1> QED BY <1>1, <1>3, <1>4, <1>5, <1>6, OneStep

\* An event is made of the ledger and the head its store has in memory.
LEMMA BeginAppendKeepsMemory ==
  ASSUME Memory, Files, UNCHANGED deployment, NEW c \in Caller, NEW op \in Operation,
         BeginAppend(c, op)
  PROVE  Memory'
<1> DEFINE p == StoreOf[c]
           e == cache[p]
           l == Apply(held[c], op)
           n == Len(journal.lines)
           w == [doing |-> "append", caller |-> c, result |-> l,
                 event |-> Event(e.head, op), offset |-> n]
<1>1. /\ held[c] # None /\ e.ledger = held[c] /\ CanApply(held[c], op)
      /\ busy' = [busy EXCEPT ![p] = w] /\ cache' = cache /\ held' = held
  BY DEF BeginAppend
<1>2. p \in Store
  BY Belongs
<1>3. Sane(held[c]) /\ e # None /\ Believes(e)
  BY <1>1, <1>2 DEF Memory, StoreOK
<1>4. Sane(l)
  BY <1>1, <1>3, ApplyIsSane
<1>5. n \in Nat
  BY DEF Files
<1>6. e.head \in History
  BY <1>3 DEF Believes, Entries
<1>7. Event(e.head, op) \in Line
  BY <1>6, EventIsLine
<1>8. /\ w.doing = "append" /\ w.caller = c /\ w.result = l /\ w.offset = n
      /\ w.event = Event(e.head, op)
  OBVIOUS
<1>9. w \in AppendWork
  BY <1>4, <1>5, <1>7 DEF AppendWork, Sane
<1>10. Prepared(w, e)
  BY <1>1, <1>8 DEF Prepared
<1> HIDE DEF w, l, n
<1> QED BY <1>1, <1>2, <1>3, <1>4, <1>8, <1>9, <1>10, WorkKeepsMemory

\* A write that fails keeps the event that was to be written.
LEMMA FailAppendKeepsMemory ==
  ASSUME Memory, UNCHANGED deployment, NEW p \in Store, FailAppend(p)
  PROVE  Memory'
<1> DEFINE w == busy[p]
           v == [w EXCEPT !.doing = "rollback"]
<1>1. /\ w # None /\ w.doing = "append"
      /\ busy' = [busy EXCEPT ![p] = [busy[p] EXCEPT !.doing = "rollback"]]
      /\ cache' = cache /\ held' = held
  BY DEF FailAppend
<1>2. w \in AppendWork /\ Prepared(w, cache[p]) /\ cache[p] # None
  BY <1>1, WriteIsRight
<1>3. StoreOf[w.caller] = p /\ Sane(w.result)
  BY <1>1, InHand
<1>4. busy' = [busy EXCEPT ![p] = v]
  BY <1>1
<1> HIDE DEF w
<1>5. /\ v \in AppendWork /\ v.caller = w.caller /\ v.result = w.result /\ v.event = w.event
  BY <1>2 DEF AppendWork
<1> HIDE DEF v
<1>6. Prepared(v, cache[p])
  BY <1>2, <1>5 DEF Prepared
<1> QED BY <1>1, <1>2, <1>3, <1>4, <1>5, <1>6, WorkKeepsMemory

\* A process that dies has nothing in memory, and its callers hold nothing.
LEMMA CrashKeepsMemory ==
  ASSUME Memory, UNCHANGED deployment, NEW p \in Store, Crash(p)
  PROVE  Memory'
<1> DEFINE e == None
<1>1. /\ busy' = [busy EXCEPT ![p] = None] /\ cache' = [cache EXCEPT ![p] = e]
      /\ held' = [c \in Caller |-> IF StoreOf[c] = p THEN None ELSE held[c]]
  BY DEF Crash
<1>2. \A c \in Caller : held'[c] = IF StoreOf[c] = p THEN None ELSE held[c]
  BY <1>1
<1>3. held' = [c \in Caller |-> held'[c]]
  BY <1>1
<1>4. \A c \in Caller : held'[c] # None =>
           /\ Sane(held'[c])
           /\ IF StoreOf[c] = p THEN e # None ELSE held[c] # None
  BY <1>2 DEF Memory
<1>5. e # None => Believes(e)
  OBVIOUS
<1> HIDE DEF e
<1> QED BY <1>1, <1>3, <1>4, <1>5, EndKeepsMemory

\* Every step keeps the memory right.
LEMMA StepKeepsMemory ==
  ASSUME Memory, Files, JournalNext PROVE Memory'
<1>0. UNCHANGED deployment
  BY DEF JournalNext
<1>1. ASSUME NEW c \in Caller, Load(c) PROVE Memory'
  BY <1>0, <1>1, LoadKeepsMemory
<1>2. ASSUME NEW c \in Caller, Initialize(c) PROVE Memory'
  BY <1>0, <1>2, BeginSaveKeepsMemory, PlannedIsValid DEF Initialize, Sane
<1>3. ASSUME NEW c \in Caller, NEW op \in Operation, Resave(c, op) PROVE Memory'
  <2>1. Sane(held[c]) /\ CanApply(held[c], op) /\ BeginSave(c, Apply(held[c], op))
    BY <1>3 DEF Resave, Memory
  <2>2. Sane(Apply(held[c], op))
    BY <2>1, ApplyIsSane
  <2> QED BY <1>0, <2>1, <2>2, BeginSaveKeepsMemory
<1>4. ASSUME NEW c \in Caller, NEW op \in Operation, BeginAppend(c, op) PROVE Memory'
  BY <1>0, <1>4, BeginAppendKeepsMemory
<1>5. ASSUME NEW p \in Store, FinishSave(p) PROVE Memory'
  BY <1>0, <1>5, FinishSaveKeepsMemory
<1>6. ASSUME NEW p \in Store, FailSave(p) \/ Rollback(p) \/ FailRollback(p) PROVE Memory'
  <2>1. busy' = [busy EXCEPT ![p] = None] /\ UNCHANGED <<cache, held>>
    BY <1>6 DEF FailSave, Rollback, FailRollback
  <2> QED BY <1>0, <2>1, FailureKeepsMemory
<1>7. ASSUME NEW p \in Store, FinishAppend(p) PROVE Memory'
  BY <1>0, <1>7, FinishAppendKeepsMemory
<1>8. ASSUME NEW p \in Store, FailAppend(p) PROVE Memory'
  BY <1>0, <1>8, FailAppendKeepsMemory
<1>9. ASSUME NEW p \in Store, Crash(p) PROVE Memory'
  BY <1>0, <1>9, CrashKeepsMemory
<1> QED BY <1>1, <1>2, <1>3, <1>4, <1>5, <1>6, <1>7, <1>8, <1>9 DEF JournalNext

\* The values of the journal file.
Journals == [exists : BOOLEAN, lines : Seq(Line)]

\* A file of lines is one.
LEMMA FileType ==
  ASSUME NEW lines \in Seq(Line) PROVE File(lines) \in Journals /\ File(lines).exists
BY DEF File, Journals

\* A line that is cut short is not whole.
LEMMA ShortIsLine ==
  ASSUME NEW e \in Line PROVE Short(e) \in Line /\ ~Short(e).whole
BY DEF Short, Line

\* A write that was cut short leaves the lines, with the event or a part of it.
LEMMA RemainsType ==
  ASSUME NEW lines \in Seq(Line), NEW e \in Line, NEW j \in Remains(lines, e)
  PROVE  /\ j \in Journals
         /\ \/ j.lines = lines
            \/ \E f \in {e, Short(e)} : j.lines = Append(lines, f)
<1>1. \/ j = File(lines)
      \/ \E f \in {e, Short(e)} : j = File(Append(lines, f))
  BY DEF Remains
<1>2. ASSUME NEW f \in {e, Short(e)} PROVE Append(lines, f) \in Seq(Line)
  BY ShortIsLine
<1> QED BY <1>1, <1>2, FileType, FileLines

\* Every step keeps the files right.
LEMMA StepKeepsFiles ==
  ASSUME Memory, Files, JournalNext PROVE Files'
<1> DEFINE lines == journal.lines
<1>0. lines \in Seq(Line) /\ journal \in Journals
  BY DEF Files, Journals
<1> SUFFICES ASSUME TRUE
             PROVE  /\ snapshot' # None => Sane(snapshot')
                    /\ temporary' # None => Sane(temporary')
                    /\ journal' \in Journals /\ acked' \subseteq History
  BY DEF Files, Journals, Sane, Ledger
<1> HIDE DEF lines
<1>1. ASSUME NEW c \in Caller, Load(c) PROVE UNCHANGED <<snapshot, temporary, journal, acked>>
  BY <1>1 DEF Load
<1>2. ASSUME NEW c \in Caller, NEW l, Sane(l), BeginSave(c, l)
      PROVE  UNCHANGED <<snapshot, journal, acked>> /\ Sane(temporary')
  BY <1>2 DEF BeginSave
<1>3. ASSUME NEW c \in Caller, Initialize(c)
      PROVE  UNCHANGED <<snapshot, journal, acked>> /\ Sane(temporary')
  BY <1>2, <1>3, PlannedIsValid DEF Initialize, Sane
<1>4. ASSUME NEW c \in Caller, NEW op \in Operation, Resave(c, op)
      PROVE  UNCHANGED <<snapshot, journal, acked>> /\ Sane(temporary')
  <2>1. Sane(held[c]) /\ CanApply(held[c], op) /\ BeginSave(c, Apply(held[c], op))
    BY <1>4 DEF Resave, Memory
  <2> QED BY <1>2, <2>1, ApplyIsSane
<1>5. ASSUME NEW c \in Caller, NEW op \in Operation, BeginAppend(c, op)
      PROVE  UNCHANGED <<snapshot, temporary, acked>> /\ journal' \in Journals
  BY <1>0, <1>5, FileType DEF BeginAppend, lines
<1>6. ASSUME NEW p \in Store, FinishSave(p)
      PROVE  UNCHANGED <<journal, acked>> /\ snapshot' = temporary /\ temporary' = None
  BY <1>6 DEF FinishSave
<1>7. ASSUME NEW p \in Store, FailSave(p) \/ FailRollback(p)
      PROVE  UNCHANGED <<snapshot, journal, acked>> /\ temporary' \in {temporary, None}
  BY <1>7 DEF FailSave, FailRollback
<1>8. ASSUME NEW p \in Store, busy[p] # None, busy[p].doing \in {"append", "rollback"}
      PROVE  busy[p].event \in Line /\ busy[p].offset \in Nat
             /\ EventDigest(busy[p].event) \in History
  BY <1>8, WriteIsRight DEF AppendWork
<1>9. ASSUME NEW p \in Store, FinishAppend(p)
      PROVE  UNCHANGED <<snapshot, temporary>> /\ journal' \in Journals /\ acked' \subseteq History
  <2>1. /\ busy[p].event \in Line /\ EventDigest(busy[p].event) \in History
        /\ journal' = File(Append(lines, busy[p].event))
        /\ acked' = acked \cup {EventDigest(busy[p].event)}
        /\ UNCHANGED <<snapshot, temporary>>
    BY <1>8, <1>9 DEF FinishAppend, lines
  <2>2. Append(lines, busy[p].event) \in Seq(Line)
    BY <1>0, <2>1
  <2> QED BY <2>1, <2>2, FileType DEF Files
<1>10. ASSUME NEW p \in Store, FailAppend(p)
      PROVE  UNCHANGED <<snapshot, temporary, acked>> /\ journal' \in Journals
  <2>1. /\ busy[p].event \in Line /\ journal' \in Remains(lines, busy[p].event)
        /\ UNCHANGED <<snapshot, temporary, acked>>
    BY <1>8, <1>10 DEF FailAppend, lines
  <2> QED BY <1>0, <2>1, RemainsType
<1>11. ASSUME NEW p \in Store, Rollback(p)
      PROVE  UNCHANGED <<snapshot, temporary, acked>> /\ journal' \in Journals
  <2> DEFINE n == busy[p].offset
             e == Short(busy[p].event)
  <2>1. /\ n \in Nat /\ busy[p].event \in Line
        /\ journal' = File(IF n <= Len(lines) THEN SubSeq(lines, 1, n) ELSE Append(lines, e))
        /\ UNCHANGED <<snapshot, temporary, acked>>
    BY <1>8, <1>11 DEF Rollback, lines
  <2>2. e \in Line
    BY <2>1, ShortIsLine
  <2> HIDE DEF n, e
  <2>3. Append(lines, e) \in Seq(Line)
    BY <1>0, <2>2
  <2>4. n <= Len(lines) => SubSeq(lines, 1, n) \in Seq(Line)
    BY <1>0, <2>1
  <2> QED BY <2>1, <2>3, <2>4, FileType
<1>12. ASSUME NEW p \in Store, Crash(p)
      PROVE  UNCHANGED <<snapshot, temporary, acked>> /\ journal' \in Journals
  <2>1. UNCHANGED <<snapshot, temporary, acked>>
    BY <1>12 DEF Crash
  <2>2. CASE busy[p] # None /\ busy[p].doing = "append"
    <3>1. busy[p].event \in Line /\ journal' \in Remains(lines, busy[p].event)
      BY <1>8, <1>12, <2>2 DEF Crash, lines
    <3> QED BY <1>0, <2>1, <3>1, RemainsType
  <2>3. CASE ~(busy[p] # None /\ busy[p].doing = "append")
    BY <1>0, <1>12, <2>1, <2>3 DEF Crash
  <2> QED BY <2>2, <2>3
<1>13. /\ snapshot # None => Sane(snapshot)
       /\ temporary # None => Sane(temporary)
       /\ acked \subseteq History
  BY DEF Files
<1> QED BY <1>0, <1>1, <1>3, <1>4, <1>5, <1>6, <1>7, <1>9, <1>10, <1>11, <1>12, <1>13
        DEF JournalNext

-----------------------------------------------------------------------------
(* One process at a time: memory and files agree, and a restart loads what the *)
(* process before it believed.                                                *)

\* There is nothing on disk or in memory at first.
LEMMA JournalInitMemory == JournalInit => Memory /\ Files
<1> SUFFICES ASSUME JournalInit PROVE Memory /\ Files
  OBVIOUS
<1>1. Memory
  BY DEF JournalInit, Memory, StoreOK
<1>2. journal \in Journals
  <2>1. << >> \in Seq(Line)
    OBVIOUS
  <2> QED BY <2>1 DEF JournalInit, NoFile, Journals
<1> QED BY <1>1, <1>2 DEF JournalInit, Files, Journals

\* A step that changes nothing keeps memory and files right.
LEMMA StutterKeepsMemory ==
  ASSUME Memory, Files, UNCHANGED journalVars PROVE Memory' /\ Files'
BY DEF Memory, Files, StoreOK, journalVars, StoreOf, Writing, AppendWork, Prepared, Believes, Sane

\* What the journal held before the write in progress.
AtRest(w, lines) == IF Writing(w) THEN SubSeq(lines, 1, w.offset) ELSE lines

\* A store's memory ends where the journal at rest does.
Agreed(e, w, s, lines) ==
  e # None => /\ s # None
              /\ Intact(s, AtRest(w, lines))
              /\ e.head = Digest(s, OpsOf(AtRest(w, lines)))

\* A write in progress knows the files: a save its temporary file, an append where it
\* began, a rollback what the failed write left behind that place.
Doing(w, t, j) ==
  w # None => /\ w.doing = "save" => t = w.result /\ ~j.exists
              /\ w.doing = "append" => w.offset = Len(j.lines)
              /\ w.doing = "rollback" =>
                   /\ w.offset \in 0 .. Len(j.lines)
                   /\ \/ w.offset = Len(j.lines)
                      \/ \E f \in {w.event, Short(w.event)} :
                           j.lines = Append(SubSeq(j.lines, 1, w.offset), f)

\* Only a store that a caller uses has anything in memory.
Used(p) == \E c \in Caller : StoreOf[c] = p

\* With one process at a time, memory and files agree at every moment.
OneWriter ==
  OneProcess =>
    /\ ~journal.exists => journal.lines = << >>
    /\ \A p \in Store : cache[p] # None \/ busy[p] # None => Used(p)
    /\ "rollback" \notin Faults =>
         \A p \in Store : Agreed(cache[p], busy[p], snapshot, journal.lines)
    /\ \A p \in Store : Doing(busy[p], temporary, journal)

\* Nothing that matters to a single writer changes.
LEMMA NothingHappens ==
  ASSUME OneWriter, UNCHANGED <<deployment, snapshot, temporary, journal>>,
         \A q \in Store : cache'[q] = cache[q] /\ busy'[q] = busy[q]
  PROVE  OneWriter'
<1>1. /\ OneProcess' = OneProcess /\ Faults' = Faults
      /\ \A q \in Store : Used(q)' = Used(q)
  BY DEF OneProcess, Used, StoreOf, Faults
<1> SUFFICES ASSUME OneProcess PROVE OneWriter'
  BY <1>1 DEF OneWriter
<1>2. \A q \in Store : /\ cache'[q] # None \/ busy'[q] # None => Used(q)
                       /\ "rollback" \notin Faults =>
                            Agreed(cache'[q], busy'[q], snapshot', journal'.lines)
                       /\ Doing(busy'[q], temporary', journal')
  BY DEF OneWriter
<1>3. ~journal'.exists => journal'.lines = << >>
  BY DEF OneWriter
<1> QED BY <1>1, <1>2, <1>3 DEF OneWriter, Agreed, Doing, AtRest, Writing, Intact, OpsOf, Digest

\* To see that a single process agrees with its files, look at its own store.
LEMMA OneStepAlone ==
  ASSUME OneWriter, OneProcess, UNCHANGED deployment, NEW p \in Store, Used(p),
         \A q \in Store \ {p} : cache'[q] = cache[q] /\ busy'[q] = busy[q],
         ~journal'.exists => journal'.lines = << >>,
         "rollback" \notin Faults => Agreed(cache'[p], busy'[p], snapshot', journal'.lines),
         Doing(busy'[p], temporary', journal')
  PROVE  OneWriter'
<1>1. \A q \in Store : Used(q) => q = p
  BY DEF OneProcess, Used
<1>2. \A q \in Store \ {p} : cache'[q] = None /\ busy'[q] = None
  BY <1>1 DEF OneWriter
<1>3. Used(p)'
  BY DEF Used, StoreOf
<1>4. \A q \in Store : /\ cache'[q] # None \/ busy'[q] # None => Used(q)'
                       /\ "rollback" \notin Faults => Agreed(cache'[q], busy'[q], snapshot', journal'.lines)
                       /\ Doing(busy'[q], temporary', journal')
  <2> SUFFICES ASSUME NEW q \in Store
      PROVE  /\ cache'[q] # None \/ busy'[q] # None => Used(q)'
             /\ "rollback" \notin Faults => Agreed(cache'[q], busy'[q], snapshot', journal'.lines)
             /\ Doing(busy'[q], temporary', journal')
    OBVIOUS
  <2>1. CASE q = p
    BY <1>3, <2>1
  <2>2. CASE q # p
    BY <1>2, <2>2 DEF Agreed, Doing
  <2> QED BY <2>1, <2>2
<1>5. Faults' = Faults
  BY DEF Faults
<1> QED BY <1>4, <1>5, ZenonT(60) DEF OneWriter, Agreed, Doing, AtRest, Writing, Intact, OpsOf, Digest, Used

\* A journal at rest, whole or as it was before a write.
LEMMA WholePart ==
  ASSUME NEW lines \in Seq(Line) PROVE SubSeq(lines, 1, Len(lines)) = lines
OBVIOUS

\* Without a write in progress the whole journal is at rest.
LEMMA AtRestIdle ==
  ASSUME NEW lines PROVE AtRest(None, lines) = lines
BY DEF AtRest, Writing

\* restore()
LEMMA LoadAlone ==
  ASSUME Memory, Files, OneWriter, OneProcess, UNCHANGED deployment, NEW c \in Caller, Load(c)
  PROVE  OneWriter'
<1> DEFINE p == StoreOf[c]
           lines == journal.lines
           e == Entry(Loaded(snapshot, journal), Digest(snapshot, OpsOf(lines)))
<1>1. /\ busy[p] = None /\ snapshot # None /\ Intact(snapshot, lines)
      /\ cache' = [cache EXCEPT ![p] = e]
      /\ UNCHANGED <<snapshot, temporary, journal, busy>>
  BY DEF Load, Loadable
<1>2. p \in Store /\ Used(p)
  BY Belongs DEF Used
<1>3. e.head = Digest(snapshot, OpsOf(lines))
  BY DEF Entry
<1> HIDE DEF p, e
<1>4. cache'[p] = e /\ \A q \in Store \ {p} : cache'[q] = cache[q]
  BY <1>1, <1>2, Changes DEF Memory
<1>5. Agreed(cache'[p], busy'[p], snapshot', journal'.lines)
  BY <1>1, <1>3, <1>4, AtRestIdle DEF Agreed
<1>6. Doing(busy'[p], temporary', journal') /\ (~journal'.exists => journal'.lines = << >>)
  BY <1>1 DEF Doing, OneWriter
<1> QED BY <1>1, <1>2, <1>4, <1>5, <1>6, OneStepAlone

\* save() writes its temporary file, beside a snapshot that stays.
LEMMA BeginSaveAlone ==
  ASSUME Memory, OneWriter, OneProcess, UNCHANGED deployment, NEW c \in Caller, NEW l, BeginSave(c, l)
  PROVE  OneWriter'
<1> DEFINE p == StoreOf[c]
           w == [doing |-> "save", caller |-> c, result |-> l]
<1>1. /\ busy[p] = None /\ ~journal.exists /\ temporary' = l
      /\ busy' = [busy EXCEPT ![p] = w]
      /\ UNCHANGED <<snapshot, journal, cache>>
  BY DEF BeginSave
<1>2. p \in Store /\ Used(p)
  BY Belongs DEF Used
<1>3. w.doing = "save" /\ w.result = l
  OBVIOUS
<1> HIDE DEF p, w
<1>4. busy'[p] = w /\ \A q \in Store \ {p} : busy'[q] = busy[q]
  BY <1>1, <1>2, Changes DEF Memory
<1>5. "rollback" \notin Faults => Agreed(cache'[p], busy'[p], snapshot', journal'.lines)
  BY <1>1, <1>2, <1>3, <1>4 DEF Agreed, AtRest, Writing, OneWriter
<1>6. Doing(busy'[p], temporary', journal') /\ (~journal'.exists => journal'.lines = << >>)
  BY <1>1, <1>3, <1>4 DEF Doing, OneWriter
<1> QED BY <1>1, <1>2, <1>4, <1>5, <1>6, OneStepAlone

\* A store that has something in hand is one that a caller uses.
LEMMA InUse ==
  ASSUME Memory, OneWriter, OneProcess, NEW p \in Store, busy[p] # None
  PROVE  Used(p)
BY DEF OneWriter

\* save() renames what it has written: the snapshot is what the store believes.
LEMMA FinishSaveAlone ==
  ASSUME Memory, OneWriter, OneProcess, UNCHANGED deployment, NEW p \in Store, FinishSave(p)
  PROVE  OneWriter'
<1> DEFINE l == busy[p].result
           e == Entry(l, Digest(l, << >>))
<1>1. /\ busy[p] # None /\ busy[p].doing = "save" /\ snapshot' = temporary
      /\ cache' = [cache EXCEPT ![p] = e] /\ busy' = [busy EXCEPT ![p] = None]
      /\ journal' = journal
  BY DEF FinishSave
<1>2. temporary = l /\ ~journal.exists /\ journal.lines = << >>
  BY <1>1 DEF OneWriter, Doing
<1>3. l # None
  BY <1>1, InHand, LedgerIsThere
<1>4. e.head = Digest(l, << >>)
  BY DEF Entry
<1>5. OpsOf(<< >>) = << >>
  BY DEF OpsOf
<1> HIDE DEF l, e
<1>6. /\ busy'[p] = None /\ \A q \in Store \ {p} : busy'[q] = busy[q]
      /\ cache'[p] = e /\ \A q \in Store \ {p} : cache'[q] = cache[q]
  BY <1>1, Changes DEF Memory
<1>7. Agreed(cache'[p], busy'[p], snapshot', journal'.lines)
  BY <1>1, <1>2, <1>3, <1>4, <1>5, <1>6, AtRestIdle, NothingIsIntact DEF Agreed
<1>8. Doing(busy'[p], temporary', journal') /\ (~journal'.exists => journal'.lines = << >>)
  BY <1>1, <1>2, <1>6 DEF Doing
<1> QED BY <1>1, <1>6, <1>7, <1>8, InUse, OneStepAlone

\* A save that fails leaves the files that were there.
LEMMA FailSaveAlone ==
  ASSUME Memory, OneWriter, OneProcess, UNCHANGED deployment, NEW p \in Store, FailSave(p)
  PROVE  OneWriter'
<1>1. /\ busy[p] # None /\ busy[p].doing = "save"
      /\ busy' = [busy EXCEPT ![p] = None]
      /\ UNCHANGED <<snapshot, journal, cache>>
  BY DEF FailSave
<1>2. busy'[p] = None /\ \A q \in Store \ {p} : busy'[q] = busy[q]
  BY <1>1, Changes DEF Memory
<1>3. "rollback" \notin Faults => Agreed(cache'[p], busy'[p], snapshot', journal'.lines)
  BY <1>1, <1>2 DEF Agreed, AtRest, Writing, OneWriter
<1>4. Doing(busy'[p], temporary', journal') /\ (~journal'.exists => journal'.lines = << >>)
  BY <1>1, <1>2 DEF Doing, OneWriter
<1> QED BY <1>1, <1>2, <1>3, <1>4, InUse, OneStepAlone

\* An append begins where the journal ends.
LEMMA BeginAppendAlone ==
  ASSUME Memory, Files, OneWriter, OneProcess, UNCHANGED deployment, NEW c \in Caller, NEW op,
         BeginAppend(c, op)
  PROVE  OneWriter'
<1> DEFINE p == StoreOf[c]
           n == Len(journal.lines)
           w == [doing |-> "append", caller |-> c, result |-> Apply(held[c], op),
                 event |-> Event(cache[p].head, op), offset |-> n]
<1>1. /\ busy[p] = None /\ journal' = File(journal.lines)
      /\ busy' = [busy EXCEPT ![p] = w]
      /\ UNCHANGED <<snapshot, temporary, cache>>
  BY DEF BeginAppend
<1>2. p \in Store /\ Used(p)
  BY Belongs DEF Used
<1>3. w.doing = "append" /\ w.offset = n
  OBVIOUS
<1>4. journal.lines \in Seq(Line)
  BY DEF Files
<1>5. journal'.lines = journal.lines /\ journal'.exists
  BY <1>1, <1>4, FileLines, FileType
<1> HIDE DEF p, w
<1>6. busy'[p] = w /\ \A q \in Store \ {p} : busy'[q] = busy[q]
  BY <1>1, <1>2, Changes DEF Memory
<1>7. AtRest(busy[p], journal.lines) = journal.lines
  BY <1>1, AtRestIdle
<1>8. AtRest(w, journal'.lines) = journal.lines
  BY <1>3, <1>4, <1>5, WholePart DEF AtRest
<1>9. "rollback" \notin Faults => Agreed(cache'[p], busy'[p], snapshot', journal'.lines)
  BY <1>1, <1>2, <1>6, <1>7, <1>8 DEF Agreed, OneWriter
<1>10. Doing(busy'[p], temporary', journal') /\ (~journal'.exists => journal'.lines = << >>)
  BY <1>3, <1>5, <1>6 DEF Doing
<1> QED BY <1>1, <1>2, <1>6, <1>9, <1>10, OneStepAlone

\* An append extends the chain, and the head moves with it.
LEMMA FinishAppendAlone ==
  ASSUME Memory, Files, OneWriter, OneProcess, UNCHANGED deployment, NEW p \in Store, FinishAppend(p)
  PROVE  OneWriter'
<1> DEFINE lines == journal.lines
           event == busy[p].event
           e == Entry(busy[p].result, EventDigest(event))
           more == Append(lines, event)
<1>1. /\ busy[p] # None /\ busy[p].doing = "append" /\ journal' = File(more)
      /\ cache' = [cache EXCEPT ![p] = e] /\ busy' = [busy EXCEPT ![p] = None]
      /\ UNCHANGED <<snapshot, temporary>>
  BY DEF FinishAppend
<1>2. /\ lines \in Seq(Line) /\ event \in Line /\ event.whole /\ event.previous = cache[p].head
      /\ cache[p] # None
  BY <1>1, WriteIsRight DEF AppendWork, Files
<1>3. AtRest(busy[p], lines) = lines
  <2>1. busy[p].offset = Len(lines)
    BY <1>1 DEF OneWriter, Doing
  <2> QED BY <1>2, <2>1, WholePart DEF AtRest
<1>4. ASSUME "rollback" \notin Faults
      PROVE  /\ snapshot # None /\ Intact(snapshot, lines)
             /\ event.previous = Digest(snapshot, OpsOf(lines))
  BY <1>2, <1>3, <1>4 DEF OneWriter, Agreed
<1>5. ASSUME "rollback" \notin Faults PROVE Intact(snapshot, more)
  BY <1>2, <1>4, <1>5, IntactOneMore
<1>6. ASSUME "rollback" \notin Faults PROVE EventDigest(event) = Digest(snapshot, OpsOf(more))
  <2>1. OpsOf(more) = Append(OpsOf(lines), event.operation)
    BY <1>2, OperationsOfAppend
  <2> HIDE DEF more
  <2> QED BY <1>4, <1>6, <2>1, DigestUnfolds
<1>7. e.head = EventDigest(event)
  BY DEF Entry
<1>8. more \in Seq(Line)
  BY <1>2
<1>9. journal'.lines = more /\ journal'.exists
  BY <1>1, <1>8, FileLines, FileType
<1> HIDE DEF e, more, event, lines
<1>10. /\ busy'[p] = None /\ \A q \in Store \ {p} : busy'[q] = busy[q]
       /\ cache'[p] = e /\ \A q \in Store \ {p} : cache'[q] = cache[q]
  BY <1>1, Changes DEF Memory
<1>11. "rollback" \notin Faults => Agreed(cache'[p], busy'[p], snapshot', journal'.lines)
  BY <1>1, <1>4, <1>5, <1>6, <1>7, <1>9, <1>10, AtRestIdle DEF Agreed
<1>12. Doing(busy'[p], temporary', journal') /\ (~journal'.exists => journal'.lines = << >>)
  BY <1>9, <1>10 DEF Doing
<1> QED BY <1>1, <1>10, <1>11, <1>12, InUse, OneStepAlone

\* What was written before a line was added.
LEMMA BeforeAppend ==
  ASSUME NEW lines \in Seq(Line), NEW e \in Line
  PROVE  /\ SubSeq(Append(lines, e), 1, Len(lines)) = lines
         /\ Len(lines) \in 0 .. Len(Append(lines, e))
<1> DEFINE more == Append(lines, e)
           n == Len(lines)
           part == SubSeq(more, 1, n)
<1>1. /\ more \in Seq(Line) /\ Len(more) = n + 1 /\ n \in Nat
      /\ \A i \in 1 .. n : more[i] = lines[i]
  OBVIOUS
<1> HIDE DEF more, n
<1>2. part \in Seq(Line) /\ Len(part) = n /\ \A i \in 1 .. n : part[i] = more[i]
  BY <1>1
<1> HIDE DEF part
<1>3. part = lines
  BY <1>1, <1>2, SeqEqual DEF n
<1>4. n \in 0 .. Len(more)
  BY <1>1
<1> QED BY <1>3, <1>4 DEF part, n, more

\* A write that fails leaves at most its own event behind the place it began at.
LEMMA FailAppendAlone ==
  ASSUME Memory, Files, OneWriter, OneProcess, UNCHANGED deployment, NEW p \in Store, FailAppend(p)
  PROVE  OneWriter'
<1> DEFINE w == busy[p]
           v == [w EXCEPT !.doing = "rollback"]
           lines == journal.lines
<1>1. /\ w # None /\ w.doing = "append" /\ journal' \in Remains(lines, w.event)
      /\ busy' = [busy EXCEPT ![p] = [busy[p] EXCEPT !.doing = "rollback"]]
      /\ UNCHANGED <<snapshot, temporary, cache>>
  BY DEF FailAppend
<1>2. /\ lines \in Seq(Line) /\ w \in AppendWork /\ w.event \in Line
  BY <1>1, WriteIsRight DEF AppendWork, Files
<1>3. w.offset = Len(lines)
  BY <1>1 DEF OneWriter, Doing
<1>4. v \in AppendWork /\ v.doing = "rollback" /\ v.offset = w.offset
  BY <1>2 DEF AppendWork
<1>5. busy' = [busy EXCEPT ![p] = v]
  BY <1>1
<1> HIDE DEF v, w
<1>6. busy'[p] = v /\ \A q \in Store \ {p} : busy'[q] = busy[q]
  BY <1>5, Changes DEF Memory
<1>7. \/ journal'.lines = lines
      \/ \E f \in {w.event, Short(w.event)} : journal'.lines = Append(lines, f)
  BY <1>1, <1>2, RemainsType
<1>8. /\ SubSeq(journal'.lines, 1, Len(lines)) = lines
      /\ Len(lines) \in 0 .. Len(journal'.lines)
  <2>1. CASE journal'.lines = lines
    <3>1. Len(lines) \in Nat
      BY <1>2
    <3> QED BY <1>2, <2>1, <3>1, WholePart
  <2>2. ASSUME NEW f \in {w.event, Short(w.event)}, journal'.lines = Append(lines, f)
        PROVE  /\ SubSeq(journal'.lines, 1, Len(lines)) = lines
               /\ Len(lines) \in 0 .. Len(journal'.lines)
    BY <1>2, <2>2, BeforeAppend, ShortIsLine
  <2> QED BY <1>7, <2>1, <2>2
<1>9. AtRest(v, journal'.lines) = lines /\ AtRest(w, lines) = lines
  <2>1. v # None
    BY <1>4, RecordAssumption
  <2> QED BY <1>1, <1>2, <1>3, <1>4, <1>8, <2>1, WholePart DEF AtRest, Writing
<1>10. "rollback" \notin Faults => Agreed(cache'[p], busy'[p], snapshot', journal'.lines)
  BY <1>1, <1>6, <1>9 DEF Agreed, OneWriter, w, lines
<1>11. journal'.exists
  BY <1>1 DEF Remains, File
<1>12. Doing(busy'[p], temporary', journal')
  <2>1. v.event = w.event
    BY <1>2 DEF AppendWork, v
  <2>2. \/ Len(lines) = Len(journal'.lines)
        \/ \E f \in {v.event, Short(v.event)} :
             journal'.lines = Append(SubSeq(journal'.lines, 1, Len(lines)), f)
    BY <1>7, <1>8, <2>1
  <2> QED BY <1>3, <1>4, <1>6, <1>8, <2>2 DEF Doing
<1>13. \A q \in Store \ {p} : cache'[q] = cache[q]
  BY <1>1
<1> QED BY <1>1, <1>6, <1>10, <1>11, <1>12, <1>13, InUse, OneStepAlone DEF w

\* The truncation takes away what the failed write left, and no more.
LEMMA RollbackAlone ==
  ASSUME Memory, Files, OneWriter, OneProcess, UNCHANGED deployment, NEW p \in Store, Rollback(p)
  PROVE  OneWriter'
<1> DEFINE lines == journal.lines
           n == busy[p].offset
           rest == SubSeq(lines, 1, n)
<1>1. /\ busy[p] # None /\ busy[p].doing = "rollback"
      /\ journal' = File(IF n <= Len(lines) THEN rest ELSE Append(lines, Short(busy[p].event)))
      /\ busy' = [busy EXCEPT ![p] = None]
      /\ UNCHANGED <<snapshot, temporary, cache>>
  BY DEF Rollback
<1>2. n \in 0 .. Len(lines) /\ Len(lines) \in Nat /\ lines \in Seq(Line)
  BY <1>1 DEF OneWriter, Doing, Files
<1>3. AtRest(busy[p], lines) = rest
  BY <1>1 DEF AtRest, Writing
<1>4. rest \in Seq(Line)
  BY <1>2
<1> HIDE DEF rest, n, lines
<1>5. n <= Len(lines)
  BY <1>2
<1>6. journal'.lines = rest /\ journal'.exists
  BY <1>1, <1>4, <1>5, FileLines, FileType
<1>7. busy'[p] = None /\ \A q \in Store \ {p} : busy'[q] = busy[q]
  BY <1>1, Changes DEF Memory
<1>8. "rollback" \notin Faults => Agreed(cache'[p], busy'[p], snapshot', journal'.lines)
  BY <1>1, <1>3, <1>6, <1>7, AtRestIdle DEF Agreed, OneWriter, lines
<1>9. Doing(busy'[p], temporary', journal')
  BY <1>7 DEF Doing
<1> QED BY <1>1, <1>6, <1>7, <1>8, <1>9, InUse, OneStepAlone

\* Where truncations may fail, nothing is said of what memory and files agree on.
LEMMA FailRollbackAlone ==
  ASSUME Memory, OneWriter, OneProcess, UNCHANGED deployment, NEW p \in Store, FailRollback(p)
  PROVE  OneWriter'
<1>1. /\ busy[p] # None /\ busy[p].doing = "rollback" /\ "rollback" \in Faults
      /\ busy' = [busy EXCEPT ![p] = None]
      /\ UNCHANGED <<snapshot, temporary, journal, cache>>
  BY DEF FailRollback
<1>2. busy'[p] = None /\ \A q \in Store \ {p} : busy'[q] = busy[q]
  BY <1>1, Changes DEF Memory
<1>3. Doing(busy'[p], temporary', journal') /\ (~journal'.exists => journal'.lines = << >>)
  BY <1>1, <1>2 DEF Doing, OneWriter
<1> QED BY <1>1, <1>2, <1>3, InUse, OneStepAlone

\* A process that dies believes nothing.
LEMMA CrashAlone ==
  ASSUME Memory, Files, OneWriter, OneProcess, UNCHANGED deployment, NEW p \in Store, Crash(p)
  PROVE  OneWriter'
<1>1. /\ cache' = [cache EXCEPT ![p] = None] /\ busy' = [busy EXCEPT ![p] = None]
      /\ UNCHANGED <<snapshot, temporary>>
      /\ IF busy[p] # None /\ busy[p].doing = "append"
         THEN journal' \in Remains(journal.lines, busy[p].event)
         ELSE journal' = journal
  BY DEF Crash
<1>2. /\ cache'[p] = None /\ \A q \in Store \ {p} : cache'[q] = cache[q]
      /\ busy'[p] = None /\ \A q \in Store \ {p} : busy'[q] = busy[q]
  BY <1>1, Changes DEF Memory
<1>3. Agreed(cache'[p], busy'[p], snapshot', journal'.lines) /\ Doing(busy'[p], temporary', journal')
  BY <1>2 DEF Agreed, Doing
<1>4. ~journal'.exists => journal'.lines = << >>
  BY <1>1 DEF Remains, File, OneWriter
<1>5. CASE Used(p)
  BY <1>2, <1>3, <1>4, <1>5, OneStepAlone
<1>6. CASE ~Used(p)
  <2>1. cache[p] = None /\ busy[p] = None
    BY <1>6 DEF OneWriter
  <2>2. \A q \in Store : cache'[q] = cache[q] /\ busy'[q] = busy[q]
    BY <1>2, <2>1
  <2>3. UNCHANGED <<snapshot, temporary, journal>>
    BY <1>1, <2>1
  <2> QED BY <2>2, <2>3, NothingHappens
<1> QED BY <1>5, <1>6

\* Every step keeps memory and files in agreement, with one process at a time.
LEMMA StepKeepsOneWriter ==
  ASSUME Memory, Files, OneWriter, JournalNext PROVE OneWriter'
<1>0. UNCHANGED deployment
  BY DEF JournalNext
<1> SUFFICES ASSUME OneProcess PROVE OneWriter'
  BY <1>0 DEF OneWriter, OneProcess, StoreOf
<1>1. ASSUME NEW c \in Caller, Load(c) PROVE OneWriter'
  BY <1>0, <1>1, LoadAlone
<1>2. ASSUME NEW c \in Caller, Initialize(c) PROVE OneWriter'
  BY <1>0, <1>2, BeginSaveAlone DEF Initialize
<1>3. ASSUME NEW c \in Caller, NEW op \in Operation, Resave(c, op) PROVE OneWriter'
  BY <1>0, <1>3, BeginSaveAlone DEF Resave
<1>4. ASSUME NEW c \in Caller, NEW op \in Operation, BeginAppend(c, op) PROVE OneWriter'
  BY <1>0, <1>4, BeginAppendAlone
<1>5. ASSUME NEW p \in Store, FinishSave(p) PROVE OneWriter'
  BY <1>0, <1>5, FinishSaveAlone
<1>6. ASSUME NEW p \in Store, FailSave(p) PROVE OneWriter'
  BY <1>0, <1>6, FailSaveAlone
<1>7. ASSUME NEW p \in Store, FinishAppend(p) PROVE OneWriter'
  BY <1>0, <1>7, FinishAppendAlone
<1>8. ASSUME NEW p \in Store, FailAppend(p) PROVE OneWriter'
  BY <1>0, <1>8, FailAppendAlone
<1>9. ASSUME NEW p \in Store, Rollback(p) PROVE OneWriter'
  BY <1>0, <1>9, RollbackAlone
<1>10. ASSUME NEW p \in Store, FailRollback(p) PROVE OneWriter'
  BY <1>0, <1>10, FailRollbackAlone
<1>11. ASSUME NEW p \in Store, Crash(p) PROVE OneWriter'
  BY <1>0, <1>11, CrashAlone
<1> HIDE DEF OneWriter
<1>12. \/ \E c \in Caller : Load(c) \/ Initialize(c)
       \/ \E c \in Caller, op \in Operation : Resave(c, op) \/ BeginAppend(c, op)
       \/ \E p \in Store : \/ FinishSave(p) \/ FailSave(p) \/ FinishAppend(p) \/ FailAppend(p)
                           \/ Rollback(p) \/ FailRollback(p) \/ Crash(p)
  BY DEF JournalNext
<1> QED BY <1>1, <1>2, <1>3, <1>4, <1>5, <1>6, <1>7, <1>8, <1>9, <1>10, <1>11, <1>12

\* At first there is nothing to agree on.
LEMMA InitOneWriter == JournalInit => OneWriter
BY DEF JournalInit, OneWriter, NoFile, Agreed, Doing

\* What a single process believes is what its restart would load.
LEMMA MemoryAgreesWithFiles ==
  ASSUME Memory, Files, OneWriter PROVE ReloadAgrees
<1>1. JournalTypeOK
  <2>1. \A p \in Store : cache[p] # None => cache[p] \in Entries
    BY DEF Memory, StoreOK, Believes
  <2>2. \A c \in Caller : held[c] \in Ledger \cup {None}
    BY DEF Memory, Sane
  <2>3. \A p \in Store : busy[p] # None =>
          /\ busy[p].doing \in {"save", "append", "rollback"}
          /\ StoreOf[busy[p].caller] = p
          /\ busy[p].result \in Ledger
    BY DEF Memory, StoreOK, Sane
  <2>4. deployment \in Deployments
    BY DEF Memory
  <2> QED BY <2>1, <2>2, <2>3, <2>4 DEF JournalTypeOK, Files, Sane
<1>2. ASSUME Alone, NEW p \in Store, cache[p] # None, busy[p] = None
      PROVE  Loadable(snapshot, journal) /\ Loaded(snapshot, journal) = cache[p].ledger
  <2>1. /\ snapshot # None /\ Intact(snapshot, journal.lines)
        /\ cache[p].head = Digest(snapshot, OpsOf(journal.lines))
    BY <1>2, AtRestIdle DEF OneWriter, Agreed, Alone
  <2>2. Believes(cache[p])
    BY <1>2 DEF Memory, StoreOK
  <2>3. Replay(snapshot, OpsOf(journal.lines)) = cache[p].ledger /\ cache[p].ledger # None
    BY <2>1, <2>2, LedgerIsThere DEF Believes, Digest
  <2> QED BY <2>1, <2>3 DEF Loadable, Loaded
<1> QED BY <1>1, <1>2 DEF ReloadAgrees

\* With one process at a time and truncations that succeed, what a store that is at
\* rest believes is what _load_ledger would return to its successor, after any writes
\* that failed and any deaths: memory that is never ahead of the files or behind them.
THEOREM ReloadsAgree == JournalSpec => []ReloadAgrees
<1>1. JournalInit => Memory /\ Files /\ OneWriter
  BY JournalInitMemory, InitOneWriter
<1>2. Memory /\ Files /\ OneWriter /\ [JournalNext]_journalVars => (Memory /\ Files /\ OneWriter)'
  <2>1. OneWriter /\ UNCHANGED journalVars => OneWriter'
    BY NothingHappens DEF journalVars
  <2> QED BY <2>1, StepKeepsMemory, StepKeepsFiles, StepKeepsOneWriter, StutterKeepsMemory
<1>3. Memory /\ Files /\ OneWriter => ReloadAgrees
  BY MemoryAgreesWithFiles
<1> QED BY <1>1, <1>2, <1>3, PTL DEF JournalSpec

-----------------------------------------------------------------------------
(* The promise of IncrementalReview: seen on disk, every step of the store is   *)
(* one legal transition or none, also while others write, die or fail to.      *)

\* The instance's transitions are the ledger's own.
LEMMA SameOffer ==
  ASSUME NEW l, NEW b
  PROVE  Review!CanOffer(l, b) = CanOffer(l, b) /\ Review!OfferResult(l, b) = OfferResult(l, b)
BY DEF CanOffer, OfferResult, Review!CanOffer, Review!OfferResult

\* Blocking means the same in both.
LEMMA SameBlock ==
  ASSUME NEW l, NEW b, NEW r
  PROVE  Review!CanBlock(l, b, r) = CanBlock(l, b, r) /\ Review!BlockResult(l, b, r) = BlockResult(l, b, r)
BY DEF CanBlock, BlockResult, Review!CanBlock, Review!BlockResult

\* Finalizing means the same in both.
LEMMA SameFinalize ==
  ASSUME NEW l, NEW s
  PROVE  Review!CanFinalize(l, s) = CanFinalize(l, s) /\ Review!FinalizeResult(l, s) = FinalizeResult(l, s)
BY DEF CanFinalize, FinalizeResult, Review!CanFinalize, Review!FinalizeResult, Batch, Review!Batch

\* The plan, its batches and the verdicts are the same in both.
LEMMA SamePlan == Review!Planned = Planned /\ Review!Batch = Batch /\ Review!NewVerdict = NewVerdict
  /\ Review!TerminalStates = TerminalStates
BY DEF Planned, Review!Planned, Batch, Review!Batch, NewVerdict, Review!NewVerdict, Verdict, Review!Verdict,
  Decisions, Review!Decisions, TerminalStates, Review!TerminalStates

\* Accepting means the same in both.
LEMMA SameAccept ==
  ASSUME NEW l, NEW v
  PROVE  Review!CanAccept(l, v) = CanAccept(l, v) /\ Review!AcceptResult(l, v) = AcceptResult(l, v)
BY DEF CanAccept, Review!CanAccept, AcceptResult, Review!AcceptResult,
  Recorded, Review!Recorded, Stored, Review!Stored, IsReplay, Review!IsReplay, IsNew, Review!IsNew,
  IsInitial, IsCorrection, Review!IsInitial, Review!IsCorrection, SameContent, Review!SameContent,
  AtomsOf, Review!AtomsOf, EffectiveIds, Review!EffectiveIds, Revised, Review!Revised, RevisionIds, Review!RevisionIds,
  Batch, Review!Batch

\* The ledger as the review sees it.
Seen == IF Chained THEN DurableLedger ELSE Planned

\* What the transitions of the review are, of the ledger on disk.
LEMMA ReviewActions ==
  /\ \A b : Review!OfferBatch(b) <=> CanOffer(Seen, b) /\ Seen' = OfferResult(Seen, b)
  /\ \A v : Review!Accept(v) <=> CanAccept(Seen, v) /\ Seen' = AcceptResult(Seen, v)
  /\ \A b, r : Review!Block(b, r) <=> CanBlock(Seen, b, r) /\ Seen' = BlockResult(Seen, b, r)
  /\ \A s : Review!Finalize(s) <=> CanFinalize(Seen, s) /\ Seen' = FinalizeResult(Seen, s)
<1>1. ASSUME NEW b
      PROVE  Review!OfferBatch(b) <=> CanOffer(Seen, b) /\ Seen' = OfferResult(Seen, b)
  <2>1. Review!OfferBatch(b) <=> Review!CanOffer(Seen, b) /\ Seen' = Review!OfferResult(Seen, b)
    BY DEF Review!OfferBatch, Seen
  <2> QED BY <2>1, SameOffer
<1>2. ASSUME NEW v
      PROVE  Review!Accept(v) <=> CanAccept(Seen, v) /\ Seen' = AcceptResult(Seen, v)
  <2>1. Review!Accept(v) <=> Review!CanAccept(Seen, v) /\ Seen' = Review!AcceptResult(Seen, v)
    BY DEF Review!Accept, Seen
  <2> QED BY <2>1, SameAccept
<1>3. ASSUME NEW b, NEW r
      PROVE  Review!Block(b, r) <=> CanBlock(Seen, b, r) /\ Seen' = BlockResult(Seen, b, r)
  <2>1. Review!Block(b, r) <=> Review!CanBlock(Seen, b, r) /\ Seen' = Review!BlockResult(Seen, b, r)
    BY DEF Review!Block, Seen
  <2> QED BY <2>1, SameBlock
<1>4. ASSUME NEW s
      PROVE  Review!Finalize(s) <=> CanFinalize(Seen, s) /\ Seen' = FinalizeResult(Seen, s)
  <2>1. Review!Finalize(s) <=> Review!CanFinalize(Seen, s) /\ Seen' = Review!FinalizeResult(Seen, s)
    BY DEF Review!Finalize, Seen
  <2> QED BY <2>1, SameFinalize
<1> QED BY <1>1, <1>2, <1>3, <1>4

\* An operation of the journal is a transition of the review.
LEMMA OperationIsTransition ==
  ASSUME NEW op \in Operation, CanApply(Seen, op), Seen' = Apply(Seen, op)
  PROVE  Review!Next
<1>1. CASE op \in [kind : {"offer"}, batch : Batch]
  <2>1. op.kind = "offer" /\ op.batch \in Batch
    BY <1>1
  <2>2. Review!OfferBatch(op.batch)
    BY <2>1, ReviewActions DEF CanApply, Apply
  <2> QED BY <2>1, <2>2, SamePlan DEF Review!Next
<1>2. CASE op \in [kind : {"accept"}, verdict : NewVerdict]
  <2>1. op.kind = "accept" /\ op.verdict \in NewVerdict
    BY <1>2
  <2>2. Review!Accept(op.verdict)
    BY <2>1, ReviewActions DEF CanApply, Apply
  <2> QED BY <2>1, <2>2, SamePlan DEF Review!Next
<1>3. CASE op \in [kind : {"block"}, batch : Batch, reason : Reason]
  <2>1. op.kind = "block" /\ op.batch \in Batch /\ op.reason \in Reason
    BY <1>3
  <2>2. Review!Block(op.batch, op.reason)
    BY <2>1, ReviewActions DEF CanApply, Apply
  <2> QED BY <2>1, <2>2, SamePlan DEF Review!Next
<1>4. CASE op \in [kind : {"finalize"}, status : TerminalStates]
  <2>1. op.kind = "finalize" /\ op.status \in TerminalStates
    BY <1>4
  <2>2. Review!Finalize(op.status)
    BY <2>1, ReviewActions DEF CanApply, Apply
  <2> QED BY <2>1, <2>2, SamePlan DEF Review!Next
<1> QED BY <1>1, <1>2, <1>3, <1>4 DEF Operation

Calm == \A p \in Store : busy[p] # None => busy[p].doing # "rollback"

\* The snapshot is the plan for ever, nobody has anything in memory without it, and
\* nothing is rolled back unless writes fail.
Journaled ==
  Chained =>
    /\ snapshot # None => snapshot = Planned /\ temporary = None
    /\ temporary # None => temporary = Planned
    /\ snapshot = None => journal.lines = << >> /\ \A p \in Store : cache[p] = None
    /\ ~Calm => OneProcess

\* Who is in the middle of a write to the journal has loaded it.
LEMMA WriterHasSnapshot ==
  ASSUME Memory, Journaled, Chained, NEW p \in Store, busy[p] # None,
         busy[p].doing \in {"append", "rollback"}
  PROVE  snapshot # None
<1>1. cache[p] # None
  BY WriteIsRight
<1> QED BY <1>1 DEF Journaled

\* Every step keeps the plan as the snapshot and the journal behind it.
LEMMA StepKeepsJournaled ==
  ASSUME Memory, Files, Journaled, JournalNext PROVE Journaled'
<1>0. Chained' = Chained /\ OneProcess' = OneProcess
  BY DEF JournalNext, Chained, OneProcess, StoreOf, Faults, Legacy
<1> SUFFICES ASSUME Chained PROVE Journaled'
  BY <1>0 DEF Journaled
<1>1. ASSUME NEW p \in Store, NEW w, w # None => w.doing # "rollback",
             busy' = [busy EXCEPT ![p] = w]
      PROVE  ~Calm' => OneProcess'
  <2>1. busy'[p] = w /\ \A q \in Store \ {p} : busy'[q] = busy[q]
    BY <1>1, Changes DEF Memory
  <2>2. Calm => Calm'
    BY <1>1, <2>1 DEF Calm
  <2> QED BY <1>0, <2>2 DEF Journaled
<1>2. ASSUME NEW c \in Caller, Load(c) PROVE Journaled'
  <2>1. Calm' = Calm
    BY <1>2 DEF Load, Calm
  <2> QED BY <1>0, <1>2, <2>1 DEF Load, Loadable, Journaled
<1>3. ASSUME NEW c \in Caller, Initialize(c) PROVE Journaled'
  <2> DEFINE w == [doing |-> "save", caller |-> c, result |-> Planned]
  <2>1. /\ snapshot = None /\ temporary' = Planned /\ UNCHANGED <<snapshot, journal, cache>>
        /\ busy' = [busy EXCEPT ![StoreOf[c]] = w]
    BY <1>3 DEF Initialize, BeginSave
  <2>2. w # None => w.doing # "rollback"
    OBVIOUS
  <2> HIDE DEF w
  <2>3. ~Calm' => OneProcess'
    BY <1>1, <2>1, <2>2, Belongs
  <2> QED BY <2>1, <2>3 DEF Journaled
<1>4. ASSUME NEW c \in Caller, NEW op PROVE ~Resave(c, op)
  BY DEF Resave, Chained
<1>5. ASSUME NEW c \in Caller, NEW op \in Operation, BeginAppend(c, op) PROVE Journaled'
  <2> DEFINE w == [doing |-> "append", caller |-> c, result |-> Apply(held[c], op),
                   event |-> Event(cache[StoreOf[c]].head, op), offset |-> Len(journal.lines)]
  <2>1. /\ journal' = File(journal.lines) /\ UNCHANGED <<snapshot, temporary, cache>>
        /\ busy' = [busy EXCEPT ![StoreOf[c]] = w]
    BY <1>5 DEF BeginAppend
  <2>2. w # None => w.doing # "rollback"
    OBVIOUS
  <2> HIDE DEF w
  <2>3. ~Calm' => OneProcess'
    BY <1>1, <2>1, <2>2, Belongs
  <2>4. journal'.lines = journal.lines
    BY <2>1, FileLines
  <2> QED BY <2>1, <2>3, <2>4 DEF Journaled
<1>6. ASSUME NEW p \in Store, FinishSave(p) PROVE Journaled'
  <2>1. /\ temporary # None /\ snapshot' = temporary /\ temporary' = None
        /\ busy' = [busy EXCEPT ![p] = None]
    BY <1>6 DEF FinishSave
  <2>2. ~Calm' => OneProcess'
    BY <1>1, <2>1
  <2>3. temporary = Planned
    BY <2>1 DEF Journaled
  <2> QED BY <2>1, <2>2, <2>3 DEF Journaled
<1>7. ASSUME NEW p \in Store, FailSave(p) PROVE Journaled'
  <2>1. /\ temporary' = None /\ busy' = [busy EXCEPT ![p] = None]
        /\ UNCHANGED <<snapshot, journal, cache>>
    BY <1>7 DEF FailSave
  <2>2. ~Calm' => OneProcess'
    BY <1>1, <2>1
  <2> QED BY <2>1, <2>2 DEF Journaled
<1>8. ASSUME NEW p \in Store, FinishAppend(p) PROVE Journaled'
  <2>1. /\ busy[p] # None /\ busy[p].doing = "append"
        /\ busy' = [busy EXCEPT ![p] = None] /\ UNCHANGED <<snapshot, temporary>>
    BY <1>8 DEF FinishAppend
  <2>2. (~Calm' => OneProcess') /\ snapshot # None
    BY <1>1, <2>1, WriterHasSnapshot
  <2> QED BY <2>1, <2>2 DEF Journaled
<1>9. ASSUME NEW p \in Store, FailAppend(p) \/ Rollback(p) \/ FailRollback(p)
      PROVE  Journaled'
  <2>1. /\ busy[p] # None /\ busy[p].doing \in {"append", "rollback"}
        /\ busy[p].doing = "append" => "write" \in Faults
        /\ UNCHANGED <<snapshot, temporary, cache>>
    BY <1>9 DEF FailAppend, Rollback, FailRollback
  <2>2. OneProcess
    BY <2>1 DEF Chained, Journaled, Calm
  <2> QED BY <1>0, <2>1, <2>2, WriterHasSnapshot DEF Journaled
<1>10. ASSUME NEW p \in Store, Crash(p) PROVE Journaled'
  <2>1. /\ busy' = [busy EXCEPT ![p] = None] /\ cache' = [cache EXCEPT ![p] = None]
        /\ UNCHANGED <<snapshot, temporary>>
        /\ (busy[p] # None /\ busy[p].doing = "append") \/ journal' = journal
    BY <1>10 DEF Crash
  <2>2. cache'[p] = None /\ \A q \in Store \ {p} : cache'[q] = cache[q]
    BY <2>1, Changes DEF Memory
  <2>3. ~Calm' => OneProcess'
    BY <1>1, <2>1
  <2>4. snapshot = None => journal' = journal
    BY <2>1, WriterHasSnapshot
  <2> QED BY <2>1, <2>2, <2>3, <2>4 DEF Journaled
<1> HIDE DEF Journaled
<1> QED BY <1>2, <1>3, <1>4, <1>5, <1>6, <1>7, <1>8, <1>9, <1>10 DEF JournalNext

\* The ledger that some files hold.
OnDisk(s, lines) == IF s = None THEN Planned ELSE Replay(s, OpsOf(IntactPart(s, lines)))

\* A line that is added is one operation on the ledger on disk, or none.
LEMMA LineCounts ==
  ASSUME NEW s, s # None, NEW lines \in Seq(Line), NEW e \in Line,
         NEW entry, Believes(entry), NEW op \in Operation, e = Event(entry.head, op) \/ ~e.whole,
         CanApply(entry.ledger, op)
  PROVE  LET D == OnDisk(s, lines)
             E == OnDisk(s, Append(lines, e))
         IN E = D \/ (CanApply(D, op) /\ E = Apply(D, op))
<1> DEFINE D == OnDisk(s, lines)
           E == OnDisk(s, Append(lines, e))
<1>1. CASE ~(Intact(s, lines) /\ e.whole /\ e.previous = Digest(s, OpsOf(lines)))
  <2>1. IntactPart(s, Append(lines, e)) = IntactPart(s, lines)
    BY <1>1, IntactPartOneMore
  <2> QED BY <2>1 DEF OnDisk
<1>2. CASE Intact(s, lines) /\ e.whole /\ e.previous = Digest(s, OpsOf(lines))
  <2>1. entry.head \in History /\ e = Event(entry.head, op)
    BY <1>2 DEF Believes, Entries
  <2>2. e.previous = entry.head /\ e.operation = op
    BY <2>1, EventIsLine
  <2>3. entry.head = Digest(s, OpsOf(lines))
    BY <1>2, <2>2
  <2>4. Replay(s, OpsOf(lines)) = entry.ledger /\ entry.ledger # None
    BY <2>3, LedgerIsThere DEF Believes, Digest
  <2>5. IntactPart(s, Append(lines, e)) = Append(lines, e) /\ IntactPart(s, lines) = lines
    BY <1>2, IntactPartOneMore
  <2>6. D = entry.ledger
    BY <2>4, <2>5 DEF OnDisk
  <2>7. E = Replay(s, Append(OpsOf(lines), op))
    BY <2>2, <2>5, OperationsOfAppend DEF OnDisk
  <2>8. E = Step(entry.ledger, op)
    BY <2>4, <2>7, OperationsOf, ReplayOneMore
  <2> QED BY <2>4, <2>6, <2>8 DEF Step
<1> QED BY <1>1, <1>2

\* Before anything is written, the ledger on disk is the plan.
LEMMA NothingOnDisk == ASSUME Planned # None PROVE OnDisk(Planned, << >>) = Planned
<1>1. << >> \in Seq(Line) /\ Len(<< >>) = 0 /\ SubSeq(<< >>, 1, 0) = << >>
  OBVIOUS
<1>2. PICK n \in 0 .. Len(<< >>) : IntactPart(Planned, << >>) = SubSeq(<< >>, 1, n)
  <2>1. \A lines \in Seq(Line) : \E n \in 0 .. Len(lines) : IntactPart(Planned, lines) = SubSeq(lines, 1, n)
    BY LongestIntact, ZenonT(30)
  <2> QED BY <1>1, <2>1, ZenonT(30)
<1>3. IntactPart(Planned, << >>) = << >>
  BY <1>1, <1>2
<1>4. OpsOf(<< >>) = << >>
  BY DEF OpsOf
<1> QED BY <1>3, <1>4, ReplayNothing DEF OnDisk

\* What a write in progress adds to the journal, all of it or a part.
LEMMA WriteCounts ==
  ASSUME Memory, Journaled, Chained, NEW p \in Store, busy[p] # None,
         busy[p].doing \in {"append", "rollback"}, NEW e \in {busy[p].event, Short(busy[p].event)},
         NEW lines \in Seq(Line)
  PROVE  LET D == OnDisk(snapshot, lines)
             E == OnDisk(snapshot, Append(lines, e))
         IN E = D \/ \E op \in Operation : CanApply(D, op) /\ E = Apply(D, op)
<1> DEFINE w == busy[p]
           entry == cache[p]
<1>1. w \in AppendWork /\ w.event \in Line /\ Believes(entry) /\ Prepared(w, entry)
  BY WriteIsRight DEF AppendWork
<1>2. PICK op \in Operation : w.event = Event(entry.head, op) /\ CanApply(entry.ledger, op)
  BY <1>1 DEF Prepared
<1>3. snapshot # None
  BY WriterHasSnapshot
<1>4. e \in Line /\ (e = Event(entry.head, op) \/ ~e.whole)
  BY <1>1, <1>2, ShortIsLine
<1> DEFINE D == OnDisk(snapshot, lines)
           E == OnDisk(snapshot, Append(lines, e))
<1> HIDE DEF w, entry
<1>5. E = D \/ (CanApply(D, op) /\ E = Apply(D, op))
  BY <1>1, <1>2, <1>3, <1>4, LineCounts
<1> HIDE DEF D, E
<1>6. E = D \/ \E o \in Operation : CanApply(D, o) /\ E = Apply(D, o)
  BY <1>5
<1> QED BY <1>6 DEF D, E

\* What one step may make of the ledger on disk.
Moves(D, E) == E = D \/ \E op \in Operation : CanApply(D, op) /\ E = Apply(D, op)

\* Where nothing is rolled back before or after it, a step is one transition or none.
LEMMA CalmStepIsTransition ==
  ASSUME Memory, Files, Journaled, Chained, Calm, Calm', JournalNext
  PROVE  Moves(OnDisk(snapshot, journal.lines), OnDisk(snapshot', journal'.lines))
<1> DEFINE D == OnDisk(snapshot, journal.lines)
           E == OnDisk(snapshot', journal'.lines)
           Goal == Moves(D, E)
<1>1. ASSUME snapshot' = snapshot, journal'.lines = journal.lines PROVE Goal
  BY <1>1 DEF Moves
<1>2. ASSUME NEW p \in Store, busy[p] # None, busy[p].doing = "append", snapshot' = snapshot,
             NEW e \in {busy[p].event, Short(busy[p].event)},
             journal'.lines = Append(journal.lines, e)
      PROVE  Goal
  BY <1>2, WriteCounts DEF Moves, Files
<1>3. ASSUME NEW c \in Caller, Load(c) \/ Initialize(c) PROVE Goal
  BY <1>1, <1>3 DEF Load, Initialize, BeginSave
<1>4. ASSUME NEW c \in Caller, NEW op PROVE ~Resave(c, op)
  BY DEF Resave, Chained
<1>5. ASSUME NEW c \in Caller, NEW op, BeginAppend(c, op) PROVE Goal
  BY <1>1, <1>5, FileLines DEF BeginAppend
<1>6. ASSUME NEW p \in Store, FinishSave(p) PROVE Goal
  <2>1. temporary # None /\ snapshot' = temporary /\ journal' = journal
    BY <1>6 DEF FinishSave
  <2>2. snapshot = None /\ temporary = Planned /\ journal.lines = << >>
    BY <2>1 DEF Journaled
  <2>3. D = Planned
    BY <2>2 DEF OnDisk
  <2>4. E = Planned
    BY <2>1, <2>2, NothingOnDisk
  <2> QED BY <2>3, <2>4 DEF Moves
<1>7. ASSUME NEW p \in Store, FailSave(p) PROVE Goal
  BY <1>1, <1>7 DEF FailSave
<1>8. ASSUME NEW p \in Store, FinishAppend(p) PROVE Goal
  <2>1. /\ busy[p] # None /\ busy[p].doing = "append" /\ snapshot' = snapshot
        /\ journal'.lines = Append(journal.lines, busy[p].event)
    BY <1>8, FileLines DEF FinishAppend
  <2> QED BY <1>2, <2>1
<1>9. ASSUME NEW p \in Store PROVE ~(FailAppend(p) \/ Rollback(p) \/ FailRollback(p))
  <2>1. ~Rollback(p) /\ ~FailRollback(p)
    BY DEF Rollback, FailRollback, Calm
  <2>2. ASSUME FailAppend(p) PROVE FALSE
    <3> DEFINE v == [busy[p] EXCEPT !.doing = "rollback"]
    <3>1. busy[p] # None /\ busy[p].doing = "append" /\ busy' = [busy EXCEPT ![p] = v]
      BY <2>2 DEF FailAppend
    <3>2. busy[p] \in AppendWork
      BY <3>1, WriteIsRight
    <3>3. v \in AppendWork /\ v.doing = "rollback"
      BY <3>2 DEF AppendWork
    <3> HIDE DEF v
    <3>4. busy'[p] = v /\ v # None
      BY <3>1, <3>3, RecordAssumption, Changes DEF Memory
    <3> QED BY <3>3, <3>4 DEF Calm
  <2> QED BY <2>1, <2>2
<1>10. ASSUME NEW p \in Store, Crash(p) PROVE Goal
  <2>1. CASE busy[p] # None /\ busy[p].doing = "append"
    <3>1. snapshot' = snapshot /\ journal' \in Remains(journal.lines, busy[p].event)
      BY <1>10, <2>1 DEF Crash
    <3>2. busy[p].event \in Line /\ journal.lines \in Seq(Line)
      BY <2>1, WriteIsRight DEF AppendWork, Files
    <3>3. \/ journal'.lines = journal.lines
          \/ \E f \in {busy[p].event, Short(busy[p].event)} :
               journal'.lines = Append(journal.lines, f)
      BY <3>1, <3>2, RemainsType
    <3> HIDE DEF Goal
    <3> QED BY <1>1, <1>2, <2>1, <3>1, <3>3
  <2>2. CASE ~(busy[p] # None /\ busy[p].doing = "append")
    BY <1>1, <1>10, <2>2 DEF Crash
  <2> QED BY <2>1, <2>2
<1>11. Goal
  <2> HIDE DEF Goal
  <2> QED BY <1>3, <1>4, <1>5, <1>6, <1>7, <1>8, <1>9, <1>10 DEF JournalNext
<1> QED BY <1>11

\* The lines of a journal that are to stay, while stores do b.
Stay(b, lines) ==
  LET R == {p \in Store : b[p] # None /\ b[p].doing = "rollback"}
  IN IF R = {} THEN lines ELSE SubSeq(lines, 1, b[CHOOSE p \in R : TRUE].offset)

\* Without a rollback to come, every line is to stay.
LEMMA AllStay ==
  ASSUME NEW b, \A p \in Store : b[p] # None => b[p].doing # "rollback", NEW lines
  PROVE  Stay(b, lines) = lines
BY DEF Stay

\* The lines to stay are those before the write that is rolled back.
LEMMA SomeStay ==
  ASSUME NEW b, NEW p \in Store, b[p] # None, b[p].doing = "rollback",
         \A q \in Store \ {p} : b[q] = None, NEW lines
  PROVE  Stay(b, lines) = SubSeq(lines, 1, b[p].offset)
<1> DEFINE R == {q \in Store : b[q] # None /\ b[q].doing = "rollback"}
<1>1. R = {p}
  OBVIOUS
<1>2. (CHOOSE q \in {p} : TRUE) = p
  OBVIOUS
<1>3. Stay(b, lines) = IF R = {} THEN lines ELSE SubSeq(lines, 1, b[CHOOSE q \in R : TRUE].offset)
  BY DEF Stay
<1> HIDE DEF R
<1> QED BY <1>1, <1>2, <1>3

\* In one process, the other stores have nothing in hand.
LEMMA OthersIdle ==
  ASSUME OneWriter, OneProcess, NEW p \in Store, busy[p] # None
  PROVE  \A q \in Store \ {p} : cache[q] = None /\ busy[q] = None
BY DEF OneWriter, OneProcess, Used

\* A write fails: what it left in the journal is to go.
LEMMA FailAppendChangesNothing ==
  ASSUME Memory, Files, OneWriter, OneProcess, NEW p \in Store, FailAppend(p)
  PROVE  Stay(busy, journal.lines) = journal.lines /\ Stay(busy', journal'.lines) = journal.lines
         /\ snapshot' = snapshot
<1> DEFINE w == busy[p]
           v == [w EXCEPT !.doing = "rollback"]
           lines == journal.lines
<1>1. /\ w # None /\ w.doing = "append" /\ journal' \in Remains(lines, w.event)
      /\ busy' = [busy EXCEPT ![p] = [busy[p] EXCEPT !.doing = "rollback"]]
      /\ snapshot' = snapshot
  BY DEF FailAppend
<1>2. /\ lines \in Seq(Line) /\ w \in AppendWork /\ w.event \in Line
  BY <1>1, WriteIsRight DEF AppendWork, Files
<1>3. w.offset = Len(lines)
  BY <1>1 DEF OneWriter, Doing
<1>4. v \in AppendWork /\ v.doing = "rollback" /\ v.offset = w.offset
  BY <1>2 DEF AppendWork
<1>5. busy' = [busy EXCEPT ![p] = v]
  BY <1>1
<1>6. \A q \in Store \ {p} : busy[q] = None
  BY <1>1, OthersIdle
<1> HIDE DEF v, w
<1>7. busy'[p] = v /\ v # None /\ \A q \in Store \ {p} : busy'[q] = None
  BY <1>4, <1>5, <1>6, RecordAssumption, Changes DEF Memory
<1>8. Stay(busy', journal'.lines) = SubSeq(journal'.lines, 1, Len(lines))
  BY <1>3, <1>4, <1>7, SomeStay
<1>9. \/ journal'.lines = lines
      \/ \E f \in {w.event, Short(w.event)} : journal'.lines = Append(lines, f)
  BY <1>1, <1>2, RemainsType
<1>10. SubSeq(journal'.lines, 1, Len(lines)) = lines
  BY <1>2, <1>9, WholePart, BeforeAppend, ShortIsLine
<1>11. \A q \in Store : busy[q] # None => busy[q].doing # "rollback"
  BY <1>1, <1>6 DEF w
<1> QED BY <1>1, <1>8, <1>10, <1>11, AllStay

\* A rollback ends: what was to go is gone, or stays for ever.
LEMMA RollbackEnds ==
  ASSUME Memory, Files, OneWriter, OneProcess, Journaled, Chained, NEW p \in Store,
         busy[p] # None, busy[p].doing = "rollback", busy' = [busy EXCEPT ![p] = None],
         snapshot' = snapshot,
         Rollback(p) \/ journal' = journal
  PROVE  Moves(OnDisk(snapshot, Stay(busy, journal.lines)),
               OnDisk(snapshot', Stay(busy', journal'.lines)))
<1> DEFINE w == busy[p]
           lines == journal.lines
           n == w.offset
           rest == SubSeq(lines, 1, n)
<1>1. lines \in Seq(Line) /\ w.event \in Line
  BY WriteIsRight DEF AppendWork, Files
<1>2. /\ n \in 0 .. Len(lines)
      /\ \/ n = Len(lines)
         \/ \E f \in {w.event, Short(w.event)} : lines = Append(rest, f)
  BY DEF OneWriter, Doing
<1>3. \A q \in Store \ {p} : busy[q] = None
  BY OthersIdle
<1>4. Stay(busy, lines) = rest
  BY <1>3, SomeStay
<1>5. \A q \in Store : busy'[q] = None
  BY <1>3, Changes DEF Memory
<1>6. Stay(busy', journal'.lines) = journal'.lines
  BY <1>5, AllStay
<1>7. rest \in Seq(Line)
  BY <1>1, <1>2
<1>8. CASE Rollback(p)
  <2>1. journal' = File(IF n <= Len(lines) THEN rest ELSE Append(lines, Short(w.event)))
    BY <1>8 DEF Rollback
  <2>2. n <= Len(lines)
    BY <1>1, <1>2
  <2>3. journal'.lines = rest
    BY <2>1, <2>2, FileLines
  <2> QED BY <1>4, <1>6, <2>3 DEF Moves
<1>9. CASE journal' = journal
  <2>1. CASE n = Len(lines)
    <3>1. rest = lines
      BY <1>1, <2>1, WholePart
    <3> HIDE DEF rest, lines
    <3> QED BY <1>4, <1>6, <1>9, <3>1 DEF Moves, lines
  <2>2. ASSUME NEW f \in {w.event, Short(w.event)}, lines = Append(rest, f)
        PROVE  Moves(OnDisk(snapshot, rest), OnDisk(snapshot, lines))
    <3> HIDE DEF rest, lines
    <3>1. Moves(OnDisk(snapshot, rest), OnDisk(snapshot, Append(rest, f)))
      BY <1>7, <2>2, WriteCounts DEF Moves
    <3> QED BY <2>2, <3>1
  <2> HIDE DEF rest, w
  <2> QED BY <1>2, <1>4, <1>6, <1>9, <2>1, <2>2
<1> QED BY <1>8, <1>9

\* Seen on disk, every step is one transition or none.
LEMMA StepIsTransition ==
  ASSUME Memory, Files, OneWriter, Journaled, Journaled', Chained, JournalNext
  PROVE  Moves(OnDisk(snapshot, Stay(busy, journal.lines)),
               OnDisk(snapshot', Stay(busy', journal'.lines)))
<1> DEFINE Goal == Moves(OnDisk(snapshot, Stay(busy, journal.lines)),
                         OnDisk(snapshot', Stay(busy', journal'.lines)))
<1>1. CASE Calm /\ Calm'
  <2>1. Stay(busy, journal.lines) = journal.lines /\ Stay(busy', journal'.lines) = journal'.lines
    BY <1>1, AllStay DEF Calm
  <2> QED BY <1>1, <2>1, CalmStepIsTransition
<1>2. CASE ~Calm
  <2>1. OneProcess
    BY <1>2 DEF Journaled
  <2>2. PICK p \in Store : busy[p] # None /\ busy[p].doing = "rollback"
    BY <1>2 DEF Calm
  <2>3. \A q \in Store \ {p} : cache[q] = None /\ busy[q] = None
    BY <2>1, <2>2, OthersIdle
  <2>4. \A c \in Caller : busy[StoreOf[c]] # None
    BY <2>1, <2>2, InUse DEF Used, OneProcess
  <2>5. ASSUME NEW c \in Caller, NEW op
        PROVE  ~(Load(c) \/ Initialize(c) \/ Resave(c, op) \/ BeginAppend(c, op))
    BY <2>4 DEF Load, Initialize, Resave, BeginSave, BeginAppend
  <2>6. ASSUME NEW q \in Store
        PROVE  ~(FinishSave(q) \/ FailSave(q) \/ FinishAppend(q) \/ FailAppend(q))
    BY <2>2, <2>3 DEF FinishSave, FailSave, FinishAppend, FailAppend
  <2>7. ASSUME NEW q \in Store, Rollback(q) \/ FailRollback(q) PROVE Goal
    <3>1. q = p /\ busy' = [busy EXCEPT ![p] = None] /\ snapshot' = snapshot
          /\ (Rollback(p) \/ journal' = journal)
      BY <2>3, <2>7 DEF Rollback, FailRollback
    <3> QED BY <2>1, <2>2, <3>1, RollbackEnds
  <2>8. ASSUME NEW q \in Store, Crash(q) PROVE Goal
    <3>1. /\ busy' = [busy EXCEPT ![q] = None] /\ snapshot' = snapshot /\ journal' = journal
      BY <2>2, <2>3, <2>8 DEF Crash
    <3>2. CASE q = p
      BY <2>1, <2>2, <3>1, <3>2, RollbackEnds
    <3>3. CASE q # p
      <4>1. busy' = busy
        BY <2>3, <3>1, <3>3 DEF Memory
      <4> QED BY <3>1, <4>1 DEF Moves
    <3> QED BY <3>2, <3>3
  <2> HIDE DEF Goal
  <2>9. Goal
    BY <2>5, <2>6, <2>7, <2>8 DEF JournalNext
  <2> QED BY <2>9 DEF Goal
<1>3. CASE Calm /\ ~Calm'
  <2>1. \/ \E p \in Store : FailAppend(p)
        \/ \E p \in Store : \E w : (w # None => w.doing # "rollback") /\ busy' = [busy EXCEPT ![p] = w]
        \/ busy' = busy
    <3>1. ASSUME NEW p \in Store, FinishSave(p) \/ FailSave(p) \/ FinishAppend(p) \/ Rollback(p)
                                  \/ FailRollback(p) \/ Crash(p)
          PROVE  busy' = [busy EXCEPT ![p] = None]
      BY <3>1 DEF FinishSave, FailSave, FinishAppend, Rollback, FailRollback, Crash
    <3>2. ASSUME NEW c \in Caller, NEW l, BeginSave(c, l)
          PROVE  \E w : w.doing # "rollback" /\ busy' = [busy EXCEPT ![StoreOf[c]] = w]
      <4> DEFINE w == [doing |-> "save", caller |-> c, result |-> l]
      <4>1. w.doing # "rollback" /\ busy' = [busy EXCEPT ![StoreOf[c]] = w]
        BY <3>2 DEF BeginSave
      <4> QED BY <4>1
    <3>3. ASSUME NEW c \in Caller, NEW op, BeginAppend(c, op)
          PROVE  \E w : w.doing # "rollback" /\ busy' = [busy EXCEPT ![StoreOf[c]] = w]
      <4> DEFINE w == [doing |-> "append", caller |-> c, result |-> Apply(held[c], op),
                       event |-> Event(cache[StoreOf[c]].head, op), offset |-> Len(journal.lines)]
      <4>1. w.doing # "rollback" /\ busy' = [busy EXCEPT ![StoreOf[c]] = w]
        BY <3>3 DEF BeginAppend
      <4> QED BY <4>1
    <3>4. \A c \in Caller : StoreOf[c] \in Store
      BY Belongs
    <3>5. ASSUME NEW c \in Caller, Load(c) PROVE busy' = busy
      BY <3>5 DEF Load
    <3>6. ASSUME NEW c \in Caller, NEW op, Initialize(c) \/ Resave(c, op)
          PROVE  \E w : w.doing # "rollback" /\ busy' = [busy EXCEPT ![StoreOf[c]] = w]
      BY <3>2, <3>6 DEF Initialize, Resave
    <3> QED BY <3>1, <3>3, <3>4, <3>5, <3>6 DEF JournalNext
  <2>2. ASSUME NEW p \in Store, NEW w, w # None => w.doing # "rollback",
               busy' = [busy EXCEPT ![p] = w]
        PROVE  Calm'
    <3>1. busy'[p] = w /\ \A q \in Store \ {p} : busy'[q] = busy[q]
      BY <2>2, Changes DEF Memory
    <3> QED BY <1>3, <2>2, <3>1 DEF Calm
  <2>3. PICK p \in Store : FailAppend(p)
    BY <1>3, <2>1, <2>2 DEF Calm
  <2>4. OneProcess
    BY <2>3 DEF FailAppend, Chained
  <2>5. /\ Stay(busy, journal.lines) = journal.lines
        /\ Stay(busy', journal'.lines) = journal.lines
        /\ snapshot' = snapshot
    BY <2>3, <2>4, FailAppendChangesNothing
  <2> QED BY <2>5 DEF Moves
<1> QED BY <1>1, <1>2, <1>3

\* Every step is, seen on disk, one transition of IncrementalReview or none.
LEMMA SeenSteps ==
  ASSUME Memory, Files, OneWriter, Journaled, Journaled', JournalNext
  PROVE  Review!Next \/ Seen' = Seen
<1>1. Chained' = Chained
  BY DEF JournalNext, Chained, OneProcess, StoreOf, Faults, Legacy
<1>2. CASE ~Chained
  BY <1>1, <1>2 DEF Seen
<1>3. CASE Chained
  <2>1. /\ Seen = OnDisk(snapshot, Stay(busy, journal.lines))
        /\ Seen' = OnDisk(snapshot', Stay(busy', journal'.lines))
    BY <1>1, <1>3 DEF Seen, DurableLedger, OnDisk, LinesToStay, RollingBack, Stay
  <2>2. Moves(Seen, Seen')
    BY <1>3, <2>1, StepIsTransition
  <2> QED BY <2>2, OperationIsTransition DEF Moves
<1> QED BY <1>2, <1>3

\* A step that changes nothing is seen as none.
LEMMA StutterIsSeen ==
  ASSUME Journaled, UNCHANGED journalVars PROVE Journaled' /\ Seen' = Seen
<1>1. Chained' = Chained /\ OneProcess' = OneProcess /\ Calm' = Calm
  BY DEF journalVars, Chained, OneProcess, StoreOf, Faults, Legacy, Calm
<1>2. Journaled'
  BY <1>1 DEF Journaled, journalVars
<1>3. DurableLedger' = DurableLedger
  BY DEF DurableLedger, LinesToStay, RollingBack, journalVars
<1> QED BY <1>1, <1>2, <1>3 DEF Seen

\* The snapshot and the journal of JsonCoverageLedgerStore implement IncrementalReview:
\* for any number of processes that journal, and whichever of them die, what is on disk
\* moves by legal transitions of the ledger only; and so it does where writes and their
\* truncations fail, if one process at a time uses the files.
THEOREM JournalImplementsReview == JournalSpec => ImplementsReview
<1> DEFINE Inv == Memory /\ Files /\ OneWriter /\ Journaled
<1>1. JournalInit => Inv
  BY JournalInitMemory, InitOneWriter DEF JournalInit, Journaled, NoFile, Calm
<1>2. Inv /\ [JournalNext]_journalVars => Inv'
  <2>1. OneWriter /\ UNCHANGED journalVars => OneWriter'
    BY NothingHappens DEF journalVars
  <2> QED BY <2>1, StepKeepsMemory, StepKeepsFiles, StepKeepsOneWriter, StepKeepsJournaled,
             StutterKeepsMemory, StutterIsSeen
<1>3. JournalInit => Review!Init
  BY SamePlan DEF JournalInit, Review!Init, DurableLedger
<1>4. Inv /\ Inv' /\ [JournalNext]_journalVars
        => [Review!Next]_(IF Chained THEN DurableLedger ELSE Planned)
  BY SeenSteps, StutterIsSeen DEF Seen
<1> QED BY <1>1, <1>2, <1>3, <1>4, PTL DEF JournalSpec, ImplementsReview, Review!Spec
=============================================================================
