----------------------------- MODULE ListLemmas -----------------------------
(***************************************************************************)
(* What the proofs about the pipeline need of numbers, loops and lists.    *)
(*                                                                         *)
(* The induction theorems of the library take an operator as a parameter,  *)
(* which the provers cannot instantiate.  Here induction is a fact about   *)
(* sets of numbers, and a loop of the code, which the models write as a    *)
(* recursive function, is a run: a function from the rounds to the states. *)
(***************************************************************************)
EXTENDS Ranks, FiniteSetTheorems, SequenceTheorems, TLAPS

-----------------------------------------------------------------------------
(***************************************************************************)
(* Induction over the natural numbers, as a fact about sets, and the runs  *)
(* of a loop, which it shows to exist.                                     *)
(***************************************************************************)

\* A set of numbers with 0 that has the successor of each of its elements.
LEMMA NatSetInduction ==
  ASSUME NEW S \in SUBSET Nat, 0 \in S, \A n \in S : n + 1 \in S
  PROVE  S = Nat
<1> SUFFICES ASSUME NEW m \in Nat, m \notin S
             PROVE  FALSE
  OBVIOUS
<1> DEFINE Bad == {0 .. n : n \in Nat \ S}
<1>1. IsWellFoundedOn(StrictSubsetOrdering(Nat), FiniteSubsetsOf(Nat))
  BY FS_StrictSubsetOrderingWellFounded
<1>2. Bad \subseteq FiniteSubsetsOf(Nat) /\ Bad # {}
  <2>1. ASSUME NEW n \in Nat
        PROVE  IsFiniteSet(0 .. n)
    <3>1. 0 \in Int /\ n \in Int
      OBVIOUS
    <3>2. QED
      BY <3>1, FS_Interval
  <2>2. QED
    BY <2>1 DEF FiniteSubsetsOf
<1>3. PICK T \in Bad : \A U \in Bad : <<U, T>> \notin StrictSubsetOrdering(Nat)
  <2> HIDE DEF Bad
  <2>1. QED
    BY <1>1, <1>2, WFMin
<1>4. PICK n \in Nat \ S : T = 0 .. n
  BY <1>3
<1>5. n # 0 /\ n - 1 \in Nat \ S
  <2>1. n # 0
    BY <1>4
  <2>2. n - 1 \in Nat /\ (n - 1) + 1 = n
    BY <1>4, <2>1
  <2>3. QED
    BY <1>4, <2>1, <2>2
<1>6. <<0 .. (n - 1), 0 .. n>> \in StrictSubsetOrdering(Nat)
  BY <1>5 DEF StrictSubsetOrdering
<1>7. QED
  BY <1>3, <1>4, <1>5, <1>6

\* A set of numbers has a least element.
LEMMA LeastNumber ==
  ASSUME NEW S \in SUBSET Nat, S # {}
  PROVE  \E m \in S : \A n \in S : m <= n
<1> SUFFICES ASSUME \A m \in S : \E n \in S : n < m
             PROVE  FALSE
  OBVIOUS
<1> DEFINE Clear == {k \in Nat : \A n \in S : n > k}
<1>1. 0 \in Clear
  OBVIOUS
<1>2. ASSUME NEW k \in Clear
      PROVE  k + 1 \in Clear
  <2>1. k + 1 \notin S
    BY <1>2
  <2>2. QED
    BY <2>1
<1>3. Clear = Nat
  <2> HIDE DEF Clear
  <2>1. Clear \in SUBSET Nat
    BY DEF Clear
  <2>2. QED
    BY <1>1, <1>2, <2>1, NatSetInduction
<1>4. PICK m \in S : TRUE
  OBVIOUS
<1>5. m \in Clear
  BY <1>3
<1>6. m > m
  BY <1>5
<1>7. QED
  BY <1>6

\* The functions from a state and a round of a loop to the next state.
StepFunctions(S, n) == [S \X (1 .. n) -> S]

\* The states a loop goes through: step takes the state before the i-th round to
\* the one after it.
Runs(S, n, first, step) ==
  {g \in [0 .. n -> S] : /\ g[0] = first
                         /\ \A i \in 1 .. n : g[i] = step[<<g[i - 1], i>>]}

\* Every loop over 1 .. n runs to its end.
LEMMA RunExists ==
  ASSUME NEW S, NEW n \in Nat, NEW first \in S, NEW step \in StepFunctions(S, n)
  PROVE  Runs(S, n, first, step) # {}
<1> DEFINE K == {k \in Nat : k <= n => Runs(S, k, first, step) # {}}
<1>1. 0 \in K
  <2>1. [i \in 0 .. 0 |-> first] \in Runs(S, 0, first, step)
    BY DEF Runs
  <2>2. QED
    BY <2>1
<1>2. ASSUME NEW k \in K
      PROVE  k + 1 \in K
  <2> SUFFICES ASSUME k + 1 <= n
               PROVE  Runs(S, k + 1, first, step) # {}
    OBVIOUS
  <2>1. PICK g \in Runs(S, k, first, step) : TRUE
    BY <1>2
  <2>2. /\ g \in [0 .. k -> S]
        /\ g[0] = first
        /\ \A i \in 1 .. k : g[i] = step[<<g[i - 1], i>>]
    BY <2>1 DEF Runs
  <2> DEFINE h == [i \in 0 .. k + 1 |-> IF i <= k THEN g[i] ELSE step[<<g[k], k + 1>>]]
  <2>3. h \in [0 .. k + 1 -> S]
    BY <2>2 DEF StepFunctions
  <2>4. h[0] = first
    BY <2>2
  <2>5. ASSUME NEW i \in 1 .. k + 1
        PROVE  h[i] = step[<<h[i - 1], i>>]
    <3>1. CASE i = k + 1
      <4>1. h[i] = step[<<g[k], k + 1>>] /\ i - 1 = k
        BY <3>1
      <4>2. h[k] = g[k]
        OBVIOUS
      <4>3. QED
        BY <3>1, <4>1, <4>2
    <3>2. CASE i # k + 1
      <4>1. i \in 1 .. k /\ i - 1 \in 0 .. k /\ i <= k
        BY <3>2
      <4>2. h[i] = g[i] /\ h[i - 1] = g[i - 1]
        BY <4>1
      <4>3. QED
        BY <2>2, <4>1, <4>2
    <3>3. QED
      BY <3>1, <3>2
  <2>6. QED
    BY <2>3, <2>4, <2>5 DEF Runs
<1>3. K = Nat
  <2>1. K \in SUBSET Nat
    OBVIOUS
  <2> HIDE DEF K
  <2>2. QED
    BY <1>1, <1>2, <2>1, NatSetInduction
<1>4. n \in K
  BY <1>3
<1>5. QED
  BY <1>4

-----------------------------------------------------------------------------
(***************************************************************************)
(* Lists: what an Append adds, the ends of a list, the list of a set.      *)
(***************************************************************************)

\* What a list holds after an Append.
LEMMA AppendedElements ==
  ASSUME NEW S, NEW s \in Seq(S), NEW e \in S
  PROVE  /\ ToSet(Append(s, e)) = ToSet(s) \cup {e}
         /\ Append(s, e) \in Seq(S)
         /\ Len(Append(s, e)) = Len(s) + 1
<1> DEFINE n == Len(s)
           t == Append(s, e)
<1>1. /\ n \in Nat
      /\ DOMAIN s = 1 .. n
      /\ DOMAIN t = 1 .. n + 1
      /\ \A i \in 1 .. n : t[i] = s[i]
      /\ t[n + 1] = e
  OBVIOUS
<1> HIDE DEF n, t
<1>2. ToSet(t) \subseteq ToSet(s) \cup {e}
  <2> SUFFICES ASSUME NEW i \in 1 .. n + 1
               PROVE  t[i] \in ToSet(s) \cup {e}
    BY <1>1 DEF ToSet
  <2>1. i \in 1 .. n \/ i = n + 1
    BY <1>1
  <2>2. QED
    BY <1>1, <2>1 DEF ToSet
<1>3. ToSet(s) \cup {e} \subseteq ToSet(t)
  <2>1. \A i \in 1 .. n : i \in 1 .. n + 1
    BY <1>1
  <2>2. n + 1 \in 1 .. n + 1
    BY <1>1
  <2>3. QED
    BY <1>1, <2>1, <2>2 DEF ToSet
<1>4. QED
  BY <1>2, <1>3 DEF t

\* A list has a first and a last member when there is something in it.
LEMMA ListEnds ==
  ASSUME NEW S, NEW s \in Seq(S)
  PROVE  /\ s # << >> <=> ToSet(s) # {}
         /\ s # << >> => s[1] \in ToSet(s) /\ s[Len(s)] \in ToSet(s)
<1>1. Len(s) \in Nat /\ DOMAIN s = 1 .. Len(s) /\ (s = << >> <=> Len(s) = 0)
  OBVIOUS
<1>2. s # << >> => 1 \in 1 .. Len(s) /\ Len(s) \in 1 .. Len(s)
  BY <1>1
<1>3. s = << >> => ToSet(s) = {}
  BY DEF ToSet
<1>4. QED
  BY <1>1, <1>2, <1>3 DEF ToSet

\* SetToSeq lists every element of a finite set once.
LEMMA ListOfSet ==
  ASSUME NEW S, IsFiniteSet(S)
  PROVE  /\ Cardinality(S) \in Nat
         /\ SetToSeq(S) \in [1 .. Cardinality(S) -> S]
         /\ SetToSeq(S) \in Seq(S)
         /\ Len(SetToSeq(S)) = Cardinality(S)
         /\ \A i, j \in 1 .. Cardinality(S) : SetToSeq(S)[i] = SetToSeq(S)[j] => i = j
<1>1. Cardinality(S) \in Nat /\ ExistsBijection(1 .. Cardinality(S), S)
  BY FS_CardinalityType
<1>2. \E f \in [1 .. Cardinality(S) -> S] : IsInjective(f)
  BY <1>1 DEF ExistsBijection, Bijection, Injection
<1>3. SetToSeq(S) \in [1 .. Cardinality(S) -> S] /\ IsInjective(SetToSeq(S))
  BY <1>2 DEF SetToSeq
<1>4. QED
  <2> DEFINE s == SetToSeq(S)
             n == Cardinality(S)
  <2>1. n \in Nat /\ s \in [1 .. n -> S]
    BY <1>1, <1>3
  <2>2. \A i, j \in 1 .. n : s[i] = s[j] => i = j
    BY <1>3 DEF IsInjective
  <2> HIDE DEF s, n
  <2>3. s \in Seq(S) /\ Len(s) = n
    BY <2>1
  <2>4. QED
    BY <2>1, <2>2, <2>3 DEF s, n

\* What a sequence holds is finite.
LEMMA FiniteElements ==
  ASSUME NEW S, NEW s \in Seq(S)
  PROVE  IsFiniteSet(ToSet(s))
<1>1. s \in [1 .. Len(s) -> ToSet(s)] /\ Len(s) \in Nat
  BY DEF ToSet
<1>2. s \in Surjection(1 .. Len(s), ToSet(s))
  BY <1>1 DEF Surjection, ToSet
<1>3. IsFiniteSet(1 .. Len(s))
  <2>1. 1 \in Int /\ Len(s) \in Int
    BY <1>1
  <2>2. QED
    BY <2>1, FS_Interval
<1>4. QED
  BY <1>2, <1>3, FS_Surjection

\* What two lists hold together.
LEMMA ConcatSays ==
  ASSUME NEW S, NEW s \in Seq(S), NEW t \in Seq(S)
  PROVE  /\ s \o t \in Seq(S)
         /\ Len(s \o t) = Len(s) + Len(t)
         /\ \A i \in 1 .. Len(s) : (s \o t)[i] = s[i]
         /\ \A j \in 1 .. Len(t) : (s \o t)[Len(s) + j] = t[j]
         /\ ToSet(s \o t) = ToSet(s) \cup ToSet(t)
<1> DEFINE u == s \o t
<1>1. /\ u \in Seq(S)
      /\ Len(u) = Len(s) + Len(t)
      /\ \A i \in 1 .. Len(s) : u[i] = s[i]
      /\ \A j \in 1 .. Len(t) : u[Len(s) + j] = t[j]
  OBVIOUS
<1>2. \A i \in 1 .. Len(u) : i \in 1 .. Len(s) \/ (i - Len(s) \in 1 .. Len(t) /\ i = Len(s) + (i - Len(s)))
  BY <1>1
<1> HIDE DEF u
<1>3. /\ DOMAIN s = 1 .. Len(s) /\ DOMAIN t = 1 .. Len(t) /\ DOMAIN u = 1 .. Len(u)
      /\ Len(s) \in Nat /\ Len(t) \in Nat
  BY <1>1
<1>4. ASSUME NEW i \in 1 .. Len(u)
      PROVE  u[i] \in ToSet(s) \cup ToSet(t)
  BY <1>1, <1>2, <1>3 DEF ToSet
<1>5. ASSUME NEW i \in 1 .. Len(s)
      PROVE  s[i] \in ToSet(u)
  <2>1. i \in 1 .. Len(u) /\ s[i] = u[i]
    BY <1>1, <1>3
  <2>2. QED
    BY <1>3, <2>1 DEF ToSet
<1>6. ASSUME NEW j \in 1 .. Len(t)
      PROVE  t[j] \in ToSet(u)
  <2>1. Len(s) + j \in 1 .. Len(u) /\ t[j] = u[Len(s) + j]
    BY <1>1, <1>3
  <2>2. QED
    BY <1>3, <2>1 DEF ToSet
<1>7. ToSet(u) = ToSet(s) \cup ToSet(t)
  BY <1>3, <1>4, <1>5, <1>6 DEF ToSet
<1>8. QED
  BY <1>1, <1>7 DEF u

\* A list of one line.
LEMMA OneLine ==
  ASSUME NEW S, NEW e \in S
  PROVE  <<e>> \in Seq(S) /\ ToSet(<<e>>) = {e}
BY DEF ToSet

\* The list a function makes of the elements of another list.
LEMMA ListedAs ==
  ASSUME NEW S, NEW T, NEW s \in Seq(S), NEW f \in [DOMAIN s -> T]
  PROVE  f \in Seq(T) /\ ToSet(f) = {f[i] : i \in DOMAIN s}
BY DEF ToSet

\* The list of a set holds the set.
LEMMA SetListed ==
  ASSUME NEW S, IsFiniteSet(S)
  PROVE  ToSet(SetToSeq(S)) = S
<1> DEFINE n == Cardinality(S)
           s == SetToSeq(S)
<1>1. /\ n \in Nat
      /\ s \in [1 .. n -> S] /\ s \in Seq(S)
      /\ \A i, j \in 1 .. n : s[i] = s[j] => i = j
  BY ListOfSet
<1> HIDE DEF n, s
<1>2. s \in Injection(1 .. n, S)
  BY <1>1 DEF Injection, IsInjective
<1>3. IsFiniteSet(1 .. n) /\ Cardinality(1 .. n) = n
  <2>1. 1 \in Int /\ n \in Int
    BY <1>1
  <2>2. QED
    BY <1>1, <2>1, FS_Interval
<1>4. s \in Surjection(1 .. n, S)
  BY <1>2, <1>3, FS_Injection DEF n
<1>5. QED
  BY <1>1, <1>4 DEF Surjection, ToSet, s

-----------------------------------------------------------------------------
(***************************************************************************)
(* Ranks: the k-th smallest number of a list, and the elements of a list   *)
(* at some of its positions.                                               *)
(***************************************************************************)

\* The size of an initial stretch of the positions.
LEMMA StretchSize ==
  ASSUME NEW n \in Nat
  PROVE  IsFiniteSet(1 .. n) /\ Cardinality(1 .. n) = n
<1>1. 1 \in Int /\ n \in Int
  OBVIOUS
<1>2. IsFiniteSet(1 .. n) /\ Cardinality(1 .. n) = IF 1 > n THEN 0 ELSE n - 1 + 1
  BY <1>1, FS_Interval
<1>3. QED
  BY <1>2

\* A list of integers has a bound.
LEMMA ListBounded ==
  ASSUME NEW s \in Seq(Int)
  PROVE  \E b \in Nat : \A i \in DOMAIN s : -b <= s[i] /\ s[i] <= b
<1> DEFINE K == {k \in Nat : k <= Len(s) =>
                   \E b \in Nat : \A i \in 1 .. k : -b <= s[i] /\ s[i] <= b}
<1>1. Len(s) \in Nat /\ DOMAIN s = 1 .. Len(s) /\ \A i \in 1 .. Len(s) : s[i] \in Int
  OBVIOUS
<1>2. 0 \in K
  <2>1. \A i \in 1 .. 0 : -0 <= s[i] /\ s[i] <= 0
    OBVIOUS
  <2>2. QED
    BY <2>1
<1>3. ASSUME NEW k \in K
      PROVE  k + 1 \in K
  <2> SUFFICES ASSUME k + 1 <= Len(s)
               PROVE  \E b \in Nat : \A i \in 1 .. k + 1 : -b <= s[i] /\ s[i] <= b
    OBVIOUS
  <2>1. k \in Nat /\ k + 1 \in 1 .. Len(s) /\ k <= Len(s)
    BY <1>1
  <2>2. PICK b \in Nat : \A i \in 1 .. k : -b <= s[i] /\ s[i] <= b
    BY <2>1
  <2>3. s[k + 1] \in Int /\ \A i \in 1 .. k + 1 : i \in 1 .. k \/ i = k + 1
    BY <1>1, <2>1
  <2>4. \A i \in 1 .. k : s[i] \in Int
    BY <1>1, <2>1
  <2> DEFINE c == IF s[k + 1] < 0 THEN b - s[k + 1] ELSE b + s[k + 1]
  <2>5. c \in Nat /\ b <= c /\ -c <= s[k + 1] /\ s[k + 1] <= c
    BY <2>3
  <2> HIDE DEF c
  <2>6. \A i \in 1 .. k + 1 : -c <= s[i] /\ s[i] <= c
    <3> TAKE i \in 1 .. k + 1
    <3>1. CASE i \in 1 .. k
      <4>1. s[i] \in Int /\ -b <= s[i] /\ s[i] <= b
        BY <2>2, <2>4, <3>1
      <4>2. QED
        BY <2>5, <4>1
    <3>2. CASE i = k + 1
      BY <2>5, <3>2
    <3>3. QED
      BY <2>3, <3>1, <3>2
  <2>7. QED
    BY <2>5, <2>6
<1>4. K = Nat
  <2>1. K \in SUBSET Nat
    OBVIOUS
  <2> HIDE DEF K
  <2>2. QED
    BY <1>2, <1>3, <2>1, NatSetInduction
<1>5. Len(s) \in K
  <2> HIDE DEF K
  <2>1. QED
    BY <1>1, <1>4
<1>6. QED
  BY <1>1, <1>5

\* The k-th smallest number of a list exists.
LEMMA SmallestExists ==
  ASSUME NEW scores \in Seq(Int), NEW k \in 1 .. Len(scores)
  PROVE  /\ Smallest(scores, k) \in ToSet(scores)
         /\ Smallest(scores, k) \in Int
         /\ Cardinality({i \in DOMAIN scores : scores[i] < Smallest(scores, k)}) < k
         /\ Cardinality({i \in DOMAIN scores : scores[i] <= Smallest(scores, k)}) >= k
<1> DEFINE n == Len(scores)
           upTo == [x \in Int |-> {i \in 1 .. n : scores[i] <= x}]
           below == [x \in Int |-> {i \in 1 .. n : scores[i] < x}]
<1>0. PICK b \in Nat : \A i \in DOMAIN scores : -b <= scores[i] /\ scores[i] <= b
  BY ListBounded
<1>1. /\ DOMAIN scores = 1 .. n
      /\ n \in Nat
      /\ \A i \in 1 .. n : scores[i] \in Int /\ -b <= scores[i] /\ scores[i] <= b
  BY <1>0
<1>2. IsFiniteSet(1 .. n) /\ Cardinality(1 .. n) = n
  BY <1>1, StretchSize
<1> DEFINE few == {x \in Nat : Cardinality(upTo[x - b]) >= k}
<1>3. 2 * b \in few
  <2>1. 2 * b - b \in Int /\ upTo[2 * b - b] = 1 .. n
    BY <1>1
  <2> HIDE DEF upTo
  <2>2. Cardinality(upTo[2 * b - b]) >= k
    BY <1>2, <2>1
  <2>3. QED
    BY <2>2
<1>4. PICK w \in few : \A x \in few : w <= x
  <2>1. few \in SUBSET Nat /\ few # {}
    BY <1>3
  <2> HIDE DEF few
  <2>2. QED
    BY <2>1, LeastNumber
<1>5. PICK m \in Int : m = w - b /\ Cardinality(upTo[m]) >= k
  <2>1. w \in Nat /\ w - b \in Int /\ Cardinality(upTo[w - b]) >= k
    BY <1>4
  <2>2. QED
    BY <2>1
<1>6. Cardinality(below[m]) \in Nat /\ Cardinality(below[m]) < k
  <2>0. w \in Nat
    BY <1>4
  <2>1. CASE w = 0
    <3>1. \A i \in 1 .. n : ~(scores[i] < m)
      BY <1>1, <1>5, <2>1
    <3>2. below[m] = {}
      BY <3>1
    <3> HIDE DEF below
    <3>3. Cardinality(below[m]) = 0
      BY <3>2, FS_EmptySet
    <3>4. QED
      BY <3>3
  <2>2. CASE w # 0
    <3>1. w - 1 \in Nat /\ w - 1 \notin few
      <4>1. w - 1 \in Nat /\ ~(w <= w - 1)
        BY <2>0, <2>2
      <4> HIDE DEF few
      <4>2. QED
        BY <1>4, <4>1
    <3>2. m - 1 \in Int /\ (w - 1) - b = m - 1
      BY <1>5, <2>0
    <3>3. ~(Cardinality(upTo[m - 1]) >= k)
      <4>1. ~(Cardinality(upTo[(w - 1) - b]) >= k)
        BY <3>1
      <4> HIDE DEF upTo
      <4>2. QED
        BY <3>2, <4>1
    <3>4. below[m] = upTo[m - 1]
      BY <1>1, <1>5, <3>2
    <3>5. upTo[m - 1] \in SUBSET (1 .. n)
      BY <3>2
    <3> HIDE DEF upTo, below
    <3>6. IsFiniteSet(upTo[m - 1])
      BY <1>2, <3>5, FS_Subset
    <3>7. Cardinality(upTo[m - 1]) \in Nat
      BY <3>6, FS_CardinalityType
    <3>8. QED
      BY <3>3, <3>4, <3>7
  <2>3. QED
    BY <2>1, <2>2
<1>7. m \in ToSet(scores)
  <2> SUFFICES ASSUME m \notin ToSet(scores)
               PROVE  FALSE
    OBVIOUS
  <2>1. \A i \in 1 .. n : scores[i] # m
    BY <1>1 DEF ToSet
  <2>2. upTo[m] = below[m]
    BY <1>1, <1>5, <2>1
  <2> HIDE DEF upTo, below
  <2>3. QED
    BY <1>5, <1>6, <2>2
<1>8. /\ upTo[m] = {i \in DOMAIN scores : scores[i] <= m}
      /\ below[m] = {i \in DOMAIN scores : scores[i] < m}
  BY <1>1, <1>5
<1> HIDE DEF upTo, below, few
<1>9. /\ Cardinality({i \in DOMAIN scores : scores[i] < m}) < k
      /\ Cardinality({i \in DOMAIN scores : scores[i] <= m}) >= k
  BY <1>5, <1>6, <1>8
<1>10. /\ Smallest(scores, k) \in ToSet(scores)
       /\ Cardinality({i \in DOMAIN scores : scores[i] < Smallest(scores, k)}) < k
       /\ Cardinality({i \in DOMAIN scores : scores[i] <= Smallest(scores, k)}) >= k
  BY <1>7, <1>9 DEF Smallest
<1>11. \A x \in ToSet(scores) : x \in Int
  BY <1>1 DEF ToSet
<1>12. QED
  BY <1>10, <1>11

\* The positions of a finite set, one after the other.
LEMMA PlacesInOrder ==
  ASSUME NEW K \in SUBSET Nat, IsFiniteSet(K)
  PROVE  /\ Cardinality(K) \in Nat
         /\ \A k \in 1 .. Cardinality(K) : Place(K, k) \in K
         /\ \A k, l \in 1 .. Cardinality(K) : k < l => Place(K, k) < Place(K, l)
         /\ \A i \in K : \E k \in 1 .. Cardinality(K) : Place(K, k) = i
<1> DEFINE n == Cardinality(K)
           upTo == [i \in K |-> {j \in K : j <= i}]
           rank == [i \in K |-> Cardinality({j \in K : j <= i})]
<1>1. n \in Nat
  BY FS_CardinalityType
<1>2. ASSUME NEW i \in K
      PROVE  /\ IsFiniteSet(upTo[i])
             /\ rank[i] = Cardinality(upTo[i])
             /\ rank[i] \in 1 .. n
             /\ i \in upTo[i]
  <2>1. upTo[i] \in SUBSET K /\ i \in upTo[i] /\ rank[i] = Cardinality(upTo[i])
    OBVIOUS
  <2> HIDE DEF upTo, rank
  <2>2. IsFiniteSet(upTo[i]) /\ Cardinality(upTo[i]) <= n
    BY <2>1, FS_Subset
  <2>3. Cardinality(upTo[i]) \in Nat /\ Cardinality(upTo[i]) # 0
    BY <2>1, <2>2, FS_CardinalityType, FS_EmptySet
  <2>4. QED
    BY <1>1, <2>1, <2>2, <2>3
<1>3. ASSUME NEW i \in K, NEW j \in K, i < j
      PROVE  rank[i] < rank[j]
  <2>1. upTo[i] \in SUBSET (upTo[j] \ {j})
    <3>1. ASSUME NEW x \in K, x <= i
          PROVE  x <= j /\ x # j
      <4>1. x \in Nat /\ i \in Nat /\ j \in Nat
        OBVIOUS
      <4>2. QED
        BY <1>3, <3>1, <4>1
    <3>2. QED
      BY <3>1
  <2> HIDE DEF upTo, rank
  <2>2. /\ IsFiniteSet(upTo[j] \ {j})
        /\ Cardinality(upTo[j] \ {j}) = Cardinality(upTo[j]) - 1
    BY <1>2, FS_RemoveElement
  <2>3. Cardinality(upTo[i]) <= Cardinality(upTo[j] \ {j})
    BY <2>1, <2>2, FS_Subset
  <2>4. QED
    BY <1>2, <2>2, <2>3
<1>4. \A i, j \in K : (rank[i] = rank[j] => i = j) /\ (rank[i] < rank[j] => i < j)
  <2> HIDE DEF rank, upTo
  <2> TAKE i, j \in K
  <2>1. rank[i] \in Nat /\ rank[j] \in Nat /\ i \in Nat /\ j \in Nat
    BY <1>2
  <2>2. QED
    BY <1>3, <2>1
<1>5. \A k \in 1 .. n : \E i \in K : rank[i] = k
  <2>1. rank \in Injection(K, 1 .. n)
    BY <1>2, <1>4 DEF Injection, IsInjective
  <2>2. IsFiniteSet(1 .. n) /\ Cardinality(1 .. n) = n
    BY <1>1, StretchSize
  <2> HIDE DEF rank
  <2>3. rank \in Surjection(K, 1 .. n)
    BY <2>1, <2>2, FS_Injection
  <2>4. QED
    BY <2>3 DEF Surjection
<1>6. \A k \in 1 .. n : Place(K, k) \in K /\ rank[Place(K, k)] = k
  <2> TAKE k \in 1 .. n
  <2>1. \E i \in K : Cardinality({j \in K : j <= i}) = k
    BY <1>5
  <2>2. Place(K, k) \in K /\ Cardinality({j \in K : j <= Place(K, k)}) = k
    BY <2>1 DEF Place
  <2>3. QED
    BY <2>2
<1>7. \A i \in K : rank[i] \in 1 .. n
  BY <1>2
<1> HIDE DEF rank
<1>8. \A k, l \in 1 .. n : k < l => Place(K, k) < Place(K, l)
  <2> TAKE k, l \in 1 .. n
  <2> HIDE DEF n
  <2>1. /\ Place(K, k) \in K /\ rank[Place(K, k)] = k
        /\ Place(K, l) \in K /\ rank[Place(K, l)] = l
    BY <1>6
  <2>2. rank[Place(K, k)] < rank[Place(K, l)] => Place(K, k) < Place(K, l)
    BY <1>4, <2>1
  <2>3. QED
    BY <2>1, <2>2
<1>9. \A i \in K : \E k \in 1 .. n : Place(K, k) = i
  <2> TAKE i \in K
  <2>1. rank[i] \in 1 .. n /\ Place(K, rank[i]) = i
    BY <1>4, <1>6, <1>7
  <2>2. QED
    BY <2>1
<1>10. QED
  BY <1>1, <1>6, <1>8, <1>9

\* Positions listed in their order are the places of what they list.
LEMMA ListedInOrder ==
  ASSUME NEW n \in Nat, NEW K \in SUBSET Nat, NEW p \in [1 .. n -> K],
         \A k, l \in 1 .. n : k < l => p[k] < p[l],
         \A i \in K : \E k \in 1 .. n : p[k] = i
  PROVE  /\ IsFiniteSet(K)
         /\ Cardinality(K) = n
         /\ \A k \in 1 .. n : Place(K, k) = p[k]
<1>1. \A k, l \in 1 .. n : p[k] \in Nat /\ (p[k] = p[l] => k = l) /\ (k <= l <=> p[k] <= p[l])
  <2> TAKE k, l \in 1 .. n
  <2>1. p[k] \in Nat /\ p[l] \in Nat
    OBVIOUS
  <2>2. k < l \/ k = l \/ l < k
    OBVIOUS
  <2>3. QED
    BY <2>1, <2>2
<1>2. ASSUME NEW k \in 1 .. n
      PROVE  /\ IsFiniteSet({j \in K : j <= p[k]})
             /\ Cardinality({j \in K : j <= p[k]}) = k
  <2> DEFINE U == {j \in K : j <= p[k]}
             q == [l \in 1 .. k |-> p[l]]
  <2>1. k \in Nat /\ 1 .. k \subseteq 1 .. n
    OBVIOUS
  <2>2. q \in Bijection(1 .. k, U)
    <3>1. \A l \in 1 .. k : q[l] \in U /\ l \in 1 .. n /\ q[l] = p[l]
      BY <1>1, <2>1
    <3>2. \A j \in U : \E l \in 1 .. k : q[l] = j
      <4> TAKE j \in U
      <4>1. PICK l \in 1 .. n : p[l] = j
        OBVIOUS
      <4>2. l <= k
        BY <1>1, <4>1
      <4>3. QED
        BY <4>1, <4>2
    <3>3. \A l, m \in 1 .. k : q[l] = q[m] => l = m
      BY <1>1, <3>1
    <3>4. q \in [1 .. k -> U]
      BY <3>1
    <3> HIDE DEF q, U
    <3>5. QED
      BY <3>2, <3>3, <3>4 DEF Bijection, Injection, Surjection, IsInjective
  <2>3. IsFiniteSet(1 .. k) /\ Cardinality(1 .. k) = k
    BY <2>1, StretchSize
  <2> HIDE DEF U, q
  <2>4. IsFiniteSet(U) /\ Cardinality(U) = Cardinality(1 .. k)
    BY <2>2, <2>3, FS_Bijection DEF ExistsBijection
  <2>5. QED
    BY <2>3, <2>4 DEF U
<1>3. ASSUME NEW k \in 1 .. n
      PROVE  Place(K, k) = p[k]
  <2>1. \A i \in K : Cardinality({j \in K : j <= i}) = k <=> i = p[k]
    <3> TAKE i \in K
    <3>1. PICK l \in 1 .. n : p[l] = i
      OBVIOUS
    <3>2. Cardinality({j \in K : j <= i}) = l
      BY <1>2, <3>1
    <3>3. QED
      BY <1>1, <3>1, <3>2
  <2>2. p[k] \in K
    OBVIOUS
  <2>3. QED
    BY <2>1, <2>2 DEF Place
<1>4. p \in Bijection(1 .. n, K)
  BY <1>1 DEF Bijection, Injection, Surjection, IsInjective
<1>5. IsFiniteSet(1 .. n) /\ Cardinality(1 .. n) = n
  BY StretchSize
<1>6. IsFiniteSet(K) /\ Cardinality(K) = n
  BY <1>4, <1>5, FS_Bijection DEF ExistsBijection
<1>7. QED
  BY <1>3, <1>6

\* p lists the n positions K in their order.
InOrder(n, p, K) ==
  /\ p \in [1 .. n -> K]
  /\ \A k, l \in 1 .. n : k < l => p[k] < p[l]
  /\ \A i \in K : \E k \in 1 .. n : p[k] = i

\* What is picked of the positions that p lists.
PickedSays(S, s, K, n, p) ==
  /\ Picked(s, K) = [k \in 1 .. n |-> s[p[k]]]
  /\ Picked(s, K) \in Seq(S)
  /\ Len(Picked(s, K)) = n
  /\ Cardinality(K) = n

\* The elements at some positions are those at the positions in their order.
LEMMA PickedListed ==
  ASSUME NEW S, NEW s \in Seq(S), NEW K \in SUBSET DOMAIN s,
         NEW n \in Nat, NEW p, InOrder(n, p, K)
  PROVE  PickedSays(S, s, K, n, p)
<1>1. K \in SUBSET Nat
  OBVIOUS
<1>2. Cardinality(K) = n /\ \A k \in 1 .. n : Place(K, k) = p[k]
  BY <1>1, ListedInOrder DEF InOrder
<1>3. Picked(s, K) = [k \in 1 .. n |-> s[p[k]]]
  BY <1>2 DEF Picked
<1>4. \A k \in 1 .. n : s[p[k]] \in S
  BY DEF InOrder
<1>5. QED
  BY <1>2, <1>3, <1>4 DEF PickedSays

\* Any positions of a list can be put in their order.
LEMMA PositionsInOrder ==
  ASSUME NEW S, NEW s \in Seq(S), NEW K \in SUBSET DOMAIN s
  PROVE  /\ IsFiniteSet(K)
         /\ \E n \in Nat : \E p : InOrder(n, p, K)
<1>1. K \in SUBSET Nat /\ K \in SUBSET (1 .. Len(s)) /\ Len(s) \in Nat
  OBVIOUS
<1>2. IsFiniteSet(K)
  BY <1>1, StretchSize, FS_Subset
<1> DEFINE p == [k \in 1 .. Cardinality(K) |-> Place(K, k)]
<1>3. /\ Cardinality(K) \in Nat
      /\ \A k \in 1 .. Cardinality(K) : Place(K, k) \in K
      /\ \A k, l \in 1 .. Cardinality(K) : k < l => Place(K, k) < Place(K, l)
      /\ \A i \in K : \E k \in 1 .. Cardinality(K) : Place(K, k) = i
  BY <1>1, <1>2, PlacesInOrder
<1>4. InOrder(Cardinality(K), p, K)
  BY <1>3 DEF InOrder
<1>5. QED
  BY <1>2, <1>3, <1>4

\* The list f begins with the a elements of x, the b elements of y follow.
Parts(x, y, f, a, b) ==
  /\ Len(x) = a /\ Len(y) = b /\ Len(f) = a + b
  /\ \A k \in 1 .. a : f[k] = x[k]
  /\ \A l \in 1 .. b : f[a + l] = y[l]

\* A list whose beginning is x and whose rest is y.
LEMMA ListOfParts ==
  ASSUME NEW S, NEW x \in Seq(S), NEW y \in Seq(S), NEW f \in Seq(S),
         NEW a, NEW b, Parts(x, y, f, a, b)
  PROVE  x \o y = f
<1> DEFINE z == x \o y
<1>1. /\ z \in Seq(S) /\ Len(z) = a + b
      /\ \A k \in 1 .. a : z[k] = x[k]
      /\ \A l \in 1 .. b : z[a + l] = y[l]
      /\ a \in Nat /\ b \in Nat
      /\ f \in Seq(S) /\ Len(f) = a + b
      /\ \A k \in 1 .. a : f[k] = x[k]
      /\ \A l \in 1 .. b : f[a + l] = y[l]
  BY ConcatSays DEF Parts
<1> HIDE DEF z
<1>2. \A k \in 1 .. a + b : z[k] = f[k]
  <2> TAKE k \in 1 .. a + b
  <2>1. CASE k \in 1 .. a
    BY <1>1, <2>1
  <2>2. CASE k \notin 1 .. a
    <3>1. k - a \in 1 .. b /\ k = a + (k - a)
      BY <1>1, <2>2
    <3>2. z[a + (k - a)] = y[k - a] /\ f[a + (k - a)] = y[k - a]
      BY <1>1, <3>1
    <3>3. QED
      BY <3>1, <3>2
  <2>3. QED
    BY <2>1, <2>2
<1>3. z = f
  BY <1>1, <1>2
<1>4. QED
  BY <1>3 DEF z

\* A line and another line.
LEMMA TwoLines ==
  ASSUME NEW x, NEW y
  PROVE  <<x>> \o <<y>> = <<x, y>>
<1>1. <<x>> \in Seq({x, y}) /\ <<y>> \in Seq({x, y}) /\ <<x, y>> \in Seq({x, y})
  OBVIOUS
<1>2. Parts(<<x>>, <<y>>, <<x, y>>, 1, 1)
  BY DEF Parts
<1>3. QED
  BY <1>1, <1>2, ListOfParts

\* The positions L of a list that follows n others.
Shifted(n, L) == {n + j : j \in L}

\* The list u is s with t after it.
Follows(u, s, t) == u = s \o t

\* Picking from a concatenation is picking from its parts.
LEMMA PickedConcat ==
  ASSUME NEW S, NEW s \in Seq(S), NEW t \in Seq(S),
         NEW K \in SUBSET DOMAIN s, NEW L \in SUBSET DOMAIN t,
         NEW M, M = K \cup Shifted(Len(s), L), NEW u, Follows(u, s, t)
  PROVE  /\ Follows(Picked(u, M), Picked(s, K), Picked(t, L))
         /\ Picked(s, K) \in Seq(S)
         /\ Picked(t, L) \in Seq(S)
<1> DEFINE m == Len(s)
<1> USE DEF Follows
<1>1. /\ m \in Nat /\ Len(t) \in Nat
      /\ DOMAIN s = 1 .. m /\ DOMAIN t = 1 .. Len(t)
      /\ u \in Seq(S) /\ DOMAIN u = 1 .. m + Len(t)
      /\ \A i \in 1 .. m : u[i] = s[i]
      /\ \A j \in 1 .. Len(t) : u[m + j] = t[j]
  OBVIOUS
<1>2. PICK a \in Nat : \E p : InOrder(a, p, K)
  BY PositionsInOrder
<1>3. PICK p : InOrder(a, p, K)
  BY <1>2
<1>4. PICK b \in Nat : \E q : InOrder(b, q, L)
  BY PositionsInOrder
<1>5. PICK q : InOrder(b, q, L)
  BY <1>4
<1> DEFINE r == [k \in 1 .. a + b |-> IF k <= a THEN p[k] ELSE m + q[k - a]]
<1>6. /\ \A k \in 1 .. a : r[k] = p[k] /\ p[k] \in K /\ p[k] \in 1 .. m
      /\ \A l \in 1 .. b : r[a + l] = m + q[l] /\ q[l] \in L /\ q[l] \in 1 .. Len(t)
      /\ \A k \in 1 .. a + b : k \in 1 .. a \/ (k - a \in 1 .. b /\ k = a + (k - a))
  <2>1. /\ \A k \in 1 .. a : p[k] \in K /\ p[k] \in 1 .. m
        /\ \A l \in 1 .. b : q[l] \in L /\ q[l] \in 1 .. Len(t)
    BY <1>1, <1>3, <1>5 DEF InOrder
  <2>2. \A k \in 1 .. a : k \in 1 .. a + b /\ r[k] = p[k]
    OBVIOUS
  <2>3. \A l \in 1 .. b : a + l \in 1 .. a + b /\ ~(a + l <= a) /\ (a + l) - a = l
    OBVIOUS
  <2>4. \A l \in 1 .. b : r[a + l] = m + q[l]
    BY <2>3
  <2>5. \A k \in 1 .. a + b : k \in 1 .. a \/ (k - a \in 1 .. b /\ k = a + (k - a))
    OBVIOUS
  <2> HIDE DEF r
  <2>6. QED
    BY <2>1, <2>2, <2>4, <2>5
<1> HIDE DEF m
<1>7. r \in [1 .. a + b -> M]
  <2>1. \A k \in 1 .. a + b : r[k] \in M
    <3> TAKE k \in 1 .. a + b
    <3> HIDE DEF r
    <3>1. CASE k \in 1 .. a
      BY <1>6, <3>1
    <3>2. CASE k - a \in 1 .. b /\ k = a + (k - a)
      <4>1. r[k] = m + q[k - a] /\ q[k - a] \in L
        BY <1>6, <3>2
      <4>2. QED
        BY <4>1 DEF m, Shifted
    <3>3. QED
      BY <1>6, <3>1, <3>2
  <2>2. QED
    BY <2>1
<1> HIDE DEF r
<1>8. \A k, l \in 1 .. a + b : k < l => r[k] < r[l]
  <2> SUFFICES ASSUME NEW k \in 1 .. a + b, NEW l \in 1 .. a + b, k < l
               PROVE  r[k] < r[l]
    OBVIOUS
  <2>1. CASE k \in 1 .. a /\ l \in 1 .. a
    BY <1>3, <1>6, <2>1 DEF InOrder
  <2>2. CASE k \in 1 .. a /\ l - a \in 1 .. b /\ l = a + (l - a)
    <3>1. r[k] \in 1 .. m /\ r[l] = m + q[l - a] /\ q[l - a] \in 1 .. Len(t)
      BY <1>6, <2>2
    <3>2. QED
      BY <1>1, <3>1
  <2>3. CASE k - a \in 1 .. b /\ l - a \in 1 .. b
    <3>1. /\ k - a \in 1 .. b /\ l - a \in 1 .. b /\ k - a < l - a
          /\ k = a + (k - a) /\ l = a + (l - a)
      BY <2>3
    <3>2. q[k - a] < q[l - a]
      BY <1>5, <3>1 DEF InOrder
    <3>3. /\ r[k] = m + q[k - a] /\ r[l] = m + q[l - a]
          /\ q[k - a] \in Nat /\ q[l - a] \in Nat
      BY <1>6, <3>1
    <3>4. QED
      BY <1>1, <3>2, <3>3
  <2>4. ~(l \in 1 .. a /\ k - a \in 1 .. b)
    OBVIOUS
  <2>5. QED
    BY <1>6, <2>1, <2>2, <2>3, <2>4
<1>9. \A i \in M : \E k \in 1 .. a + b : r[k] = i
  <2> TAKE i \in M
  <2>1. CASE i \in K
    <3>1. PICK k \in 1 .. a : p[k] = i
      BY <1>3, <2>1 DEF InOrder
    <3>2. k \in 1 .. a + b /\ r[k] = i
      BY <1>6, <3>1
    <3>3. QED
      BY <3>2
  <2>2. CASE i \in {m + j : j \in L}
    <3>1. PICK j \in L : i = m + j
      BY <2>2
    <3>2. PICK l \in 1 .. b : q[l] = j
      BY <1>5 DEF InOrder
    <3>3. a + l \in 1 .. a + b /\ r[a + l] = i
      BY <1>6, <3>1, <3>2
    <3>4. QED
      BY <3>3
  <2>3. QED
    BY <2>1, <2>2 DEF m, Shifted
<1>10. InOrder(a + b, r, M)
  BY <1>7, <1>8, <1>9 DEF InOrder
<1>11. M \in SUBSET DOMAIN u
  <2>1. \A i \in K : i \in 1 .. m + Len(t)
    BY <1>1
  <2>2. \A j \in L : m + j \in 1 .. m + Len(t)
    BY <1>1
  <2>3. QED
    BY <1>1, <2>1, <2>2 DEF m, Shifted
<1>12. /\ Picked(u, M) = [k \in 1 .. a + b |-> u[r[k]]]
       /\ Picked(u, M) \in Seq(S) /\ Len(Picked(u, M)) = a + b
  <2>1. u \in Seq(S) /\ a + b \in Nat
    BY <1>1
  <2>2. PickedSays(S, u, M, a + b, r)
    BY <1>10, <1>11, <2>1, PickedListed
  <2>3. QED
    BY <2>2 DEF PickedSays
<1>13. /\ Picked(s, K) = [k \in 1 .. a |-> s[p[k]]]
       /\ Picked(s, K) \in Seq(S) /\ Len(Picked(s, K)) = a
  <2>1. PickedSays(S, s, K, a, p)
    BY <1>3, PickedListed
  <2>2. QED
    BY <2>1 DEF PickedSays
<1>14. /\ Picked(t, L) = [l \in 1 .. b |-> t[q[l]]]
       /\ Picked(t, L) \in Seq(S) /\ Len(Picked(t, L)) = b
  <2>1. PickedSays(S, t, L, b, q)
    BY <1>5, PickedListed
  <2>2. QED
    BY <2>1 DEF PickedSays
<1>15. \A k \in 1 .. a : u[r[k]] = s[p[k]]
  BY <1>1, <1>6
<1>16. \A l \in 1 .. b : u[r[a + l]] = t[q[l]]
  BY <1>1, <1>6
<1> DEFINE x == Picked(s, K)
           y == Picked(t, L)
           f == [k \in 1 .. a + b |-> u[r[k]]]
<1>17. /\ x \in Seq(S) /\ y \in Seq(S) /\ Len(x) = a /\ Len(y) = b
       /\ f = Picked(u, M) /\ f \in Seq(S) /\ Len(f) = a + b
  BY <1>12, <1>13, <1>14
<1>18. \A k \in 1 .. a : f[k] = x[k]
  <2> TAKE k \in 1 .. a
  <2>1. x[k] = s[p[k]]
    BY <1>13
  <2>2. k \in 1 .. a + b
    OBVIOUS
  <2>3. QED
    BY <1>15, <2>1, <2>2
<1>19. \A l \in 1 .. b : f[a + l] = y[l]
  <2> TAKE l \in 1 .. b
  <2>1. y[l] = t[q[l]]
    BY <1>14
  <2>2. a + l \in 1 .. a + b
    OBVIOUS
  <2>3. QED
    BY <1>16, <2>1, <2>2
<1> HIDE DEF x, y, f
<1>20. x \o y = f
  <2>1. Parts(x, y, f, a, b)
    BY <1>17, <1>18, <1>19 DEF Parts
  <2>2. QED
    BY <1>17, <2>1, ListOfParts
<1>21. QED
  BY <1>17, <1>20 DEF x, y

\* The positions that p lists at the places L.
Through(p, L) == {p[k] : k \in L}

\* Picking from what was picked.
LEMMA PickedTwice ==
  ASSUME NEW S, NEW s \in Seq(S), NEW K \in SUBSET DOMAIN s,
         NEW n \in Nat, NEW p, InOrder(n, p, K), NEW L \in SUBSET (1 .. n)
  PROVE  Picked(Picked(s, K), L) = Picked(s, Through(p, L))
<1> DEFINE t == Picked(s, K)
           M == {p[k] : k \in L}
<1>1. /\ t = [k \in 1 .. n |-> s[p[k]]] /\ t \in Seq(S) /\ Len(t) = n
      /\ DOMAIN t = 1 .. n
  <2>1. PickedSays(S, s, K, n, p)
    BY PickedListed
  <2>2. QED
    BY <2>1 DEF PickedSays
<1> HIDE DEF t
<1>2. L \in SUBSET DOMAIN t
  BY <1>1
<1>3. PICK a \in Nat : \E q : InOrder(a, q, L)
  BY <1>1, <1>2, PositionsInOrder
<1>4. PICK q : InOrder(a, q, L)
  BY <1>3
<1> DEFINE r == [k \in 1 .. a |-> p[q[k]]]
<1>5. \A k \in 1 .. a : q[k] \in L /\ q[k] \in 1 .. n /\ p[q[k]] \in K /\ r[k] = p[q[k]]
  BY <1>4 DEF InOrder
<1>6. InOrder(a, r, M)
  <2>1. r \in [1 .. a -> M]
    BY <1>5
  <2> HIDE DEF r
  <2>2. \A k, l \in 1 .. a : k < l => r[k] < r[l]
    BY <1>4, <1>5 DEF InOrder
  <2>3. \A i \in M : \E k \in 1 .. a : r[k] = i
    <3> TAKE i \in M
    <3>1. PICK j \in L : i = p[j]
      OBVIOUS
    <3>2. PICK k \in 1 .. a : q[k] = j
      BY <1>4 DEF InOrder
    <3>3. QED
      BY <1>5, <3>1, <3>2
  <2>4. QED
    BY <2>1, <2>2, <2>3 DEF InOrder
<1>7. M \in SUBSET DOMAIN s
  BY DEF InOrder
<1> HIDE DEF M
<1>8. Picked(s, M) = [k \in 1 .. a |-> s[r[k]]]
  <2>1. PickedSays(S, s, M, a, r)
    BY <1>6, <1>7, PickedListed
  <2>2. QED
    BY <2>1 DEF PickedSays
<1>9. Picked(t, L) = [k \in 1 .. a |-> t[q[k]]]
  <2>1. t \in Seq(S)
    BY <1>1
  <2>2. PickedSays(S, t, L, a, q)
    BY <1>2, <1>4, <2>1, PickedListed
  <2>3. QED
    BY <2>2 DEF PickedSays
<1>10. \A k \in 1 .. a : t[q[k]] = s[r[k]]
  BY <1>1, <1>5
<1>11. QED
  BY <1>8, <1>9, <1>10 DEF M, t, Through

\* Picking everything, and nothing.
LEMMA PickedEnds ==
  ASSUME NEW S, NEW s \in Seq(S)
  PROVE  Picked(s, DOMAIN s) = s /\ Picked(s, {}) = << >>
<1> DEFINE n == Len(s)
<1>1. n \in Nat /\ DOMAIN s = 1 .. n
  OBVIOUS
<1>2. Picked(s, DOMAIN s) = s
  <2> DEFINE p == [k \in 1 .. n |-> k]
  <2>1. InOrder(n, p, DOMAIN s)
    BY <1>1 DEF InOrder
  <2>2. Picked(s, DOMAIN s) = [k \in 1 .. n |-> s[p[k]]]
    <3> HIDE DEF p, n
    <3>1. PickedSays(S, s, DOMAIN s, n, p)
      BY <1>1, <2>1, PickedListed
    <3>2. QED
      BY <3>1 DEF PickedSays
  <2>3. QED
    BY <1>1, <2>2
<1>3. Picked(s, {}) = << >>
  <2> DEFINE p == [k \in 1 .. 0 |-> k]
  <2>1. InOrder(0, p, {})
    BY DEF InOrder
  <2>2. Picked(s, {}) = [k \in 1 .. 0 |-> s[p[k]]]
    <3> HIDE DEF p
    <3>1. PickedSays(S, s, {}, 0, p)
      BY <2>1, PickedListed
    <3>2. QED
      BY <3>1 DEF PickedSays
  <2>3. QED
    BY <2>2
<1>4. QED
  BY <1>2, <1>3

-----------------------------------------------------------------------------
(***************************************************************************)
(* FlattenSeq: a list of lists, joined.                                    *)
(***************************************************************************)

\* f joins the lists of ss one after the other.
JoinSteps(ss, f) ==
  \A i \in 1 .. Len(ss) : f[i] = IF i = 1 THEN ss[i] ELSE f[i - 1] \o ss[i]

JoinRun(S, ss, f) == f \in [1 .. Len(ss) -> Seq(S)] /\ JoinSteps(ss, f)

\* Two lists begin with the same n lists.
SameStart(n, ss, tt) ==
  n \in Nat /\ n <= Len(ss) /\ n <= Len(tt) /\ \A i \in 1 .. n : ss[i] = tt[i]

\* Lists can be joined, in one way only.
LEMMA JoinExists ==
  ASSUME NEW S, NEW ss \in Seq(Seq(S))
  PROVE  \E f : JoinRun(S, ss, f)
<1> DEFINE n == Len(ss)
           T == Seq(S)
           step == [q \in T \X (1 .. n) |-> q[1] \o ss[q[2]]]
<1>1. n \in Nat /\ << >> \in T
  OBVIOUS
<1>2. \A x \in T, i \in 1 .. n : /\ ss[i] \in T
                                 /\ x \o ss[i] \in T
                                 /\ << >> \o ss[i] = ss[i]
  <2>1. \A i \in 1 .. n : ss[i] \in T
    OBVIOUS
  <2>2. QED
    BY <2>1, ConcatProperties, ConcatEmptySeq
<1>3. step \in StepFunctions(T, n)
  BY <1>2 DEF StepFunctions
<1>4. \A x \in T, i \in 1 .. n : step[<<x, i>>] = x \o ss[i]
  OBVIOUS
<1> HIDE DEF step, T, n
<1>5. PICK g : g \in Runs(T, n, << >>, step)
  BY <1>1, <1>3, RunExists
<1>6. g \in [0 .. n -> T] /\ g[0] = << >> /\ \A i \in 1 .. n : g[i] = step[<<g[i - 1], i>>]
  BY <1>5 DEF Runs
<1>7. \A i \in 1 .. n : g[i - 1] \in T /\ g[i] = g[i - 1] \o ss[i]
  <2> SUFFICES ASSUME NEW i \in 1 .. n
               PROVE  g[i - 1] \in T /\ g[i] = g[i - 1] \o ss[i]
    OBVIOUS
  <2>1. i - 1 \in 0 .. n
    BY <1>1
  <2>2. g[i - 1] \in T /\ g[i] = step[<<g[i - 1], i>>]
    BY <1>6, <2>1
  <2>3. QED
    BY <1>4, <2>2
<1> DEFINE f == [i \in 1 .. n |-> g[i]]
<1>8. f \in [1 .. n -> T]
  BY <1>1, <1>6
<1>9. ASSUME NEW i \in 1 .. n
      PROVE  f[i] = IF i = 1 THEN ss[i] ELSE f[i - 1] \o ss[i]
  <2>1. f[i] = g[i] /\ g[i] = g[i - 1] \o ss[i]
    BY <1>7
  <2>2. CASE i = 1
    <3>1. g[i - 1] = << >>
      BY <1>6, <2>2
    <3>2. << >> \o ss[i] = ss[i]
      BY <1>1, <1>2
    <3>3. QED
      BY <2>1, <2>2, <3>1, <3>2
  <2>3. CASE i # 1
    <3>1. i - 1 \in 1 .. n
      BY <1>1, <2>3
    <3>2. f[i - 1] = g[i - 1]
      BY <3>1
    <3>3. QED
      BY <2>1, <2>3, <3>2
  <2>4. QED
    BY <2>2, <2>3
<1> HIDE DEF f
<1>10. JoinRun(S, ss, f)
  BY <1>8, <1>9 DEF JoinRun, JoinSteps, n, T
<1>11. QED
  BY <1>10

\* Two ways to join lists agree as long as the lists do.
LEMMA JoinsAgree ==
  ASSUME NEW S, NEW ss \in Seq(Seq(S)), NEW tt \in Seq(Seq(S)), NEW f, NEW g, NEW n,
         SameStart(n, ss, tt), JoinSteps(ss, f), JoinSteps(tt, g)
  PROVE  \A i \in 1 .. n : f[i] = g[i]
<1> DEFINE K == {k \in Nat : k + 1 <= n => f[k + 1] = g[k + 1]}
<1>1. /\ Len(ss) \in Nat /\ Len(tt) \in Nat
      /\ n \in Nat /\ n <= Len(ss) /\ n <= Len(tt)
      /\ \A i \in 1 .. n : ss[i] = tt[i]
  BY DEF SameStart
<1>2. \A i \in 1 .. n : /\ f[i] = IF i = 1 THEN ss[i] ELSE f[i - 1] \o ss[i]
                        /\ g[i] = IF i = 1 THEN ss[i] ELSE g[i - 1] \o ss[i]
  <2> SUFFICES ASSUME NEW i \in 1 .. n
               PROVE  /\ f[i] = IF i = 1 THEN ss[i] ELSE f[i - 1] \o ss[i]
                      /\ g[i] = IF i = 1 THEN ss[i] ELSE g[i - 1] \o ss[i]
    OBVIOUS
  <2>1. i \in 1 .. Len(ss) /\ i \in 1 .. Len(tt) /\ ss[i] = tt[i]
    BY <1>1
  <2>2. f[i] = IF i = 1 THEN ss[i] ELSE f[i - 1] \o ss[i]
    BY <2>1 DEF JoinSteps
  <2>3. g[i] = IF i = 1 THEN tt[i] ELSE g[i - 1] \o tt[i]
    BY <2>1 DEF JoinSteps
  <2>4. QED
    BY <2>1, <2>2, <2>3
<1>3. 0 \in K
  BY <1>2
<1>4. ASSUME NEW k \in K
      PROVE  k + 1 \in K
  <2> SUFFICES ASSUME (k + 1) + 1 <= n
               PROVE  f[(k + 1) + 1] = g[(k + 1) + 1]
    OBVIOUS
  <2> DEFINE j == (k + 1) + 1
  <2>1. f[k + 1] = g[k + 1] /\ j \in 1 .. n /\ j # 1 /\ j - 1 = k + 1
    BY <1>1, <1>4
  <2> HIDE DEF j
  <2>2. f[j] = f[j - 1] \o ss[j] /\ g[j] = g[j - 1] \o ss[j]
    BY <1>2, <2>1
  <2>3. f[j] = g[j]
    BY <2>1, <2>2
  <2>4. QED
    BY <2>3 DEF j
<1>5. K = Nat
  <2>1. K \in SUBSET Nat
    OBVIOUS
  <2> HIDE DEF K
  <2>2. QED
    BY <1>3, <1>4, <2>1, NatSetInduction
<1>6. ASSUME NEW i \in 1 .. n
      PROVE  f[i] = g[i]
  <2>1. i - 1 \in Nat /\ (i - 1) + 1 = i /\ i <= n
    BY <1>1
  <2>2. i - 1 \in K
    BY <1>5, <2>1
  <2>3. QED
    BY <2>1, <2>2
<1>7. QED
  BY <1>6

\* FlattenSeq is the last list of a join.
LEMMA FlattenJoins ==
  ASSUME NEW S, NEW ss \in Seq(Seq(S)), NEW f, JoinRun(S, ss, f), ss # << >>
  PROVE  FlattenSeq(ss) = f[Len(ss)]
<1> DEFINE n == Len(ss)
           g == CHOOSE g : g = [i \in 1 .. n |-> IF i = 1 THEN ss[i] ELSE g[i - 1] \o ss[i]]
<1>1. n \in Nat /\ n # 0
  BY EmptySeq
<1>2. FlattenSeq(ss) = g[n]
  BY <1>1 DEF FlattenSeq
<1>3. f = [i \in 1 .. n |-> IF i = 1 THEN ss[i] ELSE f[i - 1] \o ss[i]]
  BY DEF JoinRun, JoinSteps
<1>4. g = [i \in 1 .. n |-> IF i = 1 THEN ss[i] ELSE g[i - 1] \o ss[i]]
  BY <1>3
<1>5. JoinSteps(ss, g)
  <2> HIDE DEF g
  <2>1. QED
    BY <1>4 DEF JoinSteps
<1> HIDE DEF g
<1>6. \A i \in 1 .. n : f[i] = g[i]
  <2>1. SameStart(n, ss, ss)
    BY <1>1 DEF SameStart
  <2>2. QED
    BY <1>5, <2>1, JoinsAgree DEF JoinRun
<1>7. QED
  BY <1>1, <1>2, <1>6

\* A list that is added to the lists that are joined comes last.
LEMMA FlattenAppend ==
  ASSUME NEW S, NEW ss \in Seq(Seq(S)), NEW t \in Seq(S)
  PROVE  /\ FlattenSeq(ss) \in Seq(S)
         /\ FlattenSeq(Append(ss, t)) = FlattenSeq(ss) \o t
<1> DEFINE n == Len(ss)
           T == Seq(S)
           tt == Append(ss, t)
<1>1. /\ n \in Nat
      /\ tt \in Seq(T) /\ Len(tt) = n + 1 /\ tt[n + 1] = t
      /\ \A i \in 1 .. n : tt[i] = ss[i]
      /\ tt # << >>
  BY AppendProperties, EmptySeq
<1> HIDE DEF tt
<1>2. PICK f : JoinRun(S, ss, f)
  BY JoinExists
<1>3. PICK g : JoinRun(S, tt, g)
  BY <1>1, JoinExists
<1>4. FlattenSeq(tt) = g[n + 1]
  BY <1>1, <1>3, FlattenJoins
<1>5. CASE ss = << >>
  <2>1. n = 0 /\ FlattenSeq(ss) = << >>
    BY <1>5, EmptySeq DEF FlattenSeq
  <2>2. g[1] = t
    BY <1>1, <1>3, <2>1 DEF JoinRun, JoinSteps
  <2>3. QED
    BY <1>4, <2>1, <2>2, ConcatEmptySeq DEF tt
<1>6. CASE ss # << >>
  <2>1. FlattenSeq(ss) = f[n] /\ n \in 1 .. n
    BY <1>1, <1>2, <1>6, FlattenJoins, EmptySeq
  <2>2. \A i \in 1 .. n + 1 : g[i] = IF i = 1 THEN tt[i] ELSE g[i - 1] \o tt[i]
    BY <1>1, <1>3 DEF JoinRun, JoinSteps
  <2>3. f[n] = g[n]
    <3>1. SameStart(n, ss, tt)
      BY <1>1 DEF SameStart
    <3>2. tt \in Seq(Seq(S))
      BY <1>1
    <3> HIDE DEF n
    <3>3. JoinSteps(ss, f) /\ JoinSteps(tt, g)
      BY <1>2, <1>3 DEF JoinRun
    <3>4. \A i \in 1 .. n : f[i] = g[i]
      BY <3>1, <3>2, <3>3, JoinsAgree
    <3>5. QED
      BY <2>1, <3>4
  <2>4. g[n + 1] = g[n] \o t
    <3>1. n + 1 \in 1 .. n + 1 /\ n + 1 # 1 /\ (n + 1) - 1 = n
      BY <1>1, <2>1
    <3>2. QED
      BY <1>1, <2>2, <3>1
  <2>5. f[n] \in T
    BY <1>2, <2>1 DEF JoinRun
  <2>6. QED
    BY <1>4, <2>1, <2>3, <2>4, <2>5 DEF tt
<1>7. QED
  BY <1>5, <1>6

\* The list a function makes of each line of a list.
Mapped(f, s) == [i \in DOMAIN s |-> f[s[i]]]

\* What it makes of two lists, one after the other.
LEMMA MappedConcat ==
  ASSUME NEW S, NEW T, NEW s \in Seq(S), NEW t \in Seq(S), NEW f \in [S -> T],
         NEW st, Follows(st, s, t)
  PROVE  /\ Follows(Mapped(f, st), Mapped(f, s), Mapped(f, t))
         /\ Mapped(f, s) \in Seq(T)
         /\ Mapped(f, t) \in Seq(T)
<1> DEFINE x == [i \in DOMAIN s |-> f[s[i]]]
           y == [i \in DOMAIN t |-> f[t[i]]]
           z == [i \in DOMAIN st |-> f[st[i]]]
<1>1. /\ st \in Seq(S) /\ Len(st) = Len(s) + Len(t)
      /\ \A i \in 1 .. Len(s) : st[i] = s[i]
      /\ \A j \in 1 .. Len(t) : st[Len(s) + j] = t[j]
  BY ConcatSays DEF Follows
<1>2. Len(s) \in Nat /\ Len(t) \in Nat
  OBVIOUS
<1>3. x \in Seq(T) /\ Len(x) = Len(s) /\ y \in Seq(T) /\ Len(y) = Len(t)
  OBVIOUS
<1>4. z \in Seq(T) /\ Len(z) = Len(s) + Len(t)
  BY <1>1
<1>5. Parts(x, y, z, Len(s), Len(t))
  BY <1>1, <1>2, <1>3, <1>4 DEF Parts
<1> HIDE DEF x, y, z
<1>6. x \o y = z
  BY <1>3, <1>4, <1>5, ListOfParts
<1>7. QED
  BY <1>3, <1>6 DEF x, y, z, Mapped, Follows

=============================================================================
