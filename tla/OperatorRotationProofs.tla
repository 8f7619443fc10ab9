------------------------ MODULE OperatorRotationProofs ------------------------
(***************************************************************************)
(* Proofs about the rotation, for any finite set of operators and any      *)
(* number of concurrent calls: the variables keep their types, no operator *)
(* ever stands in line twice, and no operator overtakes another but as a   *)
(* newcomer or by the other's turn.  And, for calls that come one after    *)
(* the other, that turns are fair and null means that all are busy.        *)
(***************************************************************************)
EXTENDS RotationTurns, FiniteSetTheorems, SequenceTheorems, TLAPS

(* The ranks of a finite set of places are exactly 1 to its size: Rank is  *)
(* one-to-one from the set into as many numbers, hence also onto them.     *)
LEMMA RankOnto ==
  ASSUME NEW places, IsFiniteSet(places), places \subseteq Nat
  PROVE  /\ Cardinality(places) \in Nat
         /\ \A k \in 1 .. Cardinality(places) : \E i \in places : Rank(i, places) = k
         /\ \A i \in places : Rank(i, places) \in 1 .. Cardinality(places)
         /\ \A i, j \in places : Rank(i, places) = Rank(j, places) => i = j
<1> DEFINE n == Cardinality(places)
           upTo(i) == {m \in places : m <= i}
           rank == [i \in places |-> Rank(i, places)]
<1>1. n \in Nat
  BY FS_CardinalityType
<1>2. ASSUME NEW i \in places
      PROVE  /\ IsFiniteSet(upTo(i))
             /\ Rank(i, places) \in 1 .. n
  <2>1. /\ IsFiniteSet(upTo(i))
        /\ Cardinality(upTo(i)) <= n
    BY FS_Subset, upTo(i) \subseteq places
  <2>2. Cardinality(upTo(i)) \in Nat /\ (Cardinality(upTo(i)) = 0 <=> upTo(i) = {})
    BY <2>1, FS_CardinalityType, FS_EmptySet
  <2>3. i \in upTo(i)
    OBVIOUS
  <2> QED
    BY <1>1, <2>1, <2>2, <2>3 DEF Rank
<1>3. ASSUME NEW i \in places, NEW j \in places, i < j
      PROVE  Rank(i, places) # Rank(j, places)
  <2> /\ i \in Nat /\ j \in Nat
      /\ \A m \in places : m \in Nat
    OBVIOUS
  <2>4. ASSUME NEW m \in upTo(i) PROVE m \in upTo(j)
    BY <1>3
  <2>5. j \in upTo(j) /\ j \notin upTo(i)
    BY <1>3
  <2>1. upTo(i) \in SUBSET upTo(j) /\ j \in upTo(j) /\ j \notin upTo(i)
    BY <2>4, <2>5
  <2>2. IsFiniteSet(upTo(j))
    BY <1>2
  <2>3. Cardinality(upTo(j)) = Cardinality(upTo(i)) => upTo(j) = upTo(i)
    BY <2>1, <2>2, FS_Subset
  <2> QED
    BY <2>1, <2>3 DEF Rank
<1>4. rank \in Injection(places, 1 .. n)
  <2>1. rank \in [places -> 1 .. n]
    BY <1>2
  <2>2. ASSUME NEW i \in places, NEW j \in places, rank[i] = rank[j]
        PROVE  i = j
    BY <1>3, <2>2
  <2> QED
    BY <2>1, <2>2 DEF Injection, IsInjective
<1>5. IsFiniteSet(1 .. n) /\ Cardinality(1 .. n) = n
  BY <1>1, FS_Interval
<1>6. rank \in Surjection(places, 1 .. n)
  BY <1>4, <1>5, FS_Injection
<1>7. \A i, j \in places : Rank(i, places) = Rank(j, places) => i = j
  BY <1>4 DEF Injection, IsInjective
<1> QED
  BY <1>1, <1>2, <1>6, <1>7 DEF Surjection

(* A place no later has no higher rank. *)
LEMMA RankGrows ==
  ASSUME NEW places, IsFiniteSet(places), places \subseteq Nat,
         NEW i \in places, NEW j \in places, i <= j
  PROVE  Rank(i, places) <= Rank(j, places)
<1> DEFINE upTo(k) == {m \in places : m <= k}
<1>1. \A m \in places : m \in Nat
  OBVIOUS
<1>2. ASSUME NEW m \in upTo(i) PROVE m \in upTo(j)
  <2>1. m \in places /\ m <= i
    OBVIOUS
  <2> QED
    BY <1>1, <2>1
<1>3. IsFiniteSet(upTo(j))
  BY FS_Subset, upTo(j) \subseteq places
<1>4. Cardinality(upTo(i)) <= Cardinality(upTo(j))
  BY <1>2, <1>3, FS_Subset
<1> QED
  BY <1>4 DEF Rank

(* What LREM leaves of a list: a list over the same set that has lost      *)
(* exactly the members of gone, repeats nobody the list did not, and keeps *)
(* those who are left in their order.                                      *)
LEMMA WithoutProperties ==
  ASSUME NEW S, NEW list \in Seq(S), NEW gone
  PROVE  /\ Without(list, gone) \in Seq(S)
         /\ Range(Without(list, gone)) = Range(list) \ gone
         /\ IsInjective(list) => IsInjective(Without(list, gone))
         /\ \A a, b : Before(Without(list, gone), a, b) => Before(list, a, b)
<1> DEFINE places == Survivors(list, gone)
           n == Cardinality(places)
           place(k) == CHOOSE i \in places : Rank(i, places) = k
           left == [k \in 1 .. n |-> list[place(k)]]
<1>1. /\ IsFiniteSet(places)
      /\ places \subseteq Nat
      /\ places \subseteq DOMAIN list
      /\ \A i \in places : list[i] \in S \ gone
  <2>1. DOMAIN list = 1 .. Len(list) /\ Len(list) \in Nat
    BY LenProperties
  <2>2. IsFiniteSet(1 .. Len(list))
    BY <2>1, FS_Interval
  <2>3. places \in SUBSET (1 .. Len(list))
    BY <2>1 DEF Survivors
  <2> QED
    BY <2>1, <2>2, <2>3, FS_Subset, ElementOfSeq DEF Survivors
<1>2. /\ n \in Nat
      /\ \A k \in 1 .. n : \E i \in places : Rank(i, places) = k
      /\ \A i \in places : Rank(i, places) \in 1 .. n
      /\ \A i, j \in places : Rank(i, places) = Rank(j, places) => i = j
  BY <1>1, RankOnto
<1>3. \A k \in 1 .. n : place(k) \in places /\ Rank(place(k), places) = k
  BY <1>2
<1>4. Without(list, gone) = left
  BY DEF Without
<1>5. /\ left \in Seq(S) /\ DOMAIN left = 1 .. n
      /\ \A k \in 1 .. n : left[k] = list[place(k)]
  BY <1>1, <1>2, <1>3
<1> HIDE DEF left, place
<1>6. Range(left) \subseteq Range(list) \ gone
  <2>1. ASSUME NEW k \in 1 .. n PROVE left[k] \in Range(list) \ gone
    BY <1>1, <1>3, <1>5 DEF Range
  <2>2. ASSUME NEW x \in Range(left) PROVE \E k \in 1 .. n : x = left[k]
    BY <1>5 DEF Range
  <2> QED
    BY <2>1, <2>2
<1>10. ASSUME NEW x \in Range(list) \ gone PROVE x \in Range(left)
  <2>1. PICK i \in DOMAIN list : x = list[i]
    BY DEF Range
  <2>2. i \in places
    BY <2>1 DEF Survivors
  <2> DEFINE k == Rank(i, places)
  <2>3. k \in 1 .. n /\ place(k) = i
    BY <1>2, <1>3, <2>2
  <2> HIDE DEF k
  <2> QED
    BY <1>5, <2>1, <2>3 DEF Range
<1>7. ASSUME IsInjective(list), NEW k \in 1 .. n, NEW m \in 1 .. n, left[k] = left[m]
      PROVE  k = m
  <2>1. place(k) = place(m)
    BY <1>1, <1>3, <1>5, <1>7 DEF IsInjective
  <2> QED
    BY <1>3, <2>1
<1>8. IsInjective(list) => IsInjective(left)
  BY <1>5, <1>7 DEF IsInjective
<1>9. ASSUME NEW a, NEW b, Before(left, a, b) PROVE Before(list, a, b)
  <2>1. PICK k \in 1 .. n, m \in 1 .. n : k < m /\ left[k] = a /\ left[m] = b
    BY <1>5, <1>9 DEF Before
  <2>2. /\ place(k) \in places /\ Rank(place(k), places) = k /\ list[place(k)] = a
        /\ place(m) \in places /\ Rank(place(m), places) = m /\ list[place(m)] = b
    BY <1>3, <1>5, <2>1
  <2>3. place(k) \in Nat /\ place(m) \in Nat
    BY <1>1, <2>2
  <2>4. ~(place(m) <= place(k))
    <3>1. SUFFICES ASSUME place(m) <= place(k) PROVE FALSE
      OBVIOUS
    <3>2. m <= k
      BY <1>1, <2>2, <3>1, RankGrows
    <3> QED
      BY <1>2, <2>1, <3>2
  <2>5. place(k) < place(m)
    BY <2>3, <2>4
  <2> QED
    BY <1>1, <2>2, <2>5 DEF Before
<1> QED
  BY <1>4, <1>5, <1>6, <1>8, <1>9, <1>10

(* The list after a sync: newcomers (none of whom is left in the list) in  *)
(* front of those who stay.                                                *)
LEMMA FrontedInjective ==
  ASSUME NEW S, NEW front \in Seq(S), NEW back \in Seq(S),
         IsInjective(front), IsInjective(back), Range(front) \cap Range(back) = {}
  PROVE  /\ front \o back \in Seq(S) /\ IsInjective(front \o back)
         /\ Range(front \o back) = Range(front) \cup Range(back)
<1> DEFINE both == front \o back
<1>1. /\ both \in Seq(S)
      /\ DOMAIN both = 1 .. Len(front) + Len(back)
      /\ Len(front) \in Nat /\ Len(back) \in Nat
      /\ DOMAIN front = 1 .. Len(front) /\ DOMAIN back = 1 .. Len(back)
      /\ \A i \in 1 .. Len(front) + Len(back) :
           both[i] = IF i <= Len(front) THEN front[i] ELSE back[i - Len(front)]
  BY ConcatProperties, LenProperties
<1>2. ASSUME NEW i \in DOMAIN both, NEW j \in DOMAIN both, both[i] = both[j]
      PROVE  i = j
  <2>1. CASE i <= Len(front) /\ j <= Len(front)
    BY <1>1, <1>2, <2>1 DEF IsInjective
  <2>2. CASE i > Len(front) /\ j > Len(front)
    <3>1. /\ i - Len(front) \in DOMAIN back /\ j - Len(front) \in DOMAIN back
          /\ back[i - Len(front)] = back[j - Len(front)]
      BY <1>1, <1>2, <2>2
    <3>2. i - Len(front) = j - Len(front)
      BY <3>1 DEF IsInjective
    <3> QED
      BY <1>1, <3>2
  <2>3. ASSUME NEW a \in DOMAIN both, NEW b \in DOMAIN both,
               a <= Len(front), b > Len(front)
        PROVE  both[a] # both[b]
    <3>1. both[a] = front[a] /\ a \in DOMAIN front
      BY <1>1, <2>3
    <3>2. both[b] = back[b - Len(front)] /\ b - Len(front) \in DOMAIN back
      BY <1>1, <2>3
    <3>3. both[a] \in Range(front) /\ both[b] \in Range(back)
      BY <3>1, <3>2 DEF Range
    <3> QED
      BY <3>3
  <2> QED
    BY <1>1, <1>2, <2>1, <2>2, <2>3
<1> HIDE DEF both
<1>3. ASSUME NEW i \in DOMAIN both PROVE both[i] \in Range(front) \cup Range(back)
  <2>1. CASE i <= Len(front)
    <3>1. i \in DOMAIN front /\ both[i] = front[i]
      BY <1>1, <2>1
    <3> QED
      BY <3>1 DEF Range
  <2>2. CASE ~(i <= Len(front))
    <3>1. i - Len(front) \in DOMAIN back /\ both[i] = back[i - Len(front)]
      BY <1>1, <2>2
    <3> QED
      BY <3>1 DEF Range
  <2> QED
    BY <2>1, <2>2
<1>4. ASSUME NEW i \in DOMAIN front PROVE front[i] \in Range(both)
  <2>1. i \in DOMAIN both /\ both[i] = front[i]
    BY <1>1
  <2> QED
    BY <2>1 DEF Range
<1>5. ASSUME NEW i \in DOMAIN back PROVE back[i] \in Range(both)
  <2>1. i + Len(front) \in DOMAIN both /\ both[i + Len(front)] = back[i]
    BY <1>1
  <2> QED
    BY <2>1 DEF Range
<1>6. Range(both) = Range(front) \cup Range(back)
  <2>1. Range(both) \subseteq Range(front) \cup Range(back)
    BY <1>3 DEF Range
  <2>2. Range(front) \subseteq Range(both)
    BY <1>4 DEF Range
  <2>3. Range(back) \subseteq Range(both)
    BY <1>5 DEF Range
  <2> QED
    BY <2>1, <2>2, <2>3
<1> QED
  BY <1>1, <1>2, <1>6 DEF IsInjective, both

(* Who stands behind everybody in front of the list stands in its back.    *)
LEMMA FrontedOrder ==
  ASSUME NEW S, NEW front \in Seq(S), NEW back \in Seq(S),
         NEW a, NEW b, a \notin Range(front), Before(front \o back, a, b)
  PROVE  Before(back, a, b)
<1> DEFINE both == front \o back
<1>1. /\ DOMAIN both = 1 .. Len(front) + Len(back)
      /\ Len(front) \in Nat /\ Len(back) \in Nat
      /\ DOMAIN front = 1 .. Len(front) /\ DOMAIN back = 1 .. Len(back)
      /\ \A i \in 1 .. Len(front) + Len(back) :
           both[i] = IF i <= Len(front) THEN front[i] ELSE back[i - Len(front)]
  BY ConcatProperties, LenProperties
<1>2. PICK i \in DOMAIN both, j \in DOMAIN both : i < j /\ both[i] = a /\ both[j] = b
  BY DEF Before
<1> HIDE DEF both
<1>3. ~(i <= Len(front))
  <2>1. i <= Len(front) => i \in DOMAIN front /\ front[i] = a
    BY <1>1, <1>2
  <2> QED
    BY <2>1 DEF Range
<1>4. /\ i - Len(front) \in DOMAIN back /\ back[i - Len(front)] = a
      /\ j - Len(front) \in DOMAIN back /\ back[j - Len(front)] = b
      /\ i - Len(front) < j - Len(front)
  BY <1>1, <1>2, <1>3
<1> QED
  BY <1>4 DEF Before

(* In a list that repeats nobody, of two entries only one is the earlier.  *)
LEMMA BeforeOneWay ==
  ASSUME NEW S, NEW list \in Seq(S), IsInjective(list), NEW a, NEW b, Before(list, a, b)
  PROVE  ~Before(list, b, a)
<1>1. SUFFICES ASSUME Before(list, b, a) PROVE FALSE
  OBVIOUS
<1>2. \A i \in DOMAIN list : i \in Nat
  BY LenProperties
<1>3. PICK i \in DOMAIN list, j \in DOMAIN list : i < j /\ list[i] = a /\ list[j] = b
  BY DEF Before
<1>4. PICK k \in DOMAIN list, m \in DOMAIN list : k < m /\ list[k] = b /\ list[m] = a
  BY <1>1 DEF Before
<1>5. k = j /\ m = i
  BY <1>3, <1>4 DEF IsInjective
<1> QED
  BY <1>2, <1>3, <1>4, <1>5

(* One hop of the rotation repeats nobody, and lets others past nobody but *)
(* the operator at the head.                                               *)
LEMMA RotatedProperties ==
  ASSUME NEW S, NEW list \in Seq(S), list # << >>
  PROVE  /\ Rotated(list) \in Seq(S)
         /\ Head(list) \in S /\ Head(list) = list[1]
         /\ Len(list) \in Nat \ {0}
         /\ DOMAIN list = 1 .. Len(list) /\ DOMAIN Rotated(list) = 1 .. Len(list)
         /\ \A i \in 1 .. Len(list) :
              Rotated(list)[i] = IF i < Len(list) THEN list[i + 1] ELSE list[1]
         /\ IsInjective(list) => IsInjective(Rotated(list))
         /\ IsInjective(list) =>
              \A a, b : Before(list, a, b) /\ Before(Rotated(list), b, a) => a = Head(list)
<1> DEFINE n == Len(list)
<1>1. /\ Head(list) \in S /\ Head(list) = list[1]
      /\ Tail(list) \in Seq(S) /\ Len(Tail(list)) = n - 1
      /\ \A i \in 1 .. n - 1 : Tail(list)[i] = list[i + 1]
      /\ n \in Nat \ {0} /\ DOMAIN list = 1 .. n
  BY HeadTailProperties, LenProperties, EmptySeq
<1> HIDE DEF n
<1>2. /\ Rotated(list) \in Seq(S)
      /\ DOMAIN Rotated(list) = 1 .. n
      /\ \A i \in 1 .. n : Rotated(list)[i] = IF i < n THEN list[i + 1] ELSE list[1]
  <2> DEFINE t == Tail(list)  h == Head(list)
  <2>1. t \in Seq(S) /\ h \in S /\ Len(t) = n - 1 /\ Len(t) + 1 = n
    BY <1>1
  <2> HIDE DEF t, h
  <2>2. /\ Append(t, h) \in Seq(S)
        /\ Len(Append(t, h)) = n
        /\ \A i \in 1 .. n - 1 : Append(t, h)[i] = t[i]
        /\ Append(t, h)[n] = h
    BY <2>1, AppendProperties
  <2>3. DOMAIN Append(t, h) = 1 .. n
    BY <2>2, LenProperties
  <2>4. \A i \in 1 .. n : i < n => i \in 1 .. n - 1
    BY <1>1
  <2>5. \A i \in 1 .. n : ~(i < n) => i = n
    BY <1>1
  <2> QED
    BY <1>1, <2>2, <2>3, <2>4, <2>5 DEF Rotated, t, h
<1>3. ASSUME IsInjective(list), NEW i \in 1 .. n, NEW j \in 1 .. n,
             Rotated(list)[i] = Rotated(list)[j]
      PROVE  i = j
  <2>1. CASE i < n /\ j < n
    <3>1. i + 1 \in 1 .. n /\ j + 1 \in 1 .. n /\ list[i + 1] = list[j + 1]
      BY <1>1, <1>2, <1>3, <2>1
    <3>2. i + 1 = j + 1
      BY <1>1, <1>3, <3>1 DEF IsInjective
    <3> QED
      BY <1>1, <3>2
  <2>2. CASE i < n /\ j = n
    <3>1. i + 1 \in 1 .. n /\ 1 \in 1 .. n /\ list[i + 1] = list[1]
      BY <1>1, <1>2, <1>3, <2>2
    <3> QED
      BY <1>1, <1>3, <3>1 DEF IsInjective
  <2>3. CASE i = n /\ j < n
    <3>1. j + 1 \in 1 .. n /\ 1 \in 1 .. n /\ list[j + 1] = list[1]
      BY <1>1, <1>2, <1>3, <2>3
    <3> QED
      BY <1>1, <1>3, <3>1 DEF IsInjective
  <2>4. i < n \/ i = n
    BY <1>1
  <2>5. j < n \/ j = n
    BY <1>1
  <2> QED
    BY <2>1, <2>2, <2>3, <2>4, <2>5
<1>4. ASSUME IsInjective(list), NEW a, NEW b, Before(list, a, b), Before(Rotated(list), b, a)
      PROVE  a = Head(list)
  <2>1. PICK i \in 1 .. n, j \in 1 .. n : i < j /\ list[i] = a /\ list[j] = b
    BY <1>1, <1>4 DEF Before
  <2>2. PICK k \in 1 .. n, m \in 1 .. n : k < m /\ Rotated(list)[k] = b /\ Rotated(list)[m] = a
    BY <1>2, <1>4 DEF Before
  <2>3. k < n /\ k + 1 \in 1 .. n /\ list[k + 1] = b
    BY <1>1, <1>2, <2>2
  <2>4. k + 1 = j
    BY <1>1, <1>4, <2>1, <2>3 DEF IsInjective
  <2>5. CASE m < n
    <3>1. m + 1 \in 1 .. n /\ list[m + 1] = a
      BY <1>1, <1>2, <2>2, <2>5
    <3>2. m + 1 = i
      BY <1>1, <1>4, <2>1, <3>1 DEF IsInjective
    <3> QED
      BY <1>1, <2>1, <2>2, <2>4, <3>2
  <2>6. CASE ~(m < n)
    BY <1>1, <1>2, <2>2, <2>6
  <2> QED
    BY <2>5, <2>6
<1> QED
  BY <1>1, <1>2, <1>3, <1>4 DEF IsInjective, n

-----------------------------------------------------------------------------

LEMMA EmptyOrder == << >> \in Orders
<1>1. Cardinality(Operators) \in Nat
  BY OperatorsFinite, FS_CardinalityType
<1>2. << >> \in [1 .. 0 -> Operators] /\ 0 \in 0 .. Cardinality(Operators)
  BY <1>1
<1>3. IsInjective(<< >>)
  BY DEF IsInjective
<1> QED
  BY <1>2, <1>3 DEF Orders

LEMMA OrderProperties ==
  ASSUME NEW order \in Orders
  PROVE  order \in Seq(Operators) /\ IsInjective(order) /\ Range(order) \subseteq Operators
<1>1. Cardinality(Operators) \in Nat
  BY OperatorsFinite, FS_CardinalityType
<1>2. PICK n \in 0 .. Cardinality(Operators) : order \in [1 .. n -> Operators]
  BY DEF Orders
<1>3. order \in Seq(Operators)
  BY <1>1, <1>2
<1>4. Range(order) \subseteq Operators
  BY <1>2 DEF Range
<1> QED
  BY <1>3, <1>4 DEF Orders

(* The inductive invariant: the list repeats nobody.  The callers' own     *)
(* lists do not either, which is part of their type.                       *)
IInv == TypeOK /\ NoOperatorTwice

(* The list a sync writes, from what it read at any earlier moment: those  *)
(* it adds are removed first, so the front and the rest share nobody, and  *)
(* who is none of them gets ahead of nobody.                               *)
LEMMA SyncedProperties ==
  ASSUME IInv, NEW c \in Calls
  PROVE  /\ Synced(c) \in Seq(Operators) /\ IsInjective(Synced(c))
         /\ Range(Synced(c)) = ToAdd(c) \cup (Range(rotation) \ ToRemove(c))
         /\ \A a, b : b \notin ToAdd(c) /\ Before(Synced(c), b, a) => Before(rotation, b, a)
<1> DEFINE order == call[c].eligible
           front == Without(order, call[c].seen)
           back == Without(rotation, ToRemove(c) \cup ToAdd(c))
<1>1. order \in Orders /\ rotation \in Seq(Operators) /\ IsInjective(rotation)
  BY DEF IInv, TypeOK, CallType, NoOperatorTwice
<1>2. order \in Seq(Operators) /\ IsInjective(order)
  BY <1>1, OrderProperties
<1>3. /\ front \in Seq(Operators) /\ IsInjective(front)
      /\ Range(front) = ToAdd(c)
  BY <1>2, WithoutProperties DEF ToAdd
<1>4. /\ back \in Seq(Operators) /\ IsInjective(back)
      /\ Range(back) = Range(rotation) \ (ToRemove(c) \cup ToAdd(c))
      /\ \A a, b : Before(back, b, a) => Before(rotation, b, a)
  BY <1>1, WithoutProperties
<1> HIDE DEF front, back
<1>5. /\ front \o back \in Seq(Operators) /\ IsInjective(front \o back)
      /\ Range(front \o back) = Range(front) \cup Range(back)
  BY <1>3, <1>4, FrontedInjective
<1>6. ASSUME NEW a, NEW b, b \notin ToAdd(c), Before(front \o back, b, a)
      PROVE  Before(rotation, b, a)
  <2>1. Before(back, b, a)
    BY <1>3, <1>4, <1>6, FrontedOrder
  <2> QED
    BY <1>4, <2>1
<1>7. Range(front \o back) = ToAdd(c) \cup (Range(rotation) \ ToRemove(c))
  BY <1>3, <1>4, <1>5
<1> QED
  BY <1>5, <1>6, <1>7 DEF Synced, front, back

LEMMA InitHolds == Init => IInv
<1> SUFFICES ASSUME Init PROVE IInv
  OBVIOUS
<1>1. Idle \in CallType
  BY EmptyOrder DEF Idle, CallType
<1>2. TypeOK
  BY <1>1, EmptySeq DEF Init, TypeOK
<1>3. NoOperatorTwice
  BY DEF Init, NoOperatorTwice, IsInjective
<1> QED
  BY <1>2, <1>3 DEF IInv

LEMMA NextPreserves == IInv /\ [Next]_vars => IInv'
<1> SUFFICES ASSUME IInv, [Next]_vars PROVE IInv'
  OBVIOUS
<1> USE DEF IInv
<1>1. /\ rotation \in Seq(Operators)
      /\ call \in [Calls -> CallType]
      /\ answer \in [Calls -> Operators \cup {Nobody}]
      /\ IsInjective(rotation)
  BY DEF TypeOK, NoOperatorTwice
<1>2. Idle \in CallType
  BY EmptyOrder DEF Idle, CallType
<1>3. CASE UNCHANGED vars
  BY <1>1, <1>3 DEF vars, TypeOK, NoOperatorTwice
<1>4. ASSUME NEW c \in Calls, PickNext(c) PROVE IInv'
  <2>1. PICK eligible \in Orders \ {<< >>} : \E under \in SUBSET Range(eligible) :
          call' = [call EXCEPT ![c] = [Idle EXCEPT !.at = "reading", !.picks = TRUE,
                                         !.eligible = eligible, !.under = under]]
    BY <1>4 DEF PickNext
  <2>2. PICK under \in SUBSET Range(eligible) :
          call' = [call EXCEPT ![c] = [Idle EXCEPT !.at = "reading", !.picks = TRUE,
                                         !.eligible = eligible, !.under = under]]
    BY <2>1
  <2>3. under \subseteq Operators
    BY OrderProperties
  <2>4. [Idle EXCEPT !.at = "reading", !.picks = TRUE,
                     !.eligible = eligible, !.under = under] \in CallType
    BY <1>2, <2>3 DEF CallType, Idle
  <2> QED
    BY <1>1, <1>4, <2>2, <2>4 DEF PickNext, TypeOK, NoOperatorTwice
<1>5. ASSUME NEW c \in Calls, Sync(c) PROVE IInv'
  <2>1. PICK eligible \in Orders :
          call' = [call EXCEPT ![c] = [Idle EXCEPT !.at = "reading", !.eligible = eligible]]
    BY <1>5 DEF Sync
  <2>2. [Idle EXCEPT !.at = "reading", !.eligible = eligible] \in CallType
    BY <1>2 DEF CallType, Idle
  <2> QED
    BY <1>1, <1>5, <2>1, <2>2 DEF Sync, TypeOK, NoOperatorTwice
<1>6. ASSUME NEW c \in Calls, ReadMembers(c) PROVE IInv'
  <2>1. Range(rotation) \subseteq Operators
    BY <1>1 DEF Range
  <2>2. [call[c] EXCEPT !.at = "writing", !.seen = Range(rotation)] \in CallType
    BY <1>1, <2>1 DEF CallType
  <2>3. call' = [call EXCEPT ![c] = [call[c] EXCEPT !.at = "writing", !.seen = Range(rotation)]]
    BY <1>1, <1>6 DEF ReadMembers, CallType
  <2> QED
    BY <1>1, <1>6, <2>2, <2>3 DEF ReadMembers, TypeOK, NoOperatorTwice
<1>7. ASSUME NEW c \in Calls, WriteMembers(c) PROVE IInv'
  <2>1. rotation' \in Seq(Operators) /\ IsInjective(rotation')
    BY <1>1, <1>7, SyncedProperties DEF WriteMembers
  <2>2. [Idle EXCEPT !.at = "measuring", !.picks = TRUE, !.under = call[c].under] \in CallType
    BY <1>1, <1>2 DEF CallType, Idle
  <2>3. call' \in [Calls -> CallType]
    BY <1>1, <1>2, <1>7, <2>2 DEF WriteMembers
  <2> QED
    BY <1>1, <1>7, <2>1, <2>3 DEF WriteMembers, TypeOK, NoOperatorTwice
<1>8. ASSUME NEW c \in Calls, NEW who \in Operators \cup {Nobody}, Return(c, who)
      PROVE  /\ call' \in [Calls -> CallType]
             /\ answer' \in [Calls -> Operators \cup {Nobody}]
  BY <1>1, <1>2, <1>8 DEF Return
<1>9. ASSUME NEW c \in Calls, ReadLength(c) PROVE IInv'
  <2>1. CASE rotation = << >>
    BY <1>1, <1>8, <1>9, <2>1 DEF ReadLength, TypeOK, NoOperatorTwice
  <2>2. CASE rotation # << >>
    <3>1. [call[c] EXCEPT !.at = "rotating", !.hops = Len(rotation)] \in CallType
      BY <1>1, LenProperties DEF CallType
    <3>2. call' = [call EXCEPT ![c] = [call[c] EXCEPT !.at = "rotating", !.hops = Len(rotation)]]
      BY <1>1, <1>9, <2>2 DEF ReadLength, CallType
    <3> QED
      BY <1>1, <1>9, <2>2, <3>1, <3>2 DEF ReadLength, TypeOK, NoOperatorTwice
  <2> QED
    BY <2>1, <2>2
<1>10. ASSUME NEW c \in Calls, RotateOnce(c) PROVE IInv'
  <2>1. /\ rotation' \in Seq(Operators) /\ IsInjective(rotation')
        /\ Head(rotation) \in Operators
    BY <1>1, <1>10, RotatedProperties DEF RotateOnce
  <2>2. CASE Head(rotation) \in call[c].under
    BY <1>1, <1>8, <1>10, <2>1, <2>2 DEF RotateOnce, TypeOK, NoOperatorTwice
  <2>3. CASE Head(rotation) \notin call[c].under /\ call[c].hops > 1
    <3>1. call[c].hops - 1 \in Nat
      BY <1>1, <2>3 DEF CallType
    <3>2. [call[c] EXCEPT !.hops = call[c].hops - 1] \in CallType
      BY <1>1, <3>1 DEF CallType
    <3>3. call' = [call EXCEPT ![c] = [call[c] EXCEPT !.hops = call[c].hops - 1]]
      BY <1>1, <1>10, <2>3 DEF RotateOnce, CallType
    <3> QED
      BY <1>1, <1>10, <2>1, <2>3, <3>2, <3>3 DEF RotateOnce, TypeOK, NoOperatorTwice
  <2>4. CASE Head(rotation) \notin call[c].under /\ ~(call[c].hops > 1)
    BY <1>1, <1>8, <1>10, <2>1, <2>4 DEF RotateOnce, TypeOK, NoOperatorTwice
  <2> QED
    BY <2>2, <2>3, <2>4
<1>11. ASSUME NEW c \in Calls, RotateEmpty(c) PROVE IInv'
  BY <1>1, <1>8, <1>11 DEF RotateEmpty, TypeOK, NoOperatorTwice
<1> QED
  BY <1>3, <1>4, <1>5, <1>6, <1>7, <1>9, <1>10, <1>11 DEF Next, Step

(* Only two commands let anybody past somebody: the MULTI of a sync, which *)
(* does so for those it adds, and LMOVE, for all past the head.            *)
LEMMA StepsKeepOrder == IInv /\ [Next]_vars => [OvertakesOnlyAsNewcomer]_vars
<1> SUFFICES ASSUME IInv, Next, NEW a \in Operators, NEW b \in Operators,
                    Before(rotation, a, b), Before(rotation', b, a)
             PROVE  \/ rotation' = Rotated(rotation) /\ a = Head(rotation)
                    \/ \E c \in Calls : call[c].at = "writing" /\ call'[c] # call[c] /\ b \in ToAdd(c)
  BY DEF OvertakesOnlyAsNewcomer
<1>1. /\ rotation \in Seq(Operators) /\ IsInjective(rotation)
      /\ call \in [Calls -> CallType]
  BY DEF IInv, TypeOK, NoOperatorTwice
<1>2. ~Before(rotation, b, a) /\ rotation' # rotation
  BY <1>1, BeforeOneWay
<1>3. PICK c \in Calls : WriteMembers(c) \/ RotateOnce(c)
  BY <1>2 DEF Next, Step, PickNext, Sync, ReadMembers, ReadLength, RotateEmpty
<1>4. CASE WriteMembers(c)
  <2>1. call[c].at = "writing" /\ rotation' = Synced(c)
    BY <1>2, <1>4 DEF WriteMembers
  <2>2. call'[c].at # "writing"
    BY <1>1, <1>4 DEF WriteMembers, Idle
  <2>3. b \in ToAdd(c)
    BY <1>2, <2>1, SyncedProperties
  <2> QED
    BY <2>1, <2>2, <2>3
<1>5. CASE RotateOnce(c)
  <2>1. rotation # << >> /\ rotation' = Rotated(rotation)
    BY <1>5 DEF RotateOnce
  <2> QED
    BY <1>1, <2>1, RotatedProperties
<1> QED
  BY <1>3, <1>4, <1>5

(* Every variable of the rotation keeps its type. *)
THEOREM RotationTypeCorrect == Spec => []TypeOK
<1>1. IInv => TypeOK
  BY DEF IInv
<1> QED
  BY <1>1, InitHolds, NextPreserves, PTL DEF Spec

(* For any number of operators and of concurrent calls, an operator gets   *)
(* ahead of another only as one whom a sync adds, or as the other goes     *)
(* from the head to the tail: syncs that work on a list read before        *)
(* another's write reorder nobody they did not mean to.                    *)
THEOREM RotationOrderKept == Spec => OrderOfOthersKept
<1> QED
  BY InitHolds, NextPreserves, StepsKeepOrder, PTL DEF Spec, OrderOfOthersKept

(* For any number of operators and of concurrent calls, no operator is     *)
(* ever in line twice: the LREM that sync puts before each LPUSH is enough *)
(* to make up for reading and writing the list in two commands.            *)
THEOREM RotationNoOperatorTwice == Spec => []NoOperatorTwice
<1>1. IInv => NoOperatorTwice
  BY DEF IInv
<1> QED
  BY <1>1, InitHolds, NextPreserves, PTL DEF Spec


-----------------------------------------------------------------------------
(***************************************************************************)
(* The turns.  A pick moves the head to the tail until somebody under      *)
(* capacity turns up, so that in the middle of it the line is out of       *)
(* order; the invariant therefore speaks of the line as it was before the  *)
(* hops of the call under way, and says that whoever was picked while      *)
(* somebody else stood by is behind that one.                              *)
(***************************************************************************)

(* While one call runs at a time.  During the hops of a pick, the places   *)
(* behind the hops still to go hold those already moved to the tail.       *)
StillInFront(i) == \A c \in Calls : call[c].at = "rotating" => i <= call[c].hops

(* Place i came before place j in the line as it was before those hops.    *)
CameFirst(i, j) ==
  \/ ~StillInFront(i) /\ StillInFront(j)
  \/ (StillInFront(i) <=> StillInFront(j)) /\ i < j

OneAtATime == \A c, d \in Calls : call[c].at # "idle" /\ call[d].at # "idle" => c = d

(* What the call in flight knows of the line at each place.                *)
KnowsTheLine(c) ==
  /\ call[c].at \in {"reading", "writing"} => call[c].under \subseteq Range(call[c].eligible)
  /\ call[c].at = "writing" => call[c].seen = Range(rotation)
  /\ call[c].at \in {"measuring", "rotating"} => call[c].under \subseteq Range(rotation)
  /\ call[c].at = "rotating" =>
       /\ call[c].hops \in 1 .. Len(rotation)
       /\ \A i \in DOMAIN rotation : call[c].hops < i => rotation[i] \notin call[c].under

(* Whoever was picked while o stood by is behind o.                        *)
PickedAreBehind ==
  \A i, j \in DOMAIN rotation :
    rotation[j] \in passedOver[rotation[i]] => CameFirst(i, j)

RecordsType == alone \in BOOLEAN /\ passedOver \in [Operators -> SUBSET Operators]

LineInv == OneAtATime /\ (\A c \in Calls : KnowsTheLine(c)) /\ PickedAreBehind

TurnsInv == IInv /\ RecordsType /\ (alone => LineInv)

LEMMA TurnsStart == InitTurns => TurnsInv
<1> SUFFICES ASSUME InitTurns PROVE TurnsInv
  OBVIOUS
<1>1. IInv
  BY InitHolds DEF InitTurns
<1>2. RecordsType
  BY DEF InitTurns, NoRecords, RecordsType
<1>3. \A c \in Calls : call[c].at = "idle"
  BY DEF InitTurns, Init, Idle
<1>4. OneAtATime /\ \A c \in Calls : KnowsTheLine(c)
  BY <1>3 DEF OneAtATime, KnowsTheLine
<1>5. PickedAreBehind
  BY DEF InitTurns, Init, PickedAreBehind
<1> QED
  BY <1>1, <1>2, <1>4, <1>5 DEF TurnsInv, LineInv

(* The records are kept beside the steps of the service. *)
LEMMA TurnsAreSteps == [NextTurns]_turnVars => [Next]_vars
<1> SUFFICES ASSUME [NextTurns]_turnVars PROVE [Next]_vars
  OBVIOUS
<1>1. CASE UNCHANGED turnVars
  BY <1>1 DEF turnVars
<1>2. CASE AloneNext
  BY <1>2 DEF AloneNext, Start, PickOne, SyncLine, Otherwise, Next, Step
<1>3. CASE CrossedNext
  BY <1>3 DEF CrossedNext
<1> QED
  BY <1>1, <1>2, <1>3 DEF NextTurns

(* While one call runs, the line is in its order unless that call rotates. *)
LEMMA NobodyRotates ==
  ASSUME OneAtATime, NEW c \in Calls, call[c].at \notin {"idle", "rotating"}
  PROVE  \A i, j : CameFirst(i, j) <=> i < j
<1>1. \A d \in Calls : call[d].at # "rotating"
  BY DEF OneAtATime
<1> QED
  BY <1>1 DEF CameFirst, StillInFront

LEMMA RotatingAlone ==
  ASSUME OneAtATime, NEW c \in Calls, call[c].at = "rotating"
  PROVE  \A i : StillInFront(i) <=> i <= call[c].hops
<1>1. \A d \in Calls : call[d].at = "rotating" => d = c
  BY DEF OneAtATime
<1> QED
  BY <1>1 DEF StillInFront

(* A call goes on, or ends, and the others do nothing.                     *)
LEMMA OthersIdle ==
  ASSUME OneAtATime, NEW c \in Calls, call[c].at # "idle",
         \A d \in Calls : d # c => call'[d] = call[d]
  PROVE  /\ \A d \in Calls : d # c => call'[d].at = "idle"
         /\ OneAtATime'
         /\ \A d \in Calls : d # c => KnowsTheLine(d)'
<1>1. \A d \in Calls : d # c => call'[d].at = "idle"
  BY DEF OneAtATime
<1>2. OneAtATime'
  BY <1>1 DEF OneAtATime
<1>3. \A d \in Calls : d # c => KnowsTheLine(d)'
  BY <1>1 DEF KnowsTheLine
<1> QED
  BY <1>1, <1>2, <1>3

LEMMA StartKeeps ==
  ASSUME IInv, LineInv, NEW c \in Calls, Start(c), alone'
  PROVE  LineInv'
<1>1. /\ call[c].at = "idle" /\ UNCHANGED <<rotation, passedOver>>
      /\ \A d \in Calls : d # c => call[d].at = "idle" /\ call'[d] = call[d]
      /\ call'[c].at = "reading"
      /\ call'[c].under \subseteq Range(call'[c].eligible)
  <2>1. call \in [Calls -> CallType]
    BY DEF IInv, TypeOK
  <2>2. \A d \in Calls \ {c} : call[d].at = "idle"
    BY DEF Start
  <2>3. UNCHANGED passedOver
    BY DEF Start
  <2>4. CASE PickNext(c)
    BY <2>1, <2>2, <2>3, <2>4 DEF PickNext, Idle
  <2>5. CASE Sync(c)
    BY <2>1, <2>2, <2>3, <2>5 DEF Sync, Idle
  <2> QED
    BY <2>4, <2>5 DEF Start
<1>2. OneAtATime'
  BY <1>1 DEF OneAtATime
<1>3. \A d \in Calls : KnowsTheLine(d)'
  BY <1>1 DEF KnowsTheLine
<1>4. \A i, j : (CameFirst(i, j) <=> i < j) /\ (CameFirst(i, j)' <=> i < j)
  BY <1>1 DEF CameFirst, StillInFront
<1>5. PickedAreBehind'
  BY <1>1, <1>4 DEF LineInv, PickedAreBehind
<1> QED
  BY <1>2, <1>3, <1>5 DEF LineInv

LEMMA ReadKeeps ==
  ASSUME IInv, LineInv, NEW c \in Calls, ReadMembers(c), UNCHANGED passedOver
  PROVE  LineInv'
<1>1. /\ call[c].at = "reading" /\ UNCHANGED rotation
      /\ \A d \in Calls : d # c => call'[d] = call[d]
      /\ call'[c].at = "writing" /\ call'[c].seen = Range(rotation)
      /\ call'[c].under = call[c].under /\ call'[c].eligible = call[c].eligible
  BY DEF IInv, TypeOK, CallType, ReadMembers
<1>2. OneAtATime' /\ \A d \in Calls : d # c => call'[d].at = "idle" /\ KnowsTheLine(d)'
  BY <1>1, OthersIdle DEF LineInv
<1>3. KnowsTheLine(c)'
  BY <1>1 DEF LineInv, KnowsTheLine
<1>4. \A i, j : (CameFirst(i, j) <=> i < j) /\ (CameFirst(i, j)' <=> i < j)
  <2>1. \A i, j : CameFirst(i, j) <=> i < j
    BY <1>1, NobodyRotates DEF LineInv
  <2>2. \A d \in Calls : call'[d].at # "rotating"
    BY <1>1, <1>2
  <2> QED
    BY <2>1, <2>2 DEF CameFirst, StillInFront
<1>5. PickedAreBehind'
  BY <1>1, <1>4 DEF LineInv, PickedAreBehind
<1> QED
  BY <1>2, <1>3, <1>5 DEF LineInv

(* A sync puts nobody who stays in front of another who stays, and starts  *)
(* the records of the others afresh.                                       *)
LEMMA SyncKeeps ==
  ASSUME IInv, RecordsType, LineInv, NEW c \in Calls, SyncLine(c)
  PROVE  LineInv'
<1>1. /\ call[c].at = "writing" /\ WriteMembers(c)
      /\ \A d \in Calls : d # c => call'[d] = call[d]
      /\ call'[c].at \in {"measuring", "idle"}
      /\ call'[c].under \subseteq call[c].under
  BY DEF IInv, TypeOK, CallType, SyncLine, WriteMembers, Idle
<1>2. OneAtATime' /\ \A d \in Calls : d # c => call'[d].at = "idle" /\ KnowsTheLine(d)'
  BY <1>1, OthersIdle DEF LineInv
<1>3. /\ call[c].under \subseteq Range(call[c].eligible)
      /\ call[c].seen = Range(rotation)
  BY <1>1 DEF LineInv, KnowsTheLine
<1>4. /\ rotation \in Seq(Operators) /\ IsInjective(rotation)
      /\ rotation' \in Seq(Operators) /\ IsInjective(rotation')
      /\ Range(rotation') = ToAdd(c) \cup (Range(rotation) \ ToRemove(c))
      /\ \A a, b : b \notin ToAdd(c) /\ Before(rotation', b, a) => Before(rotation, b, a)
  <2>1. rotation \in Seq(Operators) /\ IsInjective(rotation)
    BY DEF IInv, TypeOK, NoOperatorTwice
  <2>2. CASE ToAdd(c) \cup ToRemove(c) = {}
    BY <1>1, <2>1, <2>2 DEF WriteMembers
  <2>3. CASE ToAdd(c) \cup ToRemove(c) # {}
    BY <1>1, <2>1, <2>3, SyncedProperties DEF WriteMembers
  <2> QED
    BY <2>2, <2>3
<1>5. KnowsTheLine(c)'
  <2>1. call[c].under \subseteq Range(rotation')
    BY <1>3, <1>4 DEF ToAdd, ToRemove
  <2> QED
    BY <1>1, <2>1 DEF KnowsTheLine
<1>6. \A i, j : (CameFirst(i, j) <=> i < j) /\ (CameFirst(i, j)' <=> i < j)
  <2>1. \A i, j : CameFirst(i, j) <=> i < j
    BY <1>1, NobodyRotates DEF LineInv
  <2>2. \A d \in Calls : call'[d].at # "rotating"
    BY <1>1, <1>2
  <2> QED
    BY <2>1, <2>2 DEF CameFirst, StillInFront
<1>7. ASSUME NEW k \in DOMAIN rotation', NEW m \in DOMAIN rotation',
             rotation'[m] \in passedOver'[rotation'[k]]
      PROVE  k < m
  <2> DEFINE o == rotation'[k]  w == rotation'[m]
  <2>1. k \in Nat /\ m \in Nat /\ o \in Operators /\ w \in Operators
    BY <1>4, LenProperties, ElementOfSeq
  <2>2. o \notin ToRemove(c) \cup ToAdd(c) /\ w \in passedOver[o] /\ w \notin ToAdd(c)
    BY <1>7, <2>1 DEF SyncLine
  <2>3. o \in Range(rotation') /\ w \in Range(rotation')
    BY DEF Range
  <2>4. o \in Range(rotation) /\ w \in Range(rotation)
    BY <1>4, <2>2, <2>3
  <2> HIDE DEF o, w
  <2>5. PICK i \in DOMAIN rotation, j \in DOMAIN rotation : rotation[i] = o /\ rotation[j] = w
    BY <2>4 DEF Range
  <2>6. i < j
    BY <1>6, <2>2, <2>5 DEF LineInv, PickedAreBehind
  <2>7. Before(rotation, o, w)
    BY <2>5, <2>6 DEF Before
  <2>8. ~Before(rotation', w, o)
    BY <1>4, <2>2, <2>7, BeforeOneWay
  <2>9. ~(m < k)
    BY <2>8 DEF Before, o, w
  <2>10. o # w
    <3>1. i \in Nat /\ j \in Nat
      BY <1>4, LenProperties
    <3>2. i # j
      BY <2>6, <3>1
    <3> QED
      BY <1>4, <2>5, <3>2 DEF IsInjective
  <2>11. k # m
    BY <2>10 DEF o, w
  <2> QED
    BY <2>1, <2>9, <2>11
<1>8. PickedAreBehind'
  BY <1>6, <1>7 DEF PickedAreBehind
<1> QED
  BY <1>2, <1>5, <1>8 DEF LineInv

LEMMA MeasureKeeps ==
  ASSUME IInv, LineInv, NEW c \in Calls, ReadLength(c), UNCHANGED passedOver
  PROVE  LineInv'
<1>1. /\ call[c].at = "measuring" /\ UNCHANGED rotation
      /\ rotation \in Seq(Operators)
      /\ \A d \in Calls : d # c => call'[d] = call[d]
      /\ \/ call'[c].at = "idle"
         \/ /\ call'[c].at = "rotating" /\ call'[c].hops = Len(rotation)
            /\ call'[c].under = call[c].under /\ rotation # << >>
  BY DEF IInv, TypeOK, CallType, ReadLength, Return, Idle
<1>2. OneAtATime' /\ \A d \in Calls : d # c => call'[d].at = "idle" /\ KnowsTheLine(d)'
  BY <1>1, OthersIdle DEF LineInv
<1>3. Len(rotation) \in Nat /\ DOMAIN rotation = 1 .. Len(rotation)
  BY <1>1, LenProperties
<1>4. KnowsTheLine(c)'
  <2>1. call[c].under \subseteq Range(rotation)
    BY <1>1 DEF LineInv, KnowsTheLine
  <2>2. rotation # << >> => Len(rotation) # 0
    BY <1>1, EmptySeq
  <2> QED
    BY <1>1, <1>3, <2>1, <2>2 DEF KnowsTheLine
<1>5. \A i \in DOMAIN rotation : StillInFront(i)'
  BY <1>1, <1>2, <1>3 DEF StillInFront
<1>6. \A i, j : CameFirst(i, j) <=> i < j
  BY <1>1, NobodyRotates DEF LineInv
<1>7. PickedAreBehind'
  BY <1>1, <1>5, <1>6 DEF LineInv, PickedAreBehind, CameFirst
<1> QED
  BY <1>2, <1>4, <1>7 DEF LineInv

(* What one hop does to the places of the line, when the call that hops is *)
(* the only one.                                                           *)
LEMMA HopFacts ==
  ASSUME IInv, LineInv, NEW c \in Calls, RotateOnce(c)
  PROVE  /\ call[c].at = "rotating" /\ call[c].hops \in Nat
         /\ \A d \in Calls : d # c => call'[d] = call[d]
         /\ Len(rotation) \in Nat \ {0} /\ IsInjective(rotation)
         /\ 1 <= call[c].hops /\ call[c].hops <= Len(rotation)
         /\ DOMAIN rotation = 1 .. Len(rotation) /\ DOMAIN rotation' = 1 .. Len(rotation)
         /\ \A k \in 1 .. Len(rotation) :
              rotation'[k] = rotation[IF k < Len(rotation) THEN k + 1 ELSE 1]
         /\ Head(rotation) = rotation[1]
         /\ Range(rotation') = Range(rotation)
         /\ \A i : StillInFront(i) <=> i <= call[c].hops
         /\ call[c].under \subseteq Range(rotation)
         /\ \A i \in DOMAIN rotation : call[c].hops < i => rotation[i] \notin call[c].under
<1>1. /\ call[c].at = "rotating" /\ rotation # << >> /\ rotation' = Rotated(rotation)
      /\ rotation \in Seq(Operators) /\ IsInjective(rotation) /\ call \in [Calls -> CallType]
  BY DEF RotateOnce, IInv, TypeOK, NoOperatorTwice
<1>2. \A d \in Calls : d # c => call'[d] = call[d]
  BY <1>1 DEF RotateOnce, Return
<1>3. /\ Len(rotation) \in Nat \ {0} /\ Head(rotation) = rotation[1]
      /\ DOMAIN rotation = 1 .. Len(rotation) /\ DOMAIN rotation' = 1 .. Len(rotation)
      /\ \A k \in 1 .. Len(rotation) :
           rotation'[k] = IF k < Len(rotation) THEN rotation[k + 1] ELSE rotation[1]
  BY <1>1, RotatedProperties
<1>4. /\ call[c].hops \in 1 .. Len(rotation)
      /\ call[c].under \subseteq Range(rotation)
      /\ \A i \in DOMAIN rotation : call[c].hops < i => rotation[i] \notin call[c].under
  BY <1>1 DEF LineInv, KnowsTheLine
<1>5. Range(rotation') = Range(rotation)
  <2>1. \A k \in DOMAIN rotation' : \E i \in DOMAIN rotation : rotation'[k] = rotation[i]
    <3> TAKE k \in DOMAIN rotation'
    <3>1. CASE k < Len(rotation)
      <4>1. k + 1 \in DOMAIN rotation /\ rotation'[k] = rotation[k + 1]
        BY <1>3, <3>1
      <4> QED
        BY <4>1
    <3>2. CASE ~(k < Len(rotation))
      <4>1. 1 \in DOMAIN rotation /\ rotation'[k] = rotation[1]
        BY <1>3, <3>2
      <4> QED
        BY <4>1
    <3> QED
      BY <3>1, <3>2
  <2>2. \A i \in DOMAIN rotation : \E k \in DOMAIN rotation' : rotation'[k] = rotation[i]
    <3> TAKE i \in DOMAIN rotation
    <3>1. CASE i = 1
      <4>1. Len(rotation) \in DOMAIN rotation' /\ rotation'[Len(rotation)] = rotation[i]
        BY <1>3, <3>1
      <4> QED
        BY <4>1
    <3>2. CASE i # 1
      <4>1. i - 1 \in DOMAIN rotation' /\ rotation'[i - 1] = rotation[i]
        BY <1>3, <3>2
      <4> QED
        BY <4>1
    <3> QED
      BY <3>1, <3>2
  <2> QED
    BY <2>1, <2>2 DEF Range
<1>6. \A i : StillInFront(i) <=> i <= call[c].hops
  BY <1>1, RotatingAlone DEF LineInv
<1> QED
  BY <1>1, <1>2, <1>3, <1>4, <1>5, <1>6

(* When a call ends, the line is in order. *)
LEMMA EndedCall ==
  ASSUME LineInv, NEW c \in Calls, call[c].at # "idle", call'[c].at = "idle",
         \A d \in Calls : d # c => call'[d] = call[d]
  PROVE  /\ OneAtATime' /\ \A d \in Calls : KnowsTheLine(d)'
         /\ \A i, j : CameFirst(i, j)' <=> i < j
<1>1. OneAtATime' /\ \A d \in Calls : d # c => call'[d].at = "idle" /\ KnowsTheLine(d)'
  BY OthersIdle DEF LineInv
<1>2. \A d \in Calls : call'[d].at = "idle"
  BY <1>1
<1>3. \A i, j : CameFirst(i, j)' <=> i < j
  BY <1>2 DEF CameFirst, StillInFront
<1> QED
  BY <1>1, <1>2, <1>3 DEF KnowsTheLine

(* The pick: those who stood by were in front of the hops still to go, and *)
(* whom they had seen picked before them is behind them.                   *)
LEMMA PickKeeps ==
  ASSUME IInv, RecordsType, LineInv, NEW c \in Calls, PickOne(c)
  PROVE  /\ LineInv'
         /\ \A o \in call[c].under : Head(rotation) \notin passedOver[o]
<1> DEFINE n == Len(rotation)  h == call[c].hops  who == Head(rotation)  under == call[c].under
<1>1. RotateOnce(c) /\ who \in under
  BY DEF PickOne, Picks
<1>2. /\ call[c].at = "rotating" /\ h \in Nat /\ 1 <= h /\ h <= n /\ n \in Nat \ {0}
      /\ \A d \in Calls : d # c => call'[d] = call[d]
      /\ IsInjective(rotation)
      /\ DOMAIN rotation = 1 .. n /\ DOMAIN rotation' = 1 .. n
      /\ \A k \in 1 .. n : rotation'[k] = rotation[IF k < n THEN k + 1 ELSE 1]
      /\ who = rotation[1] /\ under \subseteq Range(rotation)
      /\ \A i : StillInFront(i) <=> i <= h
      /\ \A i \in DOMAIN rotation : h < i => rotation[i] \notin under
  BY <1>1, HopFacts
<1>3. call'[c].at = "idle"
  <2>1. call \in [Calls -> CallType]
    BY DEF IInv, TypeOK
  <2> QED
    BY <1>1, <2>1 DEF RotateOnce, Return, Idle
<1>4. /\ OneAtATime' /\ \A d \in Calls : KnowsTheLine(d)'
      /\ \A i, j : CameFirst(i, j)' <=> i < j
  BY <1>2, <1>3, EndedCall
<1>5. \A o \in Operators : passedOver'[o] = IF o \in under \ {who} THEN passedOver[o] \cup {who} ELSE {}
  BY DEF PickOne
<1>6. \A i \in 1 .. n : rotation[i] \in Operators
  BY <1>2, ElementOfSeq, LenProperties DEF IInv, TypeOK
<1> HIDE DEF n, h, who, under
<1>7. ASSUME NEW i \in 1 .. n, NEW j \in 1 .. n, rotation[i] \in under,
             rotation[j] \in passedOver[rotation[i]]
      PROVE  i < j
  <2>1. i <= h
    BY <1>2, <1>7
  <2>2. CameFirst(i, j)
    BY <1>2, <1>7 DEF LineInv, PickedAreBehind
  <2> QED
    BY <1>2, <2>1, <2>2 DEF CameFirst
<1>8. ASSUME NEW k \in 1 .. n, NEW m \in 1 .. n, rotation'[m] \in passedOver'[rotation'[k]]
      PROVE  k < m
  <2>1. PICK i \in 1 .. n : i = (IF k < n THEN k + 1 ELSE 1) /\ rotation'[k] = rotation[i]
    BY <1>2
  <2>2. PICK j \in 1 .. n : j = (IF m < n THEN m + 1 ELSE 1) /\ rotation'[m] = rotation[j]
    BY <1>2
  <2>3. /\ rotation[i] \in under /\ rotation[i] # who
        /\ rotation[j] \in passedOver[rotation[i]] \cup {who}
    BY <1>5, <1>6, <1>8, <2>1, <2>2
  <2>4. i # 1 /\ i = k + 1 /\ k < n
    BY <1>2, <2>1, <2>3
  <2>5. CASE rotation[j] = who
    <3>1. j = 1
      BY <1>2, <2>5 DEF IsInjective
    <3> QED
      BY <1>2, <2>2, <2>4, <3>1
  <2>6. CASE rotation[j] # who
    <3>1. i < j
      BY <1>7, <2>3, <2>6
    <3> QED
      BY <1>2, <2>2, <2>4, <3>1
  <2> QED
    BY <2>5, <2>6
<1>9. PickedAreBehind'
  BY <1>2, <1>4, <1>8 DEF PickedAreBehind
<1>10. ASSUME NEW o \in under PROVE who \notin passedOver[o]
  <2>1. PICK i \in 1 .. n : rotation[i] = o
    BY <1>2 DEF Range
  <2> QED
    BY <1>2, <1>7, <2>1
<1> QED
  BY <1>4, <1>9, <1>10 DEF LineInv, who, under

(* The hops on the way to it. *)
LEMMA HopKeeps ==
  ASSUME IInv, RecordsType, LineInv, NEW c \in Calls, RotateOnce(c), ~Picks(c), UNCHANGED passedOver
  PROVE  LineInv'
<1> DEFINE n == Len(rotation)  h == call[c].hops
<1>1. /\ call[c].at = "rotating" /\ h \in Nat /\ 1 <= h /\ h <= n /\ n \in Nat \ {0}
      /\ \A d \in Calls : d # c => call'[d] = call[d]
      /\ DOMAIN rotation = 1 .. n /\ DOMAIN rotation' = 1 .. n
      /\ \A k \in 1 .. n : rotation'[k] = rotation[IF k < n THEN k + 1 ELSE 1]
      /\ Range(rotation') = Range(rotation)
      /\ \A i : StillInFront(i) <=> i <= h
      /\ call[c].under \subseteq Range(rotation)
      /\ \A i \in DOMAIN rotation : h < i => rotation[i] \notin call[c].under
      /\ Head(rotation) = rotation[1]
  BY HopFacts
<1>2. rotation[1] \notin call[c].under
  BY <1>1 DEF Picks, RotateOnce
<1>3. \/ h = 1 /\ call'[c].at = "idle"
      \/ /\ h > 1 /\ call'[c].at = "rotating" /\ call'[c].hops = h - 1
         /\ call'[c].under = call[c].under
  <2>1. call \in [Calls -> CallType]
    BY DEF IInv, TypeOK
  <2> QED
    BY <1>1, <1>2, <2>1 DEF RotateOnce, Return, Idle, CallType
<1>4. Len(rotation') = n /\ n \in DOMAIN rotation'
  <2>1. rotation' \in Seq(Operators)
    BY RotatedProperties DEF RotateOnce, IInv, TypeOK
  <2> QED
    BY <1>1, <2>1, LenProperties
<1> HIDE DEF n, h
<1>5. ASSUME NEW k \in 1 .. n, NEW m \in 1 .. n, rotation'[m] \in passedOver'[rotation'[k]]
      PROVE  \E i, j \in 1 .. n : /\ i = (IF k < n THEN k + 1 ELSE 1)
                                  /\ j = (IF m < n THEN m + 1 ELSE 1)
                                  /\ (i > h /\ j <= h) \/ ((i <= h <=> j <= h) /\ i < j)
  <2>1. PICK i \in 1 .. n : i = (IF k < n THEN k + 1 ELSE 1) /\ rotation'[k] = rotation[i]
    BY <1>1
  <2>2. PICK j \in 1 .. n : j = (IF m < n THEN m + 1 ELSE 1) /\ rotation'[m] = rotation[j]
    BY <1>1
  <2>3. CameFirst(i, j)
    BY <1>1, <1>5, <2>1, <2>2 DEF LineInv, PickedAreBehind
  <2> QED
    BY <1>1, <2>1, <2>2, <2>3 DEF CameFirst
<1>6. CASE h = 1 /\ call'[c].at = "idle"
  <2>1. /\ OneAtATime' /\ \A d \in Calls : KnowsTheLine(d)'
        /\ \A i, j : CameFirst(i, j)' <=> i < j
    BY <1>1, <1>6, EndedCall
  <2>2. ASSUME NEW k \in 1 .. n, NEW m \in 1 .. n, rotation'[m] \in passedOver'[rotation'[k]]
        PROVE  k < m
    BY <1>1, <1>5, <1>6, <2>2
  <2> QED
    BY <1>1, <2>1, <2>2 DEF LineInv, PickedAreBehind
<1>7. CASE /\ h > 1 /\ call'[c].at = "rotating" /\ call'[c].hops = h - 1
           /\ call'[c].under = call[c].under
  <2>1. OneAtATime' /\ \A d \in Calls : d # c => call'[d].at = "idle" /\ KnowsTheLine(d)'
    BY <1>1, OthersIdle DEF LineInv
  <2>2. \A i : StillInFront(i)' <=> i <= h - 1
    BY <1>7, <2>1 DEF StillInFront
  <2>3. KnowsTheLine(c)'
    <3>1. \A k \in 1 .. n : h - 1 < k => rotation'[k] \notin call[c].under
      BY <1>1, <1>2, <1>7
    <3>2. h - 1 \in 1 .. n
      BY <1>1, <1>7
    <3> QED
      BY <1>1, <1>4, <1>7, <3>1, <3>2 DEF KnowsTheLine
  <2>4. ASSUME NEW k \in 1 .. n, NEW m \in 1 .. n, rotation'[m] \in passedOver'[rotation'[k]]
        PROVE  (k > h - 1 /\ m <= h - 1) \/ ((k <= h - 1 <=> m <= h - 1) /\ k < m)
    BY <1>1, <1>5, <1>7, <2>4
  <2>5. PickedAreBehind'
    BY <1>1, <2>2, <2>4 DEF PickedAreBehind, CameFirst
  <2> QED
    BY <2>1, <2>3, <2>5 DEF LineInv
<1> QED
  BY <1>3, <1>6, <1>7

LEMMA EmptyKeeps ==
  ASSUME IInv, LineInv, NEW c \in Calls, RotateEmpty(c), UNCHANGED passedOver
  PROVE  LineInv'
<1>1. /\ call[c].at = "rotating" /\ call'[c].at = "idle" /\ UNCHANGED rotation
      /\ \A d \in Calls : d # c => call'[d] = call[d]
      /\ DOMAIN rotation = {}
  BY DEF IInv, TypeOK, RotateEmpty, Return, Idle
<1>2. OneAtATime' /\ \A d \in Calls : KnowsTheLine(d)'
  BY <1>1, EndedCall
<1> QED
  BY <1>1, <1>2 DEF LineInv, PickedAreBehind

LEMMA TurnsPreserved == TurnsInv /\ [NextTurns]_turnVars => TurnsInv'
<1> SUFFICES ASSUME TurnsInv, [NextTurns]_turnVars PROVE TurnsInv'
  OBVIOUS
<1>1. IInv /\ RecordsType /\ (alone => LineInv) /\ IInv'
  BY TurnsAreSteps, NextPreserves DEF TurnsInv
<1>2. CASE UNCHANGED turnVars
  <2>1. RecordsType' /\ alone' = alone
    BY <1>1, <1>2 DEF turnVars, RecordsType
  <2>2. LineInv => LineInv'
    BY <1>2 DEF turnVars, vars, LineInv, OneAtATime, KnowsTheLine, PickedAreBehind, CameFirst, StillInFront
  <2> QED
    BY <1>1, <2>1, <2>2 DEF TurnsInv
<1>3. CASE CrossedNext
  BY <1>1, <1>3 DEF CrossedNext, TurnsInv, RecordsType
<1>4. CASE AloneNext
  <2>1. alone /\ LineInv
    BY <1>1, <1>4 DEF AloneNext
  <2>2. PICK c \in Calls : \/ Start(c)
                           \/ (PickOne(c) \/ SyncLine(c) \/ Otherwise(c)) /\ UNCHANGED alone
    BY <1>4 DEF AloneNext
  <2>3. CASE Start(c)
    <3>1. RecordsType'
      BY <1>1, <2>3 DEF Start, RecordsType, NoRecords
    <3> QED
      BY <1>1, <2>1, <2>3, <3>1, StartKeeps DEF TurnsInv
  <2>4. CASE PickOne(c) /\ UNCHANGED alone
    <3>1. call[c].under \subseteq Operators
      BY <1>1 DEF IInv, TypeOK, CallType
    <3>2. Head(rotation) \in Operators
      BY <1>1, <2>4, RotatedProperties DEF IInv, TypeOK, PickOne, RotateOnce
    <3>3. RecordsType'
      BY <1>1, <2>4, <3>1, <3>2 DEF PickOne, RecordsType
    <3> QED
      BY <1>1, <2>1, <2>4, <3>3, PickKeeps DEF TurnsInv
  <2>5. CASE SyncLine(c) /\ UNCHANGED alone
    <3>1. RecordsType'
      BY <1>1, <2>5 DEF SyncLine, RecordsType
    <3> QED
      BY <1>1, <2>1, <2>5, <3>1, SyncKeeps DEF TurnsInv
  <2>6. CASE Otherwise(c) /\ UNCHANGED alone
    <3>1. UNCHANGED passedOver /\ RecordsType'
      BY <1>1, <2>6 DEF Otherwise, RecordsType
    <3> QED
      BY <1>1, <2>1, <2>6, <3>1, ReadKeeps, MeasureKeeps, EmptyKeeps, HopKeeps DEF Otherwise, TurnsInv
  <2> QED
    BY <2>2, <2>3, <2>4, <2>5, <2>6
<1> QED
  BY <1>2, <1>3, <1>4 DEF NextTurns

(* A pickNext that comes back with nobody has either found the line empty, *)
(* or moved everybody in it to the tail.                                   *)
LEMMA NobodyFound ==
  ASSUME TurnsInv, alone, NEW c \in Calls, AloneNext,
         call[c].picks, call'[c].at = "idle", call[c].at # "idle", answer'[c] = Nobody
  PROVE  call[c].under \cap Range(rotation') = {}
<1>1. /\ IInv /\ LineInv /\ rotation \in Seq(Operators)
      /\ call \in [Calls -> CallType] /\ answer \in [Calls -> Operators \cup {Nobody}]
  BY DEF TurnsInv, IInv, TypeOK
<1>2. PICK d \in Calls : \/ Start(d)
                         \/ PickOne(d) \/ SyncLine(d) \/ Otherwise(d)
  BY DEF AloneNext
<1>3. ~Start(d)
  <2>1. Start(d) => call[d].at = "idle" /\ call'[d].at = "reading"
    BY <1>1 DEF Start, PickNext, Sync, Idle
  <2>2. Start(d) => \A o \in Calls \ {d} : call'[o] = call[o]
    BY <1>1 DEF Start, PickNext, Sync
  <2> QED
    BY <2>1, <2>2
<1>4. ReadMembers(d) \/ WriteMembers(d) \/ ReadLength(d) \/ RotateOnce(d) \/ RotateEmpty(d)
  BY <1>2, <1>3 DEF PickOne, SyncLine, Otherwise
<1>5. \A o \in Calls \ {d} : call'[o] = call[o]
  BY <1>1, <1>4 DEF ReadMembers, WriteMembers, ReadLength, RotateOnce, RotateEmpty, Return
<1>6. d = c
  BY <1>5
<1>7. ~ReadMembers(c) /\ ~WriteMembers(c)
  <2>1. ReadMembers(c) => call'[c].at = "writing"
    BY <1>1 DEF ReadMembers, CallType
  <2>2. WriteMembers(c) => call'[c].at = "measuring"
    <3>1. WriteMembers(c) => call'[c] = [Idle EXCEPT !.at = "measuring", !.picks = TRUE, !.under = call[c].under]
      BY <1>1 DEF WriteMembers
    <3>2. [Idle EXCEPT !.at = "measuring", !.picks = TRUE, !.under = call[c].under].at = "measuring"
      BY DEF Idle
    <3> QED
      BY <3>1, <3>2
  <2> QED
    BY <2>1, <2>2
<1>8. CASE ReadLength(c)
  <2>1. rotation' = << >>
    BY <1>1, <1>8 DEF ReadLength, CallType
  <2> QED
    BY <2>1 DEF Range
<1>9. CASE RotateEmpty(c)
  <2>1. rotation' = << >>
    BY <1>9 DEF RotateEmpty
  <2> QED
    BY <2>1 DEF Range
<1>10. CASE RotateOnce(c)
  <2>1. /\ \A i \in DOMAIN rotation : call[c].hops < i => rotation[i] \notin call[c].under
        /\ Head(rotation) = rotation[1] /\ Range(rotation') = Range(rotation)
        /\ call[c].hops \in Nat /\ DOMAIN rotation = 1 .. Len(rotation) /\ Len(rotation) \in Nat
        /\ call[c].at = "rotating"
    BY <1>1, <1>10, HopFacts
  <2>2. Head(rotation) \in Operators
    BY <1>1, <1>10, RotatedProperties DEF RotateOnce
  <2>3. Head(rotation) \notin call[c].under
    <3>1. Head(rotation) \in call[c].under => answer'[c] = Head(rotation)
      BY <1>1, <1>10 DEF RotateOnce, Return
    <3> QED
      BY <2>2, <3>1, NobodyIsNoOperator
  <2>4. ~(call[c].hops > 1)
    <3>1. call[c].hops > 1 => call'[c].at = call[c].at
      BY <1>1, <1>10, <2>3 DEF RotateOnce, CallType
    <3> QED
      BY <3>1
  <2>5. \A i \in DOMAIN rotation : rotation[i] \notin call[c].under
    BY <2>1, <2>3, <2>4
  <2> QED
    BY <2>1, <2>5 DEF Range
<1> QED
  BY <1>4, <1>6, <1>7, <1>8, <1>9, <1>10

(* For any number of operators, and of syncs and picks that come one after *)
(* the other: a pick never goes to an operator who was already picked      *)
(* while somebody who stands by now, eligible and under capacity, was      *)
(* passed over.  The hops over busy operators, newcomers at the head and   *)
(* leavers do not disturb the turns of the others.                         *)
THEOREM RotationTurnsAreFair == TurnSpec => TurnsAreFair
<1>1. TurnsInv /\ [NextTurns]_turnVars =>
        [alone => \A c \in Calls : PickOne(c) =>
           \A o \in call[c].under : Head(rotation) \notin passedOver[o]]_turnVars
  BY PickKeeps DEF TurnsInv
<1> QED
  BY <1>1, TurnsStart, TurnsPreserved, PTL DEF TurnSpec, TurnsAreFair

(* And a pickNext that comes back with null leaves nobody in line whom it  *)
(* could have taken: as many hops as the list was long have looked at all. *)
THEOREM RotationNullWhenAllBusy == TurnSpec => NullOnlyWhenAllBusy
<1>1. TurnsInv /\ [NextTurns]_turnVars =>
        [alone => \A c \in Calls :
           (call[c].picks /\ call'[c].at = "idle" /\ call[c].at # "idle" /\ answer'[c] = Nobody)
             => call[c].under \cap Range(rotation') = {}]_turnVars
  <2> SUFFICES ASSUME TurnsInv, NextTurns, alone, NEW c \in Calls,
                      call[c].picks, call'[c].at = "idle", call[c].at # "idle", answer'[c] = Nobody
               PROVE  call[c].under \cap Range(rotation') = {}
    OBVIOUS
  <2>1. AloneNext
    BY DEF NextTurns, CrossedNext
  <2> QED
    BY <2>1, NobodyFound
<1> QED
  BY <1>1, TurnsStart, TurnsPreserved, PTL DEF TurnSpec, NullOnlyWhenAllBusy
=============================================================================
