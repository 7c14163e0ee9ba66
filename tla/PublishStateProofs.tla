------------------------ MODULE PublishStateProofs ------------------------
(***************************************************************************)
(* Lemmas about the functions on record arrays, for every array size and   *)
(* every set of packet ids: what each of them keeps, what it does to the   *)
(* set of records in the array, and what it does to their order.  The      *)
(* proofs about PublishRecords and about MqttSession rest on them.         *)
(***************************************************************************)
EXTENDS PublishState, FiniteSetTheorems, WellFoundedInduction, TLAPS

\* FirstOf is the least element of any non-empty set of naturals.
LEMMA FirstOfLeast ==
  ASSUME NEW S \in SUBSET Nat, S # {}
  PROVE  FirstOf(S) \in S /\ \A j \in S : FirstOf(S) <= j
<1>1. PICK x \in S : \A y \in S : ~ (<<y, x>> \in OpToRel(<, Nat))
  BY NatLessThanWellFounded, WFMin, Zenon
<1>2. \A y \in S : ~ (y < x)
  BY <1>1, Zenon DEF OpToRel
<1>3. \A y \in S : x <= y
  BY <1>2
<1>. QED BY <1>3 DEF FirstOf

\* Induction, about sets: a set of naturals that has 0 and with a number its
\* successor is Nat.
LEMMA SetInduction ==
  ASSUME NEW S \in SUBSET Nat, 0 \in S, \A n \in S : n + 1 \in S
  PROVE  S = Nat
<1>. SUFFICES ASSUME S # Nat PROVE FALSE OBVIOUS
<1>. DEFINE rest == Nat \ S
<1>1. rest \in SUBSET Nat /\ rest # {} OBVIOUS
<1>2. FirstOf(rest) \in rest /\ \A j \in rest : FirstOf(rest) <= j
  BY <1>1, FirstOfLeast
<1>. DEFINE first == FirstOf(rest)
<1>3. first \in Nat /\ first \notin S /\ \A j \in Nat \ S : first <= j BY <1>2
<1>. HIDE DEF first, rest
<1>4. first # 0 BY <1>3
<1>5. first - 1 \in Nat BY <1>3, <1>4
<1>6. first - 1 \in S BY <1>3, <1>5
<1>7. first \in S
  <2>1. (first - 1) + 1 \in S BY <1>6
  <2>. QED BY <2>1, <1>3
<1>. QED BY <1>3, <1>7

\* g[k] is what k applications of F make of a.
Iteration(g, A, a, F, m) ==
  /\ g \in [0..m -> A]
  /\ g[0] = a
  /\ \A k \in 1..m : g[k] = F[g[k-1]]

\* A recursive function on the naturals up to m exists: its definition is not
\* an empty choice.
LEMMA Iterates ==
  ASSUME NEW A, NEW a \in A, NEW F \in [A -> A], NEW m \in Nat
  PROVE  \E g : Iteration(g, A, a, F, m)
<1>. DEFINE Is(g, l) == g[0] = a /\ \A k \in 1..l : g[k] = F[g[k-1]]
            S == {l \in Nat : \E g \in [0..l -> A] : Is(g, l)}
<1>1. 0 \in S
  <2>. DEFINE g == [k \in 0..0 |-> a]
  <2>1. g \in [0..0 -> A] OBVIOUS
  <2>2. Is(g, 0) OBVIOUS
  <2>. QED BY <2>1, <2>2
<1>2. ASSUME NEW l \in S PROVE l + 1 \in S
  <2>1. l \in Nat OBVIOUS
  <2>2. PICK g \in [0..l -> A] : Is(g, l) OBVIOUS
  <2>. DEFINE h == [k \in 0..(l+1) |-> IF k = l + 1 THEN F[g[l]] ELSE g[k]]
  <2>3. h \in [0..(l+1) -> A] BY <2>1
  <2>4. ASSUME NEW k \in 1..(l+1) PROVE h[k] = F[h[k-1]]
    <3>1. CASE k = l + 1 BY <3>1, <2>1
    <3>2. CASE k # l + 1
      <4>1. k \in 1..l BY <3>2, <2>1
      <4>2. g[k] = F[g[k-1]] BY <4>1, <2>2
      <4>3. h[k] = g[k] BY <3>2
      <4>4. h[k-1] = g[k-1] BY <4>1, <2>1
      <4>. QED BY <4>2, <4>3, <4>4
    <3>. QED BY <3>1, <3>2
  <2>5. Is(h, l + 1) BY <2>1, <2>2, <2>3, <2>4
  <2>6. \E x \in [0..(l+1) -> A] : Is(x, l + 1) BY <2>3, <2>5
  <2>. QED BY <2>1, <2>6
<1>3. S = Nat
  <2>. HIDE DEF S
  <2>1. S \in SUBSET Nat BY DEF S
  <2>. QED BY <1>1, <1>2, <2>1, SetInduction
<1>. QED BY <1>3 DEF Iteration

\* Counting the members up to a bound, a member above it counts one more.
LEMMA CountGrows ==
  ASSUME NEW n \in Nat, NEW S \in SUBSET (1..n), NEW i \in Int, NEW j \in S, i < j
  PROVE  Cardinality({x \in S : x <= i}) # Cardinality({x \in S : x <= j})
<1>. DEFINE Upto(k) == {x \in S : x <= k}
<1>1. IsFiniteSet(1..n) BY FS_Interval
<1>0. j \in Int /\ \A x \in S : x \in Int OBVIOUS
<1>a. Upto(j) \subseteq 1..n OBVIOUS
<1>b. \A x \in S : x <= i => x <= j BY <1>0
<1>c. Upto(i) \subseteq Upto(j) BY <1>b
<1>2. Upto(j) \in SUBSET (1..n) /\ Upto(i) \in SUBSET Upto(j) BY <1>a, <1>c
<1>3. IsFiniteSet(Upto(j)) BY <1>1, <1>2, FS_Subset
<1>4. Upto(i) # Upto(j) OBVIOUS
<1>. HIDE DEF Upto
<1>5. Cardinality(Upto(i)) # Cardinality(Upto(j)) BY <1>2, <1>3, <1>4, FS_Subset
<1>. QED BY <1>5 DEF Upto

\* Ranks count occupied slots: they are naturals that grow strictly from one
\* occupied slot to the next.
LEMMA RankGrows ==
  ASSUME NEW n \in Nat, NEW a, DOMAIN a = 1..n,
         NEW i \in Occupied(a), NEW j \in Occupied(a), i < j
  PROVE  /\ Rank(a, i) \in Nat /\ Rank(a, j) \in Nat
         /\ Rank(a, i) < Rank(a, j)
<1>. DEFINE Upto(k) == {x \in Occupied(a) : x <= k}
<1>1. IsFiniteSet(1..n)
  BY FS_Interval
<1>2. Upto(j) \in SUBSET (1..n) /\ Upto(i) \in SUBSET Upto(j)
  BY DEF Occupied
<1>3. IsFiniteSet(Upto(j))
  BY <1>1, <1>2, FS_Subset
<1>4. Upto(i) # Upto(j)
  BY DEF Occupied
<1>5. IsFiniteSet(Upto(i)) /\ Cardinality(Upto(i)) <= Cardinality(Upto(j))
      /\ Cardinality(Upto(i)) # Cardinality(Upto(j))
  <2>. HIDE DEF Upto
  <2>. QED BY <1>2, <1>3, <1>4, FS_Subset
<1>6. Cardinality(Upto(i)) \in Nat /\ Cardinality(Upto(j)) \in Nat
  <2>. HIDE DEF Upto
  <2>. QED BY <1>3, <1>5, FS_CardinalityType
<1>. QED
  <2>1. Rank(a, i) = Cardinality(Upto(i)) /\ Rank(a, j) = Cardinality(Upto(j))
    BY DEF Rank
  <2>. HIDE DEF Upto
  <2>. QED BY <1>5, <1>6, <2>1

---------------------------------------------------------------------------
(* Arrays that are well formed.  Everything below is about one array, with *)
(* the states its direction allows as a parameter.                         *)

Good(a, max, states) ==
  /\ IsArray(a, max)
  /\ WellFormed(a, states)
  /\ UniqueIds(a)

\* The empty slot, and any record of an id, a QoS and a state, is a slot.
LEMMA SlotTypes ==
  /\ Empty \in Slots
  /\ \A id \in PacketIds, q \in QoS, s \in PublishStates : Record(id, q, s) \in Slots
BY DEF Empty, Record, Slots, QoS, PublishStates

\* Compaction keeps the type of the array and moves records only: each slot
\* of the result is empty or holds the one record whose rank it is.
LEMMA CompactSlots ==
  ASSUME NEW n \in Nat, NEW a \in [1..n -> Slots]
  PROVE  /\ Compact(a) \in [1..n -> Slots]
         /\ \A k \in 1..n : \/ Compact(a)[k] = Empty
                             \/ \E i \in Occupied(a) : /\ Compact(a)[k] = a[i]
                                                       /\ Rank(a, i) = k
<1>. DEFINE From(k) == CHOOSE i \in Occupied(a) : Rank(a, i) = k
<1>1. ASSUME NEW k \in 1..n
      PROVE  \/ Compact(a)[k] = Empty
             \/ \E i \in Occupied(a) : Compact(a)[k] = a[i] /\ Rank(a, i) = k
  <2>1. CASE \E i \in Occupied(a) : Rank(a, i) = k
    <3>1. From(k) \in Occupied(a) /\ Rank(a, From(k)) = k
      BY <2>1
    <3>2. Compact(a)[k] = a[From(k)]
      BY <2>1 DEF Compact
    <3>. QED BY <3>1, <3>2
  <2>2. CASE ~ \E i \in Occupied(a) : Rank(a, i) = k
    BY <2>2 DEF Compact
  <2>. QED BY <2>1, <2>2
<1>2. \A k \in 1..n : Compact(a)[k] \in Slots
  BY <1>1, SlotTypes DEF Occupied
<1>3. Compact(a) \in [1..n -> Slots]
  <2>1. DOMAIN Compact(a) = 1..n /\ Compact(a) = [k \in DOMAIN Compact(a) |-> Compact(a)[k]]
    BY DEF Compact
  <2>. QED BY <1>2, <2>1
<1>. QED BY <1>1, <1>3

\* The rank of an occupied slot is a slot, and no two share one.
LEMMA RankInArray ==
  ASSUME NEW n \in Nat, NEW a, DOMAIN a = 1..n, NEW i \in Occupied(a)
  PROVE  Rank(a, i) \in 1..n
<1>. DEFINE Upto == {x \in Occupied(a) : x <= i}
<1>1. i \in Upto /\ Upto \in SUBSET (1..n) /\ {i} \in SUBSET Upto
  BY DEF Occupied
<1>2. IsFiniteSet(1..n) /\ Cardinality(1..n) = n
  BY FS_Interval
<1>. HIDE DEF Upto
<1>3. IsFiniteSet(Upto) /\ Cardinality(Upto) <= n
  <2>1. IsFiniteSet(Upto) /\ Cardinality(Upto) <= Cardinality(1..n)
    BY <1>1, <1>2, FS_Subset
  <2>. QED BY <1>2, <2>1
<1>4. Cardinality(Upto) \in Nat /\ Cardinality({i}) = 1 /\ Cardinality({i}) <= Cardinality(Upto)
  BY <1>1, <1>3, FS_CardinalityType, FS_Singleton, FS_Subset
<1>5. Rank(a, i) = Cardinality(Upto)
  BY DEF Rank, Upto
<1>. QED BY <1>3, <1>4, <1>5

\* No two occupied slots are compacted into one (compact, state.rs 287-309).
LEMMA RankInjective ==
  ASSUME NEW n \in Nat, NEW a, DOMAIN a = 1..n,
         NEW i \in Occupied(a), NEW j \in Occupied(a), Rank(a, i) = Rank(a, j)
  PROVE  i = j
<1>1. i \in Int /\ j \in Int
  BY DEF Occupied
<1>2. ~ (i < j) /\ ~ (j < i)
  BY RankGrows
<1>. QED BY <1>1, <1>2

\* Compaction loses no record and invents none.
LEMMA CompactKeepsIds ==
  ASSUME NEW n \in Nat, NEW a \in [1..n -> Slots]
  PROVE  IdsIn(Compact(a)) = IdsIn(a)
<1>1. ASSUME NEW i \in Occupied(a)
      PROVE  Rank(a, i) \in Occupied(Compact(a)) /\ Compact(a)[Rank(a, i)] = a[i]
  <2>1. Rank(a, i) \in 1..n
    BY RankInArray
  <2>2. (CHOOSE j \in Occupied(a) : Rank(a, j) = Rank(a, i)) = i
    BY RankInjective
  <2>3. Compact(a)[Rank(a, i)] = a[i]
    BY <2>1, <2>2 DEF Compact
  <2>. QED BY <2>1, <2>3 DEF Occupied, Compact
<1>2. ASSUME NEW k \in Occupied(Compact(a))
      PROVE  \E i \in Occupied(a) : Compact(a)[k] = a[i]
  <2>1. k \in 1..n /\ Compact(a)[k] # Empty
    BY DEF Occupied, Compact, Empty, Record
  <2>. QED BY <2>1, CompactSlots
<1>. QED BY <1>1, <1>2 DEF IdsIn

\* Compaction keeps an array well formed, its ids unique and its size bounded.
LEMMA CompactGood ==
  ASSUME NEW max \in Nat, NEW states, NEW a, Good(a, max, states)
  PROVE  Good(Compact(a), max, states)
<1>1. PICK n \in 0..max : a \in [1..n -> Slots]
  BY DEF Good, IsArray
<1>2. n \in Nat /\ Compact(a) \in [1..n -> Slots]
  BY <1>1, CompactSlots
<1>3. WellFormed(Compact(a), states)
  BY <1>1, <1>2, CompactSlots DEF Good, WellFormed, Occupied
<1>4. ASSUME NEW k \in Occupied(Compact(a)), NEW l \in Occupied(Compact(a)),
             Compact(a)[k].packet_id = Compact(a)[l].packet_id
      PROVE  k = l
  <2>1. /\ k \in 1..n /\ Compact(a)[k] # Empty
        /\ l \in 1..n /\ Compact(a)[l] # Empty
    BY <1>2 DEF Occupied, Empty, Record
  <2>2. PICK i \in Occupied(a) : Compact(a)[k] = a[i] /\ Rank(a, i) = k
    BY <1>1, <1>2, <2>1, CompactSlots
  <2>3. PICK j \in Occupied(a) : Compact(a)[l] = a[j] /\ Rank(a, j) = l
    BY <1>1, <1>2, <2>1, CompactSlots
  <2>4. i = j
    BY <1>4, <2>2, <2>3 DEF Good, UniqueIds
  <2>. QED BY <2>2, <2>3, <2>4
<1>. QED BY <1>1, <1>2, <1>3, <1>4 DEF Good, IsArray, UniqueIds

\* An array with a hole has room after compaction.
LEMMA CompactMakesRoom ==
  ASSUME NEW n \in Nat, NEW a \in [1..n -> Slots],
         NEW h \in 1..n, h \notin Occupied(a)
  PROVE  FreeTail(Compact(a)) # {}
<1>. DEFINE others == (1..n) \ {h}
<1>1. IsFiniteSet(others) /\ Cardinality(others) = n - 1
  <2>1. IsFiniteSet(1..n) /\ Cardinality(1..n) = n
    BY FS_Interval
  <2>. QED BY <2>1, FS_RemoveElement
<1>2. ASSUME NEW k \in Occupied(Compact(a))
      PROVE  k < n
  <2>1. k \in 1..n /\ Compact(a)[k] # Empty
    BY DEF Occupied, Compact, Empty, Record
  <2>2. PICK i \in Occupied(a) : Rank(a, i) = k
    BY <2>1, CompactSlots
  <2>. DEFINE Upto == {x \in Occupied(a) : x <= i}
  <2>3. Upto \in SUBSET others
    BY DEF Occupied
  <2>4. k = Cardinality(Upto)
    BY <2>2 DEF Rank
  <2>. HIDE DEF Upto, others
  <2>5. Cardinality(Upto) <= Cardinality(others)
    BY <1>1, <2>3, FS_Subset
  <2>. QED BY <1>1, <2>1, <2>4, <2>5
<1>3. n \in DOMAIN Compact(a)
  BY DEF Compact
<1>. QED BY <1>2, <1>3 DEF FreeTail

\* A full array stays full.
LEMMA CompactKeepsFull ==
  ASSUME NEW n \in Nat, NEW a \in [1..n -> Slots], Occupied(a) = 1..n
  PROVE  FreeTail(Compact(a)) = {}
<1>1. ASSUME NEW k \in 1..n
      PROVE  k \in Occupied(Compact(a))
  <2>1. {x \in Occupied(a) : x <= k} = 1..k
    OBVIOUS
  <2>2. Rank(a, k) = k
    <3>1. Cardinality(1..k) = k
      BY FS_Interval
    <3>. QED BY <2>1, <3>1 DEF Rank
  <2>3. (CHOOSE j \in Occupied(a) : Rank(a, j) = k) = k
    BY <2>2, RankInjective
  <2>4. Compact(a)[k] = a[k]
    BY <2>2, <2>3 DEF Compact
  <2>. QED BY <2>4 DEF Occupied, Compact
<1>2. DOMAIN Compact(a) = 1..n
  BY DEF Compact
<1>3. \A k \in 1..n : ~ (k < k)
  OBVIOUS
<1>. QED BY <1>1, <1>2, <1>3 DEF FreeTail

---------------------------------------------------------------------------
(* One lemma per function on arrays. *)

\* find_in_record answers a slot that holds the id whenever some slot does.
LEMMA FoundInRecord ==
  ASSUME NEW n \in Nat, NEW a \in [1..n -> Slots], NEW id \in IdsIn(a)
  PROVE  /\ FindInRecord(a, id) \in Occupied(a)
         /\ RecordOf(a, id) = a[FindInRecord(a, id)]
         /\ RecordOf(a, id).packet_id = id
<1>. DEFINE S == {i \in DOMAIN a : a[i].packet_id = id}
<1>1. S \in SUBSET Nat /\ S # {}
  BY DEF IdsIn, Occupied
<1>2. FirstOf(S) \in S
  <2>. HIDE DEF S
  <2>. QED BY <1>1, FirstOfLeast
<1>3. id # PACKET_ID_INVALID
  BY DEF IdsIn, Occupied
<1>. QED BY <1>2, <1>3 DEF FindInRecord, RecordOf, Occupied

\* What an array in good shape holds.
LEMMA RecordShape ==
  ASSUME NEW max \in Nat, NEW states, NEW a, Good(a, max, states), NEW i \in Occupied(a)
  PROVE  /\ a[i] \in Slots /\ a[i] \in Flight(a) /\ a[i].qos \in QoS
         /\ a[i].state \in states[a[i].qos] /\ a[i].packet_id \in IdsIn(a)
<1>1. PICK n \in 0..max : a \in [1..n -> Slots] BY DEF Good, IsArray
<1> QED BY <1>1 DEF Good, WellFormed, Occupied, Empty, Record, Slots, Flight, IdsIn

\* addRecord: what it leaves is well formed, has every record it was given,
\* and is refused for want of room only by a full array.
LEMMA AddRecordGood ==
  ASSUME NEW max \in Nat, NEW states, NEW a, Good(a, max, states),
         NEW id \in PacketIds, NEW q \in QoS, NEW s \in PublishStates, s \in states[q]
  PROVE  LET r == AddRecord(a, id, q, s)
         IN  /\ Good(r.records, max, states)
             /\ IdsIn(a) \subseteq IdsIn(r.records)
             /\ r.status \in {"Ok", "StateCollision", "NoMemory"}
             /\ r.status = "StateCollision" <=> id \in IdsIn(a)
             /\ r.status = "NoMemory" <=> id \notin IdsIn(a) /\ Occupied(a) = DOMAIN a
             /\ r.status = "Ok" => id \in IdsIn(r.records)
<1>. DEFINE packed == IF FreeTail(a) = {} THEN Compact(a) ELSE a
            r      == AddRecord(a, id, q, s)
            free   == FirstOf(FreeTail(packed))
            added  == [packed EXCEPT ![free] = Record(id, q, s)]
<1>1. PICK n \in 0..max : a \in [1..n -> Slots]
  BY DEF Good, IsArray
<1>2. n \in Nat
  OBVIOUS
<1>3. Good(packed, max, states) /\ IdsIn(packed) = IdsIn(a) /\ packed \in [1..n -> Slots]
  BY <1>1, <1>2, CompactGood, CompactKeepsIds, CompactSlots
<1>4. FreeTail(packed) = {} <=> Occupied(a) = 1..n
  <2>1. CASE Occupied(a) = 1..n
    <3>1. FreeTail(a) = {}
      BY <1>1, <1>2, <2>1 DEF FreeTail
    <3>. QED BY <1>1, <1>2, <2>1, <3>1, CompactKeepsFull
  <2>2. CASE Occupied(a) # 1..n
    <3>1. PICK h \in 1..n : h \notin Occupied(a)
      BY <1>1, <2>2 DEF Occupied
    <3>. QED BY <1>1, <1>2, <2>2, <3>1, CompactMakesRoom
  <2>. QED BY <2>1, <2>2
<1>5. r = IF id \in IdsIn(packed) THEN [records |-> packed, status |-> "StateCollision"]
          ELSE IF FreeTail(packed) = {} THEN [records |-> packed, status |-> "NoMemory"]
          ELSE [records |-> added, status |-> "Ok"]
  BY Zenon DEF AddRecord, Result
<1>. HIDE DEF packed, r, added
<1>6. ASSUME id \notin IdsIn(packed), FreeTail(packed) # {}
      PROVE  /\ Good(added, max, states)
             /\ IdsIn(a) \subseteq IdsIn(added)
             /\ id \in IdsIn(added)
  <2>1. FreeTail(packed) \in SUBSET Nat
    BY <1>2, <1>3 DEF FreeTail
  <2>2. free \in FreeTail(packed)
    BY <1>6, <2>1, FirstOfLeast
  <2>3. free \in 1..n /\ free \notin Occupied(packed)
    <3>. HIDE DEF free
    <3>1. free \in DOMAIN packed /\ \A j \in Occupied(packed) : j < free
      BY <2>2 DEF FreeTail
    <3>2. free \in 1..n
      BY <1>3, <3>1
    <3>. QED BY <1>2, <3>1, <3>2
  <2>. HIDE DEF free
  <2>4. Record(id, q, s) \in Slots /\ id # PACKET_ID_INVALID
    BY SlotTypes, InvalidAssumption
  <2>5. added \in [1..n -> Slots]
    BY <1>3, <2>3, <2>4 DEF added
  <2>6. \A i \in 1..n : added[i] = IF i = free THEN Record(id, q, s) ELSE packed[i]
    BY <1>3, <2>3 DEF added
  <2>7. Occupied(added) = Occupied(packed) \cup {free}
    BY <1>3, <2>3, <2>4, <2>5, <2>6 DEF Occupied, Record
  <2>8. WellFormed(added, states)
    BY <1>3, <2>5, <2>6 DEF Good, WellFormed, Record
  <2>9. \A i \in Occupied(packed) : packed[i].packet_id # id
    BY <1>6 DEF IdsIn
  <2>10. UniqueIds(added)
    BY <1>3, <2>3, <2>6, <2>7, <2>9 DEF Good, UniqueIds, Record, Occupied
  <2>11. IdsIn(packed) \subseteq IdsIn(added) /\ id \in IdsIn(added)
    BY <1>3, <2>3, <2>6, <2>7 DEF IdsIn, Record, Occupied
  <2>. QED BY <1>3, <2>5, <2>8, <2>10, <2>11 DEF Good, IsArray
<1>. QED
  <2>1. DOMAIN a = 1..n
    BY <1>1
  <2>2. CASE id \in IdsIn(packed)
    BY <1>3, <1>5, <2>2 DEF r
  <2>3. CASE id \notin IdsIn(packed) /\ FreeTail(packed) = {}
    BY <1>3, <1>4, <1>5, <2>1, <2>3 DEF r
  <2>4. CASE id \notin IdsIn(packed) /\ FreeTail(packed) # {}
    BY <1>3, <1>4, <1>5, <1>6, <2>1, <2>4 DEF r
  <2>. QED BY <2>2, <2>3, <2>4

\* With a free slot and no collision addRecord succeeds.
LEMMA AddRecordStatus ==
  ASSUME NEW max \in Nat, NEW states, NEW a, Good(a, max, states),
         NEW id \in PacketIds, id \notin IdsIn(a), Occupied(a) # DOMAIN a,
         NEW q \in QoS, NEW s \in PublishStates
  PROVE  AddRecord(a, id, q, s).status = "Ok"
<1> DEFINE every == [r \in QoS |-> PublishStates]
<1>1. Good(a, max, every)
  <2>1. PICK n \in 0..max : a \in [1..n -> Slots] BY DEF Good, IsArray
  <2>2. WellFormed(a, every) BY <2>1 DEF Good, WellFormed, Slots
  <2> QED BY <2>2 DEF Good
<1>2. s \in every[q] OBVIOUS
<1> HIDE DEF every
<1> QED BY <1>1, <1>2, AddRecordGood

\* Emptying one slot drops that record and nothing else.
LEMMA DeleteGood ==
  ASSUME NEW max \in Nat, NEW states, NEW a, Good(a, max, states),
         NEW i \in Occupied(a)
  PROVE  LET d == DeleteRecord(a, i)
         IN  /\ Good(d, max, states)
             /\ IdsIn(d) = IdsIn(a) \ {a[i].packet_id}
             /\ Occupied(d) # DOMAIN d
<1>. DEFINE d == [a EXCEPT ![i] = Empty]
<1>1. PICK n \in 0..max : a \in [1..n -> Slots]
  BY DEF Good, IsArray
<1>2. d \in [1..n -> Slots] /\ i \in 1..n
  BY <1>1, SlotTypes DEF Occupied
<1>3. \A j \in 1..n : d[j] = IF j = i THEN Empty ELSE a[j]
  BY <1>1
<1>4. d = DeleteRecord(a, i)
  BY DEF DeleteRecord
<1>. HIDE DEF d
<1>5. Occupied(d) = Occupied(a) \ {i}
  BY <1>1, <1>2, <1>3 DEF Occupied, Empty, Record
<1>6. WellFormed(d, states) /\ UniqueIds(d)
  BY <1>1, <1>2, <1>3, <1>5 DEF Good, WellFormed, UniqueIds, Occupied
<1>7. IdsIn(d) = IdsIn(a) \ {a[i].packet_id}
  <2>1. \A j \in Occupied(a) : a[j].packet_id = a[i].packet_id => j = i
    BY DEF Good, UniqueIds
  <2>. QED BY <1>1, <1>3, <1>5, <2>1 DEF IdsIn, Occupied
<1>. QED BY <1>2, <1>4, <1>5, <1>6, <1>7 DEF Good, IsArray

\* Changing the state of one record keeps every id.
LEMMA ChangeGood ==
  ASSUME NEW max \in Nat, NEW states, NEW a, Good(a, max, states),
         NEW i \in Occupied(a), NEW new \in PublishStates, new \in states[a[i].qos]
  PROVE  LET c == UpdateRecord(a, i, new)
         IN  Good(c, max, states) /\ IdsIn(c) = IdsIn(a)
<1>. DEFINE c == [a EXCEPT ![i].state = new]
<1>1. PICK n \in 0..max : a \in [1..n -> Slots]
  BY DEF Good, IsArray
<1>2. i \in 1..n /\ a[i] \in Slots
  BY <1>1 DEF Occupied
<1>3. [a[i] EXCEPT !.state = new] \in Slots
  BY <1>2 DEF Slots
<1>4. c \in [1..n -> Slots]
  BY <1>1, <1>2, <1>3
<1>5. \A j \in 1..n : /\ c[j].packet_id = a[j].packet_id
                      /\ c[j].qos = a[j].qos
                      /\ j # i => c[j] = a[j]
                      /\ j = i => c[j].state = new
  BY <1>1, <1>2 DEF Slots
<1>6. c = UpdateRecord(a, i, new)
  BY DEF UpdateRecord
<1>. HIDE DEF c
<1>7. Occupied(c) = Occupied(a) /\ IdsIn(c) = IdsIn(a)
  BY <1>1, <1>4, <1>5 DEF Occupied, IdsIn
<1>8. a[i] # Empty
  BY DEF Occupied, Empty, Record
<1>9. WellFormed(c, states)
  BY <1>1, <1>2, <1>4, <1>5, <1>8 DEF Good, WellFormed
<1>10. UniqueIds(c)
  BY <1>1, <1>5, <1>7 DEF Good, UniqueIds, Occupied
<1>. QED BY <1>4, <1>6, <1>7, <1>9, <1>10 DEF Good, IsArray

\* An emptied array is well formed (clear_outgoing, clear_incoming).
LEMMA ClearGood ==
  ASSUME NEW max \in Nat, NEW states, NEW a, Good(a, max, states)
  PROVE  Good(Clear(a), max, states)
<1>1. PICK n \in 0..max : a \in [1..n -> Slots]
  BY DEF Good, IsArray
<1>2. Clear(a) \in [1..n -> Slots] /\ \A j \in 1..n : Clear(a)[j] = Empty
  BY <1>1, SlotTypes DEF Clear
<1>3. Occupied(Clear(a)) = {}
  BY <1>2 DEF Occupied, Empty, Record
<1>. QED BY <1>2, <1>3 DEF Good, IsArray, WellFormed, UniqueIds

\* An array cut to a Receive Maximum is well formed (cap, state.rs 660-672).
LEMMA CapGood ==
  ASSUME NEW max \in Nat, NEW states, NEW a, Good(a, max, states), NEW m \in Nat
  PROVE  Good(CapTo(a, m), max, states)
<1>1. PICK n \in 0..max : a \in [1..n -> Slots]
  BY DEF Good, IsArray
<1>2. PICK k \in 0..max : {j \in 1..n : j <= m} = 1..k
  <2>1. CASE n <= m
    BY <2>1
  <2>2. CASE ~ n <= m
    BY <2>2
  <2>. QED BY <2>1, <2>2
<1>3. CapTo(a, m) = [i \in 1..k |-> a[i]] /\ 1..k \subseteq 1..n
  BY <1>1, <1>2 DEF CapTo
<1>4. CapTo(a, m) \in [1..k -> Slots] /\ \A i \in 1..k : CapTo(a, m)[i] = a[i]
  BY <1>1, <1>3
<1>5. Occupied(CapTo(a, m)) \subseteq Occupied(a) /\ DOMAIN CapTo(a, m) = 1..k
  BY <1>1, <1>3, <1>4 DEF Occupied
<1>6. WellFormed(CapTo(a, m), states)
  BY <1>1, <1>3, <1>4, <1>5 DEF Good, WellFormed
<1>7. UniqueIds(CapTo(a, m))
  BY <1>4, <1>5 DEF Good, UniqueIds, Occupied
<1>. QED BY <1>4, <1>6, <1>7 DEF Good, IsArray

---------------------------------------------------------------------------
(* One lemma per operation. *)

\* reserve keeps the outgoing array well formed and loses no record
\* (state.rs 447-457).
LEMMA ReserveGood ==
  ASSUME NEW max \in Nat, NEW a, Good(a, max, OutgoingStates), NEW id \in AnyId, NEW q \in QoS
  PROVE  LET r == ReserveState(a, id, q)
         IN  Good(r.records, max, OutgoingStates) /\ IdsIn(a) \subseteq IdsIn(r.records)
<1>1. CASE q = 0 \/ id = PACKET_ID_INVALID
  <2>1. ReserveState(a, id, q).records = a
    BY <1>1 DEF ReserveState, Result
  <2>. QED BY <2>1
<1>2. CASE q # 0 /\ id # PACKET_ID_INVALID
  <2>1. ReserveState(a, id, q) = AddRecord(a, id, q, "PublishSend")
    BY <1>2 DEF ReserveState, Result
  <2>2. id \in PacketIds /\ "PublishSend" \in OutgoingStates[q] /\ "PublishSend" \in PublishStates
    BY <1>2 DEF AnyId, OutgoingStates, PublishStates, QoS
  <2>. QED BY <2>1, <2>2, AddRecordGood
<1>. QED BY <1>1, <1>2

\* update_publish for a PUBLISH sent keeps the array well formed, and the ids
\* in it (state.rs 467-517).
LEMMA UpdatePublishSendGood ==
  ASSUME NEW max \in Nat, NEW a, Good(a, max, OutgoingStates), NEW id \in AnyId, NEW q \in QoS
  PROVE  LET r == UpdatePublishSend(a, id, q)
         IN  Good(r.records, max, OutgoingStates) /\ IdsIn(r.records) = IdsIn(a)
<1>. DEFINE new == CalculateStatePublish("Send", q)
            at  == FindInRecord(a, id)
<1>1. CASE /\ q # 0 /\ id \in IdsIn(a) /\ RecordOf(a, id).qos = q
           /\ ValidateTransitionPublish(RecordOf(a, id).state, new, "Send", q)
  <2>1. UpdatePublishSend(a, id, q).records = UpdateRecord(a, at, new)
    BY <1>1 DEF UpdatePublishSend, Result
  <2>2. at \in Occupied(a) /\ a[at] = RecordOf(a, id)
    <3>1. PICK n \in 0..max : a \in [1..n -> Slots]
      BY DEF Good, IsArray
    <3>2. n \in Nat
      OBVIOUS
    <3>. QED BY <1>1, <3>1, <3>2, FoundInRecord
  <2>3. new \in PublishStates /\ new \in OutgoingStates[a[at].qos]
    BY <1>1, <2>2 DEF CalculateStatePublish, OutgoingStates, PublishStates, QoS
  <2>. HIDE DEF new, at
  <2>. QED BY <2>1, <2>2, <2>3, ChangeGood
<1>2. CASE ~ ( /\ q # 0 /\ id \in IdsIn(a) /\ RecordOf(a, id).qos = q
               /\ ValidateTransitionPublish(RecordOf(a, id).state, new, "Send", q) )
  <2>1. UpdatePublishSend(a, id, q).records = a
    BY <1>2 DEF UpdatePublishSend, Result
  <2>. QED BY <2>1
<1>. QED BY <1>1, <1>2

\* update_publish for a PUBLISH received keeps the incoming array well formed
\* and loses no record (state.rs 467-517).
LEMMA UpdatePublishReceiveGood ==
  ASSUME NEW max \in Nat, NEW a, Good(a, max, IncomingStates), NEW id \in AnyId, NEW q \in QoS
  PROVE  LET r == UpdatePublishReceive(a, id, q)
         IN  Good(r.records, max, IncomingStates) /\ IdsIn(a) \subseteq IdsIn(r.records)
<1>. DEFINE new == CalculateStatePublish("Receive", q)
<1>1. CASE q = 0 \/ id = PACKET_ID_INVALID
  <2>1. UpdatePublishReceive(a, id, q).records = a
    BY <1>1 DEF UpdatePublishReceive, Result
  <2>. QED BY <2>1
<1>2. CASE q # 0 /\ id # PACKET_ID_INVALID
  <2>1. UpdatePublishReceive(a, id, q) = AddRecord(a, id, q, new)
    BY <1>2 DEF UpdatePublishReceive, Result
  <2>2. id \in PacketIds /\ new \in IncomingStates[q] /\ new \in PublishStates
    BY <1>2 DEF AnyId, IncomingStates, PublishStates, QoS, CalculateStatePublish
  <2>. QED BY <2>1, <2>2, AddRecordGood
<1>. QED BY <1>1, <1>2

\* updateAck on an array whose states are closed under the transitions this
\* acknowledgement can cause.
LEMMA UpdateAckGood ==
  ASSUME NEW max \in Nat, NEW states, NEW a, Good(a, max, states),
         NEW id \in AnyId, NEW ack \in AckTypes, NEW op \in Operations,
         \A q \in QoS : \A s \in states[q] :
           LET new == CalculateStateAck(ack, op, q)
           IN  ValidateTransitionAck(s, new) =>
                 /\ new # "PublishDone" => new \in states[q]
                 /\ new = "PubRelSend" => new \in states[2]
  PROVE  LET r == UpdateAckIn(a, id, ack, op)
         IN  /\ Good(r.records, max, states)
             /\ \A i \in Occupied(a) :
                  a[i].packet_id \in IdsIn(r.records)
                  \/ ValidateTransitionAck(a[i].state, "PublishDone")
<1>. DEFINE found   == RecordOf(a, id)
            new     == CalculateStateAck(ack, op, found.qos)
            at      == FindInRecord(a, id)
            deleted == DeleteRecord(a, at)
            r       == UpdateAckIn(a, id, ack, op)
<1>1. PICK n \in 0..max : a \in [1..n -> Slots]
  BY DEF Good, IsArray
<1>a. /\ deleted = DeleteRecord(a, at)
      /\ ~ (id \in IdsIn(a) /\ ValidateTransitionAck(found.state, new)) => r.records = a
      /\ id \in PacketIds /\ id \in IdsIn(a) /\ ValidateTransitionAck(found.state, new) =>
           r = IF new = found.state THEN Result(a, "Ok")
               ELSE IF new = "PublishDone" THEN Result(deleted, "Ok")
               ELSE IF new = "PubRelSend" THEN AddRecord(deleted, id, 2, "PubRelSend")
               ELSE Result(UpdateRecord(a, at, new), "Ok")
  BY InvalidAssumption DEF UpdateAckIn, Result
<1>b. /\ id \in IdsIn(a) => /\ at \in Occupied(a) /\ found = a[at]
                            /\ found.packet_id = id
      /\ new = CalculateStateAck(ack, op, found.qos)
  BY <1>1, FoundInRecord
<1>. HIDE DEF found, new, at, deleted, r
<1>2. CASE ~ (id \in IdsIn(a) /\ ValidateTransitionAck(found.state, new))
  <2>1. r.records = a
    BY <1>2, <1>a
  <2>. QED BY <2>1 DEF IdsIn, r
<1>3. CASE id \in IdsIn(a) /\ ValidateTransitionAck(found.state, new)
  <2>. id \in PacketIds /\ id # PACKET_ID_INVALID
    BY <1>3, InvalidAssumption DEF AnyId, IdsIn, Occupied
  <2>1. at \in Occupied(a) /\ found = a[at] /\ found.packet_id = id
    BY <1>3, <1>b
  <2>2. found \in Slots /\ found.qos \in QoS /\ found.state \in states[found.qos]
    BY <1>1, <2>1 DEF Good, WellFormed, Occupied, Empty, Record, Slots
  <2>3. /\ new # "PublishDone" => new \in states[found.qos]
        /\ new = "PubRelSend" => new \in states[2]
    BY <1>3, <1>b, <2>2
  <2>4. new \in PublishStates
    BY <1>3 DEF ValidateTransitionAck, AckTransitions, PublishStates
  <2>5. CASE new = found.state
    <3>1. r.records = a
      BY <1>3, <1>a, <2>5 DEF Result
    <3>. QED BY <3>1 DEF IdsIn, r
  <2>6. CASE new # found.state /\ new = "PublishDone"
    <3>1. r.records = deleted
      BY <1>3, <1>a, <2>6 DEF Result
    <3>2. Good(deleted, max, states) /\ IdsIn(deleted) = IdsIn(a) \ {id}
      BY <1>a, <2>1, DeleteGood
    <3>3. \A i \in Occupied(a) : a[i].packet_id = id => a[i].state = found.state
      BY <2>1 DEF Good, UniqueIds
    <3>4. \A i \in Occupied(a) : a[i].packet_id \in IdsIn(a)
      BY DEF IdsIn
    <3>5. \A i \in Occupied(a) : \/ a[i].packet_id \in IdsIn(r.records)
                                 \/ ValidateTransitionAck(a[i].state, "PublishDone")
      BY <1>3, <2>6, <3>1, <3>2, <3>3, <3>4
    <3>. QED BY <3>1, <3>2, <3>5 DEF r
  <2>7. CASE new # found.state /\ new = "PubRelSend"
    <3>. DEFINE moved == AddRecord(deleted, id, 2, "PubRelSend")
    <3>1. r = moved
      BY <1>3, <1>a, <2>7
    <3>2. /\ Good(deleted, max, states) /\ IdsIn(deleted) = IdsIn(a) \ {id}
          /\ Occupied(deleted) # DOMAIN deleted
      BY <1>a, <2>1, DeleteGood
    <3>3. "PubRelSend" \in PublishStates /\ 2 \in QoS /\ "PubRelSend" \in states[2]
      BY <2>3, <2>7 DEF PublishStates, QoS
    <3>4. /\ Good(moved.records, max, states)
          /\ IdsIn(deleted) \subseteq IdsIn(moved.records)
          /\ moved.status = "Ok" /\ id \in IdsIn(moved.records)
      BY <1>3, <3>2, <3>3, AddRecordGood
    <3>. QED BY <3>1, <3>2, <3>4 DEF IdsIn, r
  <2>8. CASE new # found.state /\ new # "PublishDone" /\ new # "PubRelSend"
    <3>1. r.records = UpdateRecord(a, at, new)
      BY <1>3, <1>a, <2>8 DEF Result
    <3>2. Good(r.records, max, states) /\ IdsIn(r.records) = IdsIn(a)
      BY <2>1, <2>3, <2>4, <2>8, <3>1, ChangeGood
    <3>. QED BY <3>2 DEF IdsIn, r
  <2>. QED BY <2>5, <2>6, <2>7, <2>8
<1>. QED BY <1>2, <1>3

\* The acknowledgements that concern the outgoing array keep it well formed,
\* and only a record that was waiting for its last packet leaves.
LEMMA UpdateAckOut ==
  ASSUME NEW max \in Nat, NEW a, Good(a, max, OutgoingStates), NEW id \in AnyId, NEW ack \in AckTypes, NEW op \in Operations,
         IsPublishOutgoing(ack, op)
  PROVE  LET r == UpdateAckIn(a, id, ack, op)
         IN  /\ Good(r.records, max, OutgoingStates)
             /\ \A i \in Occupied(a) :
                  \/ a[i].packet_id \in IdsIn(r.records)
                  \/ a[i].state \in {"PubAckPending", "PubCompPending"}
<1>1. ASSUME NEW q \in QoS, NEW s \in OutgoingStates[q],
             ValidateTransitionAck(s, CalculateStateAck(ack, op, q))
      PROVE  LET new == CalculateStateAck(ack, op, q)
             IN  /\ new # "PublishDone" => new \in OutgoingStates[q]
                 /\ new = "PubRelSend" => new \in OutgoingStates[2]
  BY <1>1 DEF IsPublishOutgoing, AckTypes, Operations, QoS, OutgoingStates,
              ValidateTransitionAck, AckTransitions, CalculateStateAck
<1>2. LET r == UpdateAckIn(a, id, ack, op)
      IN  /\ Good(r.records, max, OutgoingStates)
          /\ \A i \in Occupied(a) :
               a[i].packet_id \in IdsIn(r.records)
               \/ ValidateTransitionAck(a[i].state, "PublishDone")
  BY <1>1, UpdateAckGood
<1>3. ASSUME NEW i \in Occupied(a), ValidateTransitionAck(a[i].state, "PublishDone")
      PROVE  a[i].state \in {"PubAckPending", "PubCompPending"}
  <2>1. PICK n \in 0..max : a \in [1..n -> Slots]
    BY DEF Good, IsArray
  <2>2. a[i].qos \in QoS /\ a[i].state \in OutgoingStates[a[i].qos]
    BY <2>1 DEF Good, WellFormed, Occupied, Empty, Record, Slots
  <2>. QED BY <1>3, <2>2 DEF ValidateTransitionAck, AckTransitions, OutgoingStates, QoS
<1>. QED BY <1>2, <1>3

\* The acknowledgements that concern the incoming array keep it well formed.
LEMMA UpdateAckInGood ==
  ASSUME NEW max \in Nat, NEW a, Good(a, max, IncomingStates), NEW id \in AnyId, NEW ack \in AckTypes, NEW op \in Operations,
         ~ IsPublishOutgoing(ack, op)
  PROVE  Good(UpdateAckIn(a, id, ack, op).records, max, IncomingStates)
<1>1. ASSUME NEW q \in QoS, NEW s \in IncomingStates[q],
             ValidateTransitionAck(s, CalculateStateAck(ack, op, q))
      PROVE  LET new == CalculateStateAck(ack, op, q)
             IN  /\ new # "PublishDone" => new \in IncomingStates[q]
                 /\ new = "PubRelSend" => new \in IncomingStates[2]
  BY <1>1 DEF IsPublishOutgoing, AckTypes, Operations, QoS, IncomingStates,
              ValidateTransitionAck, AckTransitions, CalculateStateAck
<1>. QED BY <1>1, UpdateAckGood

\* remove keeps the outgoing array well formed (state.rs 590-609).
LEMMA RemoveGood ==
  ASSUME NEW max \in Nat, NEW a, Good(a, max, OutgoingStates), NEW id \in AnyId
  PROVE  LET r == RemoveState(a, id)
         IN  Good(r.records, max, OutgoingStates)
<1>1. CASE RemoveState(a, id).records = a
  BY <1>1
<1>2. CASE RemoveState(a, id).records # a
  <2>1. id \in IdsIn(a) /\ RemoveState(a, id).records = DeleteRecord(a, FindInRecord(a, id))
    BY <1>2 DEF RemoveState, Result
  <2>2. PICK n \in 0..max : a \in [1..n -> Slots]
    BY DEF Good, IsArray
  <2>3. FindInRecord(a, id) \in Occupied(a)
    BY <2>1, <2>2, FoundInRecord
  <2>. QED BY <2>1, <2>3, DeleteGood
<1>. QED BY <1>1, <1>2

---------------------------------------------------------------------------
(* The set of records in an array, and their order. *)

\* x is before y in the order of the array.
InOrder(a, x, y) ==
  \E i, j \in Occupied(a) : i < j /\ a[i].packet_id = x /\ a[j].packet_id = y

\* What the refinement sees of two arrays.
SameFlight(a, b) == Flight(b) = Flight(a) /\ Before(b) = Before(a)

Appended(a, b, r) ==
  /\ Flight(b) = Flight(a) \cup {r}
  /\ Before(b) = Before(a) \cup (IdsIn(a) \X {r.packet_id})

Dropped(a, b, S) ==
  /\ Flight(b) = Flight(a) \ S
  /\ Before(b) = {p \in Before(a) : p[1] \in IdsIn(b) /\ p[2] \in IdsIn(b)}

\* The order of an array is a relation on its ids.
LEMMA BeforeIs ==
  ASSUME NEW a
  PROVE  /\ Before(a) \in SUBSET (IdsIn(a) \X IdsIn(a))
         /\ \A x, y : <<x, y>> \in Before(a) <=> InOrder(a, x, y)
<1> DEFINE Q == {q \in Occupied(a) \X Occupied(a) : q[1] < q[2]}
<1>1. Before(a) = {<<a[p[1]].packet_id, a[p[2]].packet_id>> : p \in Q} BY DEF Before
<1>2. ASSUME NEW p \in Q
      PROVE  p[1] \in Occupied(a) /\ p[2] \in Occupied(a) /\ p[1] < p[2]
  OBVIOUS
<1>3. Before(a) \in SUBSET (IdsIn(a) \X IdsIn(a)) BY <1>1, <1>2 DEF IdsIn
<1>4. ASSUME NEW x, NEW y, <<x, y>> \in Before(a) PROVE InOrder(a, x, y)
  <2>1. PICK p \in Q : <<x, y>> = <<a[p[1]].packet_id, a[p[2]].packet_id>> BY <1>1, <1>4
  <2> QED BY <1>2, <2>1 DEF InOrder
<1>5. ASSUME NEW i \in Occupied(a), NEW j \in Occupied(a), i < j
      PROVE  <<a[i].packet_id, a[j].packet_id>> \in Before(a)
  <2>1. <<i, j>> \in Q BY <1>5
  <2> QED BY <1>1, <2>1
<1> QED BY <1>3, <1>4, <1>5 DEF InOrder

\* Two sets of pairs are the same when they order the same ids.
LEMMA SameOrder ==
  ASSUME NEW a, NEW b, \A x, y : InOrder(a, x, y) <=> InOrder(b, x, y)
  PROVE  Before(a) = Before(b)
<1>1. \A p \in Before(a) : p = <<p[1], p[2]>> BY BeforeIs
<1>2. \A p \in Before(b) : p = <<p[1], p[2]>> BY BeforeIs
<1> QED BY <1>1, <1>2, BeforeIs

\* Compaction is invisible: it moves records, and never past each other.
LEMMA CompactSame ==
  ASSUME NEW n \in Nat, NEW a \in [1..n -> Slots]
  PROVE  SameFlight(a, Compact(a))
<1> DEFINE b == Compact(a)
<1>1. b \in [1..n -> Slots]
      /\ \A k \in 1..n : b[k] = Empty \/ \E i \in Occupied(a) : b[k] = a[i] /\ Rank(a, i) = k
  BY CompactSlots
<1>2. ASSUME NEW i \in Occupied(a)
      PROVE  Rank(a, i) \in Occupied(b) /\ b[Rank(a, i)] = a[i]
  <2>1. Rank(a, i) \in 1..n BY RankInArray
  <2>2. \A j \in Occupied(a) : Rank(a, j) = Rank(a, i) => j = i BY RankInjective
  <2>3. b[Rank(a, i)] = a[i] BY <2>1, <2>2 DEF Compact
  <2> QED BY <1>1, <2>1, <2>3 DEF Occupied
<1>3. ASSUME NEW k \in Occupied(b)
      PROVE  \E i \in Occupied(a) : b[k] = a[i] /\ Rank(a, i) = k
  <2>1. k \in 1..n /\ b[k] # Empty BY <1>1 DEF Occupied, Empty, Record
  <2> QED BY <1>1, <2>1
<1> HIDE DEF b
<1>4. Flight(b) = Flight(a) BY <1>2, <1>3 DEF Flight
<1>5. ASSUME NEW i \in Occupied(a), NEW j \in Occupied(a), i < j
      PROVE  Rank(a, i) < Rank(a, j)
  BY <1>5, RankGrows
<1>6. ASSUME NEW i \in Occupied(a), NEW j \in Occupied(a), Rank(a, i) < Rank(a, j)
      PROVE  i < j
  <2>1. i \in Nat /\ j \in Nat BY DEF Occupied
  <2>2. Rank(a, i) \in Nat /\ Rank(a, j) \in Nat BY RankInArray
  <2>3. ~(j < i) /\ i # j BY <1>5, <1>6, <2>2
  <2> QED BY <2>1, <2>3
<1>7. \A x, y : InOrder(a, x, y) => InOrder(b, x, y) BY <1>2, <1>5 DEF InOrder
<1>8. \A x, y : InOrder(b, x, y) => InOrder(a, x, y)
  <2> SUFFICES ASSUME NEW k \in Occupied(b), NEW l \in Occupied(b), k < l
               PROVE  InOrder(a, b[k].packet_id, b[l].packet_id)
    BY DEF InOrder
  <2>1. PICK i \in Occupied(a) : b[k] = a[i] /\ Rank(a, i) = k BY <1>3
  <2>2. PICK j \in Occupied(a) : b[l] = a[j] /\ Rank(a, j) = l BY <1>3
  <2>3. i < j BY <1>6, <2>1, <2>2
  <2> QED BY <2>1, <2>2, <2>3 DEF InOrder
<1>9. Before(b) = Before(a) BY <1>7, <1>8, SameOrder
<1> QED BY <1>4, <1>9 DEF SameFlight, b

\* A record put behind the last one is last in the order.
LEMMA PutLast ==
  ASSUME NEW n \in Nat, NEW a \in [1..n -> Slots], NEW free \in FreeTail(a),
         NEW r \in Slots, r.packet_id # PACKET_ID_INVALID
  PROVE  Appended(a, [a EXCEPT ![free] = r], r)
<1> DEFINE b == [a EXCEPT ![free] = r]
<1>1. free \in 1..n /\ free \notin Occupied(a) /\ \A j \in Occupied(a) : j < free
  <2>1. free \in 1..n /\ \A j \in Occupied(a) : j < free BY DEF FreeTail
  <2> QED BY <2>1
<1>2. \A i \in 1..n : b[i] = IF i = free THEN r ELSE a[i] BY <1>1
<1>3. b \in [1..n -> Slots] BY <1>1
<1> HIDE DEF b
<1>4. Occupied(b) = Occupied(a) \cup {free} BY <1>1, <1>2, <1>3 DEF Occupied
<1>5. b[free] = r /\ \A i \in Occupied(a) : b[i] = a[i] BY <1>1, <1>2 DEF Occupied
<1>6. Flight(b) = Flight(a) \cup {r} BY <1>4, <1>5 DEF Flight
<1>7. \A x, y : InOrder(b, x, y) <=>
                  InOrder(a, x, y) \/ (x \in IdsIn(a) /\ y = r.packet_id)
  <2>1. \A j \in Occupied(a) : j \in Nat /\ free \in Nat /\ j < free /\ ~(free < j) /\ ~(free < free)
    BY <1>1 DEF Occupied
  <2>2. ASSUME NEW x, NEW y, InOrder(b, x, y)
        PROVE  InOrder(a, x, y) \/ (x \in IdsIn(a) /\ y = r.packet_id)
    <3>1. PICK i, j \in Occupied(b) : i < j /\ b[i].packet_id = x /\ b[j].packet_id = y
      BY <2>2 DEF InOrder
    <3>2. i \in Occupied(a)
      <4>1. i = free => j \in Occupied(a) \/ j = free BY <1>4
      <4>2. ~(free < free) BY <1>1
      <4> QED BY <1>4, <2>1, <3>1, <4>1, <4>2
    <3>3. CASE j = free BY <1>5, <3>1, <3>2, <3>3 DEF IdsIn
    <3>4. CASE j # free
      <4>1. j \in Occupied(a) BY <1>4, <3>4
      <4> QED BY <1>5, <3>1, <3>2, <4>1 DEF InOrder
    <3> QED BY <3>3, <3>4
  <2>3. ASSUME NEW x, NEW y, InOrder(a, x, y) PROVE InOrder(b, x, y)
    BY <1>4, <1>5, <2>3 DEF InOrder
  <2>4. ASSUME NEW i \in Occupied(a) PROVE InOrder(b, a[i].packet_id, r.packet_id)
    BY <1>4, <1>5, <2>1 DEF InOrder
  <2> QED BY <2>2, <2>3, <2>4 DEF IdsIn
<1>8. Before(b) = Before(a) \cup (IdsIn(a) \X {r.packet_id})
  <2>1. \A p \in Before(b) : p = <<p[1], p[2]>> /\ InOrder(b, p[1], p[2]) BY BeforeIs
  <2>2. \A p \in Before(a) : p = <<p[1], p[2]>> /\ InOrder(a, p[1], p[2]) BY BeforeIs
  <2>3. \A x, y : <<x, y>> \in Before(b) <=>
                    <<x, y>> \in Before(a) \/ <<x, y>> \in IdsIn(a) \X {r.packet_id}
    BY <1>7, BeforeIs
  <2>4. \A p \in IdsIn(a) \X {r.packet_id} : p = <<p[1], p[2]>> OBVIOUS
  <2>5. Before(b) \subseteq Before(a) \cup (IdsIn(a) \X {r.packet_id}) BY <2>1, <2>3
  <2>6. Before(a) \cup (IdsIn(a) \X {r.packet_id}) \subseteq Before(b) BY <2>2, <2>3, <2>4
  <2> QED BY <2>5, <2>6
<1> QED BY <1>6, <1>8 DEF Appended, b

\* Emptying a slot drops its record, and the order of the others stays.
LEMMA DeleteDrops ==
  ASSUME NEW max \in Nat, NEW states, NEW a, Good(a, max, states), NEW i \in Occupied(a)
  PROVE  Dropped(a, DeleteRecord(a, i), {a[i]})
<1> DEFINE d == DeleteRecord(a, i)
<1>1. PICK n \in 0..max : a \in [1..n -> Slots] BY DEF Good, IsArray
<1>2. \A j \in 1..n : d[j] = IF j = i THEN Empty ELSE a[j] BY <1>1 DEF DeleteRecord
<1>3. d \in [1..n -> Slots] /\ i \in 1..n BY <1>1, SlotTypes DEF Occupied, DeleteRecord
<1> HIDE DEF d
<1>4. Occupied(d) = Occupied(a) \ {i} /\ \A j \in Occupied(d) : d[j] = a[j]
  BY <1>1, <1>2, <1>3 DEF Occupied, Empty, Record
<1>5. \A j, k \in Occupied(a) : a[j].packet_id = a[k].packet_id => j = k
  BY DEF Good, UniqueIds
<1>6. Flight(d) = Flight(a) \ {a[i]} BY <1>4, <1>5 DEF Flight
<1>7. \A x, y : InOrder(d, x, y) <=> InOrder(a, x, y) /\ x \in IdsIn(d) /\ y \in IdsIn(d)
  BY <1>4, <1>5 DEF InOrder, IdsIn
<1>8. Before(d) = {p \in Before(a) : p[1] \in IdsIn(d) /\ p[2] \in IdsIn(d)}
  <2>1. \A p \in Before(d) : p = <<p[1], p[2]>> BY BeforeIs
  <2>2. \A p \in Before(a) : p = <<p[1], p[2]>> BY BeforeIs
  <2> QED BY <1>7, <2>1, <2>2, BeforeIs
<1> QED BY <1>6, <1>8 DEF Dropped, d

\* A change of state changes one record where it stands.
LEMMA ChangeInPlace ==
  ASSUME NEW max \in Nat, NEW states, NEW a, Good(a, max, states), NEW i \in Occupied(a),
         NEW new
  PROVE  LET c == UpdateRecord(a, i, new)
         IN  /\ Flight(c) = (Flight(a) \ {a[i]}) \cup {[a[i] EXCEPT !.state = new]}
             /\ Before(c) = Before(a)
<1> DEFINE c == UpdateRecord(a, i, new)
           r == [a[i] EXCEPT !.state = new]
<1>1. PICK n \in 0..max : a \in [1..n -> Slots] BY DEF Good, IsArray
<1>2. i \in 1..n /\ a[i] \in Slots BY <1>1 DEF Occupied
<1>3. DOMAIN c = 1..n /\ \A j \in 1..n : c[j] = IF j = i THEN r ELSE a[j]
  BY <1>1, <1>2 DEF UpdateRecord
<1>4. r.packet_id = a[i].packet_id BY <1>2 DEF Slots
<1> HIDE DEF c, r
<1>5. Occupied(c) = Occupied(a) /\ \A j \in Occupied(a) : c[j].packet_id = a[j].packet_id
  BY <1>1, <1>2, <1>3, <1>4 DEF Occupied
<1>6. \A j \in Occupied(a) : c[j] = IF j = i THEN r ELSE a[j] BY <1>1, <1>3 DEF Occupied
<1>7. \A j \in Occupied(a) : a[j].packet_id = a[i].packet_id => j = i BY DEF Good, UniqueIds
<1>8. Flight(c) = (Flight(a) \ {a[i]}) \cup {r} BY <1>5, <1>6, <1>7 DEF Flight
<1>9. Before(c) = Before(a)
  <2>1. \A x, y : InOrder(c, x, y) <=> InOrder(a, x, y) BY <1>5 DEF InOrder
  <2> QED BY <2>1, SameOrder
<1> QED BY <1>8, <1>9 DEF c, r

\* A cut takes the end of the order.
LEMMA CapDrops ==
  ASSUME NEW max \in Nat, NEW states, NEW a, Good(a, max, states), NEW m \in Nat
  PROVE  LET S == Flight(a) \ Flight(CapTo(a, m))
         IN  /\ Dropped(a, CapTo(a, m), S)
             /\ \A p \in Before(a) : p[1] \notin IdsIn(CapTo(a, m)) =>
                                     p[2] \notin IdsIn(CapTo(a, m))
<1> DEFINE c == CapTo(a, m)
<1>1. PICK n \in 0..max : a \in [1..n -> Slots] BY DEF Good, IsArray
<1>2. DOMAIN c = {j \in 1..n : j <= m} /\ \A j \in DOMAIN c : c[j] = a[j]
  BY <1>1 DEF CapTo
<1> HIDE DEF c
<1>3. Occupied(c) = {j \in Occupied(a) : j <= m} /\ \A j \in Occupied(c) : c[j] = a[j]
  BY <1>1, <1>2 DEF Occupied
<1>4. \A j, k \in Occupied(a) : a[j].packet_id = a[k].packet_id => j = k
  BY DEF Good, UniqueIds
<1>5. Occupied(a) \in SUBSET Nat BY <1>1 DEF Occupied
<1>6. Flight(c) \subseteq Flight(a) BY <1>3 DEF Flight
<1>7. \A x, y : InOrder(c, x, y) <=> InOrder(a, x, y) /\ x \in IdsIn(c) /\ y \in IdsIn(c)
  BY <1>3, <1>4 DEF InOrder, IdsIn
<1>8. Before(c) = {p \in Before(a) : p[1] \in IdsIn(c) /\ p[2] \in IdsIn(c)}
  <2>1. \A p \in Before(c) : p = <<p[1], p[2]>> BY BeforeIs
  <2>2. \A p \in Before(a) : p = <<p[1], p[2]>> BY BeforeIs
  <2> QED BY <1>7, <2>1, <2>2, BeforeIs
<1>9. ASSUME NEW p \in Before(a), p[1] \notin IdsIn(c) PROVE p[2] \notin IdsIn(c)
  <2>1. p = <<p[1], p[2]>> BY BeforeIs
  <2>2. PICK i, j \in Occupied(a) : i < j /\ a[i].packet_id = p[1] /\ a[j].packet_id = p[2]
    BY <2>1, BeforeIs DEF InOrder
  <2>3. ~(i <= m) BY <1>3, <1>9, <2>2 DEF IdsIn
  <2>4. ~(j <= m) BY <1>5, <2>2, <2>3
  <2> QED BY <1>3, <1>4, <2>2, <2>4 DEF IdsIn
<1> QED BY <1>6, <1>8, <1>9 DEF Dropped, c

\* addRecord, seen through the refinement.
LEMMA AddRecordSeen ==
  ASSUME NEW max \in Nat, NEW states, NEW a, Good(a, max, states),
         NEW id \in PacketIds, NEW q \in QoS, NEW s \in PublishStates
  PROVE  LET add == AddRecord(a, id, q, s)
         IN  \/ add.status # "Ok" /\ SameFlight(a, add.records)
             \/ /\ id \notin IdsIn(a) /\ add.status = "Ok"
                /\ Appended(a, add.records, Record(id, q, s))
<1> DEFINE packed == IF FreeTail(a) = {} THEN Compact(a) ELSE a
           free   == FirstOf(FreeTail(packed))
           added  == [packed EXCEPT ![free] = Record(id, q, s)]
           add    == AddRecord(a, id, q, s)
<1>1. PICK n \in 0..max : a \in [1..n -> Slots] BY DEF Good, IsArray
<1>2. n \in Nat OBVIOUS
<1>3. SameFlight(a, packed) /\ IdsIn(packed) = IdsIn(a) /\ packed \in [1..n -> Slots]
  <2>1. SameFlight(a, a) BY DEF SameFlight
  <2> QED BY <1>1, <1>2, <2>1, CompactSame, CompactKeepsIds, CompactSlots
<1>4. add = IF id \in IdsIn(packed) THEN [records |-> packed, status |-> "StateCollision"]
            ELSE IF FreeTail(packed) = {} THEN [records |-> packed, status |-> "NoMemory"]
            ELSE [records |-> added, status |-> "Ok"]
  BY Zenon DEF AddRecord, Result
<1> HIDE DEF packed, add
<1>5. ASSUME id \notin IdsIn(packed), FreeTail(packed) # {}
      PROVE  Appended(packed, added, Record(id, q, s))
  <2>1. FreeTail(packed) \in SUBSET Nat BY <1>2, <1>3 DEF FreeTail
  <2>2. free \in FreeTail(packed) BY <1>5, <2>1, FirstOfLeast
  <2>3. Record(id, q, s) \in Slots /\ Record(id, q, s).packet_id = id /\ id # PACKET_ID_INVALID
    BY SlotTypes, InvalidAssumption DEF Record
  <2> HIDE DEF free
  <2> QED BY <1>2, <1>3, <2>2, <2>3, PutLast
<1> HIDE DEF added
<1>6. ASSUME Appended(packed, added, Record(id, q, s)) PROVE Appended(a, added, Record(id, q, s))
  BY <1>3, <1>6 DEF Appended, SameFlight
<1> QED BY <1>3, <1>4, <1>5, <1>6 DEF add

\* What an acknowledgement does to the record it is for: nothing, the end, the
\* move of a PUBREC to the end of the order, or a change of state.
AckSteps(a, b, i, new) ==
  \/ new = "PublishDone" /\ Dropped(a, b, {a[i]}) /\ IdsIn(b) = IdsIn(a) \ {a[i].packet_id}
  \/ /\ new = "PubRelSend"
     /\ Flight(b) = (Flight(a) \ {a[i]}) \cup {Record(a[i].packet_id, 2, "PubRelSend")}
     /\ Before(b) = {p \in Before(a) : /\ p[1] \in IdsIn(a) \ {a[i].packet_id}
                                       /\ p[2] \in IdsIn(a) \ {a[i].packet_id}}
                    \cup ((IdsIn(a) \ {a[i].packet_id}) \X {a[i].packet_id})
  \/ /\ new \notin {"PublishDone", "PubRelSend"}
     /\ Flight(b) = (Flight(a) \ {a[i]}) \cup {[a[i] EXCEPT !.state = new]}
     /\ Before(b) = Before(a)

\* updateAck is one of those, for the record whose id it was given.
LEMMA UpdateAckSeen ==
  ASSUME NEW max \in Nat, NEW states, NEW a, Good(a, max, states),
         NEW id \in AnyId, NEW ack \in AckTypes, NEW op \in Operations
  PROVE  LET b == UpdateAckIn(a, id, ack, op).records
         IN  \/ SameFlight(a, b)
             \/ \E i \in Occupied(a) :
                  LET new == CalculateStateAck(ack, op, a[i].qos)
                  IN  /\ ValidateTransitionAck(a[i].state, new) /\ new # a[i].state
                      /\ AckSteps(a, b, i, new)
<1> DEFINE found   == RecordOf(a, id)
           new     == CalculateStateAck(ack, op, found.qos)
           at      == FindInRecord(a, id)
           deleted == DeleteRecord(a, at)
           moved   == AddRecord(deleted, id, 2, "PubRelSend")
           b       == UpdateAckIn(a, id, ack, op).records
<1>1. PICK n \in 0..max : a \in [1..n -> Slots] BY DEF Good, IsArray
<1>2. /\ ~(id \in IdsIn(a) /\ ValidateTransitionAck(found.state, new)) => b = a
      /\ id \in PacketIds /\ id \in IdsIn(a) /\ ValidateTransitionAck(found.state, new) =>
           b = IF new = found.state THEN a
               ELSE IF new = "PublishDone" THEN deleted
               ELSE IF new = "PubRelSend" THEN moved.records
               ELSE UpdateRecord(a, at, new)
  BY InvalidAssumption DEF UpdateAckIn, Result
<1>3. id \in IdsIn(a) => at \in Occupied(a) /\ found = a[at] /\ found.packet_id = id
  BY <1>1, FoundInRecord
<1>4. /\ new = CalculateStateAck(ack, op, found.qos) /\ deleted = DeleteRecord(a, at)
      /\ moved = AddRecord(deleted, id, 2, "PubRelSend")
  OBVIOUS
<1> HIDE DEF found, new, at, deleted, moved, b
<1>5. SameFlight(a, a) BY DEF SameFlight
<1>6. CASE ~(id \in IdsIn(a) /\ ValidateTransitionAck(found.state, new))
  BY <1>2, <1>5, <1>6 DEF b
<1>7. CASE id \in IdsIn(a) /\ ValidateTransitionAck(found.state, new)
  <2>1. id \in PacketIds BY <1>7, InvalidAssumption DEF AnyId, IdsIn, Occupied
  <2>2. at \in Occupied(a) /\ found = a[at] /\ found.packet_id = id BY <1>3, <1>7
  <2>3. CASE new = found.state BY <1>2, <1>5, <1>7, <2>1, <2>3 DEF b
  <2>4. SUFFICES ASSUME new # found.state PROVE AckSteps(a, b, at, new)
    BY <1>4, <1>7, <2>2, <2>3 DEF b
  <2>5. /\ Dropped(a, deleted, {a[at]}) /\ Good(deleted, max, states)
        /\ IdsIn(deleted) = IdsIn(a) \ {id} /\ Occupied(deleted) # DOMAIN deleted
    BY <1>4, <2>2, DeleteDrops, DeleteGood
  <2>6. CASE new = "PublishDone" BY <1>2, <1>7, <2>1, <2>2, <2>4, <2>5, <2>6 DEF AckSteps
  <2>7. CASE new = "PubRelSend"
    <3>1. b = moved.records BY <1>2, <1>7, <2>1, <2>4, <2>7
    <3>2. "PubRelSend" \in PublishStates /\ 2 \in QoS BY DEF PublishStates, QoS
    <3>3. \/ moved.status # "Ok" /\ SameFlight(deleted, moved.records)
          \/ id \notin IdsIn(deleted) /\ Appended(deleted, moved.records, Record(id, 2, "PubRelSend"))
      BY <1>4, <2>1, <2>5, <3>2, AddRecordSeen
    <3>4. moved.status = "Ok" BY <1>4, <2>1, <2>5, <3>2, AddRecordStatus
    <3>5. Appended(deleted, b, Record(id, 2, "PubRelSend")) BY <3>1, <3>3, <3>4
    <3>6. Record(id, 2, "PubRelSend").packet_id = id BY DEF Record
    <3> QED BY <2>2, <2>5, <2>7, <3>5, <3>6 DEF AckSteps, Appended, Dropped
  <2>8. CASE new \notin {"PublishDone", "PubRelSend"}
    <3>1. b = UpdateRecord(a, at, new) BY <1>2, <1>7, <2>1, <2>4, <2>8
    <3> QED BY <2>2, <2>8, <3>1, ChangeInPlace DEF AckSteps
  <2> QED BY <2>6, <2>7, <2>8
<1> QED BY <1>6, <1>7

\* A cleared array holds nothing, in no order.
LEMMA ClearDrops ==
  ASSUME NEW a
  PROVE  Dropped(a, Clear(a), Flight(a)) /\ IdsIn(Clear(a)) = {}
<1>1. Occupied(Clear(a)) = {} BY DEF Occupied, Clear, Empty, Record
<1>2. Flight(Clear(a)) = {} /\ IdsIn(Clear(a)) = {} BY <1>1 DEF Flight, IdsIn
<1>3. Before(Clear(a)) = {} BY <1>2, BeforeIs
<1> QED BY <1>2, <1>3 DEF Dropped

\* An id is in a set of records that an array lost just when the array had it
\* and has it no longer.
LEMMA LostIds ==
  ASSUME NEW max \in Nat, NEW states, NEW a, Good(a, max, states), NEW b,
         Flight(b) \subseteq Flight(a), NEW r \in Flight(a)
  PROVE  r.packet_id \in {s.packet_id : s \in Flight(a) \ Flight(b)} <=> r.packet_id \notin IdsIn(b)
<1>1. \A r1, r2 \in Flight(a) : r1.packet_id = r2.packet_id => r1 = r2
  BY DEF Good, UniqueIds, Flight
<1>2. IdsIn(b) = {s.packet_id : s \in Flight(b)} BY DEF IdsIn, Flight
<1> QED BY <1>1, <1>2

\* Nothing is in flight at first.
LEMMA EmptyFlight ==
  ASSUME NEW a, \A i \in DOMAIN a : a[i] = Empty
  PROVE  Flight(a) = {} /\ Before(a) = {}
<1>1. Occupied(a) = {} BY DEF Occupied, Empty, Record
<1>2. Flight(a) = {} /\ IdsIn(a) = {} BY <1>1 DEF Flight, IdsIn
<1> QED BY <1>2, BeforeIs

---------------------------------------------------------------------------
(* Arrays seen by packet id: which ids are in the array, and the record of *)
(* each.  A client of these functions knows nothing else of an array.      *)

\* Nothing changes but the order; one record is new or changed; one is gone.
SameRecords(a, b) ==
  /\ IdsIn(b) = IdsIn(a)
  /\ \A x \in IdsIn(a) : RecordOf(b, x) = RecordOf(a, x)

Recorded(a, b, r) ==
  /\ IdsIn(b) = IdsIn(a) \cup {r.packet_id}
  /\ RecordOf(b, r.packet_id) = r
  /\ \A x \in IdsIn(a) : x # r.packet_id => RecordOf(b, x) = RecordOf(a, x)

Forgotten(a, b, id) ==
  /\ IdsIn(b) = IdsIn(a) \ {id}
  /\ \A x \in IdsIn(b) : RecordOf(b, x) = RecordOf(a, x)

\* An id names one record, and every record is named by its id.
LEMMA ById ==
  ASSUME NEW max \in Nat, NEW states, NEW a, Good(a, max, states)
  PROVE  /\ \A i \in Occupied(a) : /\ a[i].packet_id \in IdsIn(a)
                                   /\ RecordOf(a, a[i].packet_id) = a[i]
         /\ \A id \in IdsIn(a) : /\ FindInRecord(a, id) \in Occupied(a)
                                 /\ RecordOf(a, id) = a[FindInRecord(a, id)]
                                 /\ RecordOf(a, id).packet_id = id
                                 /\ RecordOf(a, id) \in Slots
                                 /\ RecordOf(a, id).qos \in QoS
                                 /\ RecordOf(a, id).state \in states[RecordOf(a, id).qos]
                                 /\ id \in PacketIds
<1>1. PICK n \in 0..max : a \in [1..n -> Slots] BY DEF Good, IsArray
<1>2. ASSUME NEW id \in IdsIn(a)
      PROVE  /\ FindInRecord(a, id) \in Occupied(a) /\ RecordOf(a, id).packet_id = id
             /\ RecordOf(a, id) = a[FindInRecord(a, id)]
  BY <1>1, FoundInRecord
<1>3. ASSUME NEW id \in IdsIn(a)
      PROVE  /\ RecordOf(a, id) \in Slots /\ RecordOf(a, id).qos \in QoS
             /\ RecordOf(a, id).state \in states[RecordOf(a, id).qos]
  BY <1>2, RecordShape
<1>4. ASSUME NEW i \in Occupied(a)
      PROVE  a[i].packet_id \in IdsIn(a) /\ RecordOf(a, a[i].packet_id) = a[i]
  <2>1. a[i].packet_id \in IdsIn(a) BY DEF IdsIn
  <2>2. \A j \in Occupied(a) : a[j].packet_id = a[i].packet_id => j = i
    BY DEF Good, UniqueIds
  <2> QED BY <1>2, <2>1, <2>2
<1>5. \A i \in Occupied(a) : a[i].packet_id \in PacketIds
  BY <1>1 DEF Occupied, Slots
<1> QED BY <1>2, <1>3, <1>4, <1>5 DEF IdsIn

\* The set of records determines the view by id.
LEMMA FlightById ==
  ASSUME NEW max \in Nat, NEW states, NEW a, Good(a, max, states)
  PROVE  \A r : r \in Flight(a) <=> r.packet_id \in IdsIn(a) /\ r = RecordOf(a, r.packet_id)
<1>1. ASSUME NEW r \in Flight(a)
      PROVE  r.packet_id \in IdsIn(a) /\ r = RecordOf(a, r.packet_id)
  <2>1. PICK i \in Occupied(a) : r = a[i] BY DEF Flight
  <2> QED BY <2>1, ById
<1>2. ASSUME NEW x \in IdsIn(a) PROVE RecordOf(a, x) \in Flight(a)
  BY ById DEF Flight
<1> QED BY <1>1, <1>2

\* Two arrays with the same records look the same.
LEMMA SameById ==
  ASSUME NEW max \in Nat, NEW states, NEW a, Good(a, max, states),
         NEW b, Good(b, max, states), Flight(b) = Flight(a)
  PROVE  SameRecords(a, b)
<1>1. ASSUME NEW x \in IdsIn(a) PROVE x \in IdsIn(b) /\ RecordOf(b, x) = RecordOf(a, x)
  <2>1. RecordOf(a, x) \in Flight(b) /\ RecordOf(a, x).packet_id = x BY ById, FlightById
  <2> QED BY <2>1, FlightById
<1>2. ASSUME NEW x \in IdsIn(b) PROVE x \in IdsIn(a)
  <2>1. RecordOf(b, x) \in Flight(a) /\ RecordOf(b, x).packet_id = x BY ById, FlightById
  <2> QED BY <2>1, FlightById
<1> QED BY <1>1, <1>2 DEF SameRecords

\* A record put in, in place of those of the same id if there are any.
LEMMA RecordedById ==
  ASSUME NEW max \in Nat, NEW states, NEW a, Good(a, max, states),
         NEW b, Good(b, max, states), NEW r, NEW S,
         \A o \in S : o.packet_id = r.packet_id,
         \A o \in Flight(a) : o.packet_id = r.packet_id => o \in S,
         Flight(b) = (Flight(a) \ S) \cup {r}
  PROVE  Recorded(a, b, r)
<1>1. r.packet_id \in IdsIn(b) /\ RecordOf(b, r.packet_id) = r BY FlightById
<1>2. ASSUME NEW x \in IdsIn(a), x # r.packet_id
      PROVE  x \in IdsIn(b) /\ RecordOf(b, x) = RecordOf(a, x)
  <2>1. RecordOf(a, x) \in Flight(a) /\ RecordOf(a, x).packet_id = x BY ById, FlightById
  <2>2. RecordOf(a, x) \in Flight(b) BY <1>2, <2>1
  <2> QED BY <2>1, <2>2, FlightById
<1>3. ASSUME NEW x \in IdsIn(b), x # r.packet_id PROVE x \in IdsIn(a)
  <2>1. RecordOf(b, x) \in Flight(b) /\ RecordOf(b, x).packet_id = x BY ById, FlightById
  <2>2. RecordOf(b, x) \in Flight(a) BY <1>3, <2>1
  <2> QED BY <2>1, <2>2, FlightById
<1> QED BY <1>1, <1>2, <1>3 DEF Recorded

\* A record taken out.
LEMMA ForgottenById ==
  ASSUME NEW max \in Nat, NEW states, NEW a, Good(a, max, states),
         NEW b, Good(b, max, states), NEW i \in Occupied(a), Flight(b) = Flight(a) \ {a[i]}
  PROVE  Forgotten(a, b, a[i].packet_id)
<1>1. a[i].packet_id \in IdsIn(a) /\ RecordOf(a, a[i].packet_id) = a[i] BY ById
<1>2. ASSUME NEW x \in IdsIn(a), x # a[i].packet_id
      PROVE  x \in IdsIn(b) /\ RecordOf(b, x) = RecordOf(a, x)
  <2>1. RecordOf(a, x) \in Flight(a) /\ RecordOf(a, x).packet_id = x BY ById, FlightById
  <2>2. RecordOf(a, x) \in Flight(b) BY <1>2, <2>1
  <2> QED BY <2>1, <2>2, FlightById
<1>3. ASSUME NEW x \in IdsIn(b) PROVE x \in IdsIn(a) /\ x # a[i].packet_id
  <2>1. RecordOf(b, x) \in Flight(b) /\ RecordOf(b, x).packet_id = x BY ById, FlightById
  <2>2. RecordOf(b, x) \in Flight(a) /\ RecordOf(b, x) # a[i] BY <2>1
  <2> QED BY <1>1, <2>1, <2>2, FlightById
<1> QED BY <1>2, <1>3 DEF Forgotten

\* addRecord neither grows nor shrinks the array.
LEMMA AddRecordSize ==
  ASSUME NEW a, NEW id, NEW q, NEW s
  PROVE  DOMAIN AddRecord(a, id, q, s).records = DOMAIN a
<1> DEFINE packed == IF FreeTail(a) = {} THEN Compact(a) ELSE a
<1>1. DOMAIN packed = DOMAIN a BY DEF Compact
<1>2. AddRecord(a, id, q, s) =
        IF id \in IdsIn(packed) THEN [records |-> packed, status |-> "StateCollision"]
        ELSE IF FreeTail(packed) = {} THEN [records |-> packed, status |-> "NoMemory"]
        ELSE [records |-> [packed EXCEPT ![FirstOf(FreeTail(packed))] = Record(id, q, s)],
              status  |-> "Ok"]
  BY Zenon DEF AddRecord, Result
<1> HIDE DEF packed
<1> QED BY <1>1, <1>2

\* addRecord: the record is new and last, or its id is taken, or the array is
\* full; and then nothing but the place of the records changes.
LEMMA AddRecordCases ==
  ASSUME NEW max \in Nat, NEW states, NEW a, Good(a, max, states),
         NEW id \in PacketIds, NEW q \in QoS, NEW s \in PublishStates, s \in states[q]
  PROVE  LET r == AddRecord(a, id, q, s)
         IN  /\ Good(r.records, max, states)
             /\ DOMAIN r.records = DOMAIN a
             /\ \/ /\ r.status = "Ok" /\ id \notin IdsIn(a)
                   /\ Recorded(a, r.records, Record(id, q, s))
                   /\ Appended(a, r.records, Record(id, q, s))
                \/ /\ r.status = "StateCollision" /\ id \in IdsIn(a)
                   /\ SameRecords(a, r.records) /\ SameFlight(a, r.records)
                \/ /\ r.status = "NoMemory" /\ id \notin IdsIn(a) /\ Occupied(a) = DOMAIN a
                   /\ SameRecords(a, r.records) /\ SameFlight(a, r.records)
<1> DEFINE r == AddRecord(a, id, q, s)
<1>1. /\ Good(r.records, max, states)
      /\ r.status \in {"Ok", "StateCollision", "NoMemory"}
      /\ r.status = "StateCollision" <=> id \in IdsIn(a)
      /\ r.status = "NoMemory" <=> id \notin IdsIn(a) /\ Occupied(a) = DOMAIN a
  BY AddRecordGood
<1>2. DOMAIN r.records = DOMAIN a BY AddRecordSize
<1>3. \/ r.status # "Ok" /\ SameFlight(a, r.records)
      \/ id \notin IdsIn(a) /\ r.status = "Ok" /\ Appended(a, r.records, Record(id, q, s))
  BY AddRecordSeen
<1> HIDE DEF r
<1>4. ASSUME SameFlight(a, r.records) PROVE SameRecords(a, r.records)
  BY <1>1, <1>4, SameById DEF SameFlight
<1>5. ASSUME id \notin IdsIn(a), Appended(a, r.records, Record(id, q, s))
      PROVE  Recorded(a, r.records, Record(id, q, s))
  <2>1. Record(id, q, s).packet_id = id BY DEF Record
  <2>2. \A o \in Flight(a) : o.packet_id # id BY <1>5, FlightById
  <2>3. Flight(r.records) = (Flight(a) \ {}) \cup {Record(id, q, s)} BY <1>5 DEF Appended
  <2> HIDE DEF Record
  <2> DEFINE new == Record(id, q, s)
             S   == {}
  <2>4. /\ \A o \in S : o.packet_id = new.packet_id
        /\ \A o \in Flight(a) : o.packet_id = new.packet_id => o \in S
        /\ Flight(r.records) = (Flight(a) \ S) \cup {new}
    BY <2>1, <2>2, <2>3
  <2> HIDE DEF new, S
  <2>5. Recorded(a, r.records, new) BY <1>1, <2>4, RecordedById
  <2> QED BY <2>5 DEF new
<1> QED BY <1>1, <1>2, <1>3, <1>4, <1>5 DEF r

\* reserve, for a QoS 1 or 2 publish (state.rs 447-457).
LEMMA ReserveCases ==
  ASSUME NEW max \in Nat, NEW a, Good(a, max, OutgoingStates),
         NEW id \in PacketIds, NEW q \in {1, 2}
  PROVE  LET r   == ReserveState(a, id, q)
             new == Record(id, q, "PublishSend")
         IN  /\ Good(r.records, max, OutgoingStates)
             /\ DOMAIN r.records = DOMAIN a
             /\ \/ /\ r.status = "Ok" /\ id \notin IdsIn(a)
                   /\ Recorded(a, r.records, new) /\ Appended(a, r.records, new)
                \/ /\ r.status = "StateCollision" /\ id \in IdsIn(a)
                   /\ SameRecords(a, r.records) /\ SameFlight(a, r.records)
                \/ /\ r.status = "NoMemory" /\ id \notin IdsIn(a)
                   /\ SameRecords(a, r.records) /\ SameFlight(a, r.records)
<1>1. ReserveState(a, id, q) = AddRecord(a, id, q, "PublishSend")
  BY InvalidAssumption DEF ReserveState
<1>2. "PublishSend" \in PublishStates /\ "PublishSend" \in OutgoingStates[q] /\ q \in QoS
  BY DEF PublishStates, OutgoingStates, QoS
<1> QED BY <1>1, <1>2, AddRecordCases

\* A change of state, seen by id.
LEMMA ChangeById ==
  ASSUME NEW max \in Nat, NEW states, NEW a, Good(a, max, states), NEW id \in IdsIn(a),
         NEW new \in PublishStates, new \in states[RecordOf(a, id).qos]
  PROVE  LET c == UpdateRecord(a, FindInRecord(a, id), new)
         IN  /\ Good(c, max, states) /\ DOMAIN c = DOMAIN a
             /\ Recorded(a, c, [RecordOf(a, id) EXCEPT !.state = new])
             /\ Before(c) = Before(a)
<1> DEFINE i == FindInRecord(a, id)
           c == UpdateRecord(a, i, new)
           r == [a[i] EXCEPT !.state = new]
<1>1. i \in Occupied(a) /\ RecordOf(a, id) = a[i] /\ a[i].packet_id = id /\ a[i] \in Slots
  BY ById
<1>2. DOMAIN c = DOMAIN a BY DEF UpdateRecord
<1>3. r.packet_id = id BY <1>1 DEF Slots
<1> HIDE DEF i
<1>4. Good(c, max, states) BY <1>1, ChangeGood
<1>5. /\ Flight(c) = (Flight(a) \ {a[i]}) \cup {r}
      /\ Before(c) = Before(a)
  BY <1>1, ChangeInPlace
<1>6. \A o \in Flight(a) : o.packet_id = id => o = a[i] BY <1>1, FlightById
<1> HIDE DEF r, c
<1>7. Recorded(a, c, r)
  <2> DEFINE S == {a[i]}
  <2>1. /\ \A o \in S : o.packet_id = r.packet_id
        /\ \A o \in Flight(a) : o.packet_id = r.packet_id => o \in S
        /\ Flight(c) = (Flight(a) \ S) \cup {r}
    BY <1>1, <1>3, <1>5, <1>6
  <2> HIDE DEF S
  <2> QED BY <1>4, <2>1, RecordedById
<1> QED BY <1>1, <1>2, <1>4, <1>5, <1>7 DEF i, c, r

\* A deletion, seen by id.
LEMMA DeleteById ==
  ASSUME NEW max \in Nat, NEW states, NEW a, Good(a, max, states), NEW id \in IdsIn(a)
  PROVE  LET d == DeleteRecord(a, FindInRecord(a, id))
         IN  /\ Good(d, max, states) /\ DOMAIN d = DOMAIN a
             /\ Forgotten(a, d, id) /\ Occupied(d) # DOMAIN d
             /\ Dropped(a, d, {RecordOf(a, id)})
<1> DEFINE i == FindInRecord(a, id)
           d == DeleteRecord(a, i)
<1>1. i \in Occupied(a) /\ RecordOf(a, id) = a[i] /\ a[i].packet_id = id BY ById
<1>2. DOMAIN d = DOMAIN a BY DEF DeleteRecord
<1> HIDE DEF i
<1>3. Good(d, max, states) /\ Occupied(d) # DOMAIN d BY <1>1, DeleteGood
<1>4. Dropped(a, d, {a[i]}) BY <1>1, DeleteDrops
<1>5. Forgotten(a, d, id) BY <1>1, <1>3, <1>4, ForgottenById DEF Dropped
<1> QED BY <1>1, <1>2, <1>3, <1>4, <1>5 DEF i

\* update_publish for a PUBLISH sent again or for the first time: the record
\* notes it (state.rs 467-517).
LEMMA PublishSendCases ==
  ASSUME NEW max \in Nat, NEW a, Good(a, max, OutgoingStates), NEW id \in IdsIn(a),
         NEW q \in {1, 2}, RecordOf(a, id).qos = q,
         RecordOf(a, id).state \in PublishToResendStates
  PROVE  LET b   == UpdatePublishSend(a, id, q).records
             new == CalculateStatePublish("Send", q)
         IN  /\ Good(b, max, OutgoingStates) /\ DOMAIN b = DOMAIN a
             /\ Recorded(a, b, [RecordOf(a, id) EXCEPT !.state = new])
             /\ Before(b) = Before(a)
<1> DEFINE new == CalculateStatePublish("Send", q)
           at  == FindInRecord(a, id)
<1>1. RecordOf(a, id).state \in OutgoingStates[q] BY ById
<1>2. /\ new \in PublishStates /\ new \in OutgoingStates[q]
      /\ ValidateTransitionPublish(RecordOf(a, id).state, new, "Send", q)
  BY <1>1 DEF CalculateStatePublish, PublishStates, OutgoingStates, QoS,
              PublishToResendStates, ValidateTransitionPublish
<1>3. UpdatePublishSend(a, id, q).records = UpdateRecord(a, at, new)
  BY <1>2 DEF UpdatePublishSend, Result
<1> HIDE DEF new
<1> QED BY <1>2, <1>3, ChangeById DEF new

\* What an acknowledgement that would take the record of id to state new does.
\* One the record is not waiting for changes nothing; any other is accepted,
\* and ends, requeues or moves the record on.
AckMoves(a, r, id, new) ==
  \/ /\ r.status # "Ok" /\ r.records = a
     /\ id \in IdsIn(a) => ~ ValidateTransitionAck(RecordOf(a, id).state, new)
  \/ /\ r.status = "Ok" /\ id \in IdsIn(a)
     /\ ValidateTransitionAck(RecordOf(a, id).state, new)
     /\ \/ new = RecordOf(a, id).state /\ r.records = a
        \/ /\ new # RecordOf(a, id).state /\ new = "PublishDone"
           /\ Forgotten(a, r.records, id) /\ Dropped(a, r.records, {RecordOf(a, id)})
        \/ /\ new # RecordOf(a, id).state /\ new = "PubRelSend"
           /\ Recorded(a, r.records, Record(id, 2, "PubRelSend"))
           /\ Before(r.records) =
                {p \in Before(a) : p[1] \in IdsIn(a) \ {id} /\ p[2] \in IdsIn(a) \ {id}}
                \cup ((IdsIn(a) \ {id}) \X {id})
        \/ /\ new # RecordOf(a, id).state /\ new \notin {"PublishDone", "PubRelSend"}
           /\ Recorded(a, r.records, [RecordOf(a, id) EXCEPT !.state = new])
           /\ Before(r.records) = Before(a)

\* The states of a direction are closed under an acknowledgement.
ClosedUnder(states, ack, op) ==
  \A q \in QoS : \A s \in states[q] :
    LET new == CalculateStateAck(ack, op, q)
    IN  ValidateTransitionAck(s, new) =>
          /\ new # "PublishDone" => new \in states[q]
          /\ new = "PubRelSend" => new \in states[2]

\* updateAck moves a record so (state.rs 520-587).
LEMMA AckCases ==
  ASSUME NEW max \in Nat, NEW states, NEW a, Good(a, max, states),
         NEW id \in PacketIds, NEW ack \in AckTypes, NEW op \in Operations,
         ClosedUnder(states, ack, op)
  PROVE  LET r == UpdateAckIn(a, id, ack, op)
         IN  /\ Good(r.records, max, states) /\ DOMAIN r.records = DOMAIN a
             /\ AckMoves(a, r, id, CalculateStateAck(ack, op, RecordOf(a, id).qos))
<1> DEFINE found   == RecordOf(a, id)
           new     == CalculateStateAck(ack, op, found.qos)
           at      == FindInRecord(a, id)
           deleted == DeleteRecord(a, at)
           moved   == AddRecord(deleted, id, 2, "PubRelSend")
           r       == UpdateAckIn(a, id, ack, op)
<1>1. /\ ~ (id \in IdsIn(a) /\ ValidateTransitionAck(found.state, new)) =>
           r.records = a /\ r.status # "Ok"
      /\ id \in IdsIn(a) /\ ValidateTransitionAck(found.state, new) =>
           r = IF new = found.state THEN Result(a, "Ok")
               ELSE IF new = "PublishDone" THEN Result(deleted, "Ok")
               ELSE IF new = "PubRelSend" THEN moved
               ELSE Result(UpdateRecord(a, at, new), "Ok")
  <2>1. id # PACKET_ID_INVALID BY InvalidAssumption
  <2> QED BY <2>1 DEF UpdateAckIn, Result
<1>2. /\ new = CalculateStateAck(ack, op, found.qos) /\ deleted = DeleteRecord(a, at)
      /\ moved = AddRecord(deleted, id, 2, "PubRelSend") /\ found = RecordOf(a, id)
      /\ at = FindInRecord(a, id)
  OBVIOUS
<1> HIDE DEF found, new, at, deleted, moved, r
<1>3. CASE ~ (id \in IdsIn(a) /\ ValidateTransitionAck(found.state, new))
  BY <1>1, <1>3 DEF found, new, r, AckMoves
<1>4. CASE id \in IdsIn(a) /\ ValidateTransitionAck(found.state, new)
  <2>1. found \in Slots /\ found.qos \in QoS /\ found.state \in states[found.qos]
    BY <1>2, <1>4, ById
  <2>2. /\ new # "PublishDone" => new \in states[found.qos]
        /\ new = "PubRelSend" => new \in states[2]
    BY <1>2, <1>4, <2>1 DEF ClosedUnder
  <2>3. new \in PublishStates
    BY <1>4 DEF ValidateTransitionAck, AckTransitions, PublishStates
  <2>4. CASE new = found.state
    <3>1. r.records = a /\ r.status = "Ok" BY <1>1, <1>4, <2>4 DEF Result
    <3> QED BY <1>4, <2>4, <3>1 DEF found, new, r, AckMoves
  <2>5. CASE new # found.state /\ new = "PublishDone"
    <3>1. r.records = deleted /\ r.status = "Ok" BY <1>1, <1>4, <2>5 DEF Result
    <3>2. /\ Good(deleted, max, states) /\ DOMAIN deleted = DOMAIN a
          /\ Forgotten(a, deleted, id) /\ Dropped(a, deleted, {found})
      BY <1>2, <1>4, DeleteById
    <3> QED BY <1>4, <2>5, <3>1, <3>2 DEF found, new, r, AckMoves
  <2>6. CASE new # found.state /\ new = "PubRelSend"
    <3>1. r = moved BY <1>1, <1>4, <2>6
    <3>2. /\ Good(deleted, max, states) /\ DOMAIN deleted = DOMAIN a
          /\ Forgotten(a, deleted, id) /\ Occupied(deleted) # DOMAIN deleted
          /\ Dropped(a, deleted, {found})
      BY <1>2, <1>4, DeleteById
    <3>3. "PubRelSend" \in PublishStates /\ 2 \in QoS /\ "PubRelSend" \in states[2]
      BY <2>2, <2>6 DEF PublishStates, QoS
    <3>4. id \notin IdsIn(deleted) /\ IdsIn(deleted) = IdsIn(a) \ {id} BY <3>2 DEF Forgotten
    <3>5. /\ Good(moved.records, max, states) /\ DOMAIN moved.records = DOMAIN deleted
          /\ moved.status = "Ok"
          /\ Recorded(deleted, moved.records, Record(id, 2, "PubRelSend"))
          /\ Appended(deleted, moved.records, Record(id, 2, "PubRelSend"))
      BY <1>2, <3>2, <3>3, <3>4, AddRecordCases
    <3>6. Record(id, 2, "PubRelSend").packet_id = id BY DEF Record
    <3>7. Recorded(a, moved.records, Record(id, 2, "PubRelSend"))
      BY <1>4, <3>2, <3>4, <3>5, <3>6 DEF Recorded, Forgotten
    <3>8. Before(moved.records) =
            {p \in Before(a) : p[1] \in IdsIn(a) \ {id} /\ p[2] \in IdsIn(a) \ {id}}
            \cup ((IdsIn(a) \ {id}) \X {id})
      BY <3>2, <3>4, <3>5, <3>6 DEF Appended, Dropped
    <3> QED BY <1>4, <2>6, <3>1, <3>2, <3>5, <3>7, <3>8 DEF found, new, r, AckMoves
  <2>7. CASE new # found.state /\ new \notin {"PublishDone", "PubRelSend"}
    <3>1. r.records = UpdateRecord(a, at, new) /\ r.status = "Ok"
      BY <1>1, <1>4, <2>7 DEF Result
    <3>2. /\ Good(r.records, max, states) /\ DOMAIN r.records = DOMAIN a
          /\ Recorded(a, r.records, [found EXCEPT !.state = new])
          /\ Before(r.records) = Before(a)
      BY <1>2, <1>4, <2>2, <2>3, <2>7, <3>1, ChangeById
    <3> QED BY <1>4, <2>7, <3>1, <3>2 DEF found, new, r, AckMoves
  <2> QED BY <2>4, <2>5, <2>6, <2>7
<1> QED BY <1>3, <1>4

\* An acknowledgement received for an outgoing publish ends the handshake it
\* completes, or is the PUBREC that moves the record to the end of the order.
OutgoingReceived(a, r, id, ack) ==
  LET found == RecordOf(a, id)
  IN  \/ /\ r.status # "Ok" /\ r.records = a
         /\ id \in IdsIn(a) =>
              <<ack, found.state>> \notin {<<"PubAck", "PubAckPending">>,
                 <<"PubRec", "PubRecPending">>, <<"PubComp", "PubCompPending">>}
      \/ /\ r.status = "Ok" /\ id \in IdsIn(a)
         /\ \/ ack = "PubAck" /\ found.qos = 1 /\ found.state = "PubAckPending"
            \/ ack = "PubComp" /\ found.qos = 2 /\ found.state = "PubCompPending"
         /\ Forgotten(a, r.records, id) /\ Dropped(a, r.records, {found})
      \/ /\ r.status = "Ok" /\ id \in IdsIn(a)
         /\ ack = "PubRec" /\ found.qos = 2 /\ found.state = "PubRecPending"
         /\ Recorded(a, r.records, Record(id, 2, "PubRelSend"))
         /\ Before(r.records) =
              {p \in Before(a) : p[1] \in IdsIn(a) \ {id} /\ p[2] \in IdsIn(a) \ {id}}
              \cup ((IdsIn(a) \ {id}) \X {id})

\* That is what update_state_ack does with an acknowledgement received.
LEMMA OutgoingReceives ==
  ASSUME NEW max \in Nat, NEW a, Good(a, max, OutgoingStates),
         NEW id \in PacketIds, NEW ack \in {"PubAck", "PubRec", "PubComp"}
  PROVE  LET r == UpdateAckIn(a, id, ack, "Receive")
         IN  /\ Good(r.records, max, OutgoingStates) /\ DOMAIN r.records = DOMAIN a
             /\ OutgoingReceived(a, r, id, ack)
<1> DEFINE r     == UpdateAckIn(a, id, ack, "Receive")
           found == RecordOf(a, id)
           new   == CalculateStateAck(ack, "Receive", found.qos)
<1>1. ClosedUnder(OutgoingStates, ack, "Receive")
  BY DEF ClosedUnder, QoS, OutgoingStates, ValidateTransitionAck, AckTransitions, CalculateStateAck
<1>2. ack \in AckTypes /\ "Receive" \in Operations BY DEF AckTypes, Operations
<1>3. /\ Good(r.records, max, OutgoingStates) /\ DOMAIN r.records = DOMAIN a
      /\ AckMoves(a, r, id, new)
  BY <1>1, <1>2, AckCases
<1>4. id \in IdsIn(a) => /\ found.qos \in QoS /\ found.state \in OutgoingStates[found.qos]
  BY ById
<1>5. ASSUME id \in IdsIn(a), ValidateTransitionAck(found.state, new)
      PROVE  /\ new # found.state
             /\ \/ /\ ack = "PubAck" /\ found.qos = 1 /\ found.state = "PubAckPending"
                   /\ new = "PublishDone"
                \/ /\ ack = "PubRec" /\ found.qos = 2 /\ found.state = "PubRecPending"
                   /\ new = "PubRelSend"
                \/ /\ ack = "PubComp" /\ found.qos = 2 /\ found.state = "PubCompPending"
                   /\ new = "PublishDone"
  <2> HIDE DEF found
  <2> QED BY <1>4, <1>5 DEF QoS, OutgoingStates, ValidateTransitionAck, AckTransitions,
                            CalculateStateAck
<1>6. ASSUME id \in IdsIn(a), ~ ValidateTransitionAck(found.state, new)
      PROVE  <<ack, found.state>> \notin {<<"PubAck", "PubAckPending">>,
               <<"PubRec", "PubRecPending">>, <<"PubComp", "PubCompPending">>}
  <2> HIDE DEF found
  <2> QED BY <1>4, <1>6 DEF QoS, OutgoingStates, ValidateTransitionAck, AckTransitions,
                            CalculateStateAck
<1> HIDE DEF r, found, new
<1>7. CASE r.status # "Ok"
  <2>1. OutgoingReceived(a, r, id, ack) BY <1>3, <1>6, <1>7 DEF OutgoingReceived, found, AckMoves
  <2> QED BY <1>3, <2>1 DEF r
<1>8. CASE r.status = "Ok"
  <2>1. OutgoingReceived(a, r, id, ack) BY <1>3, <1>5, <1>8 DEF OutgoingReceived, found, AckMoves
  <2> QED BY <1>3, <2>1 DEF r
<1> QED BY <1>7, <1>8

\* A PUBREL sent for an outgoing publish is noted, once or again.
LEMMA OutgoingSends ==
  ASSUME NEW max \in Nat, NEW a, Good(a, max, OutgoingStates), NEW id \in IdsIn(a),
         RecordOf(a, id).state \in PubRelToResendStates
  PROVE  LET r == UpdateAckIn(a, id, "PubRel", "Send")
         IN  /\ Good(r.records, max, OutgoingStates) /\ DOMAIN r.records = DOMAIN a
             /\ r.status = "Ok"
             /\ \/ RecordOf(a, id).state = "PubCompPending" /\ r.records = a
                \/ /\ Recorded(a, r.records, [RecordOf(a, id) EXCEPT !.state = "PubCompPending"])
                   /\ Before(r.records) = Before(a)
<1> DEFINE r     == UpdateAckIn(a, id, "PubRel", "Send")
           found == RecordOf(a, id)
           new   == CalculateStateAck("PubRel", "Send", found.qos)
<1>1. ClosedUnder(OutgoingStates, "PubRel", "Send")
  BY DEF ClosedUnder, QoS, OutgoingStates, ValidateTransitionAck, AckTransitions, CalculateStateAck
<1>2. "PubRel" \in AckTypes /\ "Send" \in Operations BY DEF AckTypes, Operations
<1>3. id \in PacketIds /\ found.qos \in QoS /\ found.state \in OutgoingStates[found.qos]
  BY ById
<1>4. ValidateTransitionAck(found.state, new) /\ new = "PubCompPending"
  <2> HIDE DEF found
  <2> QED BY <1>3 DEF found, QoS, OutgoingStates, PubRelToResendStates,
                      ValidateTransitionAck, AckTransitions, CalculateStateAck
<1>5. /\ Good(r.records, max, OutgoingStates) /\ DOMAIN r.records = DOMAIN a
      /\ AckMoves(a, r, id, new)
  BY <1>1, <1>2, <1>3, <1>4, AckCases
<1> HIDE DEF r, found, new
<1> QED BY <1>4, <1>5 DEF r, found, AckMoves

\* An acknowledgement received or sent for an incoming publish: the PUBREL
\* moves the record on, and so do the answers.
LEMMA IncomingAcks ==
  ASSUME NEW max \in Nat, NEW a, Good(a, max, IncomingStates), NEW id \in PacketIds,
         NEW ack \in AckTypes, NEW op \in Operations, ~ IsPublishOutgoing(ack, op)
  PROVE  LET r     == UpdateAckIn(a, id, ack, op)
             found == RecordOf(a, id)
         IN  /\ Good(r.records, max, IncomingStates) /\ DOMAIN r.records = DOMAIN a
             /\ \/ /\ r.status # "Ok" /\ r.records = a
                   /\ id \in IdsIn(a) =>
                        <<ack, found.state>> \notin
                          {<<"PubAck", "PubAckSend">>, <<"PubRec", "PubRecSend">>,
                           <<"PubRec", "PubRelPending">>, <<"PubRel", "PubRelPending">>,
                           <<"PubRel", "PubCompSend">>, <<"PubComp", "PubCompSend">>}
                \/ /\ r.status = "Ok" /\ id \in IdsIn(a)
                   /\ \/ ack = "PubAck" /\ found.qos = 1 /\ found.state = "PubAckSend"
                      \/ ack = "PubComp" /\ found.qos = 2 /\ found.state = "PubCompSend"
                   /\ Forgotten(a, r.records, id)
                \/ /\ r.status = "Ok" /\ id \in IdsIn(a) /\ found.qos = 2 /\ r.records = a
                   /\ \/ ack = "PubRec" /\ found.state = "PubRelPending"
                      \/ ack = "PubRel" /\ found.state = "PubCompSend"
                \/ /\ r.status = "Ok" /\ id \in IdsIn(a) /\ found.qos = 2
                   /\ \/ /\ ack = "PubRec" /\ found.state = "PubRecSend"
                         /\ Recorded(a, r.records, [found EXCEPT !.state = "PubRelPending"])
                      \/ /\ ack = "PubRel" /\ found.state = "PubRelPending"
                         /\ Recorded(a, r.records, [found EXCEPT !.state = "PubCompSend"])
<1> DEFINE r     == UpdateAckIn(a, id, ack, op)
           found == RecordOf(a, id)
           new   == CalculateStateAck(ack, op, found.qos)
<1>1. ClosedUnder(IncomingStates, ack, op)
  BY DEF ClosedUnder, QoS, IncomingStates, ValidateTransitionAck, AckTransitions,
         CalculateStateAck, IsPublishOutgoing, AckTypes, Operations
<1>2. /\ Good(r.records, max, IncomingStates) /\ DOMAIN r.records = DOMAIN a
      /\ AckMoves(a, r, id, new)
  BY <1>1, AckCases
<1>3. id \in IdsIn(a) => /\ found.qos \in QoS /\ found.state \in IncomingStates[found.qos]
  BY ById
<1>4. ASSUME id \in IdsIn(a), ValidateTransitionAck(found.state, new)
      PROVE  \/ /\ ack = "PubAck" /\ found.qos = 1 /\ found.state = "PubAckSend"
                /\ new = "PublishDone"
             \/ /\ ack = "PubComp" /\ found.qos = 2 /\ found.state = "PubCompSend"
                /\ new = "PublishDone"
             \/ /\ ack = "PubRec" /\ found.qos = 2 /\ new = "PubRelPending"
                /\ found.state \in {"PubRecSend", "PubRelPending"}
             \/ /\ ack = "PubRel" /\ found.qos = 2 /\ new = "PubCompSend"
                /\ found.state \in {"PubRelPending", "PubCompSend"}
  <2> HIDE DEF found
  <2> QED BY <1>3, <1>4 DEF QoS, IncomingStates, ValidateTransitionAck, AckTransitions,
                   CalculateStateAck, IsPublishOutgoing, AckTypes, Operations
<1>5. ASSUME id \in IdsIn(a), ~ ValidateTransitionAck(found.state, new)
      PROVE  <<ack, found.state>> \notin
                          {<<"PubAck", "PubAckSend">>, <<"PubRec", "PubRecSend">>,
                           <<"PubRec", "PubRelPending">>, <<"PubRel", "PubRelPending">>,
                           <<"PubRel", "PubCompSend">>, <<"PubComp", "PubCompSend">>}
  <2> HIDE DEF found
  <2> QED BY <1>3, <1>5 DEF QoS, IncomingStates, ValidateTransitionAck, AckTransitions,
                   CalculateStateAck, IsPublishOutgoing, AckTypes, Operations
<1> HIDE DEF r, found, new
<1>6. CASE r.status # "Ok" BY <1>2, <1>5, <1>6 DEF r, found, AckMoves
<1>7. CASE r.status = "Ok"
  <2>1. /\ id \in IdsIn(a) /\ ValidateTransitionAck(found.state, new)
        /\ \/ new = found.state /\ r.records = a
           \/ /\ new # found.state /\ new = "PublishDone" /\ Forgotten(a, r.records, id)
           \/ /\ new # found.state /\ new = "PubRelSend"
           \/ /\ new # found.state /\ new \notin {"PublishDone", "PubRelSend"}
              /\ Recorded(a, r.records, [found EXCEPT !.state = new])
    BY <1>2, <1>7 DEF found, AckMoves
  <2>2. CASE ack = "PubAck" BY <1>2, <1>3, <1>4, <1>7, <2>1, <2>2 DEF r, found
  <2>3. CASE ack = "PubComp" BY <1>2, <1>3, <1>4, <1>7, <2>1, <2>3 DEF r, found
  <2>4. CASE ack = "PubRec" BY <1>2, <1>3, <1>4, <1>7, <2>1, <2>4 DEF r, found
  <2>5. CASE ack = "PubRel" BY <1>2, <1>3, <1>4, <1>7, <2>1, <2>5 DEF r, found
  <2> QED BY <2>2, <2>3, <2>4, <2>5 DEF AckTypes
<1> QED BY <1>6, <1>7

\* A PUBLISH received at QoS 1 or 2 (state.rs 467-517).
LEMMA ReceiveCases ==
  ASSUME NEW max \in Nat, NEW a, Good(a, max, IncomingStates),
         NEW id \in PacketIds, NEW q \in {1, 2}
  PROVE  LET r   == UpdatePublishReceive(a, id, q)
             new == Record(id, q, CalculateStatePublish("Receive", q))
         IN  /\ Good(r.records, max, IncomingStates)
             /\ DOMAIN r.records = DOMAIN a
             /\ \/ r.status = "Ok" /\ id \notin IdsIn(a) /\ Recorded(a, r.records, new)
                \/ r.status = "StateCollision" /\ id \in IdsIn(a) /\ SameRecords(a, r.records)
                \/ /\ r.status = "NoMemory" /\ id \notin IdsIn(a) /\ Occupied(a) = DOMAIN a
                   /\ SameRecords(a, r.records)
<1> DEFINE s == CalculateStatePublish("Receive", q)
<1>1. UpdatePublishReceive(a, id, q) = AddRecord(a, id, q, s)
  BY InvalidAssumption DEF UpdatePublishReceive
<1>2. s \in PublishStates /\ s \in IncomingStates[q] /\ q \in QoS
  BY DEF CalculateStatePublish, PublishStates, IncomingStates, QoS
<1> HIDE DEF s
<1> QED BY <1>1, <1>2, AddRecordCases DEF s

\* remove takes one record out (state.rs 590-609).
LEMMA RemoveCases ==
  ASSUME NEW max \in Nat, NEW states, NEW a, Good(a, max, states), NEW id \in PacketIds
  PROVE  LET r == RemoveState(a, id)
         IN  r.status = "Ok" =>
               /\ id \in IdsIn(a) /\ Good(r.records, max, states)
               /\ DOMAIN r.records = DOMAIN a /\ Forgotten(a, r.records, id)
<1> DEFINE d == DeleteRecord(a, FindInRecord(a, id))
<1>1. ASSUME id \in IdsIn(a)
      PROVE  /\ Good(d, max, states) /\ DOMAIN d = DOMAIN a
             /\ Forgotten(a, d, id) /\ Occupied(d) # DOMAIN d
             /\ Dropped(a, d, {RecordOf(a, id)})
  BY <1>1, DeleteById
<1>2. RemoveState(a, id).status = "Ok" => id \in IdsIn(a) /\ RemoveState(a, id).records = d
  BY DEF RemoveState, Result
<1> HIDE DEF d
<1> QED BY <1>1, <1>2

\* Some of the records, each as it was.
SomeOf(a, b) == /\ IdsIn(b) \subseteq IdsIn(a)
                /\ \A x \in IdsIn(b) : RecordOf(b, x) = RecordOf(a, x)

\* A cut array holds such.
LEMMA CapById ==
  ASSUME NEW max \in Nat, NEW states, NEW a, Good(a, max, states), NEW m \in Nat,
         NEW c, c = CapTo(a, m)
  PROVE  /\ Good(c, max, states) /\ SomeOf(a, c)
         /\ DOMAIN c = {i \in DOMAIN a : i <= m}
<1>1. DOMAIN c = {i \in DOMAIN a : i <= m} BY DEF CapTo
<1>2. Good(c, max, states) BY CapGood
<1>3. Flight(c) \subseteq Flight(a) BY CapDrops DEF Dropped
<1>4. ASSUME NEW x \in IdsIn(c) PROVE x \in IdsIn(a) /\ RecordOf(c, x) = RecordOf(a, x)
  <2>1. RecordOf(c, x) \in Flight(a) /\ RecordOf(c, x).packet_id = x
    BY <1>2, <1>3, ById, FlightById
  <2> QED BY <2>1, FlightById
<1> QED BY <1>1, <1>2, <1>4 DEF SomeOf

\* A Receive Maximum that the array already keeps to cuts nothing.
LEMMA CapKeeps ==
  ASSUME NEW max \in Nat, NEW states, NEW a, Good(a, max, states), NEW m,
         \A i \in DOMAIN a : i <= m
  PROVE  CapTo(a, m) = a
<1>1. PICK n \in 0..max : a \in [1..n -> Slots] BY DEF Good, IsArray
<1>2. {j \in DOMAIN a : j <= m} = DOMAIN a OBVIOUS
<1> QED BY <1>1, <1>2 DEF CapTo

\* A cleared array holds no id.
LEMMA ClearIds == \A a : IdsIn(Clear(a)) = {} /\ DOMAIN Clear(a) = DOMAIN a
BY DEF Clear, IdsIn, Occupied, Empty, Record

---------------------------------------------------------------------------
(* Enumerating a set of slots in increasing order, as stateSelect does. *)

\* The elements of S up to i, and the element with k - 1 others before it.
NotAbove(S, i) == {j \in S : j <= i}
Nth(S, k)  == CHOOSE i \in S : Cardinality(NotAbove(S, i)) = k

\* Ranks in a finite set of naturals: each is in 1..n, and they grow.
LEMMA RankInSet ==
  ASSUME NEW S \in SUBSET Nat, IsFiniteSet(S)
  PROVE  /\ \A i \in S : Cardinality(NotAbove(S, i)) \in 1..Cardinality(S)
         /\ \A i, j \in S : i < j => Cardinality(NotAbove(S, i)) < Cardinality(NotAbove(S, j))
<1>1. Cardinality(S) \in Nat BY FS_CardinalityType
<1>2. ASSUME NEW i \in S
      PROVE  /\ IsFiniteSet(NotAbove(S, i)) /\ Cardinality(NotAbove(S, i)) \in Nat
             /\ Cardinality(NotAbove(S, i)) <= Cardinality(S)
             /\ Cardinality(NotAbove(S, i)) >= 1
  <2>1. NotAbove(S, i) \in SUBSET S /\ {i} \in SUBSET NotAbove(S, i) BY DEF NotAbove
  <2>2. IsFiniteSet(NotAbove(S, i)) /\ Cardinality(NotAbove(S, i)) <= Cardinality(S)
    BY <2>1, FS_Subset
  <2>3. Cardinality({i}) = 1 /\ Cardinality({i}) <= Cardinality(NotAbove(S, i))
    BY <2>1, <2>2, FS_Singleton, FS_Subset
  <2>4. Cardinality(NotAbove(S, i)) \in Nat BY <2>2, FS_CardinalityType
  <2> QED BY <2>2, <2>3, <2>4
<1>3. ASSUME NEW i \in S, NEW j \in S, i < j
      PROVE  Cardinality(NotAbove(S, i)) < Cardinality(NotAbove(S, j))
  <2> i \in Nat /\ j \in Nat OBVIOUS
  <2>1. NotAbove(S, i) \in SUBSET NotAbove(S, j) /\ j \in NotAbove(S, j) /\ j \notin NotAbove(S, i)
    <3>1. \A k \in S : k \in Nat OBVIOUS
    <3>2. \A k \in S : k <= i => k <= j BY <1>3, <3>1
    <3>3. j <= j /\ ~ (j <= i) BY <1>3
    <3> QED BY <3>2, <3>3 DEF NotAbove
  <2>2. NotAbove(S, i) # NotAbove(S, j) BY <2>1
  <2>3. /\ Cardinality(NotAbove(S, i)) <= Cardinality(NotAbove(S, j))
        /\ Cardinality(NotAbove(S, i)) # Cardinality(NotAbove(S, j))
    BY <1>2, <2>1, <2>2, FS_Subset
  <2>4. Cardinality(NotAbove(S, i)) \in Nat /\ Cardinality(NotAbove(S, j)) \in Nat BY <1>2
  <2> QED BY <2>3, <2>4
<1> QED BY <1>1, <1>2, <1>3

\* And every number up to n is a rank: the enumeration has no gaps, misses
\* nothing and goes up.
LEMMA Enumeration ==
  ASSUME NEW S \in SUBSET Nat, IsFiniteSet(S)
  PROVE  LET n == Cardinality(S)
         IN  /\ n \in Nat
             /\ \A k \in 1..n : Nth(S, k) \in S
             /\ \A i \in S : \E k \in 1..n : Nth(S, k) = i
             /\ \A k, l \in 1..n : k < l => Nth(S, k) < Nth(S, l)
<1> DEFINE n    == Cardinality(S)
           T    == 1..n
           rank == [i \in S |-> Cardinality(NotAbove(S, i))]
<1>1. n \in Nat BY FS_CardinalityType
<1>2. /\ \A i \in S : Cardinality(NotAbove(S, i)) \in 1..n
      /\ \A i, j \in S : i < j => Cardinality(NotAbove(S, i)) < Cardinality(NotAbove(S, j))
  BY RankInSet
<1>3. \A i, j \in S : Cardinality(NotAbove(S, i)) = Cardinality(NotAbove(S, j)) => i = j
  <2> SUFFICES ASSUME NEW i \in S, NEW j \in S,
                      Cardinality(NotAbove(S, i)) = Cardinality(NotAbove(S, j))
               PROVE  i = j
    OBVIOUS
  <2>1. Cardinality(NotAbove(S, i)) \in Int BY <1>2
  <2>2. ~ (i < j) /\ ~ (j < i) BY <1>2, <2>1
  <2> QED BY <2>2
<1>4. IsFiniteSet(T) /\ Cardinality(T) = Cardinality(S)
  <2> HIDE DEF n
  <2>1. 1 \in Int /\ n \in Int /\ n >= 0 BY <1>1
  <2>2. IsFiniteSet(1..n) /\ Cardinality(1..n) = IF 1 > n THEN 0 ELSE n - 1 + 1
    BY <2>1, FS_Interval
  <2>3. (IF 1 > n THEN 0 ELSE n - 1 + 1) = n BY <1>1
  <2>4. IsFiniteSet(1..n) /\ Cardinality(1..n) = n BY <2>2, <2>3
  <2> QED BY <2>4 DEF n
<1>5. rank \in [S -> T] /\ \A i \in S : rank[i] = Cardinality(NotAbove(S, i)) BY <1>2
<1> HIDE DEF rank, T
<1>6. rank \in Injection(S, T) BY <1>3, <1>5 DEF Injection, IsInjective
<1>7. rank \in Surjection(S, T) BY <1>4, <1>6, FS_Injection
<1>8. \A k \in T : \E i \in S : Cardinality(NotAbove(S, i)) = k BY <1>5, <1>7 DEF Surjection
<1>9. ASSUME NEW k \in 1..n PROVE Nth(S, k) \in S /\ Cardinality(NotAbove(S, Nth(S, k))) = k
  <2>1. \E i \in S : Cardinality(NotAbove(S, i)) = k BY <1>8 DEF T
  <2> QED BY <2>1 DEF Nth
<1>10. ASSUME NEW i \in S PROVE \E k \in 1..n : Nth(S, k) = i
  <2>1. Cardinality(NotAbove(S, i)) \in 1..n BY <1>2
  <2> QED BY <1>3, <1>9, <2>1
<1>11. ASSUME NEW k \in 1..n, NEW l \in 1..n, k < l PROVE Nth(S, k) < Nth(S, l)
  <2>1. Nth(S, k) \in Nat /\ Nth(S, l) \in Nat BY <1>9
  <2>2. Nth(S, k) # Nth(S, l) BY <1>9, <1>11
  <2>3. ~ (Nth(S, l) < Nth(S, k))
    <3>1. Nth(S, l) < Nth(S, k) => l < k BY <1>2, <1>9
    <3> QED BY <1>11, <3>1
  <2> QED BY <2>1, <2>2, <2>3
<1> QED BY <1>1, <1>9, <1>10, <1>11
=============================================================================
