--------------------------- MODULE PbcMapProofs ---------------------------
(***************************************************************************)
(* Proofs about PbcMap, for every hash function and every sequence of      *)
(* calls: nothing stored is lost, searches answer correctly, keys are not  *)
(* doubled and iterations are complete.                                    *)
(***************************************************************************)
EXTENDS PbcMap, FiniteSetTheorems, TLAPS

----------------------------------------------------------------------------
(* The table *)

LEMMA ModRange ==
  ASSUME NEW a \in Nat, NEW n \in Nat \ {0}
  PROVE  a % n \in 0..(n - 1)
OBVIOUS

LEMMA HomeInSlots ==
  ASSUME cap \in Nat \ {0}, NEW k \in Keys
  PROVE  Home(k) \in Slots
BY ModRange, HashAssumption DEF Home, Slots

LEMMA SlotsFinite ==
  ASSUME cap \in Nat \ {0}
  PROVE  /\ IsFiniteSet(Slots) /\ Cardinality(Slots) = cap
         /\ IsFiniteSet(Used) /\ Cardinality(Used) \in Nat /\ Cardinality(Used) <= cap
         /\ Cardinality(Used) = cap => Used = Slots
<1>1. IsFiniteSet(Slots) /\ Cardinality(Slots) = cap
  BY FS_Interval, 0 \in Int, cap - 1 \in Int DEF Slots
<1>2. Used \subseteq Slots
  BY DEF Used
<1> QED
  BY <1>1, <1>2, FS_Subset, FS_CardinalityType

(* In a table that is full every slot holds an entry. *)
LEMMA FullUsed ==
  ASSUME TableInv, Full
  PROVE  Used = Slots /\ size = cap
BY SlotsFinite DEF TableInv, TableTypeOK, SizeIsUsed, Full

(* On the chain of an empty slot there is no entry. *)
LEMMA EmptyHome ==
  ASSUME TableInv, NEW k \in Keys, slot[Home(k)].key = NULL
  PROVE  \A s \in Used : slot[s].key # k
<1> SUFFICES ASSUME NEW s \in Used, slot[s].key = k PROVE FALSE
  OBVIOUS
<1>1. Home(k) \in Slots /\ Home(k) \notin Used
  BY HomeInSlots DEF TableInv, TableTypeOK, Used
<1>2. s \in reach[Home(k)] /\ s \in Slots
  BY DEF TableInv, EntriesOnChain, Used
<1>3. slot[Home(k)].next = 0
  BY <1>1 DEF TableInv, EmptySlotsApart, Empty
<1>4. reach[Home(k)] = {Home(k)}
  BY <1>1, <1>3 DEF TableInv, ChainsLead, Behind
<1> QED
  BY <1>1, <1>2, <1>4

(* A cleared table. *)
LEMMA Cleared ==
  ASSUME NEW n \in Nat \ {0}, cap' = n, size' = 0, max' \in Nat, Clear(n)
  PROVE  TableInv' /\ Used' = {}
<1>1. Slots' = 0..(n - 1)
  BY DEF Slots
<1>2. \A s \in Slots' : slot'[s] = Empty /\ reach'[s] = {s}
  BY <1>1 DEF Clear
<1>3. Used' = {}
  BY <1>2 DEF Used, Empty
<1>4. TableTypeOK'
  <2>1. Empty \in SlotType
    BY DEF Empty, SlotType
  <2>2. slot' \in [Slots' -> SlotType] /\ reach' \in [Slots' -> SUBSET Slots']
    BY <1>1, <2>1 DEF Clear
  <2> QED
    BY <1>2, <2>2 DEF TableTypeOK, Empty
<1>5. ChainsLead'
  BY <1>2 DEF ChainsLead, Behind, Empty
<1>6. EmptySlotsApart'
  BY <1>2 DEF EmptySlotsApart
<1>7. EntriesOnChain'
  BY <1>3 DEF EntriesOnChain
<1>8. SizeIsUsed'
  BY <1>3, FS_EmptySet DEF SizeIsUsed
<1> QED
  BY <1>3, <1>4, <1>5, <1>6, <1>7, <1>8 DEF TableInv

(* The entry (k, v) was put into slot e; the other entries and the chains  *)
(* they are on are still there.                                            *)
Placed(e, k, v) ==
  /\ e \in Slots /\ e \notin Used
  /\ Used' = Used \cup {e}
  /\ slot'[e].key = k /\ slot'[e].pointer = v
  /\ \A s \in Used : slot'[s].key = slot[s].key /\ slot'[s].pointer = slot[s].pointer
  /\ \A s \in Slots : reach[s] \subseteq reach'[s]

LEMMA PlacedCount ==
  ASSUME TableInv, NEW e, NEW k, NEW v, Placed(e, k, v), size' = size + 1, cap' = cap
  PROVE  SizeIsUsed'
<1>1. IsFiniteSet(Used)
  BY SlotsFinite DEF TableInv, TableTypeOK
<1> QED
  BY <1>1, FS_AddElement DEF TableInv, SizeIsUsed, Placed

LEMMA AtHome ==
  ASSUME TableInv, NEW k \in Keys, NEW v \in Pointers, PlaceAtHome(k, v),
         size' = size + 1, cap' = cap, max' \in Nat
  PROVE  TableInv' /\ Placed(Home(k), k, v)
<1> DEFINE h == Home(k)
<1>1. /\ cap \in Nat \ {0} /\ size \in Nat /\ slot \in [Slots -> SlotType]
      /\ \A s \in Slots : slot[s].next \in 0..cap
      /\ reach \in [Slots -> SUBSET Slots] /\ h \in Slots /\ h \notin Used
      /\ k # NULL /\ Hash[k] \in Nat
  BY HomeInSlots, NullAssumption, HashAssumption
  DEF TableInv, TableTypeOK, PlaceAtHome, Used
<1>2. slot[h] = Empty
  BY <1>1 DEF TableInv, EmptySlotsApart
<1>3. /\ Slots' = Slots /\ reach' = reach
      /\ slot' = [slot EXCEPT ![h] = Entry(k, v, 0)]
      /\ \A s \in Slots : s # h => slot'[s] = slot[s]
      /\ slot'[h] = Entry(k, v, 0)
  BY <1>1, <1>2 DEF PlaceAtHome, Slots, Empty
<1>4. Entry(k, v, 0) \in SlotType
  BY <1>1 DEF Entry, SlotType
<1>5. \A s \in Slots : slot'[s].next = slot[s].next
  BY <1>2, <1>3 DEF Entry, Empty
<1>6. Used' = Used \cup {h}
  BY <1>1, <1>3 DEF Used, Entry
<1>7. Placed(h, k, v)
  <2>1. \A s \in Used : s \in Slots /\ s # h
    BY <1>1 DEF Used
  <2> QED
    BY <1>1, <1>3, <1>6, <2>1 DEF Placed, Entry
<1>8. TableTypeOK'
  BY <1>1, <1>3, <1>4, <1>5 DEF TableTypeOK
<1>9. ChainsLead'
  BY <1>3, <1>5 DEF TableInv, ChainsLead, Behind
<1>10. EmptySlotsApart'
  BY <1>3, <1>6 DEF TableInv, EmptySlotsApart
<1>11. EntriesOnChain'
  <2>1. \A kk \in Keys : Home(kk)' = Home(kk)
    BY DEF Home
  <2>2. h \in reach[h]
    BY <1>1 DEF TableInv, ChainsLead
  <2>3. ASSUME NEW s \in Used' 
        PROVE  /\ slot'[s].key \in Keys /\ slot'[s].pointer \in Pointers
               /\ slot'[s].hash = Hash[slot'[s].key]
               /\ s \in reach'[(Hash[slot'[s].key]) % cap']
    <3>1. CASE s = h
      BY <1>3, <2>2, <3>1 DEF Entry, Home
    <3>2. CASE s # h
      <4>1. s \in Used /\ s \in Slots
        BY <1>6, <3>2 DEF Used
      <4> QED
        BY <1>3, <3>2, <4>1 DEF TableInv, EntriesOnChain, Home
    <3> QED
      BY <3>1, <3>2
  <2> QED
    BY <2>3 DEF EntriesOnChain, Home
<1>12. SizeIsUsed'
  BY <1>7, PlacedCount
<1> QED
  BY <1>7, <1>8, <1>9, <1>10, <1>11, <1>12 DEF TableInv

LEMMA Relinked ==
  ASSUME NEW r \in SlotType, NEW n \in Nat
  PROVE  LET q == [r EXCEPT !.next = n]
         IN  /\ q \in SlotType /\ q.next = n
             /\ q.key = r.key /\ q.pointer = r.pointer /\ q.hash = r.hash
BY DEF SlotType

(* The chains after slot e was linked in behind slot t. *)
LEMMA BehindChains ==
  ASSUME TableInv, NEW k \in Keys, NEW v \in Pointers, NEW t \in Used,
         NEW e \in Slots, e \notin Used, cap' = cap,
         slot' = [slot EXCEPT ![e] = Entry(k, v, LinkOn(t, e)), ![t].next = e + 1],
         reach' = [s \in Slots |-> IF s = e THEN {e} \cup Behind(t)
                                   ELSE IF t \in reach[s] THEN reach[s] \cup {e}
                                   ELSE reach[s]]
  PROVE  /\ slot' \in [Slots' -> SlotType] /\ (\A s \in Slots' : slot'[s].next \in 0..cap')
         /\ reach' \in [Slots' -> SUBSET Slots']
         /\ slot'[e] = Entry(k, v, slot[t].next)
         /\ slot'[t] = [slot[t] EXCEPT !.next = e + 1]
         /\ \A s \in Slots : s # e /\ s # t => slot'[s] = slot[s]
         /\ \A s \in Slots : reach[s] \subseteq reach'[s]
         /\ \A s \in Slots : t \in reach[s] => e \in reach'[s]
         /\ \A s \in Slots : e \in reach'[s] => s = e \/ t \in reach[s]
         /\ \A s \in Slots : reach'[s] \subseteq reach[s] \cup {e} \cup (IF s = e THEN Behind(t) ELSE {})
         /\ ChainsLead'
<1>1. /\ cap \in Nat \ {0} /\ slot \in [Slots -> SlotType]
      /\ \A s \in Slots : slot[s].next \in 0..cap
      /\ reach \in [Slots -> SUBSET Slots] /\ t \in Slots /\ t # e
      /\ k # NULL /\ Hash[k] \in Nat
  BY NullAssumption, HashAssumption DEF TableInv, TableTypeOK, Used
<1>2. /\ slot[e].next = 0
      /\ \A s \in Slots : e \in reach[s] => s = e
  BY DEF TableInv, EmptySlotsApart, Empty
<1>3. /\ \A s \in Slots : /\ reach[s] = {s} \cup Behind(s)
                          /\ s \notin Behind(s)
      /\ \A s \in Slots : \A u \in reach[s] : reach[u] \subseteq reach[s]
  BY DEF TableInv, ChainsLead
<1>4. /\ Slots' = Slots
      /\ slot'[e] = Entry(k, v, slot[t].next)
      /\ slot'[t] = [slot[t] EXCEPT !.next = e + 1]
      /\ \A s \in Slots : s # e /\ s # t => slot'[s] = slot[s]
  BY <1>1 DEF Slots, LinkOn
<1>5. /\ slot'[e].next = slot[t].next
      /\ slot'[t].next = e + 1
      /\ \A s \in Slots : s # e /\ s # t => slot'[s].next = slot[s].next
  <2>1. slot[t] \in SlotType
    BY <1>1
  <2>2. e + 1 \in Nat
    BY <1>1 DEF Slots
  <2>3. [slot[t] EXCEPT !.next = e + 1].next = e + 1
    BY <2>1, <2>2, Relinked
  <2>4. slot'[t].next = e + 1
    BY <1>4, <2>3, Zenon
  <2>5. Entry(k, v, slot[t].next).next = slot[t].next
    BY DEF Entry
  <2>6. slot'[e].next = slot[t].next
    BY <1>4, <2>5, Zenon
  <2> QED
    BY <1>4, <2>4, <2>6, Zenon
<1>6. \A s \in Slots : slot[s].next # 0 =>
        /\ slot[s].next - 1 \in Slots
        /\ Behind(s) = reach[slot[s].next - 1]
        /\ slot[s].next - 1 \in Behind(s)
  <2> SUFFICES ASSUME NEW s \in Slots, slot[s].next # 0
               PROVE  /\ slot[s].next - 1 \in Slots
                      /\ Behind(s) = reach[slot[s].next - 1]
                      /\ slot[s].next - 1 \in Behind(s)
    OBVIOUS
  <2>1. slot[s].next - 1 \in Slots
    BY <1>1 DEF Slots
  <2> QED
    BY <1>3, <2>1 DEF Behind
<1>7. /\ reach'[e] = {e} \cup Behind(t)
      /\ \A s \in Slots : s # e => reach'[s] = IF t \in reach[s] THEN reach[s] \cup {e} ELSE reach[s]
  OBVIOUS
<1>8. /\ Behind(e) = {} /\ reach[e] = {e}
      /\ Behind(t) \subseteq reach[t] /\ e \notin Behind(t) /\ t \notin Behind(t)
      /\ \A s \in Slots : s # e => e \notin reach[s]
  BY <1>1, <1>2, <1>3 DEF Behind
<1>9. Behind(e)' = Behind(t)
  <2>1. CASE slot[t].next = 0
    BY <1>5, <2>1 DEF Behind
  <2>2. CASE slot[t].next # 0
    <3> DEFINE n == slot[t].next - 1
    <3>1. n \in Slots /\ Behind(t) = reach[n] /\ n \in Behind(t)
      BY <1>1, <1>6, <2>2
    <3>2. n # e /\ t \notin reach[n]
      BY <1>8, <3>1
    <3>3. reach'[n] = reach[n]
      BY <1>7, <3>1, <3>2
    <3>4. Behind(e)' = reach'[n]
      BY <1>5, <2>2 DEF Behind
    <3> QED
      BY <3>1, <3>3, <3>4
  <2> QED
    BY <2>1, <2>2
<1>10. Behind(t)' = reach'[e]
  <2>1. e + 1 # 0 /\ (e + 1) - 1 = e
    BY <1>1 DEF Slots
  <2> QED
    BY <1>5, <2>1 DEF Behind
<1>11. \A s \in Slots : s # e /\ s # t =>
         Behind(s)' = IF t \in Behind(s) THEN Behind(s) \cup {e} ELSE Behind(s)
  <2> SUFFICES ASSUME NEW s \in Slots, s # e, s # t
               PROVE  Behind(s)' = IF t \in Behind(s) THEN Behind(s) \cup {e} ELSE Behind(s)
    OBVIOUS
  <2>1. CASE slot[s].next = 0
    BY <1>5, <2>1 DEF Behind
  <2>2. CASE slot[s].next # 0
    <3> DEFINE n == slot[s].next - 1
    <3>1. n \in Slots /\ Behind(s) = reach[n] /\ n \in Behind(s)
      BY <1>6, <2>2
    <3>2. n # e
      BY <1>3, <1>8, <3>1
    <3>3. Behind(s)' = reach'[n]
      BY <1>5, <2>2 DEF Behind
    <3> QED
      BY <1>7, <3>1, <3>2, <3>3
  <2> QED
    BY <2>1, <2>2
<1>12. ASSUME NEW s \in Slots
       PROVE  reach'[s] = {s} \cup Behind(s)' /\ s \notin Behind(s)'
  <2>1. CASE s = e
    BY <1>7, <1>8, <1>9, <2>1
  <2>2. CASE s = t
    BY <1>1, <1>3, <1>7, <1>8, <1>10, <2>2
  <2>3. CASE s # e /\ s # t
    BY <1>3, <1>7, <1>11, <2>3
  <2> QED
    BY <2>1, <2>2, <2>3
<1>13. ASSUME NEW a \in Slots, NEW b \in reach'[a]
       PROVE  reach'[b] \subseteq reach'[a]
  <2>1. reach[a] \subseteq Slots /\ Behind(t) \subseteq Slots
    BY <1>1, <1>8
  <2>2. CASE a = e /\ b # e
    <3>1. b \in Behind(t) /\ b \in Slots
      BY <1>7, <2>1, <2>2
    <3>2. reach[b] \subseteq Behind(t)
      <4>1. slot[t].next # 0
        BY <3>1 DEF Behind
      <4>2. slot[t].next - 1 \in Slots /\ Behind(t) = reach[slot[t].next - 1]
        BY <1>1, <1>6, <4>1
      <4> QED
        BY <1>3, <3>1, <4>2
    <3>3. t \notin reach[b]
      BY <1>8, <3>2
    <3> QED
      BY <1>7, <2>2, <3>1, <3>2, <3>3
  <2>3. CASE a # e /\ b = e
    <3>1. t \in reach[a]
      BY <1>7, <1>8, <2>3
    <3>2. reach[t] \subseteq reach[a]
      BY <1>3, <3>1
    <3> QED
      BY <1>7, <1>8, <2>3, <3>1, <3>2
  <2>4. CASE a # e /\ b # e
    <3>1. b \in reach[a] /\ b \in Slots
      BY <1>7, <2>1, <2>4
    <3>2. reach[b] \subseteq reach[a]
      BY <1>3, <3>1
    <3> QED
      BY <1>7, <2>4, <3>1, <3>2
  <2> QED
    BY <2>2, <2>3, <2>4
<1>14. ChainsLead'
  BY <1>4, <1>12, <1>13 DEF ChainsLead
<1>15. reach' \in [Slots' -> SUBSET Slots']
  <2>1. \A s \in Slots : reach'[s] \subseteq Slots
    BY <1>1, <1>7, <1>8
  <2> QED
    BY <1>4, <2>1
<1>16. slot' \in [Slots' -> SlotType] /\ \A s \in Slots' : slot'[s].next \in 0..cap'
  <2>1. slot[t] \in SlotType /\ slot[t].next \in 0..cap /\ e + 1 \in 0..cap
    BY <1>1 DEF Slots
  <2>2. Entry(k, v, slot[t].next) \in SlotType /\ [slot[t] EXCEPT !.next = e + 1] \in SlotType
    BY <1>1, <2>1 DEF Entry, SlotType
  <2> QED
    BY <1>1, <1>4, <1>5, <2>1, <2>2
<1> QED
  BY <1>1, <1>4, <1>7, <1>8, <1>14, <1>15, <1>16

(* Storing behind a slot of the chain of the home. *)
LEMMA PlacedBehind ==
  ASSUME TableInv, NEW k \in Keys, NEW v \in Pointers, NEW t \in Used, t \in reach[Home(k)],
         PlaceBehind(t, k, v), size' = size + 1, cap' = cap, max' \in Nat
  PROVE  TableInv' /\ \E e \in Slots : Placed(e, k, v)
<1>1. PICK e \in Slots :
        /\ slot[e].key = NULL
        /\ slot' = [slot EXCEPT ![e] = Entry(k, v, LinkOn(t, e)), ![t].next = e + 1]
        /\ reach' = [s \in Slots |-> IF s = e THEN {e} \cup Behind(t)
                                     ELSE IF t \in reach[s] THEN reach[s] \cup {e}
                                     ELSE reach[s]]
  BY DEF PlaceBehind, FirstEmpty
<1>2. e \notin Used
  BY <1>1 DEF Used
<1>3. /\ slot' \in [Slots' -> SlotType] /\ (\A s \in Slots' : slot'[s].next \in 0..cap')
      /\ reach' \in [Slots' -> SUBSET Slots']
      /\ slot'[e] = Entry(k, v, slot[t].next)
      /\ slot'[t] = [slot[t] EXCEPT !.next = e + 1]
      /\ \A s \in Slots : s # e /\ s # t => slot'[s] = slot[s]
      /\ \A s \in Slots : reach[s] \subseteq reach'[s]
      /\ \A s \in Slots : t \in reach[s] => e \in reach'[s]
      /\ \A s \in Slots : e \in reach'[s] => s = e \/ t \in reach[s]
      /\ \A s \in Slots : reach'[s] \subseteq reach[s] \cup {e} \cup (IF s = e THEN Behind(t) ELSE {})
      /\ ChainsLead'
  BY <1>1, <1>2, BehindChains
<1>4. /\ cap \in Nat \ {0} /\ size \in Nat /\ slot \in [Slots -> SlotType] /\ Slots' = Slots
      /\ t \in Slots /\ t # e /\ Home(k) \in Slots /\ Home(k) # e
      /\ k # NULL /\ Hash[k] \in Nat
  <2>1. /\ cap \in Nat \ {0} /\ size \in Nat /\ slot \in [Slots -> SlotType] /\ Slots' = Slots
        /\ t \in Slots /\ t # e /\ Home(k) \in Slots /\ k # NULL /\ Hash[k] \in Nat
    BY <1>2, HomeInSlots, NullAssumption, HashAssumption DEF TableInv, TableTypeOK, Used, Slots
  <2>2. Home(k) # e
    <3>1. ASSUME Home(k) = e PROVE FALSE
      <4>1. slot[e] = Empty
        BY <1>1, <1>2 DEF TableInv, EmptySlotsApart
      <4>2. reach[e] = {e}
        BY <4>1 DEF TableInv, ChainsLead, Behind, Empty
      <4> QED
        BY <2>1, <3>1, <4>2
    <3> QED
      BY <3>1
  <2> QED
    BY <2>1, <2>2
<1>5. \A s \in Slots : s # e =>
        /\ slot'[s].key = slot[s].key /\ slot'[s].pointer = slot[s].pointer
        /\ slot'[s].hash = slot[s].hash
  <2>1. slot[t] \in SlotType /\ e + 1 \in Nat
    BY <1>4 DEF Slots
  <2>2. LET q == [slot[t] EXCEPT !.next = e + 1]
        IN  q.key = slot[t].key /\ q.pointer = slot[t].pointer /\ q.hash = slot[t].hash
    BY <2>1, Relinked
  <2>3. /\ slot'[t].key = slot[t].key /\ slot'[t].pointer = slot[t].pointer
        /\ slot'[t].hash = slot[t].hash
    BY <1>3, <2>2, Zenon
  <2> QED
    BY <1>3, <2>3, Zenon
<1>6. slot'[e].key = k /\ slot'[e].pointer = v /\ slot'[e].hash = Hash[k]
  BY <1>3 DEF Entry
<1>7. Used' = Used \cup {e}
  BY <1>4, <1>5, <1>6 DEF Used
<1>8. Placed(e, k, v)
  <2>1. \A s \in Used : s \in Slots /\ s # e
    BY <1>2 DEF Used
  <2> QED
    BY <1>2, <1>3, <1>5, <1>6, <1>7, <2>1 DEF Placed
<1>9. TableTypeOK'
  BY <1>3, <1>4 DEF TableTypeOK
<1>10. EmptySlotsApart'
  <2> SUFFICES ASSUME NEW f \in Slots, f \notin Used, f # e
               PROVE  slot'[f] = Empty /\ \A s \in Slots : f \in reach'[s] => s = f
    BY <1>4, <1>7 DEF EmptySlotsApart
  <2>1. /\ slot[f] = Empty
        /\ \A s \in Slots : f \in reach[s] => s = f
    BY DEF TableInv, EmptySlotsApart
  <2>2. slot'[f] = Empty
    BY <1>3, <2>1
  <2>3. f \notin Behind(t)
    BY <1>4, <2>1 DEF TableInv, ChainsLead
  <2> QED
    BY <1>3, <2>1, <2>2, <2>3
<1>11. EntriesOnChain'
  <2> SUFFICES ASSUME NEW s \in Used'
               PROVE  /\ slot'[s].key \in Keys /\ slot'[s].pointer \in Pointers
                      /\ slot'[s].hash = Hash[slot'[s].key]
                      /\ s \in reach'[(Hash[slot'[s].key]) % cap']
    BY DEF EntriesOnChain, Home
  <2>1. CASE s = e
    BY <1>3, <1>4, <1>6, <2>1 DEF Home
  <2>2. CASE s # e
    <3>1. s \in Used /\ s \in Slots
      BY <1>7, <2>2 DEF Used
    <3>2. /\ slot[s].key \in Keys /\ slot[s].pointer \in Pointers
          /\ slot[s].hash = Hash[slot[s].key]
          /\ s \in reach[(Hash[slot[s].key]) % cap]
      BY <3>1 DEF TableInv, EntriesOnChain, Home
    <3>3. (Hash[slot[s].key]) % cap \in Slots
      BY <1>4, <3>2, HomeInSlots DEF Home
    <3> QED
      BY <1>3, <1>5, <2>2, <3>1, <3>2, <3>3
  <2> QED
    BY <2>1, <2>2
<1>12. SizeIsUsed'
  BY <1>8, PlacedCount
<1> QED
  BY <1>3, <1>8, <1>9, <1>10, <1>11, <1>12 DEF TableInv

(* A round of _pbcM_sp_insert_hash that finds the table not full. *)
LEMMA PlaceStep ==
  ASSUME TableInv, NEW k \in Keys, NEW v \in Pointers, Place(k, v), max' \in Nat
  PROVE  TableInv' /\ \E e \in Slots : Placed(e, k, v)
<1>1. /\ size' = size + 1 /\ cap' = cap
      /\ Home(k) \in Slots /\ Home(k) \in reach[Home(k)]
  BY HomeInSlots DEF Place, TableInv, TableTypeOK, ChainsLead
<1>2. CASE PlaceAtHome(k, v)
  BY <1>1, <1>2, AtHome
<1>3. CASE slot[Home(k)].key # NULL /\ PlaceBehind(Home(k), k, v)
  <2>1. Home(k) \in Used
    BY <1>1, <1>3 DEF Used
  <2> QED
    BY <1>1, <1>3, <2>1, PlacedBehind
<1> QED
  BY <1>2, <1>3 DEF Place

----------------------------------------------------------------------------
(* The entries *)

(* Storing keeps every entry and adds one; a key has a second entry only   *)
(* when that was said.                                                     *)
LEMMA StoreStep ==
  ASSUME MapInv, osize = 0, NEW k \in Keys, NEW v \in Pointers, NEW e \in Slots,
         Placed(e, k, v), UNCHANGED copy,
         put' = put \cup {<<k, v>>}, doubled \subseteq doubled',
         k \in doubled' \/ \A s \in Used : slot[s].key # k
  PROVE  NothingLost' /\ EntriesOnce'
<1>1. Uncopied = {} /\ Uncopied' = {}
  BY DEF copy, Uncopied, MapInv, TypeOK, CopyTypeOK
<1>2. /\ Used' = Used \cup {e}
      /\ slot'[e].key = k /\ slot'[e].pointer = v
      /\ \A s \in Used : s # e /\ slot'[s].key = slot[s].key /\ slot'[s].pointer = slot[s].pointer
  BY DEF Placed
<1>3. NothingLost'
  <2> SUFFICES ASSUME NEW kk \in Keys, NEW vv \in Pointers
               PROVE  Stored(kk, vv)' <=> <<kk, vv>> \in put'
    BY DEF NothingLost
  <2>1. (\E s \in Used : slot[s].key = kk /\ slot[s].pointer = vv) <=> <<kk, vv>> \in put
    BY <1>1 DEF MapInv, NothingLost, Stored
  <2>2. <<kk, vv>> \in put' <=> <<kk, vv>> \in put \/ (kk = k /\ vv = v)
    OBVIOUS
  <2>3. (\E s \in Used' : slot'[s].key = kk /\ slot'[s].pointer = vv)
          <=> (\E s \in Used : slot[s].key = kk /\ slot[s].pointer = vv) \/ (kk = k /\ vv = v)
    BY <1>2
  <2>4. Stored(kk, vv)' <=> \E s \in Used' : slot'[s].key = kk /\ slot'[s].pointer = vv
    BY <1>1 DEF Stored
  <2> QED
    BY <2>1, <2>2, <2>3, <2>4
<1>4. EntriesOnce'
  <2>1. \A s, t \in Used : slot[s].key = slot[t].key /\ s # t => slot[s].key \in doubled
    BY DEF MapInv, EntriesOnce
  <2>2. \A s, t \in Used' : slot'[s].key = slot'[t].key /\ s # t => slot'[s].key \in doubled'
    BY <1>2, <2>1
  <2> QED
    BY <1>1, <2>2 DEF EntriesOnce
<1> QED
  BY <1>3, <1>4

(* A round of the copying moves an entry. *)
LEMMA CopyStep ==
  ASSUME MapInv, i < osize, NEW e \in Slots,
         Placed(e, old[i].key, old[i].pointer), UNCHANGED <<old, osize, past>>, i' = i + 1
  PROVE  NothingLost' /\ EntriesOnce'
<1>1. i \in Uncopied /\ i \notin Uncopied' /\ Uncopied = Uncopied' \cup {i}
  BY DEF Uncopied, MapInv, TypeOK, CopyTypeOK
<1>2. /\ Used' = Used \cup {e}
      /\ slot'[e].key = old[i].key /\ slot'[e].pointer = old[i].pointer
      /\ \A s \in Used : s # e /\ slot'[s].key = slot[s].key /\ slot'[s].pointer = slot[s].pointer
      /\ old' = old /\ put' = put /\ doubled' = doubled
  BY DEF Placed, past
<1>3. NothingLost'
  <2> SUFFICES ASSUME NEW kk \in Keys, NEW vv \in Pointers
               PROVE  Stored(kk, vv)' <=> <<kk, vv>> \in put
    BY <1>2 DEF NothingLost
  <2>1. Stored(kk, vv) <=> <<kk, vv>> \in put
    BY DEF MapInv, NothingLost
  <2>2. Stored(kk, vv)' <=> Stored(kk, vv)
    BY <1>1, <1>2 DEF Stored
  <2> QED
    BY <2>1, <2>2
<1>4. EntriesOnce'
  <2>1. EntriesOnce
    BY DEF MapInv
  <2>2. /\ \A s, t \in Used : slot[s].key = slot[t].key /\ s # t => slot[s].key \in doubled
        /\ \A s \in Used, t \in Uncopied : slot[s].key = old[t].key => slot[s].key \in doubled
        /\ \A s, t \in Uncopied : old[s].key = old[t].key /\ s # t => old[s].key \in doubled
    BY <2>1 DEF EntriesOnce
  <2>3. \A s, t \in Used' : slot'[s].key = slot'[t].key /\ s # t => slot'[s].key \in doubled
    <3> SUFFICES ASSUME NEW s \in Used', NEW t \in Used', slot'[s].key = slot'[t].key, s # t
                 PROVE  slot'[s].key \in doubled
      OBVIOUS
    <3>1. CASE s = e
      BY <1>1, <1>2, <2>2, <3>1
    <3>2. CASE t = e
      BY <1>1, <1>2, <2>2, <3>2
    <3>3. CASE s # e /\ t # e
      BY <1>2, <2>2, <3>3
    <3> QED
      BY <3>1, <3>2, <3>3
  <2>4. \A s \in Used', t \in Uncopied' : slot'[s].key = old[t].key => slot'[s].key \in doubled
    BY <1>1, <1>2, <2>2
  <2> QED
    BY <1>1, <1>2, <2>2, <2>3, <2>4 DEF EntriesOnce
<1> QED
  BY <1>3, <1>4

(* The head of a rehash sets every entry aside to be copied. *)
LEMMA StartStep ==
  ASSUME MapInv, osize = 0, Full, StartRehash, max' = max, UNCHANGED past
  PROVE  TableInv' /\ CopyTypeOK' /\ NothingLost' /\ EntriesOnce'
<1>1. Used = Slots /\ size = cap /\ cap \in Nat \ {0} /\ max \in Nat /\ TableInv
  BY FullUsed DEF MapInv, TableInv, TableTypeOK
<1>2. TableInv' /\ Used' = {}
  BY <1>1, Cleared, 2 * cap \in Nat \ {0} DEF StartRehash
<1>3. /\ old' = slot /\ osize' = cap /\ i' = 0 /\ put' = put /\ doubled' = doubled
      /\ Uncopied = {} /\ Uncopied' = Slots
  BY <1>1 DEF StartRehash, past, Uncopied, Slots, MapInv, TypeOK, CopyTypeOK
<1>4. CopyTypeOK'
  <2>1. \A s \in Slots : slot[s].key \in Keys /\ slot[s].pointer \in Pointers
    BY <1>1 DEF TableInv, EntriesOnChain
  <2>2. slot \in [Slots -> SlotType]
    BY <1>1 DEF TableInv, TableTypeOK
  <2> QED
    BY <1>1, <1>3, <2>1, <2>2 DEF CopyTypeOK, Slots
<1>5. NothingLost'
  <2> SUFFICES ASSUME NEW kk \in Keys, NEW vv \in Pointers
               PROVE  Stored(kk, vv)' <=> <<kk, vv>> \in put
    BY <1>3 DEF NothingLost
  <2>1. Stored(kk, vv) <=> <<kk, vv>> \in put
    BY DEF MapInv, NothingLost
  <2>2. Stored(kk, vv)' <=> Stored(kk, vv)
    BY <1>1, <1>2, <1>3 DEF Stored
  <2> QED
    BY <2>1, <2>2
<1>6. EntriesOnce'
  <2>1. EntriesOnce
    BY DEF MapInv
  <2> QED
    BY <1>1, <1>2, <1>3, <2>1 DEF EntriesOnce
<1> QED
  BY <1>2, <1>4, <1>5, <1>6

(* When a search ends without a match the key has no entry. *)
LEMMA WalkLost ==
  ASSUME MapInv, pc = "walk", ~Match(at), slot[at].next = 0
  PROVE  \A s \in Used : slot[s].key # key
<1> SUFFICES ASSUME NEW s \in Used, slot[s].key = key PROVE FALSE
  OBVIOUS
<1>1. at \in Slots /\ s \in reach[at]
  BY DEF MapInv, TypeOK, CallTypeOK, CallInv
<1>2. reach[at] = {at}
  BY <1>1 DEF MapInv, TableInv, ChainsLead, Behind
<1>3. slot[s].hash = Hash[slot[s].key]
  BY DEF MapInv, TableInv, EntriesOnChain
<1> QED
  BY <1>1, <1>2, <1>3 DEF Match

(* A key is known exactly when it has an entry, except during a rehash. *)
LEMMA KnownKeys ==
  ASSUME MapInv, osize = 0, NEW k \in Keys
  PROVE  Known(k) <=> \E s \in Used : slot[s].key = k
<1>1. Uncopied = {}
  BY DEF Uncopied, MapInv, TypeOK, CopyTypeOK
<1>2. \A vv \in Pointers :
        (\E s \in Used : slot[s].key = k /\ slot[s].pointer = vv) <=> <<k, vv>> \in put
  BY <1>1 DEF MapInv, NothingLost, Stored
<1>3. \A s \in Used : slot[s].pointer \in Pointers
  BY DEF MapInv, TableInv, EntriesOnChain
<1>4. \A p \in put : p = <<p[1], p[2]>> /\ p[2] \in Pointers
  BY DEF MapInv, TypeOK, HistoryTypeOK
<1> QED
  BY <1>2, <1>3, <1>4 DEF Known

----------------------------------------------------------------------------
(* The steps *)

LEMMA TableKept ==
  ASSUME TableInv, UNCHANGED <<table, max>>
  PROVE  TableInv' /\ Used' = Used /\ Held' = Held /\ Slots' = Slots
<1> USE DEF table, Slots, Used, Held
<1>1. TableTypeOK'
  BY DEF TableInv, TableTypeOK
<1>2. ChainsLead'
  BY DEF TableInv, ChainsLead, Behind
<1>3. EmptySlotsApart'
  BY DEF TableInv, EmptySlotsApart
<1>4. EntriesOnChain'
  BY DEF TableInv, EntriesOnChain, Home
<1>5. SizeIsUsed'
  BY DEF TableInv, SizeIsUsed
<1> QED
  BY <1>1, <1>2, <1>3, <1>4, <1>5 DEF TableInv

LEMMA EntriesKept ==
  ASSUME MapInv, UNCHANGED <<table, max, copy, past>>
  PROVE  /\ TableInv' /\ CopyTypeOK' /\ NothingLost' /\ EntriesOnce'
         /\ Used' = Used /\ Held' = Held /\ Slots' = Slots
<1>1. TableInv' /\ Used' = Used /\ Held' = Held /\ Slots' = Slots
  BY TableKept DEF MapInv
<1>2. slot' = slot /\ old' = old /\ osize' = osize /\ i' = i /\ put' = put /\ doubled' = doubled
  BY DEF table, copy, past
<1>3. CopyTypeOK'
  BY <1>2 DEF MapInv, TypeOK, CopyTypeOK
<1>4. \A k, v : Stored(k, v)' <=> Stored(k, v)
  BY <1>1, <1>2 DEF Stored, Uncopied
<1>5. NothingLost'
  BY <1>2, <1>4 DEF MapInv, NothingLost
<1>6. EntriesOnce'
  BY <1>1, <1>2 DEF MapInv, EntriesOnce, Uncopied
<1> QED
  BY <1>1, <1>3, <1>5, <1>6

LEMMA InitKeeps ==
  ASSUME Init
  PROVE  MapInv
<1>1. /\ Slots = {0} /\ slot = [s \in {0} |-> Empty] /\ reach = [s \in {0} |-> {s}]
      /\ slot[0] = Empty /\ reach[0] = {0}
  BY DEF Init, Slots
<1>2. Used = {}
  BY <1>1 DEF Used, Empty
<1>3. TableInv
  <2>1. TableTypeOK
    <3>1. Empty \in SlotType
      BY DEF Empty, SlotType
    <3> QED
      BY <1>1, <3>1, HintsAssumption DEF Init, TableTypeOK, Empty
  <2>2. ChainsLead /\ EmptySlotsApart /\ EntriesOnChain
    BY <1>1, <1>2 DEF ChainsLead, EmptySlotsApart, EntriesOnChain, Behind, Empty
  <2>3. SizeIsUsed
    BY <1>2, FS_EmptySet DEF SizeIsUsed, Init
  <2> QED
    BY <2>1, <2>2, <2>3 DEF TableInv
<1>4. TypeOK
  BY <1>3 DEF Init, TypeOK, TableInv, CallTypeOK, CopyTypeOK, HistoryTypeOK, NoSlots
<1>5. NothingLost /\ EntriesOnce
  BY <1>2 DEF Init, NothingLost, EntriesOnce, Stored, Uncopied
<1> QED
  BY <1>2, <1>3, <1>4, <1>5 DEF Init, MapInv, CallInv, QueryAnswers, IterationComplete

LEMMA NewKeeps ==
  ASSUME MapInv, New
  PROVE  MapInv'
<1>1. /\ pc = "new" /\ Used = {} /\ size = 0 /\ iter = NULL /\ op = "none" /\ osize = 0
      /\ cap \in Nat \ {0} /\ max \in Nat
  BY DEF New, MapInv, CallInv, TableInv, TableTypeOK
<1>2. /\ op' = op /\ iter' = iter /\ osize' = osize /\ old' = old /\ i' = i /\ put' = put
      /\ doubled' = doubled /\ size' = size /\ max' = max /\ pc' \in {"new", "idle"}
      /\ key' = key /\ value' = value /\ at' = at /\ ret' = ret /\ seen' = seen
  BY <1>1 DEF New, copy, past, visit
<1>3. TableInv' /\ Used' = {}
  <2>1. CASE cap' = 2 * cap /\ Clear(2 * cap)
    BY <1>1, <1>2, <2>1, Cleared, 2 * cap \in Nat \ {0}
  <2>2. CASE UNCHANGED <<cap, slot, reach>>
    <3>1. UNCHANGED <<table, max>>
      BY <1>2, <2>2 DEF table
    <3> QED
      BY <1>1, <3>1, TableKept DEF MapInv
  <2> QED
    BY <2>1, <2>2 DEF New
<1>4. TypeOK'
  BY <1>1, <1>2, <1>3 DEF MapInv, TypeOK, TableInv, CallTypeOK, CopyTypeOK, HistoryTypeOK
<1>5. NothingLost' /\ EntriesOnce'
  <2>1. Uncopied = {} /\ Uncopied' = {}
    BY <1>1, <1>2 DEF Uncopied, MapInv, TypeOK, CopyTypeOK
  <2>2. \A k, v : ~Stored(k, v) /\ ~Stored(k, v)'
    BY <1>1, <1>3, <2>1 DEF Stored
  <2> QED
    BY <1>2, <1>3, <2>1, <2>2 DEF MapInv, NothingLost, EntriesOnce
<1> QED
  BY <1>1, <1>2, <1>3, <1>4, <1>5 DEF MapInv, CallInv, QueryAnswers, IterationComplete

(* The entries that are left to copy hold keys and pointers. *)
LEMMA RehashKeeps ==
  ASSUME MapInv, Rehash
  PROVE  MapInv'
<1>1. /\ pc = "rehash" /\ op \in {"insert", "query_insert"} /\ iter = NULL /\ max \in Nat
      /\ UNCHANGED <<max, op, key, value, at, ret, iter, seen, put, doubled>>
  BY DEF Rehash, visit, past, MapInv, TypeOK, TableTypeOK, CallTypeOK, CallInv
<1>2. CASE CopyMore /\ Place(old[i].key, old[i].pointer) /\ i' = i + 1 /\ UNCHANGED <<old, osize, pc>>
  <2>1. i \in 0..(osize - 1) /\ osize \in Nat
    BY <1>2 DEF CopyMore, MapInv, TypeOK, CopyTypeOK
  <2>2. old[i].key \in Keys /\ old[i].pointer \in Pointers
    BY <2>1 DEF MapInv, TypeOK, CopyTypeOK
  <2>3. PICK e \in Slots : TableInv' /\ Placed(e, old[i].key, old[i].pointer)
    BY <1>1, <1>2, <2>2, PlaceStep DEF MapInv
  <2>4. NothingLost' /\ EntriesOnce'
    BY <1>1, <1>2, <2>1, <2>3, CopyStep DEF past
  <2>5. CopyTypeOK'
    BY <1>2, <2>1 DEF MapInv, TypeOK, CopyTypeOK
  <2>6. TypeOK'
    BY <1>1, <1>2, <2>3, <2>5 DEF MapInv, TypeOK, TableInv, CallTypeOK, HistoryTypeOK
  <2> QED
    BY <1>1, <1>2, <2>3, <2>4, <2>6 DEF MapInv, CallInv, QueryAnswers, IterationComplete
<1>3. CASE ~CopyMore /\ pc' = op /\ old' = NoSlots /\ osize' = 0 /\ i' = 0 /\ UNCHANGED table
  <2>1. TableInv' /\ Used' = Used /\ Held' = Held /\ Slots' = Slots /\ slot' = slot
    BY <1>1, <1>3, TableKept DEF MapInv, table
  <2>2. Uncopied = {} /\ Uncopied' = {}
    BY <1>3 DEF CopyMore, Uncopied, MapInv, TypeOK, CopyTypeOK
  <2>3. NothingLost' /\ EntriesOnce'
    <3>1. \A k, v : Stored(k, v)' <=> Stored(k, v)
      BY <2>1, <2>2 DEF Stored
    <3> QED
      BY <1>1, <2>1, <2>2, <3>1 DEF MapInv, NothingLost, EntriesOnce
  <2>4. TypeOK'
    BY <1>1, <1>3, <2>1
    DEF MapInv, TypeOK, TableInv, CallTypeOK, CopyTypeOK, HistoryTypeOK, NoSlots
  <2> QED
    BY <1>1, <1>3, <2>1, <2>3, <2>4 DEF MapInv, CallInv, QueryAnswers, IterationComplete
<1> QED
  BY <1>2, <1>3 DEF Rehash

(* The calls that start. *)
LEMMA CallKeeps ==
  ASSUME MapInv, NEW k \in Keys, NEW v,
         (v \in Pointers /\ (Insert(k, v) \/ QueryInsert(k, v))) \/ Query(k)
  PROVE  MapInv'
<1>1. /\ pc = "idle" /\ osize = 0 /\ UNCHANGED <<table, max, copy, past>>
      /\ ret' = ret /\ key' = k /\ cap \in Nat \ {0}
  BY DEF Insert, QueryInsert, Query, Call, MapInv, CallInv, TableInv, TableTypeOK
<1>2. /\ TableInv' /\ CopyTypeOK' /\ NothingLost' /\ EntriesOnce'
      /\ Used' = Used /\ Held' = Held /\ Slots' = Slots
  BY <1>1, EntriesKept
<1>3. /\ slot' = slot /\ reach' = reach /\ cap' = cap /\ osize' = osize
      /\ put' = put /\ doubled' = doubled
  BY <1>1 DEF table, copy, past
<1>4. CASE v \in Pointers /\ (Insert(k, v) \/ QueryInsert(k, v))
  <2>1. /\ op' \in {"insert", "query_insert"} /\ pc' = op' /\ value' = v /\ iter' = NULL
        /\ seen' = {} /\ at' = at
    BY <1>4 DEF Insert, QueryInsert, Call
  <2>2. TypeOK'
    BY <1>1, <1>2, <1>3, <1>4, <2>1 DEF MapInv, TypeOK, TableInv, CallTypeOK, HistoryTypeOK
  <2> QED
    BY <1>1, <1>2, <1>3, <2>1, <2>2 DEF MapInv, CallInv, QueryAnswers, IterationComplete
<1>5. CASE Query(k)
  <2>1. /\ op' = "query" /\ pc' = "walk" /\ value' = NULL /\ at' = Home(k) /\ iter' = iter
        /\ seen' = seen
    BY <1>5 DEF Query, Call, visit
  <2>2. Home(k) \in Slots /\ Home(key)' = Home(k)
    BY <1>1, <1>3, HomeInSlots DEF Home
  <2>3. Slots \subseteq Nat
    BY DEF Slots
  <2>4. TypeOK'
    BY <1>1, <1>2, <1>3, <2>1, <2>2, <2>3 DEF MapInv, TypeOK, TableInv, CallTypeOK, HistoryTypeOK
  <2>5. CallInv'
    <3>1. Home(k) \in reach[Home(k)]
      BY <2>2 DEF MapInv, TableInv, ChainsLead
    <3>2. \A s \in Used : slot[s].key = k => s \in reach[Home(k)]
      BY DEF MapInv, TableInv, EntriesOnChain
    <3> QED
      BY <1>1, <1>2, <1>3, <2>1, <2>2, <3>1, <3>2 DEF MapInv, CallInv
  <2>6. IterationComplete'
    BY <1>1, <1>2, <1>3, <2>1 DEF MapInv, IterationComplete
  <2> QED
    BY <1>2, <2>1, <2>4, <2>5, <2>6 DEF MapInv, QueryAnswers
<1> QED
  BY <1>4, <1>5

LEMMA InsertHashKeeps ==
  ASSUME MapInv, InsertHash
  PROVE  MapInv'
<1>1. /\ pc = "insert" /\ op = "insert" /\ key \in Keys /\ value \in Pointers
      /\ osize = 0 /\ iter = NULL /\ max \in Nat
      /\ UNCHANGED <<max, op, key, value, at, iter, seen>>
  BY DEF InsertHash, visit, MapInv, TypeOK, TableTypeOK, CallTypeOK, CallInv
<1>2. CASE /\ ~Full /\ Place(key, value) /\ put' = put \cup {<<key, value>>}
           /\ doubled' = IF Known(key) THEN doubled \cup {key} ELSE doubled
           /\ pc' = "idle" /\ ret' = value /\ UNCHANGED copy
  <2>1. PICK e \in Slots : TableInv' /\ Placed(e, key, value)
    BY <1>1, <1>2, PlaceStep DEF MapInv
  <2>2. key \in doubled' \/ \A s \in Used : slot[s].key # key
    BY <1>1, <1>2, KnownKeys
  <2>3. NothingLost' /\ EntriesOnce'
    BY <1>1, <1>2, <2>1, <2>2, StoreStep
  <2>4. /\ put' \in SUBSET (Keys \X Pointers) /\ doubled' \in SUBSET Keys
        /\ osize' = 0 /\ i' = i /\ old' = old
    BY <1>1, <1>2 DEF MapInv, TypeOK, HistoryTypeOK, copy
  <2>5. TypeOK'
    BY <1>1, <1>2, <2>1, <2>4
    DEF MapInv, TypeOK, TableInv, CallTypeOK, CopyTypeOK, HistoryTypeOK
  <2> QED
    BY <1>1, <1>2, <2>1, <2>3, <2>4, <2>5
    DEF MapInv, CallInv, QueryAnswers, IterationComplete
<1>3. CASE Full /\ StartRehash /\ UNCHANGED <<ret, past>>
  <2>1. TableInv' /\ CopyTypeOK' /\ NothingLost' /\ EntriesOnce'
    BY <1>1, <1>3, StartStep
  <2>2. pc' = "rehash" /\ ret' = ret /\ put' = put /\ doubled' = doubled
    BY <1>3 DEF StartRehash, past
  <2>3. TypeOK'
    BY <1>1, <2>1, <2>2 DEF MapInv, TypeOK, TableInv, CallTypeOK, HistoryTypeOK
  <2> QED
    BY <1>1, <2>1, <2>2, <2>3 DEF MapInv, CallInv, QueryAnswers, IterationComplete
<1> QED
  BY <1>2, <1>3 DEF InsertHash

LEMMA QueryInsertHashKeeps ==
  ASSUME MapInv, QueryInsertHash
  PROVE  MapInv'
<1>1. /\ pc = "query_insert" /\ op = "query_insert" /\ key \in Keys /\ value \in Pointers
      /\ osize = 0 /\ iter = NULL /\ max \in Nat /\ cap \in Nat \ {0}
      /\ UNCHANGED <<max, op, key, value, copy, iter, seen, doubled>>
  BY DEF QueryInsertHash, visit, MapInv, TypeOK, TableInv, TableTypeOK, CallTypeOK, CallInv
<1>2. CASE /\ slot[Home(key)].key = NULL /\ ~Full /\ Place(key, value)
           /\ put' = put \cup {<<key, value>>} /\ pc' = "idle" /\ ret' = value /\ UNCHANGED at
  <2>1. PICK e \in Slots : TableInv' /\ Placed(e, key, value)
    BY <1>1, <1>2, PlaceStep DEF MapInv
  <2>2. \A s \in Used : slot[s].key # key
    BY <1>1, <1>2, EmptyHome DEF MapInv
  <2>3. NothingLost' /\ EntriesOnce'
    BY <1>1, <1>2, <2>1, <2>2, StoreStep
  <2>4. /\ put' \in SUBSET (Keys \X Pointers) /\ <<key', ret'>> \in put'
        /\ osize' = 0 /\ i' = i /\ old' = old
    BY <1>1, <1>2 DEF MapInv, TypeOK, HistoryTypeOK, copy
  <2>5. TypeOK'
    BY <1>1, <1>2, <2>1, <2>4
    DEF MapInv, TypeOK, TableInv, CallTypeOK, CopyTypeOK, HistoryTypeOK
  <2> QED
    BY <1>1, <1>2, <2>1, <2>3, <2>4, <2>5
    DEF MapInv, CallInv, QueryAnswers, IterationComplete
<1>3. CASE /\ slot[Home(key)].key # NULL /\ at' = Home(key) /\ pc' = "walk"
           /\ UNCHANGED <<table, ret, put>>
  <2>1. /\ TableInv' /\ CopyTypeOK' /\ NothingLost' /\ EntriesOnce'
        /\ Used' = Used /\ Held' = Held /\ Slots' = Slots
    BY <1>1, <1>3, EntriesKept DEF past
  <2>2. slot' = slot /\ reach' = reach /\ cap' = cap /\ put' = put /\ osize' = osize /\ ret' = ret
    BY <1>1, <1>3 DEF table, copy
  <2>3. Home(key) \in Slots /\ Home(key)' = Home(key) /\ Home(key) \in Used
    BY <1>1, <1>3, <2>2, HomeInSlots DEF Home, Used
  <2>4. TypeOK'
    BY <1>1, <1>3, <2>1, <2>2, <2>3
    DEF MapInv, TypeOK, TableInv, CallTypeOK, HistoryTypeOK, Slots
  <2>5. CallInv'
    <3>1. Home(key) \in reach[Home(key)]
      BY <2>3 DEF MapInv, TableInv, ChainsLead
    <3>2. \A s \in Used : slot[s].key = key => s \in reach[Home(key)]
      BY DEF MapInv, TableInv, EntriesOnChain
    <3> QED
      BY <1>1, <1>3, <2>1, <2>2, <2>3, <3>1, <3>2 DEF CallInv
  <2> QED
    BY <1>1, <1>3, <2>1, <2>4, <2>5 DEF MapInv, QueryAnswers, IterationComplete
<1> QED
  BY <1>2, <1>3 DEF QueryInsertHash

LEMMA NextKeyKeeps ==
  ASSUME MapInv, NextKey
  PROVE  MapInv'
<1>1. /\ pc = "idle" /\ osize = 0 /\ op' = "next" /\ key' = iter /\ value' = NULL
      /\ iter \in Keys \cup {NULL} /\ cap \in Nat \ {0}
      /\ UNCHANGED <<table, max, copy, past>>
  BY DEF NextKey, MapInv, TypeOK, HistoryTypeOK, CallInv, TableInv, TableTypeOK
<1>2. /\ TableInv' /\ CopyTypeOK' /\ NothingLost' /\ EntriesOnce'
      /\ Used' = Used /\ Held' = Held /\ Slots' = Slots
  BY <1>1, EntriesKept
<1>3. /\ slot' = slot /\ reach' = reach /\ cap' = cap /\ osize' = osize
      /\ put' = put /\ doubled' = doubled
  BY <1>1 DEF table, copy, past
<1>4. CASE iter = NULL /\ Held = {} /\ ret' = NULL /\ iter' = NULL /\ seen' = {} /\ UNCHANGED <<pc, at>>
  <2>1. TypeOK'
    BY <1>1, <1>2, <1>3, <1>4 DEF MapInv, TypeOK, TableInv, CallTypeOK, HistoryTypeOK
  <2> QED
    BY <1>1, <1>2, <1>3, <1>4, <2>1 DEF MapInv, CallInv, QueryAnswers, IterationComplete
<1>5. ASSUME iter = NULL, NEW t \in Held, \A u \in Held : t <= u,
             ret' = slot[t].pointer, iter' = slot[t].key, seen' = {t}, UNCHANGED <<pc, at>>
      PROVE  MapInv'
  <2>1. t \in Used /\ slot[t].key \in Keys /\ slot[t].pointer \in Pointers /\ ret' # NULL
    BY <1>5 DEF Held, MapInv, TableInv, EntriesOnChain
  <2>2. Used \subseteq Nat /\ Held \subseteq Nat
    BY DEF Used, Slots, Held
  <2>3. {t} = {s \in Held : s <= t}
    <3>1. \A s \in Held : s <= t <=> s = t
      BY <1>5, <2>2
    <3> QED
      BY <3>1
  <2>4. TypeOK'
    BY <1>1, <1>2, <1>3, <1>5, <2>1, <2>2 DEF MapInv, TypeOK, TableInv, CallTypeOK, HistoryTypeOK
  <2>5. IterationComplete'
    BY <1>2, <1>3, <1>5, <2>1, <2>3 DEF IterationComplete
  <2> QED
    BY <1>1, <1>2, <1>3, <1>5, <2>4, <2>5 DEF MapInv, CallInv, QueryAnswers
<1>6. CASE iter # NULL /\ pc' = "walk" /\ at' = Home(iter) /\ UNCHANGED <<ret, visit>>
  <2>1. /\ iter \in Keys /\ Home(iter) \in Slots /\ Home(key)' = Home(iter)
        /\ iter' = iter /\ seen' = seen
    BY <1>1, <1>3, <1>6, HomeInSlots DEF Home, visit
  <2>2. TypeOK'
    BY <1>1, <1>2, <1>3, <1>6, <2>1
    DEF MapInv, TypeOK, TableInv, CallTypeOK, HistoryTypeOK, Slots
  <2>3. CallInv'
    <3>1. Home(iter) \in reach[Home(iter)]
      BY <2>1 DEF MapInv, TableInv, ChainsLead
    <3>2. \A s \in Used : slot[s].key = iter => s \in reach[Home(iter)]
      BY DEF MapInv, TableInv, EntriesOnChain
    <3> QED
      BY <1>1, <1>2, <1>3, <1>6, <2>1, <3>1, <3>2 DEF CallInv
  <2>4. IterationComplete'
    BY <1>1, <1>2, <1>3, <1>6, <2>1 DEF MapInv, IterationComplete
  <2> QED
    BY <1>2, <1>6, <2>2, <2>3, <2>4 DEF MapInv, QueryAnswers
<1> QED
  BY <1>4, <1>5, <1>6 DEF NextKey

(* A search has met its key. *)
LEMMA WalkFoundKeeps ==
  ASSUME MapInv, WalkFound
  PROVE  MapInv'
<1>1. /\ pc = "walk" /\ osize = 0 /\ key \in Keys /\ at \in Slots /\ pc' = "idle"
      /\ op \in {"query_insert", "query", "next"} /\ Match(at)
      /\ UNCHANGED <<op, key, value, at>> /\ UNCHANGED <<table, max, copy, past>>
  BY DEF WalkFound, MapInv, TypeOK, CallTypeOK, CallInv
<1>2. /\ TableInv' /\ CopyTypeOK' /\ NothingLost' /\ EntriesOnce'
      /\ Used' = Used /\ Held' = Held /\ Slots' = Slots
  BY <1>1, EntriesKept
<1>3. slot' = slot /\ osize' = osize /\ put' = put /\ doubled' = doubled
  BY <1>1 DEF table, copy, past
<1>4. at \in Used /\ slot[at].key = key /\ slot[at].pointer \in Pointers
  BY <1>1, NullAssumption DEF Match, Used, MapInv, TableInv, EntriesOnChain
<1>5. Held \subseteq Used /\ Held \subseteq Nat
  BY DEF Used, Slots, Held
<1>6. CASE op \in {"query", "query_insert"} /\ ret' = slot[at].pointer /\ UNCHANGED visit
  <2>1. iter' = iter /\ seen' = seen
    BY <1>6 DEF visit
  <2>2. TypeOK'
    BY <1>1, <1>2, <1>3, <1>4, <1>6, <2>1 DEF MapInv, TypeOK, TableInv, CallTypeOK, HistoryTypeOK
  <2>3. <<key, ret'>> \in put
    BY <1>1, <1>4, <1>6 DEF MapInv, NothingLost, Stored
  <2>4. QueryAnswers' /\ CallInv'
    BY <1>1, <1>3, <2>3 DEF QueryAnswers, CallInv
  <2>5. IterationComplete'
    BY <1>1, <1>2, <1>3, <1>6, <2>1 DEF MapInv, IterationComplete
  <2> QED
    BY <1>2, <2>2, <2>4, <2>5 DEF MapInv
<1>7. CASE op = "next" /\ Yield(ScanFrom(at))
  <2>1. key = iter /\ iter # NULL
    BY <1>1, <1>7, NullAssumption DEF MapInv, CallInv
  <2>2. doubled = {} => at \in Held /\ seen = {s \in Held : s <= at}
    <3> SUFFICES ASSUME doubled = {} PROVE at \in Held /\ seen = {s \in Held : s <= at}
      OBVIOUS
    <3>1. PICK t \in Held : slot[t].key = iter /\ seen = {s \in Held : s <= t}
      BY <1>1, <2>1 DEF MapInv, IterationComplete
    <3>2. t = at
      BY <1>4, <1>5, <2>1, <3>1 DEF MapInv, EntriesOnce
    <3> QED
      BY <3>1, <3>2
  <2>3. Ahead(at + 1) = {t \in Held : t > at}
    <3>1. at \in Nat
      BY <1>1 DEF Slots
    <3>2. \A t \in Held : t >= at + 1 <=> t > at
      BY <1>5, <3>1
    <3> QED
      BY <3>2 DEF Ahead
  <2>4. CASE Ahead(at + 1) = {} /\ ret' = NULL /\ iter' = NULL /\ UNCHANGED seen
    <3>1. {s \in Held : s <= at} = Held
      <4>1. \A s \in Held : s <= at
        <5>1. at \in Nat
          BY <1>1 DEF Slots
        <5> QED
          BY <1>5, <2>3, <2>4, <5>1
      <4> QED
        BY <4>1
    <3>2. IterationComplete'
      BY <1>2, <1>3, <2>2, <2>4, <3>1 DEF IterationComplete
    <3>3. TypeOK'
      BY <1>1, <1>2, <1>3, <2>4 DEF MapInv, TypeOK, TableInv, CallTypeOK, HistoryTypeOK
    <3> QED
      BY <1>1, <1>2, <1>3, <1>7, <3>2, <3>3 DEF MapInv, CallInv, QueryAnswers
  <2>5. ASSUME NEW t \in Ahead(at + 1), \A u \in Ahead(at + 1) : t <= u,
               ret' = slot[t].pointer, iter' = slot[t].key, seen' = seen \cup {t}
        PROVE  MapInv'
    <3>1. /\ t \in Held /\ t \in Used /\ slot[t].key \in Keys /\ slot[t].pointer \in Pointers
          /\ ret' # NULL
      BY <1>5, <2>3, <2>5 DEF Held, MapInv, TableInv, EntriesOnChain
    <3>2. {s \in Held : s <= at} \cup {t} = {s \in Held : s <= t}
      <4>1. \A s \in Held : s <= t <=> s <= at \/ s = t
        <5>1. at \in Nat
          BY <1>1 DEF Slots
        <5> QED
          BY <1>5, <2>3, <2>5, <3>1, <5>1
      <4> QED
        BY <3>1, <4>1
    <3>3. IterationComplete'
      BY <1>2, <1>3, <2>2, <2>5, <3>1, <3>2 DEF IterationComplete
    <3>4. TypeOK'
      BY <1>1, <1>2, <1>3, <1>5, <2>5, <3>1 DEF MapInv, TypeOK, TableInv, CallTypeOK, HistoryTypeOK
    <3> QED
      BY <1>1, <1>2, <1>3, <1>7, <3>3, <3>4 DEF MapInv, CallInv, QueryAnswers
  <2> QED
    BY <1>7, <2>4, <2>5 DEF Yield, ScanFrom
<1> QED
  BY <1>6, <1>7 DEF WalkFound

LEMMA WalkNullKeeps ==
  ASSUME MapInv, WalkNull
  PROVE  MapInv'
<1>1. /\ osize = 0 /\ pc = "walk" /\ pc' = "nullderef"
      /\ UNCHANGED <<table, max, copy, past>> /\ UNCHANGED <<op, key, value, at, ret, visit>>
  BY DEF WalkNull, MapInv, CallInv
<1>2. TableInv' /\ CopyTypeOK' /\ NothingLost' /\ EntriesOnce'
  BY <1>1, EntriesKept
<1>3. iter' = iter /\ seen' = seen /\ osize' = osize /\ put' = put /\ doubled' = doubled
  BY <1>1 DEF visit, copy, past
<1>4. TypeOK'
  BY <1>1, <1>2, <1>3 DEF MapInv, TypeOK, TableInv, CallTypeOK, HistoryTypeOK
<1> QED
  BY <1>1, <1>2, <1>3, <1>4 DEF MapInv, CallInv, QueryAnswers, IterationComplete

LEMMA WalkOnKeeps ==
  ASSUME MapInv, WalkOn
  PROVE  MapInv'
<1> DEFINE n == slot[at].next - 1
<1>1. /\ pc = "walk" /\ osize = 0 /\ key \in Keys /\ at \in Slots /\ ~Match(at)
      /\ slot[at].next # 0 /\ at' = n
      /\ UNCHANGED <<pc, op, key, value, ret, visit>> /\ UNCHANGED <<table, max, copy, past>>
  BY DEF WalkOn, MapInv, TypeOK, CallTypeOK, CallInv
<1>2. /\ TableInv' /\ CopyTypeOK' /\ NothingLost' /\ EntriesOnce'
      /\ Used' = Used /\ Held' = Held /\ Slots' = Slots
  BY <1>1, EntriesKept
<1>3. /\ slot' = slot /\ reach' = reach /\ cap' = cap /\ osize' = osize
      /\ put' = put /\ doubled' = doubled /\ iter' = iter /\ seen' = seen
      /\ Home(key)' = Home(key)
  BY <1>1 DEF table, copy, past, visit, Home
<1>4. n \in Slots /\ Home(key) \in Slots
  BY <1>1, HomeInSlots DEF MapInv, TableInv, TableTypeOK, Slots
<1>5. reach[at] = {at} \cup reach[n] /\ n \in reach[n]
  BY <1>1, <1>4 DEF MapInv, TableInv, ChainsLead, Behind
<1>6. TypeOK'
  BY <1>1, <1>2, <1>3, <1>4
  DEF MapInv, TypeOK, TableInv, CallTypeOK, HistoryTypeOK, Slots
<1>7. CallInv'
  <2>1. n \in reach[Home(key)]
    <3>1. at \in reach[Home(key)]
      BY <1>1 DEF MapInv, CallInv
    <3>2. reach[at] \subseteq reach[Home(key)]
      BY <1>4, <3>1 DEF MapInv, TableInv, ChainsLead
    <3> QED
      BY <1>5, <3>2
  <2>2. \A s \in Used : slot[s].key = key => s \in reach[n]
    <3> SUFFICES ASSUME NEW s \in Used, slot[s].key = key PROVE s \in reach[n]
      OBVIOUS
    <3>1. s \in reach[at]
      BY <1>1 DEF MapInv, CallInv
    <3>2. slot[s].hash = Hash[slot[s].key]
      BY DEF MapInv, TableInv, EntriesOnChain
    <3> QED
      BY <1>1, <1>5, <3>1, <3>2 DEF Match
  <2> QED
    BY <1>1, <1>2, <1>3, <2>1, <2>2 DEF MapInv, CallInv
<1>8. IterationComplete'
  BY <1>1, <1>2, <1>3 DEF MapInv, IterationComplete
<1> QED
  BY <1>1, <1>2, <1>6, <1>7, <1>8 DEF MapInv, QueryAnswers

(* A search has come to the end of the chain. *)
LEMMA WalkEndsKeeps ==
  ASSUME MapInv, WalkEnds
  PROVE  MapInv'
<1>1. /\ pc = "walk" /\ osize = 0 /\ key \in Keys /\ at \in Slots /\ max \in Nat
      /\ ~Match(at) /\ slot[at].next = 0
      /\ UNCHANGED <<max, op, key, value, at, seen, doubled>>
  BY DEF WalkEnds, MapInv, TypeOK, TableTypeOK, CallTypeOK, CallInv
<1>2. \A s \in Used : slot[s].key # key
  BY <1>1, WalkLost
<1>3. CASE /\ op \in {"query", "next"} /\ pc' = "idle" /\ ret' = NULL
           /\ iter' = (IF op = "next" THEN NULL ELSE iter)
           /\ UNCHANGED <<table, copy, put>>
  <2>1. /\ TableInv' /\ CopyTypeOK' /\ NothingLost' /\ EntriesOnce'
        /\ Used' = Used /\ Held' = Held /\ Slots' = Slots
    BY <1>1, <1>3, EntriesKept DEF past
  <2>2. slot' = slot /\ osize' = osize /\ put' = put
    BY <1>3 DEF table, copy
  <2>3. TypeOK'
    BY <1>1, <1>3, <2>1, <2>2 DEF MapInv, TypeOK, TableInv, CallTypeOK, HistoryTypeOK
  <2>4. QueryAnswers'
    <3>1. ~Known(key)
      BY <1>1, <1>2, KnownKeys
    <3> QED
      BY <1>1, <1>3, <2>2, <3>1 DEF QueryAnswers, Known
  <2>5. IterationComplete'
    <3>1. CASE op = "query"
      BY <1>1, <1>3, <2>1, <2>2, <3>1 DEF MapInv, IterationComplete
    <3>2. CASE op = "next"
      <4>1. key = iter /\ iter # NULL
        BY <1>1, <3>2, NullAssumption DEF MapInv, CallInv
      <4>2. doubled # {}
        <5>1. Held \subseteq Used
          BY DEF Held
        <5> QED
          BY <1>1, <1>2, <4>1, <5>1 DEF MapInv, IterationComplete
      <4> QED
        BY <1>1, <4>2 DEF IterationComplete
    <3> QED
      BY <1>3, <3>1, <3>2
  <2> QED
    BY <1>1, <1>3, <2>1, <2>2, <2>3, <2>4, <2>5 DEF MapInv, CallInv
<1>4. CASE op = "query_insert" /\ Full /\ StartRehash /\ UNCHANGED <<ret, iter, put>>
  <2>1. TableInv' /\ CopyTypeOK' /\ NothingLost' /\ EntriesOnce'
    BY <1>1, <1>4, StartStep DEF past
  <2>2. pc' = "rehash" /\ iter = NULL
    BY <1>1, <1>4 DEF StartRehash, MapInv, CallInv
  <2>3. TypeOK'
    BY <1>1, <1>4, <2>1, <2>2 DEF MapInv, TypeOK, TableInv, CallTypeOK, HistoryTypeOK
  <2> QED
    BY <1>1, <1>4, <2>1, <2>2, <2>3 DEF MapInv, CallInv, QueryAnswers, IterationComplete
<1>5. CASE /\ op = "query_insert" /\ ~Full /\ PlaceBehind(at, key, value) /\ size' = size + 1
           /\ put' = put \cup {<<key, value>>} /\ pc' = "idle" /\ ret' = value
           /\ UNCHANGED <<cap, copy, iter>>
  <2>1. value \in Pointers /\ iter = NULL
    BY <1>1, <1>5 DEF MapInv, TypeOK, CallTypeOK, CallInv
  <2>2. at \in reach[Home(key)] /\ Home(key) \in Used
    BY <1>1, <1>5 DEF MapInv, CallInv
  <2>3. at \in Used
    BY <1>1, <2>2 DEF MapInv, TableInv, EmptySlotsApart, Used
  <2>4. PICK e \in Slots : TableInv' /\ Placed(e, key, value)
    BY <1>1, <1>5, <2>1, <2>2, <2>3, PlacedBehind DEF MapInv
  <2>5. NothingLost' /\ EntriesOnce'
    BY <1>1, <1>2, <1>5, <2>1, <2>4, StoreStep
  <2>6. /\ put' \in SUBSET (Keys \X Pointers) /\ <<key', ret'>> \in put'
        /\ osize' = 0 /\ i' = i /\ old' = old
    BY <1>1, <1>5, <2>1 DEF MapInv, TypeOK, HistoryTypeOK, copy
  <2>7. TypeOK'
    BY <1>1, <1>5, <2>1, <2>4, <2>6
    DEF MapInv, TypeOK, TableInv, CallTypeOK, CopyTypeOK, HistoryTypeOK
  <2> QED
    BY <1>1, <1>5, <2>1, <2>4, <2>5, <2>6, <2>7
    DEF MapInv, CallInv, QueryAnswers, IterationComplete
<1> QED
  BY <1>3, <1>4, <1>5 DEF WalkEnds

LEMMA StutterKeeps ==
  ASSUME MapInv, UNCHANGED vars
  PROVE  MapInv'
<1>1. /\ TableInv' /\ CopyTypeOK' /\ NothingLost' /\ EntriesOnce'
      /\ Used' = Used /\ Held' = Held /\ Slots' = Slots
  BY EntriesKept DEF vars
<1>2. /\ slot' = slot /\ size' = size /\ reach' = reach /\ cap' = cap /\ pc' = pc /\ op' = op
      /\ key' = key /\ value' = value /\ at' = at /\ ret' = ret /\ osize' = osize /\ put' = put
      /\ doubled' = doubled /\ iter' = iter /\ seen' = seen
  BY DEF vars, table, call, copy, visit, past
<1>3. TypeOK'
  BY <1>1, <1>2 DEF MapInv, TypeOK, TableInv, CallTypeOK, HistoryTypeOK
<1>4. CallInv'
  BY <1>1, <1>2 DEF MapInv, CallInv, Home
<1>5. QueryAnswers' /\ IterationComplete'
  BY <1>1, <1>2 DEF MapInv, QueryAnswers, IterationComplete, Known
<1> QED
  BY <1>1, <1>3, <1>4, <1>5 DEF MapInv

----------------------------------------------------------------------------
LEMMA StepKeeps ==
  ASSUME MapInv, [Next]_vars
  PROVE  MapInv'
<1>1. ASSUME NEW p \in Pairs, Insert(p[1], p[2]) \/ QueryInsert(p[1], p[2]) PROVE MapInv'
  <2>1. p[1] \in Keys /\ p[2] \in Pointers
    BY PairsAssumption
  <2> QED
    BY <1>1, <2>1, CallKeeps
<1>2. ASSUME NEW k \in Keys, Query(k) PROVE MapInv'
  BY <1>2, CallKeeps
<1> QED
  BY <1>1, <1>2, NextKeyKeeps, NewKeeps, RehashKeeps, InsertHashKeeps, QueryInsertHashKeeps,
     WalkFoundKeeps, WalkNullKeeps, WalkOnKeeps, WalkEndsKeeps, StutterKeeps
  DEF Next, Step, Walk

(* MapInv is an invariant of map_sp, for every hash function and every     *)
(* legal sequence of calls.                                                *)
THEOREM MapInvariant == Spec => []MapInv
<1>1. Init => MapInv
  BY InitKeeps
<1>2. MapInv /\ [Next]_vars => MapInv'
  BY StepKeeps
<1> QED
  BY <1>1, <1>2, PTL DEF Spec

(* Every entry stored is found, and nothing else, through every rehash.    *)
THEOREM NothingIsLost == Spec => []NothingLost
<1>1. MapInv => NothingLost
  BY DEF MapInv
<1> QED
  BY <1>1, MapInvariant, PTL

(* Neither a query_insert nor a rehash gives a key a second entry.         *)
THEOREM EntriesAreSingle == Spec => []EntriesOnce
<1>1. MapInv => EntriesOnce
  BY DEF MapInv
<1> QED
  BY <1>1, MapInvariant, PTL

(* A query returns a pointer stored under its key, or null when none was.  *)
THEOREM QueriesAnswer == Spec => []QueryAnswers
<1>1. MapInv => QueryAnswers
  BY DEF MapInv
<1> QED
  BY <1>1, MapInvariant, PTL

(* An iteration over a map without doubled keys returns every entry once.  *)
THEOREM IterationsAreComplete == Spec => []IterationComplete
<1>1. MapInv => IterationComplete
  BY DEF MapInv
<1> QED
  BY <1>1, MapInvariant, PTL
----------------------------------------------------------------------------
(* The table is a StringMap.  Its contents are what was stored (this is    *)
(* NothingLost), so that every step is told apart by the history alone.    *)

LEMMA ContentsArePut ==
  ASSUME MapInv, MapInv'
  PROVE  Contents = put /\ Contents' = put'
<1>1. put \in SUBSET (Keys \X Pointers) /\ put' \in SUBSET (Keys \X Pointers)
  BY DEF MapInv, TypeOK, HistoryTypeOK
<1>2. /\ \A k \in Keys, v \in Pointers : Stored(k, v) <=> <<k, v>> \in put
      /\ \A k \in Keys, v \in Pointers : Stored(k, v)' <=> <<k, v>> \in put'
  BY DEF MapInv, NothingLost
<1>3. Contents = put
  BY <1>1, <1>2 DEF Contents
<1>4. Contents' = put'
  BY <1>1, <1>2 DEF Contents
<1> QED
  BY <1>3, <1>4

(* An entry of the table was stored.                                       *)
LEMMA EntryWasPut ==
  ASSUME MapInv, NEW s \in Used
  PROVE  /\ slot[s].key \in Keys /\ slot[s].pointer \in Pointers
         /\ <<slot[s].key, slot[s].pointer>> \in put
<1>1. slot[s].key \in Keys /\ slot[s].pointer \in Pointers
  BY DEF MapInv, TableInv, EntriesOnChain
<1> QED
  BY <1>1 DEF MapInv, NothingLost, Stored

Waits == Request = [op |-> op, key |-> key, value |-> value]
Rests == Request = [op |-> "none", key |-> NULL, value |-> NULL]

LEMMA Requests ==
  /\ pc \in {"new", "idle"} => Rests
  /\ pc \notin {"new", "idle"} => Waits
  /\ pc' \in {"new", "idle"} => Rests'
  /\ pc' \notin {"new", "idle"} => Waits'
BY DEF Request, Waits, Rests

(* The steps that answer nothing: only the table changes.                  *)
LEMMA InnerStutters ==
  ASSUME MapInv, MapInv', UNCHANGED <<op, key, value, ret, put>>,
         pc \in {"new", "idle"} <=> pc' \in {"new", "idle"}
  PROVE  UNCHANGED Promised!mvars
<1>1. Contents' = Contents
  BY ContentsArePut
<1>2. Request' = Request
  BY DEF Request
<1> QED
  BY <1>1, <1>2 DEF Promised!mvars

LEMMA AskStep ==
  ASSUME MapInv, MapInv', pc = "idle", pc' \notin {"new", "idle"},
         UNCHANGED <<ret, put>>
  PROVE  Promised!Ask(op', key', value')
<1>1. Rests /\ Waits'
  BY Requests
<1>2. Contents' = Contents
  BY ContentsArePut
<1> QED
  BY <1>1, <1>2 DEF Promised!Ask, Promised!NoCall, Waits, Rests

LEMMA StoredStep ==
  ASSUME MapInv, MapInv', pc \notin {"new", "idle"}, pc' = "idle",
         op = "insert" \/ (op = "query_insert" /\ ~Known(key)),
         put' = put \cup {<<key, value>>}, ret' = value
  PROVE  Promised!Store
<1>1. Waits /\ Rests' /\ op # "none"
  BY Requests
<1>2. Request.op = op /\ Request.key = key /\ Request.value = value
  BY <1>1 DEF Waits
<1>3. Contents' = Contents \cup {<<key, value>>}
  BY ContentsArePut
<1>4. op = "query_insert" => Promised!Under(key) = {}
  <2> SUFFICES ASSUME ~Known(key) PROVE Promised!Under(key) = {}
    OBVIOUS
  <2>1. \A p \in Pointers : <<key, p>> \notin Contents
    BY ContentsArePut DEF Known
  <2> QED
    BY <2>1 DEF Promised!Under
<1>5. Promised!Answer
  BY <1>1, <1>2 DEF Promised!Answer, Promised!NoCall, Rests
<1> QED
  BY <1>2, <1>3, <1>4, <1>5 DEF Promised!Store

(* What a query, or a query_insert that stores nothing, answers is what    *)
(* QueryAnswers says.                                                      *)
LEMMA AnswerStep ==
  ASSUME MapInv, MapInv', pc \notin {"new", "idle"}, pc' = "idle",
         op \in {"query", "query_insert"}, UNCHANGED <<op, key, put>>
  PROVE  Promised!Find \/ Promised!Miss
<1>1. Waits /\ Rests'
  BY Requests
<1>2. Request.op = op /\ Request.key = key
  BY <1>1 DEF Waits
<1>3. Contents' = Contents /\ Contents = put
  BY ContentsArePut
<1>4. Promised!Answer
  BY <1>1, <1>2 DEF Promised!Answer, Promised!NoCall, Rests
<1>5. CASE <<key, ret'>> \in put
  <2>1. ret' \in Pointers
    BY <1>5 DEF MapInv, TypeOK, HistoryTypeOK
  <2>2. ret' \in Promised!Under(Request.key)
    BY <1>2, <1>3, <1>5, <2>1 DEF Promised!Under
  <2> QED
    BY <1>2, <1>3, <1>4, <2>2 DEF Promised!Find
<1>6. CASE op = "query" /\ ret' = NULL /\ ~Known(key)
  <2>1. Promised!Under(Request.key) = {}
    BY <1>2, <1>3, <1>6 DEF Promised!Under, Known
  <2> QED
    BY <1>2, <1>3, <1>4, <1>6, <2>1 DEF Promised!Miss
<1> QED
  BY <1>5, <1>6 DEF MapInv, QueryAnswers, Known

LEMMA VisitStep ==
  ASSUME MapInv, MapInv', pc = "idle" \/ (pc = "walk" /\ op = "next"), pc' = "idle",
         put' = put, ret' = NULL \/ \E s \in Used : ret' = slot[s].pointer
  PROVE  Promised!Visit
<1>1. Rests \/ (Waits /\ op = "next")
  BY Requests
<1>2. Request.op \in {"none", "next"} /\ Request' = Promised!NoCall
  BY <1>1, Requests DEF Waits, Rests, Promised!NoCall
<1>3. Contents' = Contents
  BY ContentsArePut
<1>4. ret' = NULL \/ \E c \in Contents : ret' = c[2]
  <2> SUFFICES ASSUME NEW s \in Used, ret' = slot[s].pointer
               PROVE  \E c \in Contents : ret' = c[2]
    OBVIOUS
  <2>1. <<slot[s].key, slot[s].pointer>> \in Contents
    BY EntryWasPut, ContentsArePut
  <2> QED
    BY <2>1
<1> QED
  BY <1>2, <1>3, <1>4 DEF Promised!Visit

----------------------------------------------------------------------------
(* One lemma for each action. *)

LEMMA CallRefines ==
  ASSUME MapInv, MapInv', NEW k \in Keys, NEW v,
         (v \in Pointers /\ (Insert(k, v) \/ QueryInsert(k, v))) \/ Query(k)
  PROVE  Promised!MNext
<1>1. /\ pc = "idle" /\ pc' \notin {"new", "idle"} /\ UNCHANGED <<ret, put>>
      /\ key' = k
      /\ \/ op' \in {"insert", "query_insert"} /\ value' = v /\ v \in Pointers
         \/ op' = "query" /\ value' = NULL
  BY DEF Insert, QueryInsert, Query, Call, past
<1>2. Promised!Ask(op', key', value')
  BY <1>1, AskStep
<1> QED
  BY <1>1, <1>2 DEF Promised!MNext

LEMMA NextKeyRefines ==
  ASSUME MapInv, MapInv', NextKey
  PROVE  Promised!MNext
<1>1. /\ pc = "idle" /\ put' = put /\ op' = "next" /\ key' = iter /\ value' = NULL
      /\ iter \in Keys \cup {NULL}
  BY DEF NextKey, past, MapInv, TypeOK, HistoryTypeOK
<1>2. CASE iter # NULL /\ pc' = "walk" /\ ret' = ret
  <2>1. Promised!Ask("next", iter, NULL)
    BY <1>1, <1>2, AskStep
  <2> QED
    BY <1>1, <1>2, <2>1 DEF Promised!MNext
<1>3. CASE pc' = pc /\ (ret' = NULL \/ \E t \in Held : ret' = slot[t].pointer)
  <2>1. Promised!Visit
    BY <1>1, <1>3, VisitStep DEF Held
  <2> QED
    BY <2>1 DEF Promised!MNext
<1> QED
  BY <1>2, <1>3 DEF NextKey, visit

LEMMA InsertHashRefines ==
  ASSUME MapInv, MapInv', InsertHash
  PROVE  Promised!MNext \/ UNCHANGED Promised!mvars
<1>1. pc = "insert" /\ op = "insert" /\ UNCHANGED <<op, key, value>>
  BY DEF InsertHash, MapInv, TypeOK, CallTypeOK
<1>2. CASE put' = put \cup {<<key, value>>} /\ pc' = "idle" /\ ret' = value
  BY <1>1, <1>2, StoredStep DEF Promised!MNext
<1>3. CASE StartRehash /\ UNCHANGED <<ret, past>>
  BY <1>1, <1>3, InnerStutters DEF StartRehash, past
<1> QED
  BY <1>2, <1>3 DEF InsertHash

LEMMA QueryInsertHashRefines ==
  ASSUME MapInv, MapInv', QueryInsertHash
  PROVE  Promised!MNext \/ UNCHANGED Promised!mvars
<1>1. /\ pc = "query_insert" /\ op = "query_insert" /\ key \in Keys /\ osize = 0
      /\ UNCHANGED <<op, key, value>>
  BY DEF QueryInsertHash, MapInv, TypeOK, CallTypeOK, CallInv
<1>2. CASE /\ slot[Home(key)].key = NULL
           /\ put' = put \cup {<<key, value>>} /\ pc' = "idle" /\ ret' = value
  <2>1. ~Known(key)
    BY <1>1, <1>2, EmptyHome, KnownKeys DEF MapInv
  <2> QED
    BY <1>1, <1>2, <2>1, StoredStep DEF Promised!MNext
<1>3. CASE pc' = "walk" /\ UNCHANGED <<ret, put>>
  BY <1>1, <1>3, InnerStutters
<1> QED
  BY <1>2, <1>3 DEF QueryInsertHash

LEMMA WalkFoundRefines ==
  ASSUME MapInv, MapInv', WalkFound
  PROVE  Promised!MNext
<1>1. /\ pc = "walk" /\ pc' = "idle" /\ UNCHANGED <<op, key, value, put>>
  BY DEF WalkFound, past
<1>2. CASE op \in {"query", "query_insert"}
  BY <1>1, <1>2, AnswerStep DEF Promised!MNext
<1>3. CASE op = "next" /\ Yield(ScanFrom(at))
  <2>1. ret' = NULL \/ \E s \in Used : ret' = slot[s].pointer
    BY <1>3 DEF Yield, Ahead, Held
  <2> QED
    BY <1>1, <1>3, <2>1, VisitStep DEF Promised!MNext
<1> QED
  BY <1>2, <1>3 DEF WalkFound

LEMMA WalkEndsRefines ==
  ASSUME MapInv, MapInv', WalkEnds
  PROVE  Promised!MNext \/ UNCHANGED Promised!mvars
<1>1. /\ pc = "walk" /\ ~Match(at) /\ slot[at].next = 0 /\ key \in Keys /\ osize = 0
      /\ UNCHANGED <<op, key, value>>
  BY DEF WalkEnds, MapInv, TypeOK, CallTypeOK, CallInv
<1>2. CASE op = "query" /\ pc' = "idle" /\ ret' = NULL /\ put' = put
  BY <1>1, <1>2, AnswerStep DEF Promised!MNext
<1>3. CASE op = "next" /\ pc' = "idle" /\ ret' = NULL /\ put' = put
  BY <1>1, <1>3, VisitStep DEF Promised!MNext
<1>4. CASE StartRehash /\ UNCHANGED <<ret, iter, put>>
  BY <1>1, <1>4, InnerStutters DEF StartRehash
<1>5. CASE /\ op = "query_insert" /\ put' = put \cup {<<key, value>>}
           /\ pc' = "idle" /\ ret' = value
  <2>1. ~Known(key)
    BY <1>1, WalkLost, KnownKeys
  <2> QED
    BY <1>1, <1>5, <2>1, StoredStep DEF Promised!MNext
<1> QED
  BY <1>2, <1>3, <1>4, <1>5 DEF WalkEnds

(* Making a map, growing it and going along a chain change nothing that a  *)
(* user could tell.                                                        *)
LEMMA RoundsStutter ==
  ASSUME MapInv, MapInv', New \/ Rehash \/ WalkNull \/ WalkOn \/ UNCHANGED vars
  PROVE  UNCHANGED Promised!mvars
<1>1. UNCHANGED <<op, key, value, ret, put>>
  BY DEF New, Rehash, WalkNull, WalkOn, vars, call, past
<1>2. pc \in {"new", "idle"} <=> pc' \in {"new", "idle"}
  BY DEF New, Rehash, WalkNull, WalkOn, vars, call, MapInv, TypeOK, CallTypeOK
<1> QED
  BY <1>1, <1>2, InnerStutters

(* The hash map of map.c keeps the promise of a StringMap, whatever the    *)
(* hash function, the first size and the calls: searches, copying and      *)
(* collisions are invisible, an insert adds one entry, a query_insert only *)
(* where there is none, and an answer is taken from what was stored.       *)
THEOREM MapRefinement == Spec => ImplementsMap
<1>1. Init => Promised!MInit
  <2> SUFFICES ASSUME Init PROVE Promised!MInit
    OBVIOUS
  <2>1. MapInv /\ put = {} /\ pc = "new" /\ ret = NULL
    BY InitKeeps DEF Init
  <2>2. Contents = {}
    BY <2>1 DEF MapInv, NothingLost, Contents
  <2> QED
    BY <2>1, <2>2 DEF Promised!MInit, Promised!NoCall, Request
<1>2. MapInv /\ [Next]_vars => [Promised!MNext]_Promised!mvars
  <2> SUFFICES ASSUME MapInv, [Next]_vars PROVE [Promised!MNext]_Promised!mvars
    OBVIOUS
  <2>1. MapInv'
    BY StepKeeps
  <2>2. ASSUME NEW p \in Pairs, Insert(p[1], p[2]) \/ QueryInsert(p[1], p[2])
        PROVE  Promised!MNext
    <3>1. p[1] \in Keys /\ p[2] \in Pointers
      BY PairsAssumption
    <3> QED
      BY <2>1, <2>2, <3>1, CallRefines
  <2>3. ASSUME NEW k \in Keys, Query(k) PROVE Promised!MNext
    BY <2>1, <2>3, CallRefines
  <2> QED
    BY <2>1, <2>2, <2>3, NextKeyRefines, InsertHashRefines, QueryInsertHashRefines,
       WalkFoundRefines, WalkEndsRefines, RoundsStutter
    DEF Next, Step, Walk
<1> QED
  BY <1>1, <1>2, MapInvariant, PTL DEF Spec, ImplementsMap, Promised!MSpec
=============================================================================
