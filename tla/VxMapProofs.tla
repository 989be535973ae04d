---------------------------- MODULE VxMapProofs ----------------------------
(***************************************************************************)
(* Proofs about VxMap, for every set of keys, every hash and every initial *)
(* capacity.                                                               *)
(***************************************************************************)
EXTENDS VxMap, FiniteSetTheorems, WellFoundedInduction, TLAPS

Table(e, c) == c \in Nat /\ c >= 1 /\ e \in [Slots(c) -> Entry]
Store(e, i, m) == [e EXCEPT ![i] = m]
Free(e, c)  == \E i \in Slots(c) : e[i].key = Null

(* What CopyOne has copied so far comes from the slots before next.        *)
Copied ==
  phase = "copy" =>
    /\ count <= next
    /\ \A i \in Used(fresh, 2 * cap) :
         \E j \in Slots(cap) : j < next /\ entries[j].key = fresh[i].key

(* A table has room: three quarters at most are used, half of it after it  *)
(* has grown.                                                              *)
Room ==
  /\ phase = "idle" => 4 * count <= 3 * cap
  /\ phase = "store" => 2 * count <= cap /\ cap >= 4

IInv == TableIsSound /\ Copied /\ Room

-----------------------------------------------------------------------------
(* The probe of a key visits every slot once (gc.c:90-99).                 *)
LEMMA ProbeVisits ==
  ASSUME NEW c \in Nat, c >= 1, NEW k \in Keys
  PROVE  /\ \A d \in Slots(c) : Probe(c, k, d) \in Slots(c)
         /\ \A d, x \in Slots(c) : Probe(c, k, d) = Probe(c, k, x) => d = x
         /\ \A i \in Slots(c) : \E d \in Slots(c) : Probe(c, k, d) = i
<1> DEFINE home == Hash[k] % c
<1>1. home \in Slots(c)
  BY MapAssumption DEF Slots
<1> HIDE DEF home
<1>2. \A d \in Slots(c) :
        Probe(c, k, d) = IF home + d < c THEN home + d ELSE home + d - c
  BY DEF Probe, home
<1>3. /\ \A d \in Slots(c) : Probe(c, k, d) \in Slots(c)
      /\ \A d, x \in Slots(c) : Probe(c, k, d) = Probe(c, k, x) => d = x
  BY <1>1, <1>2 DEF Slots
<1>4. ASSUME NEW i \in Slots(c) PROVE \E d \in Slots(c) : Probe(c, k, d) = i
  <2> DEFINE d == IF i >= home THEN i - home ELSE i - home + c
  <2>1. d \in Slots(c) /\ Probe(c, k, d) = i
    BY <1>1, <1>2 DEF Slots
  <2>2. QED
    BY <2>1
<1>5. QED
  BY <1>3, <1>4

(* A set of naturals has a least element.                                  *)
LEMMA LeastNatural ==
  ASSUME NEW T \in SUBSET Nat, T # {}
  PROVE  \E m \in T : \A x \in T : ~(x < m)
<1>1. PICK m \in T : \A x \in T : <<x, m>> \notin OpToRel(<, Nat)
  BY NatLessThanWellFounded, WFMin
<1>2. \A x \in T : ~(x < m)
  BY <1>1, Zenon DEF OpToRel
<1>3. QED
  BY <1>2

(* find_entry ends on a table with a free slot ...                         *)
LEMMA ProbeStops ==
  ASSUME NEW c, NEW e, Table(e, c), Free(e, c), NEW k \in Keys
  PROVE  \E d \in Slots(c) : StopAt(e, c, k, d)
<1> DEFINE T == {d \in Slots(c) : Stops(e, c, k, d)}
<1>0. c \in Nat /\ c >= 1
  BY DEF Table
<1>1. T \in SUBSET Nat
  BY <1>0 DEF Slots
<1>2. T # {}
  BY <1>0, ProbeVisits DEF Free, Stops
<1>3. PICK d \in T : \A x \in T : ~(x < d)
  BY <1>1, <1>2, LeastNatural
<1>4. StopAt(e, c, k, d)
  BY <1>3 DEF StopAt
<1>5. QED
  BY <1>4

(* ... at one place.                                                       *)
LEMMA ProbeStopsOnce ==
  ASSUME NEW c \in Nat, NEW e, NEW k, NEW d \in Slots(c), NEW x \in Slots(c),
         StopAt(e, c, k, d), StopAt(e, c, k, x)
  PROVE  d = x
  BY DEF StopAt, Slots

LEMMA FindEntryStops ==
  ASSUME NEW c, NEW e, Table(e, c), Free(e, c), NEW k \in Keys
  PROVE  \E d \in Slots(c) :
           /\ StopAt(e, c, k, d)
           /\ FindEntry(e, c, k) = Probe(c, k, d)
           /\ FindEntry(e, c, k) \in Slots(c)
<1> DEFINE d == CHOOSE x \in Slots(c) : StopAt(e, c, k, x)
<1>1. d \in Slots(c) /\ StopAt(e, c, k, d)
  BY ProbeStops
<1>2. FindEntry(e, c, k) = Probe(c, k, d)
  BY DEF FindEntry
<1>3. Probe(c, k, d) \in Slots(c)
  BY <1>1, ProbeVisits DEF Table
<1>4. QED
  BY <1>1, <1>2, <1>3

(* No key is stored twice.                                                 *)
LEMMA KeysAreUnique ==
  ASSUME NEW c, NEW e, Table(e, c), Reachable(e, c),
         NEW i \in Used(e, c), NEW j \in Used(e, c), e[i].key = e[j].key
  PROVE  i = j
  BY ProbeStopsOnce DEF Reachable, Table

-----------------------------------------------------------------------------
(* Storing an entry where find_entry says keeps every key reachable.       *)
LEMMA StoreKeepsReachable ==
  ASSUME NEW c, NEW e, Table(e, c), Free(e, c), Reachable(e, c),
         NEW m, m \in Entry, m.key \in Keys,
         NEW i, i = FindEntry(e, c, m.key),
         NEW g, g = Store(e, i, m)
  PROVE  /\ i \in Slots(c)
         /\ e[i].key \in {m.key, Null}
         /\ Table(g, c)
         /\ Reachable(g, c)
         /\ Used(g, c) = Used(e, c) \cup {i}
<1> DEFINE k == m.key
<1>0. c \in Nat /\ c >= 1 /\ k \in Keys /\ k # Null
  BY MapAssumption DEF Table
<1>1. PICK d \in Slots(c) : StopAt(e, c, k, d) /\ i = Probe(c, k, d)
                            /\ i \in Slots(c)
  BY <1>0, FindEntryStops
<1>2. e[i].key \in {k, Null}
  BY <1>1 DEF StopAt, Stops
<1>3. /\ g[i] = m
      /\ \A j \in Slots(c) \ {i} : g[j] = e[j]
      /\ Table(g, c)
  BY <1>1 DEF Table, Store
<1> HIDE DEF k
<1>4. Used(g, c) = Used(e, c) \cup {i}
  BY <1>0, <1>1, <1>3 DEF Used, k
<1>5. ASSUME NEW j \in Used(g, c)
      PROVE  \E x \in Slots(c) : /\ Probe(c, g[j].key, x) = j
                                 /\ StopAt(g, c, g[j].key, x)
  <2>1. CASE j = i
    <3>1. \A x \in Slots(c) : x < d => Probe(c, k, x) \in Slots(c) \ {i}
      <4>1. \A x \in Slots(c) : x < d => x # d
        BY <1>0 DEF Slots
      <4>2. QED
        BY <1>0, <1>1, <4>1, ProbeVisits
    <3>2. StopAt(g, c, k, d)
      BY <1>1, <1>3, <3>1 DEF StopAt, Stops, k
    <3>3. QED
      BY <1>1, <1>3, <2>1, <3>2 DEF k
  <2>2. CASE j # i
    <3>1. j \in Used(e, c) /\ g[j] = e[j] /\ e[j].key \in Keys
      BY <1>3, <2>2 DEF Used, Table, Entry, NoArg
    <3>2. PICK x \in Slots(c) : Probe(c, e[j].key, x) = j
                                /\ StopAt(e, c, e[j].key, x)
      BY <3>1 DEF Reachable
    <3>3. e[j].key # k
      BY <1>0, <1>1, <2>2, <3>2, ProbeStopsOnce
    <3>4. ASSUME NEW y \in Slots(c), y < x
          PROVE  ~Stops(g, c, e[j].key, y)
      <4>1. ~Stops(e, c, e[j].key, y) /\ Probe(c, e[j].key, y) \in Slots(c)
        BY <1>0, <3>1, <3>2, <3>4, ProbeVisits DEF StopAt
      <4>2. QED
        BY <1>0, <1>2, <1>3, <3>3, <4>1 DEF Stops, k
    <3>5. StopAt(g, c, e[j].key, x)
      <4>1. Stops(g, c, e[j].key, x)
        BY <3>1, <3>2 DEF Stops
      <4>2. QED
        BY <3>4, <4>1 DEF StopAt
    <3>6. QED
      BY <3>1, <3>2, <3>5
  <2>3. QED
    BY <2>1, <2>2
<1>6. QED
  BY <1>1, <1>2, <1>3, <1>4, <1>5 DEF k, Reachable

(* The used slots are finitely many; fewer than all, and one is free.      *)
LEMMA UsedIsFinite ==
  ASSUME NEW c, NEW e, Table(e, c)
  PROVE  /\ IsFiniteSet(Used(e, c))
         /\ Cardinality(Used(e, c)) \in Nat
         /\ Cardinality(Used(e, c)) < c => Free(e, c)
<1>1. IsFiniteSet(Slots(c)) /\ Cardinality(Slots(c)) = c
  BY FS_Interval DEF Slots, Table
<1>2. Used(e, c) \in SUBSET Slots(c)
  BY DEF Used
<1>3. IsFiniteSet(Used(e, c)) /\ Cardinality(Used(e, c)) \in Nat
  BY <1>1, <1>2, FS_Subset, FS_CardinalityType
<1>4. Cardinality(Used(e, c)) < c => Used(e, c) # Slots(c)
  BY <1>1, <1>3
<1>5. QED
  BY <1>3, <1>4 DEF Used, Free

LEMMA EmptyTable ==
  ASSUME NEW c \in Nat, c >= 1
  PROVE  /\ Table(Empty(c), c) /\ Reachable(Empty(c), c)
         /\ Used(Empty(c), c) = {} /\ Free(Empty(c), c)
<1>1. \A i \in Slots(c) : Empty(c)[i].key = Null
  BY DEF Empty, NoArg
<1>2. Table(Empty(c), c)
  BY DEF Table, Empty, Entry
<1>3. Used(Empty(c), c) = {}
  BY <1>1 DEF Used
<1>4. 0 \in Slots(c)
  BY DEF Slots
<1>5. QED
  BY <1>1, <1>2, <1>3, <1>4 DEF Reachable, Free
-----------------------------------------------------------------------------
LEMMA InitHolds == Init => IInv
<1> SUFFICES ASSUME Init PROVE IInv
  OBVIOUS
<1>1. /\ Table(entries, cap) /\ Reachable(entries, cap)
      /\ Used(entries, cap) = {} /\ Free(entries, cap)
  BY EmptyTable, MapAssumption DEF Init
<1>2. cap = InitCap /\ count = 0 /\ phase = "idle" /\ next = 0 /\ arg \in Entry
  BY DEF Init, Entry
<1>3. TypeOK
  BY <1>1, <1>2, MapAssumption DEF TypeOK, Table
<1>4. FindEnds /\ KeysAreFound
  BY <1>1, <1>2 DEF FindEnds, KeysAreFound, Free
<1>5. CountIsRight
  BY <1>1, <1>2, FS_EmptySet DEF CountIsRight
<1>6. Copied /\ Room
  BY <1>2, MapAssumption DEF Copied, Room
<1>7. QED
  BY <1>3, <1>4, <1>5, <1>6 DEF IInv, TableIsSound

(* What the invariant says of the two tables.                              *)
LEMMA Tables ==
  ASSUME IInv
  PROVE  /\ cap \in Nat /\ cap >= 2 /\ count \in Nat /\ next \in Nat
         /\ Table(entries, cap) /\ Reachable(entries, cap)
         /\ Free(entries, cap)
         /\ phase # "copy" => count = Cardinality(Used(entries, cap))
         /\ phase = "copy" =>
              /\ Table(fresh, 2 * cap) /\ Reachable(fresh, 2 * cap)
              /\ Free(fresh, 2 * cap)
              /\ count = Cardinality(Used(fresh, 2 * cap))
  BY MapAssumption DEF IInv, TableIsSound, TypeOK, FindEnds, KeysAreFound,
     CountIsRight, Table, Free

(* map_set leaves a sound table, when there is room for one key more.      *)
LEMMA PlaceHolds ==
  ASSUME IInv, NEW m \in Entry, m.key \in Keys, Place(m.key, m.v),
         phase # "copy", 4 * (count + 1) <= 3 * cap,
         cap' = cap, phase' = "idle", next' = next, arg' \in Entry
  PROVE  IInv'
<1> DEFINE i == FindEntry(entries, cap, m.key)
<1>0. /\ cap \in Nat /\ cap >= 2 /\ count \in Nat /\ next \in Nat
      /\ Table(entries, cap) /\ Reachable(entries, cap) /\ Free(entries, cap)
      /\ count = Cardinality(Used(entries, cap))
  BY Tables
<1>1. /\ entries' = Store(entries, i, m)
      /\ count' = IF entries[i].key = Null THEN count + 1 ELSE count
  <2>1. m = [key |-> m.key, v |-> m.v]
    BY MapAssumption DEF Entry, NoArg
  <2>2. QED
    BY <2>1 DEF Place, Store
<1>a. i = FindEntry(entries, cap, m.key)
  OBVIOUS
<1> HIDE DEF i
<1>2. /\ i \in Slots(cap)
      /\ Table(entries', cap) /\ Reachable(entries', cap)
      /\ Used(entries', cap) = Used(entries, cap) \cup {i}
  BY <1>0, <1>1, <1>a, StoreKeepsReachable
<1>3. IsFiniteSet(Used(entries, cap))
  BY <1>0, UsedIsFinite
<1>4. count' = Cardinality(Used(entries', cap)) /\ count' \in Nat
  <2>1. i \in Used(entries, cap) <=> entries[i].key # Null
    BY <1>2 DEF Used
  <2>2. Cardinality(Used(entries, cap) \cup {i}) =
          IF i \in Used(entries, cap) THEN count ELSE count + 1
    BY <1>0, <1>3, FS_AddElement
  <2>3. count' = IF i \in Used(entries, cap) THEN count ELSE count + 1
    BY <1>1, <2>1
  <2>4. count' = Cardinality(Used(entries', cap))
    BY <1>2, <2>2, <2>3
  <2>5. QED
    BY <1>0, <2>3, <2>4
<1>5. 4 * count' <= 3 * cap /\ count' < cap
  BY <1>0, <1>1
<1>6. Free(entries', cap)
  BY <1>2, <1>4, <1>5, UsedIsFinite
<1>7. TypeOK'
  BY <1>0, <1>2, <1>4 DEF IInv, TableIsSound, TypeOK, Table
<1>8. FindEnds' /\ KeysAreFound' /\ CountIsRight'
  BY <1>2, <1>4, <1>6 DEF FindEnds, KeysAreFound, CountIsRight, Free
<1>9. Copied' /\ Room'
  BY <1>5 DEF Copied, Room
<1>10. QED
  BY <1>7, <1>8, <1>9 DEF IInv, TableIsSound

LEMMA SetFitsHolds ==
  ASSUME IInv, NEW k \in Keys, NEW v \in Values, SetFits(k, v)
  PROVE  IInv'
<1> DEFINE m == [key |-> k, v |-> v]
<1>1. m \in Entry /\ m.key = k /\ m.v = v
  BY DEF Entry
<1>2. phase = "idle" /\ phase' = phase /\ cap' = cap /\ next' = next
      /\ arg' = arg /\ ~OverLoad /\ Place(k, v)
  BY DEF SetFits
<1>3. 4 * (count + 1) <= 3 * cap
  BY <1>2, Tables DEF OverLoad
<1>4. arg' \in Entry
  BY <1>2 DEF IInv, TableIsSound, TypeOK
<1> HIDE DEF m
<1>5. QED
  BY <1>1, <1>2, <1>3, <1>4, PlaceHolds

(* After growing, half of the table at most is used.                       *)
LEMMA SetGrownHolds ==
  ASSUME IInv, SetGrown
  PROVE  IInv'
<1>1. phase = "store" /\ phase' = "idle" /\ cap' = cap /\ next' = next
      /\ arg' = arg /\ Place(arg.key, arg.v)
  BY DEF SetGrown
<1>2. arg \in Entry /\ arg.key \in Keys
  BY <1>1 DEF IInv, TableIsSound, TypeOK
<1>4. 4 * (count + 1) <= 3 * cap
  BY <1>1, Tables DEF IInv, Room
<1>5. QED
  BY <1>1, <1>2, <1>4, PlaceHolds

LEMMA GrowHolds ==
  ASSUME IInv, NEW k \in Keys, NEW v \in Values, Grow(k, v)
  PROVE  IInv'
<1>0. /\ cap \in Nat /\ cap >= 2
      /\ Table(entries, cap) /\ Reachable(entries, cap) /\ Free(entries, cap)
  BY Tables
<1>1. /\ phase' = "copy" /\ fresh' = Empty(2 * cap) /\ count' = 0 /\ next' = 0
      /\ arg' = [key |-> k, v |-> v] /\ entries' = entries /\ cap' = cap
  BY DEF Grow
<1>2. /\ Table(fresh', 2 * cap) /\ Reachable(fresh', 2 * cap)
      /\ Used(fresh', 2 * cap) = {} /\ Free(fresh', 2 * cap)
  BY <1>0, <1>1, EmptyTable
<1>3. TypeOK'
  BY <1>0, <1>1, <1>2 DEF IInv, TableIsSound, TypeOK, Table, Entry
<1>4. FindEnds' /\ KeysAreFound' /\ CountIsRight'
  BY <1>0, <1>1, <1>2, FS_EmptySet
  DEF FindEnds, KeysAreFound, CountIsRight, Free
<1>5. Copied' /\ Room'
  BY <1>0, <1>1, <1>2 DEF Copied, Room
<1>6. QED
  BY <1>3, <1>4, <1>5 DEF IInv, TableIsSound

(* A round of the copy finds a free slot: the next old entry is not in the *)
(* new table yet (gc.c:109-117).                                           *)
LEMMA CopyFindsFree ==
  ASSUME IInv, phase = "copy", next < cap, entries[next].key # Null
  PROVE  FindEntry(fresh, 2 * cap, entries[next].key) \notin Used(fresh, 2 * cap)
<1> DEFINE i == FindEntry(fresh, 2 * cap, entries[next].key)
<1>0. /\ cap \in Nat /\ cap >= 2 /\ next \in Slots(cap)
      /\ Table(entries, cap) /\ Reachable(entries, cap)
      /\ Table(fresh, 2 * cap) /\ Reachable(fresh, 2 * cap)
      /\ Free(fresh, 2 * cap)
  BY Tables DEF Slots
<1>1. entries[next].key \in Keys /\ next \in Used(entries, cap)
  BY <1>0 DEF Table, Entry, NoArg, Used
<1>2. PICK d \in Slots(2 * cap) :
        StopAt(fresh, 2 * cap, entries[next].key, d)
        /\ i = Probe(2 * cap, entries[next].key, d)
  BY <1>0, <1>1, FindEntryStops
<1>3. fresh[i].key \in {entries[next].key, Null}
  BY <1>2 DEF StopAt, Stops
<1> HIDE DEF i
<1>4. SUFFICES ASSUME i \in Used(fresh, 2 * cap) PROVE FALSE
  BY DEF i
<1>5. fresh[i].key = entries[next].key
  BY <1>3, <1>4 DEF Used
<1>6. PICK j \in Slots(cap) : j < next /\ entries[j].key = entries[next].key
  BY <1>4, <1>5 DEF IInv, Copied
<1>7. j \in Used(entries, cap)
  BY <1>6 DEF Used
<1>8. j = next
  BY <1>0, <1>1, <1>6, <1>7, KeysAreUnique
<1>9. QED
  BY <1>0, <1>6, <1>8 DEF Slots

LEMMA CopyOneHolds ==
  ASSUME IInv, CopyOne
  PROVE  IInv'
<1>0. /\ cap \in Nat /\ cap >= 2 /\ count \in Nat /\ next \in Nat
      /\ Table(entries, cap) /\ Reachable(entries, cap) /\ Free(entries, cap)
      /\ Table(fresh, 2 * cap) /\ Reachable(fresh, 2 * cap)
      /\ Free(fresh, 2 * cap)
      /\ count = Cardinality(Used(fresh, 2 * cap))
  BY Tables DEF CopyOne
<1>1. /\ phase = "copy" /\ next < cap /\ next \in Slots(cap)
      /\ next' = next + 1
      /\ UNCHANGED <<entries, cap, phase, arg>>
  BY <1>0 DEF CopyOne, Slots
<1>2. Copied
  BY DEF IInv
<1>3. /\ Table(fresh', 2 * cap) /\ Reachable(fresh', 2 * cap)
      /\ count' = Cardinality(Used(fresh', 2 * cap))
      /\ count' \in Nat /\ count' <= next + 1
      /\ \A i \in Used(fresh', 2 * cap) :
           \E j \in Slots(cap) : j < next + 1 /\ entries[j].key = fresh'[i].key
  <2>1. CASE entries[next].key = Null
    <3>1. fresh' = fresh /\ count' = count
      BY <2>1 DEF CopyOne
    <3>2. \A j \in Slots(cap) : j < next => j < next + 1
      BY <1>0 DEF Slots
    <3>3. count <= next + 1
      BY <1>0, <1>1, <1>2 DEF Copied
    <3>4. QED
      BY <1>0, <1>1, <1>2, <3>1, <3>2, <3>3 DEF Copied
  <2>2. CASE entries[next].key # Null
    <3> DEFINE m == entries[next]
               i == FindEntry(fresh, 2 * cap, m.key)
    <3>1. fresh' = Store(fresh, i, m) /\ count' = count + 1
      BY <2>2 DEF CopyOne, Store
    <3>a. i = FindEntry(fresh, 2 * cap, m.key)
      OBVIOUS
    <3>2. m \in Entry /\ m.key \in Keys /\ next \in Used(entries, cap)
      BY <1>0, <1>1, <2>2 DEF Table, Entry, NoArg, Used
    <3> HIDE DEF i
    <3>3. /\ i \in Slots(2 * cap) /\ fresh[i].key \in {m.key, Null}
          /\ Table(fresh', 2 * cap) /\ Reachable(fresh', 2 * cap)
          /\ Used(fresh', 2 * cap) = Used(fresh, 2 * cap) \cup {i}
      BY <1>0, <3>1, <3>2, <3>a, StoreKeepsReachable
    <3>4. fresh'[i] = m /\ \A x \in Slots(2 * cap) \ {i} : fresh'[x] = fresh[x]
      BY <1>0, <3>1, <3>3 DEF Table, Store
    <3>5. i \notin Used(fresh, 2 * cap)
      BY <1>1, <2>2, <3>a, CopyFindsFree
    <3>6. count' = Cardinality(Used(fresh', 2 * cap))
      BY <1>0, <3>1, <3>3, <3>5, UsedIsFinite, FS_AddElement
    <3>7. count' \in Nat /\ count' <= next + 1
      BY <1>0, <1>1, <1>2, <3>1 DEF Copied
    <3>8. ASSUME NEW x \in Used(fresh', 2 * cap)
          PROVE  \E j \in Slots(cap) : /\ j < next + 1
                                       /\ entries[j].key = fresh'[x].key
      <4>1. CASE x = i
        BY <1>0, <1>1, <3>4, <4>1
      <4>2. CASE x # i
        <5>1. x \in Used(fresh, 2 * cap) /\ fresh'[x] = fresh[x]
          BY <3>3, <3>4, <4>2 DEF Used
        <5>2. PICK j \in Slots(cap) : j < next /\ entries[j].key = fresh[x].key
          BY <1>1, <1>2, <5>1 DEF Copied
        <5>3. j < next + 1
          BY <1>0, <5>2 DEF Slots
        <5>4. QED
          BY <5>1, <5>2, <5>3
      <4>3. QED
        BY <4>1, <4>2
    <3>9. QED
      BY <3>3, <3>6, <3>7, <3>8
  <2>3. QED
    BY <2>1, <2>2
<1>4. Free(fresh', 2 * cap)
  <2>1. count' < 2 * cap
    BY <1>0, <1>1, <1>3
  <2>2. QED
    BY <1>3, <2>1, UsedIsFinite
<1>5. TypeOK'
  <2>1. next' \in Nat /\ next' <= cap
    BY <1>0, <1>1
  <2>2. QED
    BY <1>1, <1>3, <2>1 DEF IInv, TableIsSound, TypeOK, Table
<1>6. FindEnds' /\ KeysAreFound' /\ CountIsRight'
  BY <1>0, <1>1, <1>3, <1>4 DEF FindEnds, KeysAreFound, CountIsRight, Free
<1>7. Copied' /\ Room'
  BY <1>1, <1>3 DEF Copied, Room
<1>8. QED
  BY <1>5, <1>6, <1>7 DEF IInv, TableIsSound

LEMMA GrownHolds ==
  ASSUME IInv, Grown
  PROVE  IInv'
<1>0. /\ cap \in Nat /\ cap >= 2 /\ count \in Nat
      /\ Table(fresh, 2 * cap) /\ Reachable(fresh, 2 * cap)
      /\ Free(fresh, 2 * cap)
      /\ count = Cardinality(Used(fresh, 2 * cap))
  BY Tables DEF Grown
<1>1. /\ phase = "copy" /\ next = cap /\ phase' = "store"
      /\ entries' = fresh /\ cap' = 2 * cap
      /\ UNCHANGED <<count, fresh, next, arg>>
  BY DEF Grown
<1>2. TypeOK'
  <2>1. cap' \in Nat /\ cap' >= InitCap /\ cap' % 2 = 0
    BY <1>0, <1>1, MapAssumption DEF IInv, TableIsSound, TypeOK
  <2>2. QED
    BY <1>0, <1>1, <2>1 DEF IInv, TableIsSound, TypeOK, Table
<1>3. FindEnds' /\ KeysAreFound' /\ CountIsRight'
  BY <1>0, <1>1 DEF FindEnds, KeysAreFound, CountIsRight, Free
<1>4. Copied' /\ Room'
  <2>1. 2 * count <= cap' /\ cap' >= 4
    BY <1>0, <1>1 DEF IInv, Copied
  <2>2. QED
    BY <1>1, <2>1 DEF Copied, Room
<1>5. QED
  BY <1>2, <1>3, <1>4 DEF IInv, TableIsSound

LEMMA NextHolds == IInv /\ [Next]_vars => IInv'
<1> SUFFICES ASSUME IInv, [Next]_vars PROVE IInv'
  OBVIOUS
<1>1. ASSUME NEW k \in Keys, NEW v \in Values, SetFits(k, v) \/ Grow(k, v)
      PROVE  IInv'
  BY <1>1, SetFitsHolds, GrowHolds
<1>2. CASE CopyOne \/ Grown \/ SetGrown
  BY <1>2, CopyOneHolds, GrownHolds, SetGrownHolds
<1>3. CASE UNCHANGED vars
  BY <1>3 DEF vars, IInv, TableIsSound, TypeOK, FindEnds, KeysAreFound,
     CountIsRight, Copied, Room
<1>4. QED
  BY <1>1, <1>2, <1>3 DEF Next

(* The inductive invariant: besides the soundness of the tables, that the  *)
(* copy has met each key once, and that there is room (gc.c:102-131).      *)
THEOREM Invariance == Spec => []IInv
<1>1. QED
  BY InitHolds, NextHolds, PTL DEF Spec

(* Whatever the keys, their hashes and the number of doublings: every      *)
(* probe ends, every key is found where it lies, and the count is right,   *)
(* between the rounds of a rehash as well (gc.c:88-131).                   *)
THEOREM TableIsSoundAlways == Spec => []TableIsSound
<1>1. IInv => TableIsSound
  BY DEF IInv
<1>2. QED
  BY <1>1, Invariance, PTL
-----------------------------------------------------------------------------
(* The refinement: what a dict answers, as the abstract map has it.        *)
Value(e, c, k) == e[FindEntry(e, c, k)].v

Holds(e, c, k) == \E i \in Used(e, c) : e[i].key = k

(* What lies in the table is what a lookup gives, and a key that does not  *)
(* lie in it gives Absent.                                                 *)
LEMMA Lookup ==
  ASSUME NEW c, NEW e, Table(e, c), Free(e, c), Reachable(e, c), NEW k \in Keys
  PROVE  /\ \A i \in Used(e, c) : e[i].key = k => Value(e, c, k) = e[i].v
         /\ ~Holds(e, c, k) => Value(e, c, k) = Absent
<1>0. c \in Nat /\ k # Null
  BY MapAssumption DEF Table
<1>1. PICK d \in Slots(c) : /\ StopAt(e, c, k, d)
                            /\ FindEntry(e, c, k) = Probe(c, k, d)
                            /\ FindEntry(e, c, k) \in Slots(c)
  BY FindEntryStops
<1>2. ASSUME NEW i \in Used(e, c), e[i].key = k
      PROVE  Value(e, c, k) = e[i].v
  <2>1. PICK x \in Slots(c) : Probe(c, k, x) = i /\ StopAt(e, c, k, x)
    BY <1>2 DEF Reachable
  <2>2. x = d
    BY <1>0, <1>1, <2>1, ProbeStopsOnce
  <2>3. QED
    BY <1>1, <2>1, <2>2 DEF Value
<1>3. ASSUME ~Holds(e, c, k) PROVE Value(e, c, k) = Absent
  <2> DEFINE j == FindEntry(e, c, k)
  <2>1. j \in Slots(c) /\ e[j].key \in {k, Null}
    BY <1>1 DEF StopAt, Stops
  <2> HIDE DEF j
  <2>2. e[j].key = Null
    BY <1>0, <1>3, <2>1 DEF Holds, Used
  <2>3. e[j] = NoArg
    BY <2>1, <2>2, MapAssumption DEF Table, Entry
  <2>4. QED
    BY <2>3 DEF Value, NoArg, j
<1>4. QED
  BY <1>2, <1>3

(* What has been copied lies in the new table as it lay in the old one.    *)
Carried ==
  phase = "copy" =>
    \A j \in Used(entries, cap) :
      j < next => \E i \in Used(fresh, 2 * cap) : fresh[i] = entries[j]

LEMMA CarriedHolds ==
  ASSUME IInv, Carried, [Next]_vars
  PROVE  Carried'
<1>1. CASE \E k \in Keys, v \in Values : SetFits(k, v)
  BY <1>1 DEF SetFits, Carried
<1>2. CASE \E k \in Keys, v \in Values : Grow(k, v)
  <2>1. next' = 0 /\ UNCHANGED <<entries, cap>> /\ cap \in Nat
    BY <1>2, Tables DEF Grow
  <2>2. \A j \in Used(entries, cap)' : ~(j < next')
    BY <2>1 DEF Used, Slots
  <2>3. QED
    BY <2>2 DEF Carried
<1>3. CASE CopyOne
  <2>0. /\ phase = "copy" /\ phase' = phase /\ next < cap /\ next' = next + 1
        /\ UNCHANGED <<entries, cap>>
    BY <1>3 DEF CopyOne
  <2>1. /\ cap \in Nat /\ cap >= 2 /\ next \in Slots(cap) /\ next \in Nat
        /\ Table(entries, cap) /\ Table(fresh, 2 * cap)
        /\ Reachable(fresh, 2 * cap) /\ Free(fresh, 2 * cap)
    BY <2>0, Tables DEF Slots
  <2>2. \A j \in Used(entries, cap) : j \in Nat
    BY <2>1 DEF Used, Slots
  <2>3. CASE entries[next].key = Null
    <3>1. fresh' = fresh
      BY <1>3, <2>3 DEF CopyOne
    <3>2. \A j \in Used(entries, cap) : j < next + 1 => j < next
      BY <2>1, <2>2, <2>3 DEF Used
    <3>3. QED
      BY <2>0, <3>1, <3>2 DEF Carried
  <2>4. CASE entries[next].key # Null
    <3> DEFINE m == entries[next]
               i == FindEntry(fresh, 2 * cap, m.key)
    <3>1. fresh' = Store(fresh, i, m)
      BY <1>3, <2>4 DEF CopyOne, Store
    <3>2. m \in Entry /\ m.key \in Keys
      BY <2>1, <2>4 DEF Table, Entry, NoArg
    <3>3. i \notin Used(fresh, 2 * cap)
      BY <2>0, <2>4, CopyFindsFree
    <3>a. i = FindEntry(fresh, 2 * cap, m.key)
      OBVIOUS
    <3> HIDE DEF i
    <3>4. i \in Slots(2 * cap)
          /\ Used(fresh', 2 * cap) = Used(fresh, 2 * cap) \cup {i}
      BY <2>1, <3>1, <3>2, <3>a, StoreKeepsReachable
    <3>5. fresh'[i] = m /\ \A x \in Used(fresh, 2 * cap) : fresh'[x] = fresh[x]
      BY <2>1, <3>1, <3>3, <3>4 DEF Table, Store, Used
    <3>6. \A j \in Used(entries, cap) :
            j < next + 1 => \E x \in Used(fresh', 2 * cap) : fresh'[x] = entries[j]
      <4> SUFFICES ASSUME NEW j \in Used(entries, cap), j < next + 1
                   PROVE  \E x \in Used(fresh', 2 * cap) : fresh'[x] = entries[j]
        OBVIOUS
      <4>1. CASE j = next
        BY <3>4, <3>5, <4>1
      <4>2. CASE j < next
        <5>1. PICK x \in Used(fresh, 2 * cap) : fresh[x] = entries[j]
          BY <2>0, <4>2 DEF Carried
        <5>2. QED
          BY <3>4, <3>5, <5>1
      <4>3. QED
        BY <2>1, <2>2, <4>1, <4>2
    <3>7. QED
      BY <2>0, <3>6 DEF Carried, Used
  <2>5. QED
    BY <2>3, <2>4
<1>4. CASE Grown \/ SetGrown
  BY <1>4 DEF Grown, SetGrown, Carried
<1>5. CASE UNCHANGED vars
  BY <1>5 DEF vars, Carried, Used
<1>6. QED
  BY <1>1, <1>2, <1>3, <1>4, <1>5 DEF Next

(* Storing a key sets it in the abstract map, and no other.                *)
LEMMA PlaceSets ==
  ASSUME IInv, IInv', NEW k \in Keys, NEW v \in Values, Place(k, v),
         phase # "copy", cap' = cap
  PROVE  Dict!Set(k, v)
<1> DEFINE m == [key |-> k, v |-> v]
           i == FindEntry(entries, cap, k)
<1>0. /\ cap \in Nat /\ k # Null
      /\ Table(entries, cap) /\ Reachable(entries, cap) /\ Free(entries, cap)
  BY Tables, MapAssumption
<1>1. Table(entries', cap) /\ Reachable(entries', cap) /\ Free(entries', cap)
  <2>1. (Table(entries, cap) /\ Reachable(entries, cap) /\ Free(entries, cap))'
    BY Tables, MapAssumption
    DEF IInv, TableIsSound, TypeOK, FindEnds, KeysAreFound, Table, Free
  <2>2. QED
    BY <2>1 DEF Table, Reachable, Free, Used
<1>2. entries' = Store(entries, i, m)
  BY DEF Place, Store
<1>3. m \in Entry /\ m.key = k /\ m.v = v
  BY DEF Entry
<1>a. i = FindEntry(entries, cap, m.key)
  OBVIOUS
<1> HIDE DEF i, m
<1>4. /\ i \in Slots(cap) /\ entries[i].key \in {k, Null}
      /\ Used(entries', cap) = Used(entries, cap) \cup {i}
  BY <1>0, <1>2, <1>3, <1>a, StoreKeepsReachable
<1>5. entries'[i] = m /\ \A j \in Slots(cap) \ {i} : entries'[j] = entries[j]
  BY <1>0, <1>2, <1>4 DEF Table, Store
<1>6. Value(entries', cap, k) = v
  BY <1>1, <1>3, <1>4, <1>5, Lookup
<1>7. ASSUME NEW x \in Keys, x # k
      PROVE  Value(entries', cap, x) = Value(entries, cap, x)
  <2>1. CASE Holds(entries, cap, x)
    <3>1. PICK j \in Used(entries, cap) : entries[j].key = x
      BY <2>1 DEF Holds
    <3>2. j # i /\ j \in Used(entries', cap) /\ entries'[j] = entries[j]
      BY <1>4, <1>5, <1>7, <3>1, MapAssumption DEF Used
    <3>3. QED
      BY <1>0, <1>1, <3>1, <3>2, Lookup
  <2>2. CASE ~Holds(entries, cap, x)
    <3>1. ~Holds(entries', cap, x)
      BY <1>3, <1>4, <1>5, <1>7, <2>2 DEF Holds, Used
    <3>2. QED
      BY <1>0, <1>1, <2>2, <3>1, Lookup
  <2>3. QED
    BY <2>1, <2>2
<1>8. \A x \in Keys : Get(x) = Value(entries, cap, x)
                     /\ Get(x)' = Value(entries', cap, x)
  BY DEF Get, Value
<1>9. [x \in Keys |-> Get(x)]' = [[x \in Keys |-> Get(x)] EXCEPT ![k] = v]
  BY <1>6, <1>7, <1>8
<1>10. QED
  BY <1>9 DEF Dict!Set

(* The new table answers what the old one has answered.                    *)
LEMMA GrownKeeps ==
  ASSUME IInv, Carried, Grown, NEW k \in Keys
  PROVE  Get(k)' = Get(k)
<1>0. /\ cap \in Nat /\ phase = "copy" /\ next = cap
      /\ Table(entries, cap) /\ Reachable(entries, cap) /\ Free(entries, cap)
      /\ Table(fresh, 2 * cap) /\ Reachable(fresh, 2 * cap)
      /\ Free(fresh, 2 * cap)
  BY Tables DEF Grown
<1>1. Get(k) = Value(entries, cap, k) /\ Get(k)' = Value(fresh, 2 * cap, k)
  BY DEF Grown, Get, Value
<1>2. CASE Holds(entries, cap, k)
  <2>1. PICK j \in Used(entries, cap) : entries[j].key = k
    BY <1>2 DEF Holds
  <2>2. j < next
    BY <1>0 DEF Used, Slots
  <2>3. PICK i \in Used(fresh, 2 * cap) : fresh[i] = entries[j]
    BY <1>0, <2>2 DEF Carried
  <2>4. QED
    BY <1>0, <1>1, <2>1, <2>3, Lookup
<1>3. CASE ~Holds(entries, cap, k)
  <2>1. ~Holds(fresh, 2 * cap, k)
    <3>1. SUFFICES ASSUME NEW i \in Used(fresh, 2 * cap), fresh[i].key = k
                   PROVE  FALSE
      BY DEF Holds
    <3>2. PICK j \in Slots(cap) : entries[j].key = k
      BY <1>0, <3>1 DEF IInv, Copied
    <3>3. QED
      BY <1>3, <3>2, MapAssumption DEF Holds, Used
  <2>2. QED
    BY <1>0, <1>1, <1>3, <2>1, Lookup
<1>4. QED
  BY <1>2, <1>3

(* ImplementsDict: a dict is a map, however its keys collide and however   *)
(* often its table is rehashed; each map_set changes the map once, at its  *)
(* end, and no round of a rehash changes it (gc.c:75-139).                 *)
THEOREM Refinement == Spec => ImplementsDict
<1> DEFINE dict == [k \in Keys |-> Get(k)]
<1>1. Init => Dict!Init
  <2> SUFFICES ASSUME Init PROVE Dict!Init
    OBVIOUS
  <2>1. /\ Table(entries, cap) /\ Reachable(entries, cap)
        /\ Used(entries, cap) = {} /\ Free(entries, cap)
    BY EmptyTable, MapAssumption DEF Init
  <2>2. \A k \in Keys : Get(k) = Absent
    BY <2>1, Lookup DEF Get, Value, Holds
  <2>3. QED
    BY <2>2 DEF Dict!Init
<1>2. IInv /\ IInv' /\ Carried /\ [Next]_vars => [Dict!Next]_dict
  <2> SUFFICES ASSUME IInv, IInv', Carried, [Next]_vars
               PROVE  [Dict!Next]_dict
    OBVIOUS
  <2>1. ASSUME NEW k \in Keys, NEW v \in Values, SetFits(k, v)
        PROVE  Dict!Next
    <3>1. Dict!Set(k, v)
      BY <2>1, PlaceSets DEF SetFits
    <3>2. QED
      BY <3>1 DEF Dict!Next
  <2>2. CASE SetGrown
    <3>1. arg.key \in Keys /\ arg.v \in Values
      BY <2>2, MapAssumption
      DEF SetGrown, IInv, TableIsSound, TypeOK, Entry, NoArg
    <3>2. Dict!Set(arg.key, arg.v)
      BY <2>2, <3>1, PlaceSets DEF SetGrown
    <3>3. QED
      BY <3>1, <3>2 DEF Dict!Next
  <2>3. CASE UNCHANGED <<entries, cap>>
    <3>1. \A k \in Keys : Get(k)' = Get(k)
      BY <2>3 DEF Get
    <3>2. QED
      BY <3>1
  <2>4. CASE Grown
    <3>1. \A k \in Keys : Get(k)' = Get(k)
      BY <2>4, GrownKeeps
    <3>2. QED
      BY <3>1
  <2>5. ASSUME NEW k \in Keys, NEW v \in Values, Grow(k, v)
        PROVE  UNCHANGED <<entries, cap>>
    BY <2>5 DEF Grow
  <2>6. CopyOne => UNCHANGED <<entries, cap>>
    BY DEF CopyOne
  <2>7. UNCHANGED vars => UNCHANGED <<entries, cap>>
    BY DEF vars
  <2>8. QED
    BY <2>1, <2>2, <2>3, <2>4, <2>5, <2>6, <2>7 DEF Next
<1>3. Init => Carried
  BY DEF Init, Carried
<1>4. IInv /\ Carried /\ [Next]_vars => Carried'
  BY CarriedHolds
<1>5. QED
  BY <1>1, <1>2, <1>3, <1>4, Invariance, PTL
  DEF Spec, ImplementsDict, Dict!Spec
=============================================================================
