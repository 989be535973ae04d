------------------------------- MODULE VxMap -------------------------------
(***************************************************************************)
(* Dicts of the C virtual machine (vm/gc.c OMap): a hash table with open   *)
(* addressing and linear probing, doubled when it is three quarters full.  *)
(* No key is removed, so there are no tombstones.                          *)
(*                                                                         *)
(* Rehashing is a loop; here each of its rounds is an action.  It runs in  *)
(* one hold of vx_gil, so nothing else uses the dict meanwhile.            *)
(***************************************************************************)
EXTENDS Integers, Sequences, FiniteSets

CONSTANTS
  Keys, Values,
  Null,        \* the key of a free slot
  Absent,      \* the value of a free slot, and of a key that is not stored
  Hash,        \* OStr.hash of each key
  InitCap      \* map_new's capacity, 8

ASSUME MapAssumption ==
  /\ IsFiniteSet(Keys)
  /\ Null \notin Keys /\ Absent \notin Values
  /\ Hash \in [Keys -> Nat]
  /\ InitCap \in Nat /\ InitCap >= 2 /\ InitCap % 2 = 0

NoArg == [key |-> Null, v |-> Absent]
Entry == [key : Keys, v : Values] \cup {NoArg}

VARIABLES
  entries,   \* OMap.entries
  cap,       \* OMap.cap
  count,     \* OMap.count
  phase,     \* "idle", "copy" (in adjust_capacity) or "store" (after it)
  fresh,     \* adjust_capacity: the new entries
  next,      \* adjust_capacity: i
  arg        \* the key and value being set

vars == <<entries, cap, count, phase, fresh, next, arg>>

Slots(c) == 0..(c - 1)
Empty(c) == [i \in Slots(c) |-> NoArg]

(* The slot looked at after d rounds of find_entry, from hash & (cap - 1). *)
Probe(c, k, d) ==
  LET home == Hash[k] % c IN IF home + d < c THEN home + d ELSE home + d - c

Stops(e, c, k, d) == e[Probe(c, k, d)].key \in {k, Null}

(* find_entry: the first slot that is free or holds the key.               *)
StopAt(e, c, k, d) ==
  Stops(e, c, k, d) /\ \A x \in Slots(c) : x < d => ~Stops(e, c, k, x)

FindEntry(e, c, k) ==
  Probe(c, k, CHOOSE d \in Slots(c) : StopAt(e, c, k, d))

Init ==
  /\ entries = Empty(InitCap)
  /\ cap     = InitCap
  /\ count   = 0
  /\ phase   = "idle"
  /\ fresh   = Empty(InitCap)
  /\ next    = 0
  /\ arg     = NoArg
-----------------------------------------------------------------------------
(* map_set after its load test.                                            *)
Place(k, v) ==
  LET i == FindEntry(entries, cap, k) IN
  /\ count' = IF entries[i].key = Null THEN count + 1 ELSE count
  /\ entries' = [entries EXCEPT ![i] = [key |-> k, v |-> v]]

(* count + 1 > cap * MAP_MAX_LOAD                                          *)
OverLoad == 4 * (count + 1) > 3 * cap

SetUnchecked(k, v) ==           \* mutant of SetFits: no load test
  /\ phase = "idle"
  /\ Place(k, v)
  /\ UNCHANGED <<cap, phase, fresh, next, arg>>

SetFits(k, v) ==
  /\ phase = "idle" /\ ~OverLoad
  /\ Place(k, v)
  /\ UNCHANGED <<cap, phase, fresh, next, arg>>

(* adjust_capacity(m, m->cap * 2).  When its xmalloc fails nothing has     *)
(* changed yet.                                                            *)
Grow(k, v) ==
  /\ phase = "idle" /\ OverLoad
  /\ phase' = "copy"
  /\ fresh' = Empty(2 * cap)
  /\ count' = 0
  /\ next' = 0
  /\ arg' = [key |-> k, v |-> v]
  /\ UNCHANGED <<entries, cap>>

CopyInPlace ==                  \* mutant of CopyOne: the old slot is kept
  /\ phase = "copy" /\ next < cap
  /\ next' = next + 1
  /\ IF entries[next].key = Null
     THEN UNCHANGED <<fresh, count>>
     ELSE /\ fresh' = [fresh EXCEPT ![next] = entries[next]]
          /\ count' = count + 1
  /\ UNCHANGED <<entries, cap, phase, arg>>

CopyOne ==
  /\ phase = "copy" /\ next < cap
  /\ next' = next + 1
  /\ IF entries[next].key = Null
     THEN UNCHANGED <<fresh, count>>
     ELSE LET i == FindEntry(fresh, 2 * cap, entries[next].key)
          IN  /\ fresh' = [fresh EXCEPT ![i] = entries[next]]
              /\ count' = count + 1
  /\ UNCHANGED <<entries, cap, phase, arg>>

Grown ==
  /\ phase = "copy" /\ next = cap
  /\ phase' = "store"
  /\ entries' = fresh
  /\ cap' = 2 * cap
  /\ UNCHANGED <<count, fresh, next, arg>>

SetGrown ==
  /\ phase = "store"
  /\ phase' = "idle"
  /\ Place(arg.key, arg.v)
  /\ UNCHANGED <<cap, fresh, next, arg>>

Next ==
  \/ \E k \in Keys, v \in Values : SetFits(k, v) \/ Grow(k, v)
  \/ CopyOne \/ Grown \/ SetGrown

Spec == Init /\ [][Next]_vars
-----------------------------------------------------------------------------
Used(e, c) == {i \in Slots(c) : e[i].key # Null}

(* map_get                                                                 *)
Get(k) == entries[FindEntry(entries, cap, k)].v

TypeOK ==
  /\ cap \in Nat /\ cap >= InitCap /\ cap % 2 = 0
  /\ entries \in [Slots(cap) -> Entry]
  /\ count \in Nat
  /\ phase \in {"idle", "copy", "store"}
  /\ next \in Nat
  /\ arg \in Entry
  /\ phase # "idle" => arg.key \in Keys
  /\ phase = "copy" => fresh \in [Slots(2 * cap) -> Entry] /\ next <= cap

(* find_entry has no bound on its rounds (gc.c:90-99): it ends because     *)
(* every table it is called on has a free slot.                            *)
FindEnds ==
  /\ \E i \in Slots(cap) : entries[i].key = Null
  /\ phase = "copy" => \E i \in Slots(2 * cap) : fresh[i].key = Null

(* Every stored key is found where it is, in the old table and in the new  *)
(* one: nothing that a probe must pass is free (gc.c:88-120).              *)
Reachable(e, c) ==
  \A i \in Used(e, c) : \E d \in Slots(c) :
    /\ Probe(c, e[i].key, d) = i
    /\ StopAt(e, c, e[i].key, d)

KeysAreFound ==
  Reachable(entries, cap) /\ (phase = "copy" => Reachable(fresh, 2 * cap))

(* count is the number of used slots, on which the load test depends       *)
(* (gc.c:121-130).                                                         *)
CountIsRight ==
  count = Cardinality(IF phase = "copy" THEN Used(fresh, 2 * cap)
                      ELSE Used(entries, cap))

(* The table, in the middle of a rehash as well: each probe ends, each key *)
(* is found where it lies, and the count is right (gc.c:88-131).           *)
TableIsSound == TypeOK /\ FindEnds /\ KeysAreFound /\ CountIsRight

(* A dict is a map, however its keys collide and its table grows           *)
(* (gc.c:75-139): map_get gives what map_set stored last.                  *)
Dict == INSTANCE DictPromise WITH dict <- [k \in Keys |-> Get(k)]

ImplementsDict == Dict!Spec
=============================================================================
