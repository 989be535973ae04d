--------------------------- MODULE VxBridgeProofs ---------------------------
(* For any number of threads, calls, builds and places: all calls go to    *)
(* one checked library, and every buffer is returned once.                 *)
EXTENDS VxBridge, TLAPS

\* What a search has checked so far.
Checked == \A t \in Threads :
  /\ pc[t] = "load" => opened[t] \notin {NoFile, "untrusted"}
  /\ pc[t] = "check" => lib[t] \notin {NoLib, "untrusted", "unloadable"}

\* A buffer has the number of the call that got it, and is being read.
Owned == \A t \in Threads :
  /\ pc[t] # "idle" => calls[t] > 0
  /\ buf[t] # NoBuf => buf[t] = calls[t] /\ Reading(t)

\* The library's heap, seen from the calls.
HeapIsOwned ==
  \A t \in Threads, n \in Nat : <<t, n>> \in heap <=> buf[t] = n /\ n # NoBuf

IInv == TypeOK /\ OneCheckedLibrary /\ Checked /\ Owned /\ HeapIsOwned

\* There is a place to look in.
LEMMA FirstPlace == ASSUME NEW d \in Disks PROVE 1 \in DOMAIN d
  BY BridgeAssumption DEF Disks

\* What a search finds at a place is a file or nothing.
LEMMA Found ==
  ASSUME NEW d \in Disks, NEW p \in DOMAIN d
  PROVE  d[p] \in Contents \cup {NoFile}
  <1>1. PICK n \in {1, Places} : d \in [1..n -> Contents \cup {NoFile}]
    BY DEF Disks
  <1> QED BY <1>1

\* A build leaves the places as they are.
LEMMA Rebuilt ==
  ASSUME NEW d \in Disks, NEW p \in DOMAIN d, NEW c \in Contents
  PROVE  [d EXCEPT ![p] = c] \in Disks /\ DOMAIN [d EXCEPT ![p] = c] = DOMAIN d
  BY DEF Disks

\* The bridge starts with an empty cache and nothing given out.
LEMMA InitHolds == Init => IInv
  <1> SUFFICES ASSUME Init PROVE IInv
    OBVIOUS
  <1> USE DEF Contents, NoFile, NoLib, NoBuf, Nobody, OK, INTERNAL, Statuses
  <1>1. TypeOK
    <2>1. 1 \in DOMAIN disk
      BY FirstPlace DEF Init
    <2>2. place \in [Threads -> DOMAIN disk]
      BY <2>1 DEF Init
    <2> QED BY <2>2 DEF TypeOK, Init
  <1>2. OneCheckedLibrary /\ Checked
    BY DEF OneCheckedLibrary, Checked, Searching, Inside, Init
  <1>3. Owned /\ HeapIsOwned
    BY DEF Owned, HeapIsOwned, Init
  <1> QED BY <1>1, <1>2, <1>3 DEF IInv

\* A call is counted when it is made.
LEMMA Counted ==
  ASSUME calls \in [Threads -> Nat], NEW t \in Threads,
         calls' = [calls EXCEPT ![t] = @ + 1]
  PROVE  calls' \in [Threads -> Nat] /\ calls'[t] > 0
  <1>1. calls[t] + 1 \in Nat /\ calls[t] + 1 > 0
    OBVIOUS
  <1> QED BY <1>1

\* Where a search goes on, or ends, is a place again, and the thread still
\* holds the mutex exactly if it still searches.
LEMMA NextPlace ==
  ASSUME TypeOK, NEW t \in Threads, NotThisOne(t)
  PROVE  /\ place' \in [Threads -> DOMAIN disk]
         /\ \/ pc' = [pc EXCEPT ![t] = "idle"] /\ mutex' = Nobody
            \/ pc' = [pc EXCEPT ![t] = "search"] /\ mutex' = mutex
  BY DEF NotThisOne, Raise, Ends, Goto, TypeOK

\* What is loaded and what is given out stay what they are while threads
\* come, look for the library and go without it.
LEMMA SearchHolds ==
  ASSUME IInv, NEW t \in Threads,
         CallWrongly(t) \/ CallBuiltin(t) \/ Lock(t) \/ Verify(t) \/ Load(t)
  PROVE  IInv'
  <1> USE DEF IInv, Contents, NoFile, NoLib, Nobody, NoBuf
  <1>1. CASE CallWrongly(t)
    <2> USE <1>1 DEF CallWrongly, Ends, Goto, search, result
    <2>1. TypeOK'
      <3>1. calls' \in [Threads -> Nat]
        BY Counted DEF TypeOK
      <3> QED BY <3>1 DEF TypeOK
    <2>2. OneCheckedLibrary' /\ Checked'
      BY DEF TypeOK, OneCheckedLibrary, Checked, Searching, Inside
    <2>3. Owned' /\ HeapIsOwned'
      BY DEF TypeOK, Owned, HeapIsOwned, Reading, NoBuf
    <2> QED BY <2>1, <2>2, <2>3
  <1>2. CASE CallBuiltin(t)
    <2> USE <1>2 DEF CallBuiltin, Goto, search
    <2>1. TypeOK'
      <3>1. calls' \in [Threads -> Nat]
        BY Counted DEF TypeOK
      <3> QED BY <3>1 DEF TypeOK
    <2>2. OneCheckedLibrary' /\ Checked'
      BY DEF TypeOK, OneCheckedLibrary, Checked, Searching, Inside
    <2>3. Owned' /\ HeapIsOwned'
      <3>1. buf' = buf
        BY DEF TypeOK, Owned, Reading
      <3>2. calls'[t] > 0 /\ ~Reading(t)
        BY Counted DEF TypeOK, Reading
      <3>4. Owned'
        BY <3>1, <3>2 DEF TypeOK, Owned, Reading
      <3>3. HeapIsOwned'
        BY <3>1 DEF HeapIsOwned
      <3> QED BY <3>4, <3>3
    <2> QED BY <2>1, <2>2, <2>3
  <1>3. CASE Lock(t)
    <2> USE <1>3 DEF Lock, Goto, result
    <2>1. TypeOK'
      <3>1. 1 \in DOMAIN disk
        BY FirstPlace DEF TypeOK
      <3> QED BY <3>1 DEF TypeOK
    <2>2. OneCheckedLibrary' /\ Checked'
      <3>1. \A u \in Threads : ~Searching(u)
        BY BridgeAssumption DEF OneCheckedLibrary
      <3>2. CASE cache # NoLib
        BY <3>1, <3>2 DEF TypeOK, OneCheckedLibrary, Checked, Searching, Inside
      <3>3. CASE cache = NoLib
        <4>1. \A u \in Threads : ~Inside(u)
          BY <3>3 DEF OneCheckedLibrary
        <4> QED BY <3>1, <3>3, <4>1 DEF TypeOK, OneCheckedLibrary, Checked, Searching, Inside
      <3> QED BY <3>2, <3>3
    <2>3. Owned' /\ HeapIsOwned'
      BY DEF TypeOK, Owned, HeapIsOwned, Reading, NoBuf
    <2> QED BY <2>1, <2>2, <2>3
  <1>4. CASE Verify(t)
    <2> USE <1>4 DEF Verify, Goto, result
    <2>0. Searching(t) /\ ~Reading(t) /\ buf[t] = NoBuf
      BY DEF Searching, Reading, Owned
    <2>1. \A u \in Threads : Searching(u) => u = t
      BY <2>0 DEF OneCheckedLibrary
    <2>2. \A u \in Threads : ~Inside(u)
      BY <2>0 DEF OneCheckedLibrary
    <2>3. CASE disk[place[t]] \notin {NoFile, "untrusted"}
      <3>1. TypeOK'
        <4>1. disk[place[t]] \in Contents \cup {NoFile}
          BY Found DEF TypeOK
        <4> QED BY <2>3, <4>1 DEF TypeOK
      <3>2. OneCheckedLibrary' /\ Checked'
        BY <2>0, <2>1, <2>2, <2>3 DEF TypeOK, OneCheckedLibrary, Checked, Searching, Inside
      <3>3. Owned'
        BY <2>0, <2>3 DEF TypeOK, Owned, Reading
      <3>4. HeapIsOwned'
        BY <2>3 DEF HeapIsOwned
      <3> QED BY <3>1, <3>2, <3>3, <3>4
    <2>4. CASE NotThisOne(t) /\ UNCHANGED opened
      <3>0. /\ place' \in [Threads -> DOMAIN disk]
            /\ \/ pc' = [pc EXCEPT ![t] = "idle"] /\ mutex' = Nobody
               \/ pc' = [pc EXCEPT ![t] = "search"] /\ mutex' = mutex
        BY <2>4, NextPlace
      <3>1. TypeOK'
        BY <2>4, <3>0 DEF TypeOK
      <3>2. OneCheckedLibrary' /\ Checked'
        BY <2>0, <2>1, <2>2, <2>4, <3>0 DEF TypeOK, OneCheckedLibrary, Checked, Searching, Inside
      <3>3. Owned'
        BY <2>0, <3>0 DEF TypeOK, Owned, Reading
      <3>4. HeapIsOwned'
        BY DEF HeapIsOwned
      <3> QED BY <3>1, <3>2, <3>3, <3>4
    <2> QED BY <2>3, <2>4
  <1>5. CASE Load(t)
    <2> USE <1>5 DEF Load, Goto, result
    <2>0. Searching(t) /\ ~Reading(t) /\ buf[t] = NoBuf
      BY DEF Searching, Reading, Owned
    <2>1. \A u \in Threads : Searching(u) => u = t
      BY <2>0 DEF OneCheckedLibrary
    <2>2. \A u \in Threads : ~Inside(u)
      BY <2>0 DEF OneCheckedLibrary
    <2>3. CASE opened[t] # "unloadable"
      <3>1. TypeOK'
        BY <2>3 DEF TypeOK, Checked
      <3>2. OneCheckedLibrary' /\ Checked'
        BY <2>0, <2>1, <2>2, <2>3 DEF TypeOK, OneCheckedLibrary, Checked, Searching, Inside
      <3>3. Owned'
        BY <2>0, <2>3 DEF TypeOK, Owned, Reading
      <3>4. HeapIsOwned'
        BY <2>3 DEF HeapIsOwned
      <3> QED BY <3>1, <3>2, <3>3, <3>4
    <2>4. CASE NotThisOne(t) /\ UNCHANGED lib
      <3>0. /\ place' \in [Threads -> DOMAIN disk]
            /\ \/ pc' = [pc EXCEPT ![t] = "idle"] /\ mutex' = Nobody
               \/ pc' = [pc EXCEPT ![t] = "search"] /\ mutex' = mutex
        BY <2>4, NextPlace
      <3>1. TypeOK'
        BY <2>4, <3>0 DEF TypeOK
      <3>2. OneCheckedLibrary' /\ Checked'
        BY <2>0, <2>1, <2>2, <2>4, <3>0 DEF TypeOK, OneCheckedLibrary, Checked, Searching, Inside
      <3>3. Owned'
        BY <2>0, <3>0 DEF TypeOK, Owned, Reading
      <3>4. HeapIsOwned'
        BY DEF HeapIsOwned
      <3> QED BY <3>1, <3>2, <3>3, <3>4
    <2> QED BY <2>3, <2>4
  <1> QED BY <1>1, <1>2, <1>3, <1>4, <1>5

\* The one that fills the cache is the only one that searched.
LEMMA CheckHolds ==
  ASSUME IInv, NEW t \in Threads, CheckAbi(t)
  PROVE  IInv'
  <1> USE DEF IInv, Contents, NoFile, NoLib, Nobody, NoBuf, CheckAbi, Goto, Raise, Ends, search, result
  <1>1. TypeOK'
    BY DEF TypeOK
  <1>2. OneCheckedLibrary' /\ Checked'
    <2>0. Searching(t)
      BY DEF Searching
    <2>1. \A u \in Threads : Searching(u) => u = t
      BY <2>0 DEF OneCheckedLibrary
    <2>2. lib[t] \in {"good", "other version"}
      BY DEF TypeOK, Checked
    <2>3. \A u \in Threads : ~Inside(u)
      BY <2>0 DEF OneCheckedLibrary
    <2> QED BY <2>1, <2>2, <2>3 DEF TypeOK, OneCheckedLibrary, Checked, Searching, Inside
  <1>3. Owned' /\ HeapIsOwned'
    BY DEF TypeOK, Owned, HeapIsOwned, Reading, NoBuf
  <1> QED BY <1>1, <1>2, <1>3

\* A buffer is named for its call, and only that call returns it.
LEMMA UseHolds ==
  ASSUME IInv, NEW t \in Threads, Foreign(t) \/ Copy(t) \/ Free(t)
  PROVE  IInv'
  <1> USE DEF IInv, NoBuf
  <1>1. CASE Foreign(t)
    <2> USE <1>1 DEF Foreign, Goto, search
    <2>1. TypeOK'
      BY DEF TypeOK
    <2>2. OneCheckedLibrary' /\ Checked'
      BY DEF TypeOK, OneCheckedLibrary, Checked, Searching, Inside
    <2>3. buf[t] = NoBuf
      BY DEF Owned, Reading
    <2>4. Owned' /\ HeapIsOwned'
      BY <2>3 DEF TypeOK, Owned, HeapIsOwned, Reading
    <2> QED BY <2>1, <2>2, <2>4
  <1>2. CASE Copy(t)
    <2> USE <1>2 DEF Copy, Goto, search, result
    <2>1. TypeOK'
      BY DEF TypeOK
    <2>2. OneCheckedLibrary' /\ Checked'
      BY DEF TypeOK, OneCheckedLibrary, Checked, Searching, Inside
    <2>3. Owned' /\ HeapIsOwned'
      BY DEF TypeOK, Owned, HeapIsOwned, Reading, NoBuf
    <2> QED BY <2>1, <2>2, <2>3
  <1>3. CASE Free(t)
    <2> USE <1>3 DEF Free, Goto, search
    <2>1. TypeOK'
      BY DEF TypeOK
    <2>2. OneCheckedLibrary' /\ Checked'
      BY DEF TypeOK, OneCheckedLibrary, Checked, Searching, Inside
    <2>3. Owned' /\ HeapIsOwned'
      BY DEF TypeOK, Owned, HeapIsOwned, Reading, NoBuf
    <2> QED BY <2>1, <2>2, <2>3
  <1> QED BY <1>1, <1>2, <1>3

\* A build changes files and nothing else.
LEMMA BuildHolds == IInv /\ Build => IInv'
  <1> SUFFICES ASSUME IInv, Build PROVE IInv'
    OBVIOUS
  <1> USE DEF IInv, Build, search, result
  <1>1. TypeOK'
    <2>0. PICK p \in DOMAIN disk, c \in Contents : disk' = [disk EXCEPT ![p] = c]
      OBVIOUS
    <2>1. disk' \in Disks /\ DOMAIN disk' = DOMAIN disk
      BY <2>0, Rebuilt DEF TypeOK
    <2> QED BY <2>1 DEF TypeOK
  <1>2. OneCheckedLibrary' /\ Checked'
    BY DEF OneCheckedLibrary, Checked, Searching, Inside
  <1>3. Owned' /\ HeapIsOwned'
    BY DEF Owned, HeapIsOwned, Reading
  <1> QED BY <1>1, <1>2, <1>3

\* The invariant of the bridge.
THEOREM Invariant == Spec => []IInv
  <1>1. IInv /\ [Next]_vars => IInv'
    <2> SUFFICES ASSUME IInv, [Next]_vars PROVE IInv'
      OBVIOUS
    <2>1. CASE Next
      BY <2>1, SearchHolds, CheckHolds, UseHolds, BuildHolds DEF Next, Step
    <2>2. CASE UNCHANGED vars
      BY <2>2 DEF IInv, vars, search, result, TypeOK, OneCheckedLibrary, Checked, Owned,
                  HeapIsOwned, Searching, Inside, Reading
    <2> QED BY <2>1, <2>2
  <1> QED BY InitHolds, <1>1, PTL DEF Spec

\* All calls of all tasks go to the one library that was checked
\* (vidyax.py:1850-1922).
THEOREM CheckedLibraryTheorem == Spec => []OneCheckedLibrary
  <1>1. IInv => OneCheckedLibrary
    BY DEF IInv
  <1> QED BY Invariant, <1>1, PTL

\* Every buffer of the library is returned once, by the call that got it,
\* after it was read (vidyax.py:1929-1971).
THEOREM BuffersTheorem == Spec => []BuffersAreReturned
  <1>1. IInv => BuffersAreReturned
    <2> SUFFICES ASSUME IInv PROVE BuffersAreReturned
      OBVIOUS
    <2> DEFINE read == {<<t, buf[t]>> : t \in {u \in Threads : Reading(u) /\ buf[u] # NoBuf}}
    <2>1. ASSUME NEW b \in heap PROVE b \in read
      <3>1. PICK t \in Threads, n \in Nat : b = <<t, n>>
        BY DEF IInv, TypeOK
      <3> QED BY <3>1 DEF IInv, Owned, HeapIsOwned
    <2>2. ASSUME NEW b \in read PROVE b \in heap
      BY DEF IInv, TypeOK, HeapIsOwned
    <2> QED BY <2>1, <2>2 DEF BuffersAreReturned
  <1> QED BY Invariant, <1>1, PTL
=============================================================================
