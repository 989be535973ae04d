------------------------------ MODULE VxBridge ------------------------------
(* The sub-cortex bridge of the Python engines: tasks call functions of a  *)
(* shared library that the first of them finds, checks and loads under a   *)
(* mutex, and that hands out buffers which have to be given back.  The     *)
(* library itself, and the build that puts it on disk, are external.       *)
EXTENDS Naturals, FiniteSets

CONSTANTS
  Threads,     \* the threads of the process
  Places,      \* how many places the library is looked for in
  MaxCalls,    \* bound: calls of a thread
  MaxBuilds    \* bound: times a build replaces a file

ASSUME BridgeAssumption ==
  /\ Places \in Nat \ {0} /\ MaxCalls \in Nat /\ MaxBuilds \in Nat
  /\ "nobody" \notin Threads

VARIABLES
  disk,      \* the file at each place, or NoFile; the places are the candidates,
             \* or the one that VX_SUBCORTEX_LIB names
  cache,     \* _SUBCORTEX_CACHE under the key of this environment
  mutex,     \* who holds _SUBCORTEX_MU
  pc,        \* where in its call each thread is
  place,     \* the candidate a search is at
  opened,    \* the file a search has opened and checked
  lib,       \* the library a call has got
  buf,       \* the buffer of the result: the number of the call, or NoBuf
  status,    \* the status in it
  answer,    \* what the last call of each thread came to
  heap,      \* buffers given out and not returned: thread and number of its call
  calls,     \* how many calls each thread has made
  builds     \* how many times a file was replaced

vars == <<disk, cache, mutex, pc, place, opened, lib, buf, status, answer, heap, calls, builds>>
search == <<place, opened>>
result == <<buf, status>>

\* What may be in a file: a library that will do, one that others may
\* write to, something that is no library, a library of another version.
Contents == {"good", "untrusted", "unloadable", "other version"}
NoFile == "no file"
NoLib == "no library"
Nobody == "nobody"
NoBuf == 0
OK == 0
INTERNAL == 7
Statuses == {OK, 3, INTERNAL}

\* The files at the candidates, or at the one place that is named.
Disks == UNION {[1..n -> Contents \cup {NoFile}] : n \in {1, Places}}

Init ==
  /\ disk \in Disks
  /\ cache = NoLib /\ mutex = Nobody
  /\ pc = [t \in Threads |-> "idle"]
  /\ place = [t \in Threads |-> 1]
  /\ opened = [t \in Threads |-> NoFile]
  /\ lib = [t \in Threads |-> NoLib]
  /\ buf = [t \in Threads |-> NoBuf]
  /\ status = [t \in Threads |-> OK]
  /\ answer = [t \in Threads |-> "none"]
  /\ heap = {} /\ calls = [t \in Threads |-> 0] /\ builds = 0

Goto(t, l) == pc' = [pc EXCEPT ![t] = l]
Ends(t, a) == Goto(t, "idle") /\ answer' = [answer EXCEPT ![t] = a]

(***************************************************************************)
(* _subcortex_lib                                                          *)
(***************************************************************************)
\* A call with the wrong arguments ends before it asks for the library.
CallWrongly(t) ==
  /\ pc[t] = "idle" /\ calls[t] < MaxCalls
  /\ calls' = [calls EXCEPT ![t] = @ + 1]
  /\ Ends(t, "error")
  /\ UNCHANGED <<disk, cache, mutex, search, lib, result, heap, builds>>

CallBuiltin(t) ==
  /\ pc[t] = "idle" /\ calls[t] < MaxCalls
  /\ calls' = [calls EXCEPT ![t] = @ + 1]
  /\ lib' = [lib EXCEPT ![t] = NoLib]
  /\ buf' = [buf EXCEPT ![t] = NoBuf]
  /\ Goto(t, "lock")
  /\ UNCHANGED <<disk, cache, mutex, search, status, answer, heap, builds>>

\* Takes the mutex; with a library in the cache it is back at once.
Lock(t) ==
  /\ pc[t] = "lock" /\ mutex = Nobody
  /\ place' = [place EXCEPT ![t] = 1]
  /\ IF cache # NoLib
     THEN Goto(t, "call") /\ lib' = [lib EXCEPT ![t] = cache] /\ UNCHANGED mutex
     ELSE Goto(t, "search") /\ mutex' = t /\ UNCHANGED lib
  /\ UNCHANGED <<disk, cache, opened, result, answer, heap, calls, builds>>

\* Mutant of Raise: the error leaves the mutex taken.
RaiseLocked(t) == Ends(t, "error") /\ UNCHANGED mutex

\* An error leaves the with-block, which releases the mutex.
Raise(t) == Ends(t, "error") /\ mutex' = Nobody

\* This candidate will not do; the next is tried, if there is one.
NotThisOne(t) ==
  IF place[t] + 1 \notin DOMAIN disk
  THEN Raise(t) /\ UNCHANGED place
  ELSE Goto(t, "search") /\ place' = [place EXCEPT ![t] = @ + 1] /\ UNCHANGED <<mutex, answer>>

\* _subcortex_verify_and_open_dylib: opens the file and checks what it has
\* opened.
Verify(t) ==
  /\ pc[t] = "search"
  /\ LET file == disk[place[t]]
     IN  IF file \notin {NoFile, "untrusted"}
         THEN /\ opened' = [opened EXCEPT ![t] = file] /\ Goto(t, "load")
              /\ UNCHANGED <<mutex, place, answer>>
         ELSE NotThisOne(t) /\ UNCHANGED opened
  /\ UNCHANGED <<disk, cache, lib, result, heap, calls, builds>>

\* Loads the file it has open, by the path Linux gives an open file.
Load(t) ==
  /\ pc[t] = "load"
  /\ IF opened[t] # "unloadable"
     THEN /\ lib' = [lib EXCEPT ![t] = opened[t]] /\ Goto(t, "check")
          /\ UNCHANGED <<mutex, place, answer>>
     ELSE NotThisOne(t) /\ UNCHANGED lib
  /\ opened' = [opened EXCEPT ![t] = NoFile]
  /\ UNCHANGED <<disk, cache, result, heap, calls, builds>>

\* Mutant of CheckAbi: the library is in the cache before it is checked.
CheckAbiLate(t) ==
  /\ pc[t] = "check"
  /\ cache' = lib[t]
  /\ IF lib[t] # "other version" THEN mutex' = Nobody /\ Goto(t, "call") /\ UNCHANGED answer
     ELSE Raise(t)
  /\ UNCHANGED <<disk, search, lib, result, heap, calls, builds>>

\* Version and layout.  Another candidate is not tried if they are wrong.
CheckAbi(t) ==
  /\ pc[t] = "check"
  /\ IF lib[t] # "other version"
     THEN cache' = lib[t] /\ mutex' = Nobody /\ Goto(t, "call") /\ UNCHANGED answer
     ELSE Raise(t) /\ UNCHANGED cache
  /\ UNCHANGED <<disk, search, lib, result, heap, calls, builds>>

(***************************************************************************)
(* The built-ins.  The interpreter lock is not held in the library, so     *)
(* any number of calls is in it at a time.                                 *)
(***************************************************************************)
Foreign(t) ==
  /\ pc[t] = "call"
  /\ status' \in {[status EXCEPT ![t] = s] : s \in Statuses}
  /\ \/ UNCHANGED <<buf, heap>>
     \/ /\ buf' = [buf EXCEPT ![t] = calls[t]]
        /\ heap' = heap \cup {<<t, calls[t]>>}
  /\ Goto(t, "copy")
  /\ UNCHANGED <<disk, cache, mutex, search, lib, answer, calls, builds>>

\* Mutant of Copy: an error is raised outside the try.
CopyOrRaise(t) ==
  /\ pc[t] = "copy"
  /\ \/ status[t] = OK /\ answer' = [answer EXCEPT ![t] = "value"] /\ Goto(t, "free")
     \/ status[t] # OK /\ Ends(t, "error")
  /\ UNCHANGED <<disk, cache, mutex, search, lib, result, heap, calls, builds>>

\* redact and prune fail with any status but OK, audit_ast only with
\* INTERNAL and tells of the others.  Either way through the finally.
Copy(t) ==
  /\ pc[t] = "copy"
  /\ \/ status[t] # INTERNAL /\ answer' = [answer EXCEPT ![t] = "value"]
     \/ status[t] # OK /\ answer' = [answer EXCEPT ![t] = "error"]
  /\ Goto(t, "free")
  /\ UNCHANGED <<disk, cache, mutex, search, lib, result, heap, calls, builds>>

Free(t) ==
  /\ pc[t] = "free"
  /\ heap' = heap \ {<<t, buf[t]>>}
  /\ buf' = [buf EXCEPT ![t] = NoBuf]
  /\ Goto(t, "idle")
  /\ UNCHANGED <<disk, cache, mutex, search, lib, status, answer, calls, builds>>

\* A build puts another file in a place, between any two steps.
Build ==
  /\ builds < MaxBuilds /\ builds' = builds + 1
  /\ \E p \in DOMAIN disk, c \in Contents : disk' = [disk EXCEPT ![p] = c]
  /\ UNCHANGED <<cache, mutex, pc, search, lib, result, answer, heap, calls>>

Step(t) ==
  \/ Lock(t) \/ Verify(t) \/ Load(t) \/ CheckAbi(t)
  \/ Foreign(t) \/ Copy(t) \/ Free(t)
Next == Build \/ \E t \in Threads : CallWrongly(t) \/ CallBuiltin(t) \/ Step(t)

Spec == Init /\ [][Next]_vars
\* A thread that has made a call goes on with it.  The mutex need not be
\* fair: there are finitely many other calls to wait for.
FairSpec == Spec /\ \A t \in Threads : WF_vars(Step(t))

-----------------------------------------------------------------------------
TypeOK ==
  /\ disk \in Disks
  /\ cache \in Contents \cup {NoLib}
  /\ mutex \in Threads \cup {Nobody}
  /\ pc \in [Threads -> {"idle", "lock", "search", "load", "check", "call", "copy", "free"}]
  /\ place \in [Threads -> DOMAIN disk]
  /\ opened \in [Threads -> Contents \cup {NoFile}]
  /\ lib \in [Threads -> Contents \cup {NoLib}]
  /\ buf \in [Threads -> Nat]
  /\ status \in [Threads -> Statuses]
  /\ heap \subseteq Threads \X Nat
  /\ calls \in [Threads -> Nat]

Searching(t) == pc[t] \in {"search", "load", "check"}
Inside(t) == pc[t] \in {"call", "copy", "free"}
Reading(t) == pc[t] \in {"copy", "free"}

\* All calls go to one library, one that was checked: trusted, loaded, of
\* the right version and layout.  That of a call in the library is the one
\* in the cache, and nobody looks for another while it is there: whatever
\* threads come first together (vidyax.py:1850-1922), and whatever a build
\* does to the files meanwhile.
OneCheckedLibrary ==
  /\ cache \in {NoLib, "good"}
  /\ \A t \in Threads :
       /\ Inside(t) => cache # NoLib /\ lib[t] = cache
       /\ Searching(t) => cache = NoLib /\ mutex = t

\* The buffers the library has given out are those of the calls that are
\* still reading them: none is lost, given back twice or read afterwards,
\* also when a call fails (the finally of vidyax.py:1930-1938, 1946-1954,
\* 1963-1971).
BuffersAreReturned ==
  heap = {<<t, buf[t]>> : t \in {u \in Threads : Reading(u) /\ buf[u] # NoBuf}}

\* Every call ends: no error path keeps the mutex, and threads that wait
\* for it get it.
CallsEnd == \A t \in Threads : pc[t] # "idle" ~> pc[t] = "idle"
=============================================================================
