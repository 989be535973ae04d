---------------------------- MODULE TaskPromise ----------------------------
(***************************************************************************)
(* What `go` and wait promise a Vidyax program (docs/CONCURRENCY.md        *)
(* section 3), with no lock, no threads and no live table: a task gets one *)
(* outcome, waits hand that outcome out, and the program may only end well *)
(* when every task has an outcome and every failure was raised again.      *)
(* VxTasks implements it.                                                  *)
(***************************************************************************)
CONSTANTS Tasks, None

VARIABLES
  outcome,    \* "unborn", "pending", "ok" or "err", per task
  seen,       \* tasks whose outcome some wait() has handed out
  status,     \* "running", or how the process ended
  reported    \* the failure the process ended with, if a task's

vars == <<outcome, seen, status, reported>>

Settled == {t \in Tasks : outcome[t] \in {"ok", "err"}}
Failed  == {t \in Tasks : outcome[t] = "err"}
Pending == {t \in Tasks : outcome[t] = "pending"}

Init ==
  /\ outcome  = [t \in Tasks |-> "unborn"]
  /\ seen     = {}
  /\ status   = "running"
  /\ reported = None

Go(t) ==
  /\ status = "running"
  /\ outcome[t] = "unborn"
  /\ outcome' = [outcome EXCEPT ![t] = "pending"]
  /\ UNCHANGED <<seen, status, reported>>

Settle(t) ==
  /\ status = "running"
  /\ outcome[t] = "pending"
  /\ \E o \in {"ok", "err"} : outcome' = [outcome EXCEPT ![t] = o]
  /\ UNCHANGED <<seen, status, reported>>

HandOut(t) ==
  /\ status = "running"
  /\ t \in Settled
  /\ seen' = seen \cup {t}
  /\ UNCHANGED <<outcome, status, reported>>

(* The program ends well ...                                               *)
EndWell ==
  /\ status = "running"
  /\ Pending = {}
  /\ Failed \subseteq seen
  /\ status' = "exit0"
  /\ UNCHANGED <<outcome, seen, reported>>

(* ... or with the failure of a task that no wait() raised ...             *)
EndWithFailure(t) ==
  /\ status = "running"
  /\ t \in Failed \ seen
  /\ status' = "exit1"
  /\ reported' = t
  /\ UNCHANGED <<outcome, seen>>

(* ... or dies of main's own error, or of a fault in the runtime.          *)
Die ==
  /\ status = "running"
  /\ status' \in {"exit1", "crash"}
  /\ UNCHANGED <<outcome, seen, reported>>

Next ==
  \/ \E t \in Tasks : Go(t) \/ Settle(t) \/ HandOut(t) \/ EndWithFailure(t)
  \/ EndWell
  \/ Die

Spec == Init /\ [][Next]_vars
=============================================================================
