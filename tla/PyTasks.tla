------------------------------ MODULE PyTasks ------------------------------
(***************************************************************************)
(* Tasks of the two Python engines: `go` / wait and the implicit wait at   *)
(* program exit (vidyax.py _VTask, _b_wait, _finish_tasks), which the tree *)
(* walker and the transpiled program share.                                *)
(*                                                                         *)
(* A task is a Python thread.  CPython's lock lets another thread run      *)
(* between any two bytecodes, not only in blocking calls; steps that touch *)
(* shared state are therefore actions of their own.  Threads are not       *)
(* daemons: the process lives until the last one has ended.                *)
(***************************************************************************)
EXTENDS Integers, Sequences, SequencesExt, FiniteSets

CONSTANTS
  Tasks, Main, None,
  StartMayFail    \* may Thread.start raise?

ASSUME PyTasksAssumption ==
  /\ Main \notin Tasks
  /\ None \notin Tasks \cup {Main}
  /\ StartMayFail \in BOOLEAN

Threads == Tasks \cup {Main}

VARIABLES
  pc,        \* where each thread is (see Where)
  tgt,       \* the task a thread is creating, waiting for or finishing
  all,       \* _ALL_TASKS
  err, waited,   \* fields of _VTask
  fin,       \* main is inside _finish_tasks
  seen,      \* tasks whose outcome some wait() has handed out
  selves,    \* tasks that have waited for themselves
  cause,     \* why main ended: "end", "own", "task", "fault"; "none": not yet
  ended      \* the process is over

vars == <<pc, tgt, all, err, waited, fin, seen, selves, cause, ended>>

Where ==
  { "idle",      \* not created
    "made",      \* in _ALL_TASKS, not started (nor, at first, given a thread)
    "nothread",  \* start() failed
    "run",       \* executing
    "spawn",     \* between _ALL_TASKS.append and start()
    "raise",     \* an error is on its way
    "popped",    \* main has taken tgt from _ALL_TASKS
    "join",      \* in Thread.join
    "gone" }     \* ended

Unstarted == {"idle", "made", "nothread"}
Created   == {t \in Tasks : pc[t] # "idle"}

Init ==
  /\ pc     = [th \in Threads |-> IF th = Main THEN "run" ELSE "idle"]
  /\ tgt    = [th \in Threads |-> None]
  /\ all    = <<>>
  /\ err    = [t \in Tasks |-> FALSE]
  /\ waited = [t \in Tasks |-> FALSE]
  /\ fin    = FALSE
  /\ seen   = {}
  /\ selves = {}
  /\ cause  = "none"
  /\ ended  = FALSE
-----------------------------------------------------------------------------
InProgram(th) == pc[th] = "run" /\ ~(th = Main /\ fin)

Goto(th, place) == pc' = [pc EXCEPT ![th] = place]
Aim(th, t)      == tgt' = [tgt EXCEPT ![th] = t]

(* _VTask.__init__ up to _ALL_TASKS.append(self).                          *)
Make(th, t) ==
  /\ InProgram(th)
  /\ pc[t] = "idle"
  /\ all' = Append(all, t)
  /\ pc' = [pc EXCEPT ![th] = "spawn", ![t] = "made"]
  /\ Aim(th, t)
  /\ UNCHANGED <<err, waited, fin, seen, selves, cause, ended>>

(* self._t = Thread(...); self._t.start()                                  *)
Start(th) ==
  /\ pc[th] = "spawn"
  /\ pc' = [pc EXCEPT ![th] = "run", ![tgt[th]] = "run"]
  /\ Aim(th, None)
  /\ UNCHANGED <<all, err, waited, fin, seen, selves, cause, ended>>

(* start() raises: the task stays in _ALL_TASKS.  At the end of the        *)
(* process no thread can be started any more.                              *)
StartFails(th) ==
  /\ StartMayFail \/ pc[Main] = "gone"
  /\ pc[th] = "spawn"
  /\ pc' = [pc EXCEPT ![th] = "raise", ![tgt[th]] = "nothread"]
  /\ Aim(th, None)
  /\ UNCHANGED <<all, err, waited, fin, seen, selves, cause, ended>>

RuntimeError(th) ==
  /\ InProgram(th)
  /\ Goto(th, "raise")
  /\ UNCHANGED <<tgt, all, err, waited, fin, seen, selves, cause, ended>>

Catch(th) ==
  /\ pc[th] = "raise" /\ ~(th = Main /\ fin)
  /\ Goto(th, "run")
  /\ UNCHANGED <<tgt, all, err, waited, fin, seen, selves, cause, ended>>

(* _run: the outcome is stored, the thread ends.                           *)
Finish(t, failed) ==
  /\ Goto(t, "gone")
  /\ err' = [err EXCEPT ![t] = failed]
  /\ UNCHANGED <<tgt, all, waited, fin, seen, selves, cause, ended>>

TaskReturns(t) == pc[t] = "run" /\ Finish(t, FALSE)
TaskFails(t)   == pc[t] = "raise" /\ Finish(t, TRUE)
-----------------------------------------------------------------------------
(* _b_wait up to the join.                                                 *)
Wait(th, t) ==
  /\ InProgram(th)
  /\ t # th /\ pc[t] \notin Unstarted
  /\ waited' = [waited EXCEPT ![t] = TRUE]
  /\ Goto(th, "join") /\ Aim(th, t)
  /\ UNCHANGED <<all, err, fin, seen, selves, cause, ended>>

WaitSelfBlocks(t) ==            \* mutant of WaitSelf: joining oneself blocks
  /\ InProgram(t)
  /\ waited' = [waited EXCEPT ![t] = TRUE]
  /\ selves' = selves \cup {t}
  /\ Goto(t, "join") /\ Aim(t, t)
  /\ UNCHANGED <<all, err, fin, seen, cause, ended>>

(* The same when a task has got hold of its own handle: Thread.join of the *)
(* running thread raises.                                                  *)
WaitSelf(t) ==
  /\ InProgram(t)
  /\ waited' = [waited EXCEPT ![t] = TRUE]
  /\ selves' = selves \cup {t}
  /\ Goto(t, "raise")
  /\ UNCHANGED <<tgt, all, err, fin, seen, cause, ended>>

(* The end of _b_wait: the failure is raised again, or the result          *)
(* returned.                                                               *)
WaitReturns(th) ==
  LET t == tgt[th] IN
  /\ pc[th] = "join" /\ ~(th = Main /\ fin)
  /\ pc[t] = "gone"
  /\ Goto(th, IF err[t] THEN "raise" ELSE "run")
  /\ Aim(th, None)
  /\ seen' = seen \cup {t}
  /\ UNCHANGED <<all, err, waited, fin, selves, cause, ended>>
-----------------------------------------------------------------------------
(* The program text is over; main enters _finish_tasks.                    *)
Halt ==
  /\ InProgram(Main)
  /\ fin' = TRUE
  /\ UNCHANGED <<pc, tgt, all, err, waited, seen, selves, cause, ended>>

(* t = _ALL_TASKS.pop()                                                    *)
FinishPop ==
  /\ fin /\ pc[Main] = "run"
  /\ all # <<>>
  /\ all' = Front(all)
  /\ Goto(Main, "popped") /\ Aim(Main, Last(all))
  /\ UNCHANGED <<err, waited, fin, seen, selves, cause, ended>>

MainEnds(why) ==
  /\ Goto(Main, "gone")
  /\ cause' = why

(* t._t.join(): there may be no thread to join.                            *)
FinishJoin ==
  LET t == tgt[Main] IN
  /\ pc[Main] = "popped"
  /\ IF pc[t] \in Unstarted
     THEN MainEnds("fault")
     ELSE Goto(Main, "join") /\ UNCHANGED cause
  /\ UNCHANGED <<tgt, all, err, waited, fin, seen, selves, ended>>

FinishForgives ==               \* mutant of FinishReturns: no failure is raised
  /\ fin /\ pc[Main] = "join"
  /\ pc[tgt[Main]] = "gone"
  /\ Goto(Main, "run")
  /\ Aim(Main, None)
  /\ UNCHANGED <<all, err, waited, fin, seen, selves, cause, ended>>

(* A failure nobody waited for is raised: main ends with it.               *)
FinishReturns ==
  LET t == tgt[Main] IN
  /\ fin /\ pc[Main] = "join"
  /\ pc[t] = "gone"
  /\ IF err[t] /\ ~waited[t]
     THEN MainEnds("task")
     ELSE Goto(Main, "run") /\ UNCHANGED cause
  /\ Aim(Main, None)
  /\ UNCHANGED <<all, err, waited, fin, seen, selves, ended>>

(* Main ends: the loop is done, or an error of its own that skips          *)
(* _finish_tasks.                                                          *)
ExitOk ==
  /\ fin /\ pc[Main] = "run" /\ all = <<>>
  /\ MainEnds("end")
  /\ UNCHANGED <<tgt, all, err, waited, fin, seen, selves, ended>>

MainDies ==
  /\ pc[Main] = "raise"
  /\ MainEnds("own")
  /\ UNCHANGED <<tgt, all, err, waited, fin, seen, selves, ended>>

(* The interpreter waits for every thread, then the process is over.       *)
ProcessEnds ==
  /\ ~ended
  /\ pc[Main] = "gone"
  /\ \A t \in Tasks : pc[t] \in {"idle", "nothread", "gone"}
  /\ ended' = TRUE
  /\ UNCHANGED <<pc, tgt, all, err, waited, fin, seen, selves, cause>>
-----------------------------------------------------------------------------
ThreadStep(th) ==
  \/ \E t \in Tasks : Make(th, t) \/ Wait(th, t)
  \/ Start(th) \/ StartFails(th)
  \/ RuntimeError(th) \/ Catch(th)
  \/ WaitReturns(th)

Next ==
  \/ \E th \in Threads : ThreadStep(th)
  \/ \E t \in Tasks : TaskReturns(t) \/ TaskFails(t) \/ WaitSelf(t)
  \/ Halt \/ FinishPop \/ FinishJoin \/ FinishReturns \/ ExitOk \/ MainDies
  \/ ProcessEnds

(* Fairness.  CPython's lock goes round: a thread that can go on does.     *)
(* Ends assumes of programs that no thread runs for ever.                  *)
Ends(th) == IF th = Main THEN Halt ELSE TaskReturns(th)
Lands(th) == Catch(th) \/ (IF th = Main THEN MainDies ELSE TaskFails(th))

Fairness ==
  /\ \A th \in Threads :
       /\ WF_vars(Start(th) \/ StartFails(th)) /\ WF_vars(WaitReturns(th))
       /\ WF_vars(Lands(th)) /\ SF_vars(Ends(th))
  /\ WF_vars(FinishPop) /\ WF_vars(FinishJoin) /\ WF_vars(FinishReturns)
  /\ WF_vars(ExitOk) /\ WF_vars(ProcessEnds)

Spec == Init /\ [][Next]_vars
FairSpec == Spec /\ Fairness
-----------------------------------------------------------------------------
TypeOK ==
  /\ pc \in [Threads -> Where]
  /\ tgt \in [Threads -> Tasks \cup {None}]
  /\ all \in Seq(Tasks)
  /\ err \in [Tasks -> BOOLEAN] /\ waited \in [Tasks -> BOOLEAN]
  /\ fin \in BOOLEAN /\ ended \in BOOLEAN
  /\ seen \subseteq Tasks /\ selves \subseteq Tasks
  /\ cause \in {"none", "end", "own", "task", "fault"}

(* vidyax.py:2059-2060: "nothing is silently lost - join every task, and a *)
(* failed task nobody waited for is reported".  When the program ends      *)
(* well, no task runs and every failure was raised by a wait - or is that  *)
(* of a task that had waited for itself, which counts as waited for.       *)
CleanExit ==
  cause = "end" =>
    \A t \in Created :
      pc[t] = "gone" /\ (err[t] => t \in seen \cup selves)

(* The process ends, however main ends, unless tasks wait in a circle      *)
(* (vidyax.py:2048-2065).                                                  *)
WaitsFor == {<<th, tgt[th]>> : th \in {u \in Tasks : pc[u] = "join"}}

WaitKnot == \E S \in SUBSET Tasks \ {{}} :
              \A t \in S : \E u \in S \ {t} : <<t, u>> \in WaitsFor

Terminates == []~WaitKnot => <>ended
=============================================================================
