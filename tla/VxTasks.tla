------------------------------ MODULE VxTasks ------------------------------
(***************************************************************************)
(* Tasks of the C virtual machine: `go` / wait and the implicit wait at    *)
(* program exit (vm/task.c), under the one interpreter lock vx_gil.        *)
(*                                                                         *)
(* Every task is a pthread with its own VmCtx; the main program is one     *)
(* more thread.  A thread executes bytecode only while it holds vx_gil and *)
(* gives the lock up in exactly three places: a blocking builtin           *)
(* (VX_BLOCKING), pthread_cond_wait and pthread_join.  What a thread does  *)
(* between two of these places is one action.  Bytecode, values and        *)
(* messages are abstracted: a running thread may spawn, wait, block in a   *)
(* builtin, raise an error, return.                                        *)
(***************************************************************************)
EXTENDS Integers, Sequences, FiniteSets

CONSTANTS
  Tasks,          \* the OTask objects a program may create
  Main,           \* the main program's thread (main_ctx)
  None,           \* NULL: no thread, no task
  MaxTasks,       \* MAX_TASKS, the size of the live table
  CreateMayFail   \* may pthread_create fail?

ASSUME TaskAssumption ==
  /\ Main \notin Tasks
  /\ None \notin Tasks \cup {Main}
  /\ MaxTasks \in Nat \ {0}
  /\ CreateMayFail \in BOOLEAN

Threads == Tasks \cup {Main}

VARIABLES
  pc,        \* where each thread is (see Where)
  gil,       \* who holds vx_gil
  tgt,       \* the task join_task is working on, per thread
  joiner,    \* pthread's own record of the one thread that joins it
  done, errtext, waited, joined,   \* fields of OTask
  live,      \* the live[] table, in its order
  fin,       \* main is inside tasks_finish
  seen,      \* tasks whose outcome some wait() has returned or re-raised
  status,    \* "running", or how the process ended
  reported   \* the task whose failure tasks_finish printed, if any

vars == <<pc, gil, tgt, joiner, done, errtext, waited, joined, live, fin,
          seen, status, reported>>

otask == <<done, errtext, waited, joined>>
exit  == <<status, reported>>

Where ==
  { "idle",      \* not created
    "nothread",  \* the OTask exists, pthread_create failed
    "start",     \* the new thread has not taken the lock yet
    "run",       \* executing bytecode
    "raise",     \* in vm_error, before the longjmp lands
    "io",        \* blocking builtin, lock released
    "cond",      \* asleep in pthread_cond_wait
    "woken",     \* woken in pthread_cond_wait, needs the lock
    "join",      \* in pthread_join, lock released
    "ended",     \* task_worker has released the lock for good
    "gone" }     \* the thread function has returned

Executing == {"run", "raise"}
InJoin    == {"cond", "woken", "join"}

(* The two callers of join_task: b_wait, and tasks_finish.                 *)
InWait(th) == pc[th] \in InJoin /\ ~(th = Main /\ fin)
InFinish   == pc[Main] \in InJoin /\ fin

Entries(s) == {s[i] : i \in DOMAIN s}
Created    == {t \in Tasks : pc[t] # "idle"}

(* Mutant of Unlive: the length is not reduced.                            *)
UnliveKeepsLength(s, t) ==
  [i \in DOMAIN s |-> IF s[i] = t THEN s[Len(s)] ELSE s[i]]

(* unlive(): the last entry moves into the hole.                           *)
Unlive(s, t) ==
  LET Hole(i) == s[i] = t
  IN  IF t \notin Entries(s) THEN s
      ELSE [i \in 1..(Len(s) - 1) |-> IF Hole(i) THEN s[Len(s)] ELSE s[i]]

Init ==
  /\ pc       = [th \in Threads |-> IF th = Main THEN "run" ELSE "idle"]
  /\ gil      = Main
  /\ tgt      = [th \in Threads |-> None]
  /\ joiner   = [t \in Tasks |-> None]
  /\ done     = [t \in Tasks |-> FALSE]
  /\ errtext  = [t \in Tasks |-> FALSE]
  /\ waited   = [t \in Tasks |-> FALSE]
  /\ joined   = [t \in Tasks |-> FALSE]
  /\ live     = <<>>
  /\ fin      = FALSE
  /\ seen     = {}
  /\ status   = "running"
  /\ reported = None
-----------------------------------------------------------------------------
(* A thread that executes program code: it holds the lock, and main is not *)
(* yet in tasks_finish.                                                    *)
InProgram(th) ==
  /\ status = "running"
  /\ pc[th] = "run"
  /\ gil = th
  /\ ~(th = Main /\ fin)

Goto(th, place) == pc' = [pc EXCEPT ![th] = place]

(* task_spawn() with a thread that starts.                                 *)
Spawn(th, t) ==
  /\ InProgram(th)
  /\ pc[t] = "idle"
  /\ Len(live) < MaxTasks
  /\ live' = Append(live, t)
  /\ Goto(t, "start")
  /\ UNCHANGED <<gil, tgt, joiner, otask, fin, seen, exit>>

(* task_spawn() when pthread_create fails: the task is already in live[],  *)
(* and the error leaves it there.                                          *)
SpawnFails(th, t) ==
  /\ CreateMayFail
  /\ InProgram(th)
  /\ pc[t] = "idle"
  /\ Len(live) < MaxTasks
  /\ live' = Append(live, t)
  /\ pc' = [pc EXCEPT ![t] = "nothread", ![th] = "raise"]
  /\ UNCHANGED <<gil, tgt, joiner, otask, fin, seen, exit>>

(* vm_error: "too many tasks" from a full table, and any other error the   *)
(* program's own code can raise.                                           *)
TooManyTasks(th) ==
  /\ InProgram(th)
  /\ Len(live) >= MaxTasks
  /\ Goto(th, "raise")
  /\ UNCHANGED <<gil, tgt, joiner, otask, live, fin, seen, exit>>

RuntimeError(th) ==
  /\ InProgram(th)
  /\ Goto(th, "raise")
  /\ UNCHANGED <<gil, tgt, joiner, otask, live, fin, seen, exit>>

(* VX_BLOCKING: release, do the system call, take the lock again; then the *)
(* builtin returns or raises.                                              *)
BlockIo(th) ==
  /\ InProgram(th)
  /\ Goto(th, "io")
  /\ gil' = None
  /\ UNCHANGED <<tgt, joiner, otask, live, fin, seen, exit>>

(* Mutant of IoReturn: VX_UNLOCK without the VX_LOCK.                      *)
IoReturnUnlocked(th) ==
  /\ status = "running"
  /\ pc[th] = "io"
  /\ \E next \in Executing : Goto(th, next)
  /\ UNCHANGED <<gil, tgt, joiner, otask, live, fin, seen, exit>>

IoReturn(th) ==
  /\ status = "running"
  /\ pc[th] = "io"
  /\ gil = None
  /\ gil' = th
  /\ \E next \in Executing : Goto(th, next)
  /\ UNCHANGED <<tgt, joiner, otask, live, fin, seen, exit>>
-----------------------------------------------------------------------------
(* Where an error lands: the innermost handler of the thread, if it has    *)
(* one.  Without one, main exits with status 1 and joins nobody ...        *)
Catch(th) ==
  /\ status = "running"
  /\ pc[th] = "raise"
  /\ Goto(th, "run")
  /\ UNCHANGED <<gil, tgt, joiner, otask, live, fin, seen, exit>>

MainDies ==
  /\ status = "running"
  /\ pc[Main] = "raise"
  /\ status' = "exit1"
  /\ UNCHANGED <<pc, gil, tgt, joiner, otask, live, fin, seen, reported>>

(* Mutant of Finish: done is set, but nobody is told.                      *)
FinishSilently(t, failed) ==
  /\ errtext' = [errtext EXCEPT ![t] = failed]
  /\ done' = [done EXCEPT ![t] = TRUE]
  /\ Goto(t, "ended")
  /\ gil' = None
  /\ UNCHANGED <<tgt, joiner, waited, joined, live, fin, seen, exit>>

(* ... and a task ends, keeping the text.  The tail of task_worker is one  *)
(* action: it publishes the outcome, broadcasts and releases the lock.     *)
Finish(t, failed) ==
  /\ errtext' = [errtext EXCEPT ![t] = failed]
  /\ done' = [done EXCEPT ![t] = TRUE]
  /\ pc' = [th \in Threads |->
              IF th = t THEN "ended"
              ELSE IF pc[th] = "cond" THEN "woken" ELSE pc[th]]
  /\ gil' = None
  /\ UNCHANGED <<tgt, joiner, waited, joined, live, fin, seen, exit>>

TaskReturns(t) == InProgram(t) /\ Finish(t, FALSE)

TaskFails(t) ==
  /\ status = "running"
  /\ pc[t] = "raise"
  /\ Finish(t, TRUE)

WorkerStart(t) ==
  /\ status = "running"
  /\ pc[t] = "start"
  /\ gil = None
  /\ gil' = t
  /\ Goto(t, "run")
  /\ UNCHANGED <<tgt, joiner, otask, live, fin, seen, exit>>

ThreadExits(t) ==
  /\ status = "running"
  /\ pc[t] = "ended"
  /\ Goto(t, "gone")
  /\ UNCHANGED <<gil, tgt, joiner, otask, live, fin, seen, exit>>
-----------------------------------------------------------------------------
(* What follows join_task(t).  In b_wait: the failure is raised again, or  *)
(* the result returned.  In tasks_finish: a failure nobody waited for ends *)
(* the process, there and then; otherwise the loop goes on.                *)
WaitReturns(th, t) ==
  /\ Goto(th, IF errtext[t] THEN "raise" ELSE "run")
  /\ seen' = seen \cup {t}
  /\ UNCHANGED exit

(* Mutants of FinishReturns: the failure is passed over; t->waited is not  *)
(* tested.                                                                 *)
FinishForgives(t) == Goto(Main, "run") /\ UNCHANGED <<seen, exit>>

FinishIgnoresWaited(t) ==
  /\ Goto(Main, "run")
  /\ IF errtext[t] THEN status' = "exit1" /\ reported' = t ELSE UNCHANGED exit
  /\ UNCHANGED seen

FinishReturns(t) ==
  /\ Goto(Main, "run")
  /\ IF errtext[t] /\ ~waited[t]
     THEN status' = "exit1" /\ reported' = t
     ELSE UNCHANGED exit
  /\ UNCHANGED seen

AfterJoin(th, t) ==
  /\ tgt' = [tgt EXCEPT ![th] = None]
  /\ gil' = th
  /\ IF th = Main /\ fin THEN FinishReturns(t) ELSE WaitReturns(th, t)

(* join_task(t) by a thread that has the lock, up to where it gives the    *)
(* lock up or returns.  pthread_join takes the first caller as the joiner; *)
(* which of two calls comes first is decided outside the lock.             *)
JoinTask(th, t) ==
  \/ /\ ~done[t]
     /\ Goto(th, "cond")
     /\ tgt' = [tgt EXCEPT ![th] = t]
     /\ gil' = None
     /\ UNCHANGED <<joiner, seen, exit>>
  \/ /\ done[t] /\ ~joined[t]
     /\ Goto(th, "join")
     /\ tgt' = [tgt EXCEPT ![th] = t]
     /\ gil' = None
     /\ \E first \in {th, joiner[t]} \ {None} :
          joiner' = [joiner EXCEPT ![t] = first]
     /\ UNCHANGED <<seen, exit>>
  \/ /\ done[t] /\ joined[t]
     /\ AfterJoin(th, t)
     /\ UNCHANGED joiner

(* b_wait(): the handle may be waited for by any thread, also by the task  *)
(* itself.  The handle of a thread that never started is not available:    *)
(* the error unwound it from the spawner's stack.                          *)
Wait(th, t) ==
  /\ InProgram(th)
  /\ pc[t] \notin {"idle", "nothread"}
  /\ waited' = [waited EXCEPT ![t] = TRUE]
  /\ JoinTask(th, t)
  /\ UNCHANGED <<done, errtext, joined, live, fin>>

(* pthread_cond_wait wakes on the broadcast, and may wake without one; the *)
(* thread then takes the lock and tests t->done again.                     *)
SpuriousWake(th) ==
  /\ status = "running"
  /\ pc[th] = "cond"
  /\ Goto(th, "woken")
  /\ UNCHANGED <<gil, tgt, joiner, otask, live, fin, seen, exit>>

(* Mutant of Reacquire: `if (!t->done)` in place of `while`.               *)
ReacquireTestsOnce(th) ==
  /\ status = "running"
  /\ pc[th] = "woken"
  /\ gil = None
  /\ AfterJoin(th, tgt[th])
  /\ UNCHANGED <<joiner, otask, live, fin>>

Reacquire(th) ==
  /\ status = "running"
  /\ pc[th] = "woken"
  /\ gil = None
  /\ JoinTask(th, tgt[th])
  /\ UNCHANGED <<otask, live, fin>>

(* Mutant of JoinReturn: the task stays in the live table.                 *)
JoinReturnKeepsLive(th) ==
  LET t == tgt[th] IN
  /\ status = "running"
  /\ pc[th] = "join"
  /\ gil = None
  /\ joiner[t] = th => pc[t] = "gone"
  /\ joined' = [joined EXCEPT ![t] = TRUE]
  /\ AfterJoin(th, t)
  /\ UNCHANGED <<joiner, live, done, errtext, waited, fin>>

(* The thread recorded as joiner comes back once the target has exited.    *)
(* For any other caller the call is undefined: here it fails at once (the  *)
(* code ignores the result) or takes the process down.  Then the lock is   *)
(* taken again, the task is marked joined and leaves the live table.       *)
JoinReturn(th) ==
  LET t == tgt[th] IN
  /\ status = "running"
  /\ pc[th] = "join"
  /\ gil = None
  /\ joiner[t] = th => pc[t] = "gone"
  /\ joined' = [joined EXCEPT ![t] = TRUE]
  /\ live' = Unlive(live, t)
  /\ AfterJoin(th, t)
  /\ UNCHANGED <<joiner, done, errtext, waited, fin>>

DoubleJoinCrashes(th) ==
  /\ status = "running"
  /\ pc[th] = "join"
  /\ joiner[tgt[th]] # th
  /\ status' = "crash"
  /\ UNCHANGED <<pc, gil, tgt, joiner, otask, live, fin, seen, reported>>
-----------------------------------------------------------------------------
(* OP_HALT of the main program: enter tasks_finish ...                     *)
Halt ==
  /\ InProgram(Main)
  /\ fin' = TRUE
  /\ UNCHANGED <<pc, gil, tgt, joiner, otask, live, seen, exit>>

(* ... which joins live[0] until the table is empty ...                    *)
FinishNext ==
  /\ status = "running"
  /\ fin /\ pc[Main] = "run"
  /\ live # <<>>
  /\ JoinTask(Main, live[1])
  /\ UNCHANGED <<otask, live, fin>>

(* Mutant of ExitOk: the loop of tasks_finish is left after one round.     *)
ExitEarly ==
  /\ status = "running"
  /\ fin /\ pc[Main] = "run"
  /\ status' = "exit0"
  /\ gil' = None
  /\ UNCHANGED <<pc, tgt, joiner, otask, live, fin, seen, reported>>

(* ... and then the process ends with status 0.                            *)
ExitOk ==
  /\ status = "running"
  /\ fin /\ pc[Main] = "run"
  /\ live = <<>>
  /\ status' = "exit0"
  /\ gil' = None
  /\ UNCHANGED <<pc, tgt, joiner, otask, live, fin, seen, reported>>
-----------------------------------------------------------------------------
(* The steps that take or drop no task handle.                             *)
ThreadStep(th) ==
  \/ \E t \in Tasks : SpawnFails(th, t)
  \/ TooManyTasks(th) \/ RuntimeError(th) \/ Catch(th)
  \/ BlockIo(th) \/ IoReturn(th)
  \/ SpuriousWake(th) \/ Reacquire(th) \/ JoinReturn(th)
  \/ DoubleJoinCrashes(th)

TaskStep(t) ==
  TaskReturns(t) \/ TaskFails(t) \/ WorkerStart(t) \/ ThreadExits(t)

MainStep == MainDies \/ Halt \/ FinishNext \/ ExitOk

Next ==
  \/ \E th \in Threads, t \in Tasks : Spawn(th, t) \/ Wait(th, t)
  \/ \E th \in Threads : ThreadStep(th)
  \/ \E t \in Tasks : TaskStep(t)
  \/ MainStep

(* Fairness.  The lock is contended: strong fairness says that a thread    *)
(* which keeps finding it free gets it in the end.  Ends is an assumption  *)
(* about Vidyax programs: no thread executes bytecode for ever.  The other *)
(* steps run without waiting for anybody.                                  *)
Acquire(th) ==
  IoReturn(th) \/ Reacquire(th) \/ JoinReturn(th)
    \/ (th \in Tasks /\ WorkerStart(th))

Ends(th) == IF th = Main THEN Halt ELSE TaskReturns(th)

Lands(th) == Catch(th) \/ (IF th = Main THEN MainDies ELSE TaskFails(th))

Fairness ==
  /\ \A th \in Threads : SF_vars(Acquire(th)) /\ SF_vars(Ends(th))
                           /\ WF_vars(Lands(th))
  /\ \A t \in Tasks : WF_vars(ThreadExits(t))
  /\ WF_vars(FinishNext) /\ WF_vars(ExitOk)

Spec == Init /\ [][Next]_vars
FairSpec == Spec /\ Fairness
-----------------------------------------------------------------------------
TypeOK ==
  /\ pc \in [Threads -> Where]
  /\ gil \in Threads \cup {None}
  /\ tgt \in [Threads -> Tasks \cup {None}]
  /\ joiner \in [Tasks -> Threads \cup {None}]
  /\ done \in [Tasks -> BOOLEAN]
  /\ errtext \in [Tasks -> BOOLEAN]
  /\ waited \in [Tasks -> BOOLEAN]
  /\ joined \in [Tasks -> BOOLEAN]
  /\ live \in Seq(Tasks)
  /\ fin \in BOOLEAN
  /\ seen \subseteq Tasks
  /\ status \in {"running", "exit0", "exit1", "crash"}
  /\ reported \in Tasks \cup {None}

(* The interpreter lock serialises bytecode: while the process runs, the   *)
(* threads that execute are exactly the holder of vx_gil (task.c:5-8).     *)
GilSerialises ==
  status = "running" => \A th \in Threads : pc[th] \in Executing <=> gil = th

(* No lost wakeup: a thread asleep in pthread_cond_wait waits for a task   *)
(* that is not done, because done and the broadcast happen under the lock  *)
(* that the sleeper held when it tested t->done (task.c:64-66, 163-165).   *)
NoLostWakeup == \A th \in Threads : pc[th] = "cond" => ~done[tgt[th]]

(* The live table is exactly the set of tasks created and not yet joined,  *)
(* each once, whatever order waiters and tasks_finish remove them in, and  *)
(* with two of them joining the same task (task.c:134, 158-171).           *)
LiveIsUnjoined ==
  /\ \A i, j \in DOMAIN live : live[i] = live[j] => i = j
  /\ \A t \in Tasks : t \in Entries(live) <=> pc[t] # "idle" /\ ~joined[t]

(* A normal exit leaves nothing behind: every task created has run to its  *)
(* end and been joined, and every failure was raised again at some wait()  *)
(* (task.c:11-13, 183-191).                                                *)
CleanExit ==
  status = "exit0" =>
    \A t \in Created : done[t] /\ joined[t] /\ (errtext[t] => t \in seen)

(* The failure that ends the process is a real one that nobody waited for: *)
(* no wait() ever raised it as well (task.c:187).                          *)
ReportedOnce ==
  reported # None =>
    /\ status = "exit1"
    /\ errtext[reported] /\ ~waited[reported] /\ reported \notin seen

(* A task's outcome is final: once done, its result or error text is never *)
(* replaced, and a wait() hands out the outcome of finished tasks only     *)
(* (task.c:62-64, 173-181).                                                *)
OutcomeIsFinal ==
  [][ /\ \A t \in Tasks : done[t] => done'[t] /\ errtext'[t] = errtext[t]
      /\ \A t \in seen' \ seen : done[t] ]_vars

(* The strengthening that makes the invariants above inductive.            *)
(* Places: what a thread's place says about its other state.               *)
Places ==
  /\ \A t \in Tasks : done[t] <=> pc[t] \in {"ended", "gone"}
  /\ \A th \in Threads : pc[th] \in InJoin <=> tgt[th] # None
  /\ \A th \in Threads : pc[th] = "join" => done[tgt[th]]
  /\ pc[Main] \in Executing \cup InJoin \cup {"io"}
  /\ fin => pc[Main] \in {"run"} \cup InJoin

(* Debts: a task marked waited owes its outcome to somebody who is still   *)
(* inside the wait; a failed task that was joined unreported was waited    *)
(* for.  This is what makes the test in tasks_finish sufficient.           *)
Debts ==
  /\ \A t \in Tasks : joined[t] \/ errtext[t] \/ t \in seen => done[t]
  /\ \A t \in seen : waited[t]
  /\ \A th \in Threads : InWait(th) => waited[tgt[th]]
  /\ \A t \in Tasks : waited[t] /\ t \notin seen =>
       \E th \in Threads : InWait(th) /\ tgt[th] = t
  /\ status = "running" =>
       \A t \in Tasks : joined[t] /\ errtext[t] => waited[t]

IInv ==
  /\ TypeOK /\ GilSerialises /\ NoLostWakeup /\ LiveIsUnjoined
  /\ CleanExit /\ ReportedOnce
  /\ Places /\ Debts

(* A waiter that never comes back: a set of tasks each of which waits for  *)
(* another one of the set.  docs/CONCURRENCY.md has no timeout in v1.      *)
WaitKnot ==
  \E K \in SUBSET Tasks \ {{}} :
    \A t \in K : pc[t] \in {"cond", "woken"} /\ tgt[t] \in K

(* If the tasks of the program never wait in a circle and no               *)
(* pthread_create fails, the process ends: no wakeup, join or exit is lost *)
(* (task.c:158-191).                                                       *)
Terminates ==
  [](~WaitKnot /\ \A t \in Tasks : pc[t] # "nothread")
    => <>(status # "running")

(* Whoever waits for a finished task gets out of the wait, also while other *)
(* tasks wait in a circle for ever (task.c:163-181).                       *)
DoneWaitReturns ==
  \A th \in Threads :
    (pc[th] \in InJoin /\ done[tgt[th]])
      ~> (pc[th] \notin InJoin \/ status # "running")

-----------------------------------------------------------------------------
(* VxTasks implements TaskPromise.                                         *)
Outcome(t) ==
  IF pc[t] = "idle" THEN "unborn"
  ELSE IF ~done[t] THEN "pending"
  ELSE IF errtext[t] THEN "err" ELSE "ok"

Outcomes == [t \in Tasks |-> Outcome(t)]

Promise == INSTANCE TaskPromise WITH outcome <- Outcomes

(* Each step of the threads, the lock and the live table is a step of the  *)
(* promise or invisible to it (task.c:31-191).                             *)
ImplementsPromise == Promise!Spec
=============================================================================
