----------------------------- MODULE VxTaskGC -----------------------------
(***************************************************************************)
(* The task objects of VxTasks under the garbage collector (vm/gc.c): the  *)
(* collector runs on whatever thread holds vx_gil, at a safepoint of its   *)
(* dispatch loop, while the other threads are frozen in their blocking     *)
(* calls.  It marks what the program can still name, what waiters hold on  *)
(* their own stacks and the live table, sweeps the other OTasks and frees  *)
(* each one's VmCtx - which stays linked in vx_all_ctxs.                   *)
(***************************************************************************)
EXTENDS VxTasks

VARIABLES
  named,   \* tasks whose handle the program can still reach
  swept    \* tasks whose OTask and VmCtx have been freed

gcvars  == <<named, swept>>
allvars == <<vars, gcvars>>

GInit == Init /\ named = {} /\ swept = {}

(* Mutants of Roots: without the waiters' stacks; without the live table.  *)
RootsNoWaiters == named \cup Entries(live)
RootsNotLive ==
  named \cup {tgt[th] : th \in {u \in Threads : InWait(u)}}

(* b_wait works on its caller's argument slots, which are on a marked      *)
(* stack; tasks_finish has nothing but the C local `t`.                    *)
Roots == named \cup {tgt[th] : th \in {u \in Threads : InWait(u)}}
               \cup Entries(live)

(* vx_register_ctx: before pthread_create, and never undone.               *)
Registered == Created

GSpawn(th, t) ==
  /\ Spawn(th, t)
  /\ named' = named \cup {t}
  /\ UNCHANGED swept

GWait(th, t) ==
  /\ t \in named
  /\ Wait(th, t)
  /\ UNCHANGED gcvars

(* The program overwrites the last variable, list slot or stack slot that  *)
(* held the handle.                                                        *)
DropHandle(th, t) ==
  /\ InProgram(th)
  /\ t \in named
  /\ named' = named \ {t}
  /\ UNCHANGED <<vars, swept>>

(* gc(): walk every registered context, mark, sweep.                       *)
Collect(th) ==
  /\ InProgram(th)
  /\ swept' = swept \cup (Created \ Roots)
  /\ UNCHANGED <<vars, named>>

(* Memory that was freed is read: by the collector, or by tasks_finish     *)
(* when it looks at its task again.  The old contents may still be there   *)
(* (the steps above go on with them), or the process dies.                 *)
FreedMemoryRead ==
  \/ \E th \in Threads : InProgram(th) /\ Registered \cap swept # {}
  \/ pc[Main] \in {"woken", "join"} /\ InFinish /\ gil = None
       /\ tgt[Main] \in swept

UseAfterFreeCrashes ==
  /\ status = "running"
  /\ FreedMemoryRead
  /\ status' = "crash"
  /\ UNCHANGED <<pc, gil, tgt, joiner, otask, live, fin, seen, reported,
                 gcvars>>

GNext ==
  \/ \E th \in Threads, t \in Tasks :
       GSpawn(th, t) \/ GWait(th, t) \/ DropHandle(th, t)
  \/ \E th \in Threads : ThreadStep(th) /\ UNCHANGED gcvars
  \/ \E t \in Tasks : TaskStep(t) /\ UNCHANGED gcvars
  \/ MainStep /\ UNCHANGED gcvars
  \/ \E th \in Threads : Collect(th)
  \/ UseAfterFreeCrashes

GSpec == GInit /\ [][GNext]_allvars
-----------------------------------------------------------------------------
GTypeOK ==
  /\ TypeOK
  /\ named \subseteq Tasks
  /\ swept \subseteq Tasks

(* What a collection frees is settled, whoever collects and whoever dropped *)
(* the handle: the task was joined, and if it failed its failure has been   *)
(* raised at some wait(), so no error report is freed unread; the program   *)
(* cannot name it, no waiter is left inside join_task with it, and one      *)
(* thread at most still has it in hand - main in tasks_finish, in the C     *)
(* local of task.c:185, after some wait() has had the outcome.  That one    *)
(* case (and the registry of contexts, vm.c:18-21) is the memory that       *)
(* UseAfterFreeCrashes reads; gc.c:149-150 says there is none               *)
(* (task.c:158-191, gc.c:247-252, 263-287).                                 *)
FreedIsSettled ==
  \A t \in swept :
    /\ joined[t] /\ (errtext[t] => t \in seen)
    /\ t \notin named
    /\ \A th \in Threads : tgt[th] = t => ~InWait(th) /\ t \in seen
=============================================================================
