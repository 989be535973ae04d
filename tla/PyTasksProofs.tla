--------------------------- MODULE PyTasksProofs ---------------------------
(***************************************************************************)
(* Proofs about PyTasks, for every set of tasks.                           *)
(***************************************************************************)
EXTENDS PyTasks, TLAPS

Entries(s) == {s[i] : i \in DOMAIN s}

(* What a thread's place says about its task and about the others.         *)
Places ==
  /\ \A th \in Threads :
       pc[th] = "spawn" => tgt[th] \in Tasks /\ pc[tgt[th]] = "made"
  /\ \A th, u \in Threads :
       pc[th] = "spawn" /\ pc[u] = "spawn" /\ tgt[th] = tgt[u] => th = u
  /\ \A th \in Threads : pc[th] \in {"join", "popped"} => tgt[th] \in Tasks
  /\ pc[Main] \in {"run", "spawn", "raise", "popped", "join", "gone"}
  /\ fin => pc[Main] \in {"run", "popped", "join", "gone"}
  /\ \A th \in Threads : pc[th] = "popped" => th = Main /\ fin
  /\ cause = "end" => pc[Main] = "gone" /\ fin /\ all = <<>>
  /\ cause \in {"own", "task", "fault"} => pc[Main] = "gone"

(* A task main is done with in _finish_tasks, and the one it is about.     *)
Settled(t) == pc[t] = "gone" /\ (err[t] => waited[t])
InHand(t)  == pc[Main] \in {"popped", "join"} /\ tgt[Main] = t

(* No task is forgotten: each is still in _ALL_TASKS, or main has dealt or *)
(* deals with it - unless main has failed.                                 *)
Ledger ==
  cause \in {"none", "end"} =>
    \A t \in Created : t \in Entries(all) \/ (fin /\ (Settled(t) \/ InHand(t)))

(* A task marked waited owes its outcome to a wait that goes on, has given *)
(* it to one, or has waited for itself.                                    *)
InWait(th) == pc[th] = "join" /\ ~(th = Main /\ fin)

Debts ==
  \A t \in Tasks : waited[t] =>
    t \in seen \cup selves \/ \E th \in Threads : InWait(th) /\ tgt[th] = t

IInv == TypeOK /\ Places /\ Ledger /\ Debts

-----------------------------------------------------------------------------
(* list.append and list.pop.                                               *)
LEMMA AppendAdds ==
  ASSUME NEW s \in Seq(Tasks), NEW t \in Tasks
  PROVE  /\ Append(s, t) \in Seq(Tasks)
         /\ Entries(Append(s, t)) = Entries(s) \cup {t}
<1> DEFINE u == Append(s, t)
<1>1. /\ Len(s) \in Nat
      /\ DOMAIN s = 1..Len(s) /\ DOMAIN u = 1..(Len(s) + 1)
      /\ \A i \in 1..Len(s) : u[i] = s[i]
      /\ u[Len(s) + 1] = t
      /\ u \in Seq(Tasks)
  OBVIOUS
<1> HIDE DEF u
<1>2. QED
  BY <1>1 DEF Entries, u

LEMMA PopTakesLast ==
  ASSUME NEW s \in Seq(Tasks), s # <<>>
  PROVE  /\ Front(s) \in Seq(Tasks) /\ Last(s) \in Tasks
         /\ Entries(s) = Entries(Front(s)) \cup {Last(s)}
<1> DEFINE u == Front(s)
<1>1. /\ Len(s) \in Nat \ {0}
      /\ DOMAIN s = 1..Len(s) /\ \A i \in 1..Len(s) : s[i] \in Tasks
  OBVIOUS
<1>2. /\ u \in Seq(Tasks)
      /\ DOMAIN u = 1..(Len(s) - 1)
      /\ \A i \in 1..(Len(s) - 1) : u[i] = s[i]
  BY <1>1 DEF Front
<1> HIDE DEF u
<1>3. QED
  BY <1>1, <1>2 DEF Entries, Last, u

-----------------------------------------------------------------------------
LEMMA ThreadFacts ==
  /\ Main \in Threads /\ Main \notin Tasks /\ None \notin Tasks
  /\ \A t \in Tasks : t \in Threads
  BY PyTasksAssumption DEF Threads

LEMMA InitHolds == Init => IInv
<1> SUFFICES ASSUME Init PROVE IInv
  OBVIOUS
<1>0. /\ <<>> \in Seq(Tasks)
      /\ \A th \in Threads : pc[th] = IF th = Main THEN "run" ELSE "idle"
      /\ \A t \in Tasks : pc[t] = "idle" /\ ~waited[t]
      /\ cause = "none" /\ ~fin
  BY ThreadFacts DEF Init
<1>1. TypeOK
  BY <1>0, ThreadFacts DEF Init, TypeOK, Where
<1>2. Places
  BY <1>0, ThreadFacts DEF Places
<1>3. Ledger /\ Debts
  BY <1>0 DEF Ledger, Debts, Created
<1>4. QED
  BY <1>1, <1>2, <1>3 DEF IInv

(* A new task is in the list before it is given a thread.                  *)
LEMMA MakeHolds ==
  ASSUME IInv, NEW th \in Threads, NEW t \in Tasks, Make(th, t)
  PROVE  IInv'
<1>t. TypeOK /\ Places /\ Ledger /\ Debts
  BY DEF IInv
<1>0. /\ all' \in Seq(Tasks) /\ Entries(all') = Entries(all) \cup {t}
      /\ pc[th] = "run" /\ pc[t] = "idle" /\ th # t /\ ~(th = Main /\ fin)
      /\ pc' = [pc EXCEPT ![th] = "spawn", ![t] = "made"]
      /\ tgt' = [tgt EXCEPT ![th] = t]
      /\ UNCHANGED <<err, waited, fin, seen, selves, cause, ended>>
  BY <1>t, AppendAdds DEF Make, Aim, InProgram, TypeOK
<1>1. TypeOK'
  BY <1>t, <1>0, ThreadFacts DEF TypeOK, Where
<1>p. /\ Entries(all') = Entries(all) \cup {t}
      /\ pc[th] = "run" /\ pc[t] = "idle" /\ th # t /\ ~(th = Main /\ fin)
      /\ pc'[th] = "spawn" /\ pc'[t] = "made" /\ tgt'[th] = t
      /\ \A u \in Threads \ {th, t} : pc'[u] = pc[u]
      /\ \A u \in Threads \ {th} : tgt'[u] = tgt[u]
      /\ UNCHANGED <<err, waited, fin, seen, selves, cause, ended>>
  BY <1>t, <1>0, ThreadFacts DEF TypeOK
<1>e. cause # "end"
  <2>1. cause = "end" => th \in Created
    BY <1>t, <1>p DEF Places, Created, Threads
  <2>2. Entries(<<>>) = {}
    BY DEF Entries
  <2>3. QED
    BY <1>t, <1>p, <2>1, <2>2 DEF Places, Ledger, Settled, InHand
<1>2. Places'
  BY <1>t, <1>p, ThreadFacts, <1>e DEF Places
<1>3. Ledger'
  BY <1>t, <1>p, ThreadFacts DEF Ledger, Settled, InHand, Created, Places
<1>4. Debts'
  BY <1>t, <1>p, ThreadFacts DEF Debts, InWait
<1>5. QED
  BY <1>1, <1>2, <1>3, <1>4 DEF IInv

LEMMA StartHolds ==
  ASSUME IInv, NEW th \in Threads, Start(th) \/ StartFails(th)
  PROVE  IInv'
<1>t. TypeOK /\ Places /\ Ledger /\ Debts
  BY DEF IInv
<1>0. /\ pc[th] = "spawn" /\ tgt[th] \in Tasks /\ pc[tgt[th]] = "made"
      /\ \/ pc' = [pc EXCEPT ![th] = "run", ![tgt[th]] = "run"]
         \/ pc' = [pc EXCEPT ![th] = "raise", ![tgt[th]] = "nothread"]
      /\ tgt' = [tgt EXCEPT ![th] = None]
      /\ UNCHANGED <<all, err, waited, fin, seen, selves, cause, ended>>
  BY <1>t, ThreadFacts DEF Start, StartFails, Aim, Places
<1>1. TypeOK'
  BY <1>t, <1>0, ThreadFacts DEF TypeOK, Where
<1>p. \E t \in Tasks :
        /\ pc[th] = "spawn" /\ tgt[th] = t /\ pc[t] = "made" /\ th # t
        /\ pc'[th] \in {"run", "raise"} /\ pc'[t] \in {"run", "nothread"}
        /\ \A u \in Threads \ {th, t} : pc'[u] = pc[u]
        /\ \A u \in Threads \ {th} : tgt'[u] = tgt[u]
        /\ UNCHANGED <<all, err, waited, fin, seen, selves, cause, ended>>
  BY <1>t, <1>0, ThreadFacts DEF TypeOK
<1>2. Places'
  BY <1>t, <1>p, ThreadFacts DEF Places
<1>3. Ledger'
  BY <1>t, <1>p, ThreadFacts DEF Ledger, Settled, InHand, Created, Places
<1>4. Debts'
  BY <1>t, <1>p, ThreadFacts DEF Debts, InWait
<1>5. QED
  BY <1>1, <1>2, <1>3, <1>4 DEF IInv

(* An error is raised or caught.                                           *)
LEMMA ErrorHolds ==
  ASSUME IInv, NEW th \in Threads, RuntimeError(th) \/ Catch(th)
  PROVE  IInv'
<1>t. TypeOK /\ Places /\ Ledger /\ Debts
  BY DEF IInv
<1>0. /\ pc[th] \in {"run", "raise"} /\ ~(th = Main /\ fin)
      /\ \/ pc' = [pc EXCEPT ![th] = "run"]
         \/ pc' = [pc EXCEPT ![th] = "raise"]
      /\ UNCHANGED <<tgt, all, err, waited, fin, seen, selves, cause, ended>>
  BY <1>t, ThreadFacts DEF RuntimeError, Catch, InProgram, Goto
<1>1. TypeOK'
  BY <1>t, <1>0, ThreadFacts DEF TypeOK, Where
<1>p. /\ pc[th] \in {"run", "raise"} /\ ~(th = Main /\ fin)
      /\ pc'[th] \in {"run", "raise"}
      /\ \A u \in Threads \ {th} : pc'[u] = pc[u]
      /\ UNCHANGED <<tgt, all, err, waited, fin, seen, selves, cause, ended>>
  BY <1>t, <1>0, ThreadFacts DEF TypeOK
<1>2. Places'
  BY <1>t, <1>p, ThreadFacts DEF Places
<1>3. Ledger'
  BY <1>t, <1>p, ThreadFacts DEF Ledger, Settled, InHand, Created, Places
<1>4. Debts'
  BY <1>t, <1>p, ThreadFacts DEF Debts, InWait
<1>5. QED
  BY <1>1, <1>2, <1>3, <1>4 DEF IInv

LEMMA FinishHolds ==
  ASSUME IInv, NEW t \in Tasks, TaskReturns(t) \/ TaskFails(t)
  PROVE  IInv'
<1>t. TypeOK /\ Places /\ Ledger /\ Debts
  BY DEF IInv
<1>0. /\ pc[t] \in {"run", "raise"}
      /\ pc' = [pc EXCEPT ![t] = "gone"]
      /\ \/ err' = [err EXCEPT ![t] = TRUE]
         \/ err' = [err EXCEPT ![t] = FALSE]
      /\ UNCHANGED <<tgt, all, waited, fin, seen, selves, cause, ended>>
  BY <1>t, ThreadFacts DEF TaskReturns, TaskFails, Finish, Goto
<1>1. TypeOK'
  BY <1>t, <1>0, ThreadFacts DEF TypeOK, Where
<1>p. /\ pc[t] \in {"run", "raise"} /\ pc'[t] = "gone"
      /\ \A u \in Threads \ {t} : pc'[u] = pc[u]
      /\ \A u \in Tasks \ {t} : err'[u] = err[u]
      /\ UNCHANGED <<tgt, all, waited, fin, seen, selves, cause, ended>>
  BY <1>t, <1>0, ThreadFacts DEF TypeOK
<1>2. Places'
  BY <1>t, <1>p, ThreadFacts DEF Places
<1>3. Ledger'
  BY <1>t, <1>p, ThreadFacts DEF Ledger, Settled, InHand, Created, Places
<1>4. Debts'
  BY <1>t, <1>p, ThreadFacts DEF Debts, InWait
<1>5. QED
  BY <1>1, <1>2, <1>3, <1>4 DEF IInv

(* A wait marks its task and stays inside until it has the outcome.        *)
LEMMA WaitHolds ==
  ASSUME IInv, NEW th \in Threads, NEW t \in Tasks, Wait(th, t)
  PROVE  IInv'
<1>t. TypeOK /\ Places /\ Ledger /\ Debts
  BY DEF IInv
<1>0. /\ pc[th] = "run" /\ ~(th = Main /\ fin)
      /\ waited' = [waited EXCEPT ![t] = TRUE]
      /\ pc' = [pc EXCEPT ![th] = "join"]
      /\ tgt' = [tgt EXCEPT ![th] = t]
      /\ UNCHANGED <<all, err, fin, seen, selves, cause, ended>>
  BY <1>t, ThreadFacts DEF Wait, InProgram, Goto, Aim
<1>1. TypeOK'
  BY <1>t, <1>0, ThreadFacts DEF TypeOK, Where
<1>p. /\ pc[th] = "run" /\ ~(th = Main /\ fin)
      /\ pc'[th] = "join" /\ tgt'[th] = t /\ waited'[t]
      /\ \A u \in Threads \ {th} : pc'[u] = pc[u] /\ tgt'[u] = tgt[u]
      /\ \A u \in Tasks \ {t} : waited'[u] = waited[u]
      /\ UNCHANGED <<all, err, fin, seen, selves, cause, ended>>
  BY <1>t, <1>0, ThreadFacts DEF TypeOK
<1>2. Places'
  BY <1>t, <1>p, ThreadFacts DEF Places
<1>3. Ledger'
  BY <1>t, <1>p, ThreadFacts DEF Ledger, Settled, InHand, Created, Places
<1>4. Debts'
  BY <1>t, <1>p, ThreadFacts DEF Debts, InWait
<1>5. QED
  BY <1>1, <1>2, <1>3, <1>4 DEF IInv

LEMMA WaitSelfHolds ==
  ASSUME IInv, NEW t \in Tasks, WaitSelf(t)
  PROVE  IInv'
<1>t. TypeOK /\ Places /\ Ledger /\ Debts
  BY DEF IInv
<1>0. /\ pc[t] = "run"
      /\ waited' = [waited EXCEPT ![t] = TRUE]
      /\ selves' = selves \cup {t}
      /\ pc' = [pc EXCEPT ![t] = "raise"]
      /\ UNCHANGED <<tgt, all, err, fin, seen, cause, ended>>
  BY <1>t, ThreadFacts DEF WaitSelf, InProgram, Goto
<1>1. TypeOK'
  BY <1>t, <1>0, ThreadFacts DEF TypeOK, Where
<1>p. /\ pc[t] = "run" /\ pc'[t] = "raise" /\ waited'[t]
      /\ selves' = selves \cup {t}
      /\ \A u \in Threads \ {t} : pc'[u] = pc[u]
      /\ \A u \in Tasks \ {t} : waited'[u] = waited[u]
      /\ UNCHANGED <<tgt, all, err, fin, seen, cause, ended>>
  BY <1>t, <1>0, ThreadFacts DEF TypeOK
<1>2. Places'
  BY <1>t, <1>p, ThreadFacts DEF Places
<1>3. Ledger'
  BY <1>t, <1>p, ThreadFacts DEF Ledger, Settled, InHand, Created, Places
<1>4. Debts'
  BY <1>t, <1>p, ThreadFacts DEF Debts, InWait
<1>5. QED
  BY <1>1, <1>2, <1>3, <1>4 DEF IInv

LEMMA WaitReturnsHolds ==
  ASSUME IInv, NEW th \in Threads, WaitReturns(th)
  PROVE  IInv'
<1>t. TypeOK /\ Places /\ Ledger /\ Debts
  BY DEF IInv
<1>0. /\ pc[th] = "join" /\ ~(th = Main /\ fin) /\ tgt[th] \in Tasks
      /\ \/ pc' = [pc EXCEPT ![th] = "run"]
         \/ pc' = [pc EXCEPT ![th] = "raise"]
      /\ tgt' = [tgt EXCEPT ![th] = None]
      /\ seen' = seen \cup {tgt[th]}
      /\ UNCHANGED <<all, err, waited, fin, selves, cause, ended>>
  BY <1>t, ThreadFacts DEF WaitReturns, Goto, Aim, Places
<1>1. TypeOK'
  BY <1>t, <1>0, ThreadFacts DEF TypeOK, Where
<1>p. /\ pc[th] = "join" /\ ~(th = Main /\ fin)
      /\ pc'[th] \in {"run", "raise"}
      /\ seen' = seen \cup {tgt[th]}
      /\ \A u \in Threads \ {th} : pc'[u] = pc[u] /\ tgt'[u] = tgt[u]
      /\ UNCHANGED <<all, err, waited, fin, selves, cause, ended>>
  BY <1>t, <1>0, ThreadFacts DEF TypeOK
<1>2. Places'
  BY <1>t, <1>p, ThreadFacts DEF Places
<1>3. Ledger'
  BY <1>t, <1>p, ThreadFacts DEF Ledger, Settled, InHand, Created, Places
<1>4. Debts'
  BY <1>t, <1>p, ThreadFacts DEF Debts, InWait
<1>5. QED
  BY <1>1, <1>2, <1>3, <1>4 DEF IInv

-----------------------------------------------------------------------------
(* _finish_tasks: a task leaves the list when main takes it in hand, and   *)
(* main lets go of it when it is settled.                                  *)
LEMMA HaltHolds ==
  ASSUME IInv, Halt
  PROVE  IInv'
<1>t. TypeOK /\ Places /\ Ledger /\ Debts
  BY DEF IInv
<1>0. /\ pc[Main] = "run" /\ ~fin /\ fin'
      /\ fin' \in BOOLEAN
      /\ UNCHANGED <<pc, tgt, all, err, waited, seen, selves, cause, ended>>
  BY DEF Halt, InProgram
<1>1. TypeOK'
  BY <1>t, <1>0 DEF TypeOK
<1>2. Places' /\ Ledger'
  BY <1>t, <1>0 DEF Places, Ledger, Settled, InHand, Created
<1>3. Debts'
  BY <1>t, <1>0 DEF Debts, InWait
<1>4. QED
  BY <1>1, <1>2, <1>3 DEF IInv

LEMMA FinishPopHolds ==
  ASSUME IInv, FinishPop
  PROVE  IInv'
<1>t. TypeOK /\ Places /\ Ledger /\ Debts
  BY DEF IInv
<1>0. /\ fin /\ pc[Main] = "run" /\ Last(all) \in Tasks /\ all # <<>>
      /\ all' \in Seq(Tasks) /\ Entries(all) = Entries(all') \cup {Last(all)}
      /\ pc' = [pc EXCEPT ![Main] = "popped"]
      /\ tgt' = [tgt EXCEPT ![Main] = Last(all)]
      /\ UNCHANGED <<err, waited, fin, seen, selves, cause, ended>>
  BY <1>t, PopTakesLast DEF FinishPop, Goto, Aim, TypeOK
<1>1. TypeOK'
  BY <1>t, <1>0, ThreadFacts DEF TypeOK, Where
<1>p. \E t \in Tasks :
        /\ fin /\ pc[Main] = "run" /\ all # <<>>
        /\ Entries(all) = Entries(all') \cup {t}
        /\ pc'[Main] = "popped" /\ tgt'[Main] = t
        /\ \A u \in Threads \ {Main} : pc'[u] = pc[u] /\ tgt'[u] = tgt[u]
        /\ UNCHANGED <<err, waited, fin, seen, selves, cause, ended>>
  BY <1>t, <1>0, ThreadFacts DEF TypeOK
<1>2. Places'
  BY <1>t, <1>p, ThreadFacts DEF Places
<1>3. Ledger'
  BY <1>t, <1>p, ThreadFacts DEF Ledger, Settled, InHand, Created, Places
<1>4. Debts'
  BY <1>t, <1>p, ThreadFacts DEF Debts, InWait
<1>5. QED
  BY <1>1, <1>2, <1>3, <1>4 DEF IInv

LEMMA FinishJoinHolds ==
  ASSUME IInv, FinishJoin
  PROVE  IInv'
<1>t. TypeOK /\ Places /\ Ledger /\ Debts
  BY DEF IInv
<1>0. /\ fin /\ pc[Main] = "popped"
      /\ \/ pc' = [pc EXCEPT ![Main] = "gone"] /\ cause' = "fault"
         \/ pc' = [pc EXCEPT ![Main] = "join"] /\ cause' = cause
      /\ UNCHANGED <<tgt, all, err, waited, fin, seen, selves, ended>>
  BY <1>t, ThreadFacts DEF FinishJoin, MainEnds, Goto, Places
<1>1. TypeOK'
  BY <1>t, <1>0, ThreadFacts DEF TypeOK, Where
<1>p. /\ fin /\ pc[Main] = "popped"
      /\ \/ pc'[Main] = "gone" /\ cause' = "fault"
         \/ pc'[Main] = "join" /\ cause' = cause
      /\ \A u \in Threads \ {Main} : pc'[u] = pc[u]
      /\ UNCHANGED <<tgt, all, err, waited, fin, seen, selves, ended>>
  BY <1>t, <1>0, ThreadFacts DEF TypeOK
<1>2. Places'
  BY <1>t, <1>p, ThreadFacts DEF Places
<1>3. Ledger'
  BY <1>t, <1>p, ThreadFacts DEF Ledger, Settled, InHand, Created, Places
<1>4. Debts'
  BY <1>t, <1>p, ThreadFacts DEF Debts, InWait
<1>5. QED
  BY <1>1, <1>2, <1>3, <1>4 DEF IInv

LEMMA FinishReturnsHolds ==
  ASSUME IInv, FinishReturns
  PROVE  IInv'
<1>t. TypeOK /\ Places /\ Ledger /\ Debts
  BY DEF IInv
<1>0. /\ fin /\ pc[Main] = "join" /\ pc[tgt[Main]] = "gone" /\ tgt[Main] \in Tasks
      /\ \/ pc' = [pc EXCEPT ![Main] = "gone"] /\ cause' = "task"
         \/ /\ pc' = [pc EXCEPT ![Main] = "run"] /\ cause' = cause
            /\ err[tgt[Main]] => waited[tgt[Main]]
      /\ tgt' = [tgt EXCEPT ![Main] = None]
      /\ UNCHANGED <<all, err, waited, fin, seen, selves, ended>>
  BY <1>t, ThreadFacts DEF FinishReturns, MainEnds, Goto, Aim, Places
<1>1. TypeOK'
  BY <1>t, <1>0, ThreadFacts DEF TypeOK, Where
<1>p. \E t \in Tasks :
        /\ fin /\ pc[Main] = "join" /\ pc[t] = "gone" /\ tgt[Main] = t
        /\ \/ pc'[Main] = "gone" /\ cause' = "task"
           \/ pc'[Main] = "run" /\ cause' = cause /\ (err[t] => waited[t])
        /\ \A u \in Threads \ {Main} : pc'[u] = pc[u] /\ tgt'[u] = tgt[u]
        /\ UNCHANGED <<all, err, waited, fin, seen, selves, ended>>
  BY <1>t, <1>0, ThreadFacts DEF TypeOK
<1>2. Places'
  BY <1>t, <1>p, ThreadFacts DEF Places
<1>3. Ledger'
  BY <1>t, <1>p, ThreadFacts DEF Ledger, Settled, InHand, Created, Places
<1>4. Debts'
  BY <1>t, <1>p, ThreadFacts DEF Debts, InWait
<1>5. QED
  BY <1>1, <1>2, <1>3, <1>4 DEF IInv

LEMMA ExitHolds ==
  ASSUME IInv, ExitOk \/ MainDies \/ ProcessEnds
  PROVE  IInv'
<1>t. TypeOK /\ Places /\ Ledger /\ Debts
  BY DEF IInv
<1>0. /\ pc[Main] \in {"run", "raise", "gone"}
      /\ \/ pc' = pc /\ cause' = cause /\ pc[Main] = "gone"
         \/ /\ pc' = [pc EXCEPT ![Main] = "gone"]
            /\ \/ cause' = "own"
               \/ cause' = "end" /\ fin /\ all = <<>> /\ pc[Main] = "run"
      /\ ended' \in BOOLEAN
      /\ UNCHANGED <<tgt, all, err, waited, fin, seen, selves>>
  BY <1>t, ThreadFacts DEF ExitOk, MainDies, ProcessEnds, MainEnds, Goto, TypeOK
<1>1. TypeOK'
  BY <1>t, <1>0, ThreadFacts DEF TypeOK, Where
<1>p. /\ pc[Main] \in {"run", "raise", "gone"} /\ pc'[Main] = "gone"
      /\ \/ cause' = cause /\ pc[Main] = "gone"
         \/ cause' = "own"
         \/ cause' = "end" /\ fin /\ all = <<>> /\ pc[Main] = "run"
      /\ \A u \in Threads \ {Main} : pc'[u] = pc[u]
      /\ UNCHANGED <<tgt, all, err, waited, fin, seen, selves>>
  BY <1>t, <1>0, ThreadFacts DEF TypeOK
<1>2. Places'
  BY <1>t, <1>p, ThreadFacts DEF Places
<1>3. Ledger'
  <2>1. pc[Main] = "run" => cause = "none"
    BY <1>t DEF TypeOK, Places
  <2>2. QED
    BY <1>t, <1>p, <2>1, ThreadFacts DEF Ledger, Settled, InHand, Created
<1>4. Debts'
  BY <1>t, <1>p, ThreadFacts DEF Debts, InWait
<1>5. QED
  BY <1>1, <1>2, <1>3, <1>4 DEF IInv

LEMMA NextHolds == IInv /\ [Next]_vars => IInv'
<1> SUFFICES ASSUME IInv, [Next]_vars PROVE IInv'
  OBVIOUS
<1>1. ASSUME NEW th \in Threads, ThreadStep(th) PROVE IInv'
  BY <1>1, MakeHolds, WaitHolds, StartHolds, ErrorHolds, WaitReturnsHolds
  DEF ThreadStep
<1>2. ASSUME NEW t \in Tasks, TaskReturns(t) \/ TaskFails(t) \/ WaitSelf(t)
      PROVE  IInv'
  BY <1>2, FinishHolds, WaitSelfHolds
<1>3. CASE Halt \/ FinishPop \/ FinishJoin \/ FinishReturns
  BY <1>3, HaltHolds, FinishPopHolds, FinishJoinHolds, FinishReturnsHolds
<1>4. CASE ExitOk \/ MainDies \/ ProcessEnds
  BY <1>4, ExitHolds
<1>5. CASE UNCHANGED vars
  BY <1>5 DEF vars, IInv, TypeOK, Places, Ledger, Settled, InHand, Created,
              Debts, InWait
<1>6. QED
  BY <1>1, <1>2, <1>3, <1>4, <1>5 DEF Next

(* The inductive invariant, for any number of tasks that start, wait for   *)
(* each other and themselves, fail and fail to start (vidyax.py:2021-2065).*)
THEOREM Invariance == Spec => []IInv
<1>1. QED
  BY InitHolds, NextHolds, PTL DEF Spec

(* When the program ends well no task runs, and every failure was raised   *)
(* by a wait (vidyax.py:2058-2065).                                        *)
THEOREM CleanExitAlways == Spec => []CleanExit
<1>1. IInv => CleanExit
  <2> SUFFICES ASSUME IInv, cause = "end", NEW t \in Created
               PROVE  pc[t] = "gone" /\ (err[t] => t \in seen \cup selves)
    BY DEF CleanExit
  <2>1. all = <<>> /\ pc[Main] = "gone" /\ TypeOK
    BY DEF IInv, Places
  <2>2. \A u \in Created : Settled(u)
    BY <2>1 DEF IInv, Ledger, InHand, Entries
  <2>3. \A th \in Threads : ~InWait(th)
    BY <2>1, <2>2 DEF InWait, Settled, Created, Threads
  <2>4. t \in Tasks
    BY DEF Created
  <2>5. QED
    BY <2>2, <2>3, <2>4 DEF IInv, Debts, Settled
<1>2. QED
  BY <1>1, Invariance, PTL
=============================================================================
