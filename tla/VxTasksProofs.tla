--------------------------- MODULE VxTasksProofs ---------------------------
(***************************************************************************)
(* Proofs about VxTasks and VxTaskGC, for every set of tasks and every     *)
(* table size.                                                             *)
(***************************************************************************)
EXTENDS VxTaskGC, TLAPS

NoRepeats(s) == \A i, j \in DOMAIN s : s[i] = s[j] => i = j

-----------------------------------------------------------------------------
(* unlive() takes out exactly the given entry and keeps the others, each   *)
(* once, whatever it moves (task.c:158-161).                               *)
LEMMA UnliveRemoves ==
  ASSUME NEW s \in Seq(Tasks), NEW t \in Tasks, NoRepeats(s)
  PROVE  /\ Unlive(s, t) \in Seq(Tasks)
         /\ NoRepeats(Unlive(s, t))
         /\ Entries(Unlive(s, t)) = Entries(s) \ {t}
<1>1. CASE t \notin Entries(s)
  BY <1>1 DEF Unlive, Entries
<1>2. CASE t \in Entries(s)
  <2> DEFINE n == Len(s)
             u == [i \in 1..(n - 1) |-> IF s[i] = t THEN s[n] ELSE s[i]]
  <2>1. Unlive(s, t) = u
    BY <1>2 DEF Unlive
  <2>2. /\ n \in Nat
        /\ DOMAIN s = 1..n
        /\ \A i \in 1..n : s[i] \in Tasks
    OBVIOUS
  <2>3. PICK h \in 1..n : s[h] = t
    BY <1>2, <2>2 DEF Entries
  <2>4. n \in 1..n /\ n - 1 \in Nat
    BY <2>2, <2>3
  <2>5. u \in Seq(Tasks) /\ DOMAIN u = 1..(n - 1)
    <3>1. \A i \in 1..(n - 1) : i \in 1..n
      BY <2>2, <2>4
    <3>2. u \in [1..(n - 1) -> Tasks]
      BY <2>2, <2>4, <3>1
    <3>3. QED
      BY <3>2, <2>4
  <2>6. NoRepeats(u)
    BY <2>2, <2>3, <2>4, <2>5 DEF NoRepeats
  <2>7. Entries(u) = Entries(s) \ {t}
    <3>1. ASSUME NEW i \in 1..(n - 1)
          PROVE  u[i] \in Entries(s) \ {t}
      BY <2>2, <2>3, <2>4 DEF Entries, NoRepeats
    <3>2. ASSUME NEW x \in Entries(s) \ {t}
          PROVE  \E i \in 1..(n - 1) : u[i] = x
      <4>1. PICK k \in 1..n : s[k] = x
        BY <2>2 DEF Entries
      <4>2. k # h
        BY <2>3, <4>1
      <4>3. CASE s[n] = x
        <5>1. h \in 1..(n - 1)
          <6>1. s[n] # t
            BY <4>3
          <6>2. h # n
            BY <6>1, <2>3
          <6>3. QED
            BY <6>2, <2>4
        <5>2. u[h] = x
          BY <5>1, <2>3, <4>3
        <5>3. QED
          BY <5>1, <5>2
      <4>4. CASE s[n] # x
        <5>1. k # n
          BY <4>1, <4>4
        <5>2. k \in 1..(n - 1)
          BY <5>1, <2>4
        <5>3. QED
          BY <5>2, <4>1
      <4>5. QED
        BY <4>3, <4>4
    <3>3. QED
      BY <3>1, <3>2, <2>5 DEF Entries
  <2>8. QED
    BY <2>1, <2>5, <2>6, <2>7
<1>3. QED
  BY <1>1, <1>2

(* task_spawn adds its task at the end of the table (task.c:134).          *)
LEMMA AppendAdds ==
  ASSUME NEW s \in Seq(Tasks), NEW t \in Tasks, NoRepeats(s),
         t \notin Entries(s)
  PROVE  /\ Append(s, t) \in Seq(Tasks)
         /\ NoRepeats(Append(s, t))
         /\ Entries(Append(s, t)) = Entries(s) \cup {t}
<1> DEFINE u == Append(s, t)
<1>1. /\ Len(s) \in Nat
      /\ DOMAIN s = 1..Len(s)
      /\ u \in Seq(Tasks)
      /\ DOMAIN u = 1..(Len(s) + 1)
      /\ \A i \in 1..Len(s) : u[i] = s[i]
      /\ u[Len(s) + 1] = t
  OBVIOUS
<1>2. \A i \in 1..(Len(s) + 1) : i \in 1..Len(s) \/ i = Len(s) + 1
  BY <1>1
<1>3. Entries(u) = Entries(s) \cup {t}
  <2>1. \A i \in 1..(Len(s) + 1) : u[i] \in Entries(s) \cup {t}
    BY <1>1, <1>2 DEF Entries
  <2>2. ASSUME NEW x \in Entries(s) \cup {t}
        PROVE  \E i \in 1..(Len(s) + 1) : u[i] = x
    <3>1. CASE x = t
      BY <3>1, <1>1
    <3>2. CASE x \in Entries(s)
      <4>1. PICK i \in 1..Len(s) : s[i] = x
        BY <3>2, <1>1 DEF Entries
      <4>2. i \in 1..(Len(s) + 1)
        BY <1>1
      <4>3. QED
        BY <1>1, <4>1, <4>2
    <3>3. QED
      BY <3>1, <3>2
  <2>3. QED
    BY <2>1, <2>2, <1>1 DEF Entries
<1>4. NoRepeats(u)
  BY <1>1, <1>2 DEF NoRepeats, Entries
<1>5. QED
  BY <1>1, <1>3, <1>4
-----------------------------------------------------------------------------
LEMMA InitIInv == Init => IInv
<1> SUFFICES ASSUME Init PROVE IInv
  OBVIOUS
<1> USE TaskAssumption DEF Init
<1>1. TypeOK
  <2>1. live \in Seq(Tasks)
    OBVIOUS
  <2>2. QED
    BY <2>1 DEF TypeOK, Threads, Where
<1>2. GilSerialises /\ NoLostWakeup /\ Places
  BY DEF GilSerialises, NoLostWakeup, Places, Threads, Executing, InJoin
<1>3. LiveIsUnjoined
  BY DEF LiveIsUnjoined, Entries, Threads
<1>4. CleanExit /\ ReportedOnce /\ Debts
  BY DEF CleanExit, ReportedOnce, Debts, InWait, InJoin, Threads
<1>5. QED
  BY <1>1, <1>2, <1>3, <1>4 DEF IInv

(* join_task up to where it blocks or returns, whoever called it.          *)
LEMMA JoinTaskIInv ==
  ASSUME NEW th \in Threads, NEW t \in Tasks, IInv, status = "running",
         \/ pc[th] = "run" /\ gil = th
         \/ pc[th] = "woken" /\ gil = None /\ tgt[th] = t,
         waited' \in {waited, [waited EXCEPT ![t] = TRUE]},
         IF th = Main /\ fin THEN waited' = waited ELSE waited'[t],
         JoinTask(th, t), UNCHANGED <<done, errtext, joined, live, fin>>
  PROVE  IInv'
<1> USE TaskAssumption
<1>0. /\ TypeOK /\ GilSerialises /\ NoLostWakeup /\ LiveIsUnjoined
      /\ CleanExit /\ ReportedOnce /\ Places /\ Debts
  BY DEF IInv
<1> USE <1>0
<1>1. CASE ~done[t] /\ Goto(th, "cond") /\ tgt' = [tgt EXCEPT ![th] = t]
           /\ gil' = None /\ UNCHANGED <<joiner, seen, exit>>
  <2> USE <1>1
  <2>1. TypeOK'
    BY DEF TypeOK, Where, Threads, Goto, exit
  <2>2. GilSerialises' /\ NoLostWakeup' /\ Places'
    BY DEF TypeOK, GilSerialises, NoLostWakeup, Places, Threads, Executing,
           InJoin, Goto, exit
  <2>3. LiveIsUnjoined'
    BY DEF TypeOK, LiveIsUnjoined, Entries, Threads, Goto
  <2>4. CleanExit' /\ ReportedOnce'
    BY DEF TypeOK, CleanExit, ReportedOnce, Debts, exit
  <2>5. Debts'
    <3>1. InWait(th)' <=> ~(th = Main /\ fin)
      BY DEF InWait, InJoin, TypeOK, Goto
    <3>2. tgt'[th] = t
      BY DEF TypeOK
    <3>3. \A u \in Threads \ {th} : InWait(u)' = InWait(u) /\ tgt'[u] = tgt[u]
      BY DEF InWait, InJoin, TypeOK, Goto
    <3>4. InWait(th) => tgt[th] = t
      BY DEF InWait, InJoin
    <3>5. \A u \in Tasks \ {t} : waited'[u] = waited[u]
      BY DEF TypeOK
    <3>6. waited[t] => waited'[t]
      BY DEF TypeOK
    <3>7. \A u \in Threads : InWait(u)' => waited'[tgt'[u]]
      BY <3>1, <3>2, <3>3, <3>5, <3>6 DEF Debts, TypeOK, Places, InWait
    <3>8. ASSUME NEW u \in Tasks, waited'[u], u \notin seen
          PROVE  \E v \in Threads : InWait(v)' /\ tgt'[v] = u
      BY <3>1, <3>2, <3>3, <3>4, <3>5, <3>8 DEF Debts, InWait
    <3>9. QED
      BY <3>5, <3>6, <3>7, <3>8 DEF Debts, exit, TypeOK
  <2>6. QED
    BY <2>1, <2>2, <2>3, <2>4, <2>5 DEF IInv
<1>2. CASE /\ done[t] /\ ~joined[t] /\ Goto(th, "join")
           /\ tgt' = [tgt EXCEPT ![th] = t] /\ gil' = None
           /\ \E first \in {th, joiner[t]} \ {None} :
                joiner' = [joiner EXCEPT ![t] = first]
           /\ UNCHANGED <<seen, exit>>
  <2> USE <1>2
  <2>1. TypeOK'
    <3>1. joiner' \in [Tasks -> Threads \cup {None}]
      BY DEF TypeOK
    <3>2. pc' \in [Threads -> Where] /\ tgt' \in [Threads -> Tasks \cup {None}]
      BY DEF TypeOK, Where, Goto
    <3>3. waited' \in [Tasks -> BOOLEAN]
      BY DEF TypeOK
    <3>4. QED
      BY <3>1, <3>2, <3>3 DEF TypeOK, exit
  <2>2. GilSerialises' /\ NoLostWakeup' /\ Places'
    BY DEF TypeOK, GilSerialises, NoLostWakeup, Places, Threads, Executing,
           InJoin, Goto, exit
  <2>3. LiveIsUnjoined'
    BY DEF TypeOK, LiveIsUnjoined, Entries, Threads, Goto
  <2>4. CleanExit' /\ ReportedOnce'
    BY DEF TypeOK, CleanExit, ReportedOnce, Debts, exit
  <2>5. Debts'
    <3>1. InWait(th)' <=> ~(th = Main /\ fin)
      BY DEF InWait, InJoin, TypeOK, Goto
    <3>2. tgt'[th] = t
      BY DEF TypeOK
    <3>3. \A u \in Threads \ {th} : InWait(u)' = InWait(u) /\ tgt'[u] = tgt[u]
      BY DEF InWait, InJoin, TypeOK, Goto
    <3>4. InWait(th) => tgt[th] = t
      BY DEF InWait, InJoin
    <3>5. \A u \in Tasks \ {t} : waited'[u] = waited[u]
      BY DEF TypeOK
    <3>6. waited[t] => waited'[t]
      BY DEF TypeOK
    <3>7. \A u \in Threads : InWait(u)' => waited'[tgt'[u]]
      BY <3>1, <3>2, <3>3, <3>5, <3>6 DEF Debts, TypeOK, Places, InWait
    <3>8. ASSUME NEW u \in Tasks, waited'[u], u \notin seen
          PROVE  \E v \in Threads : InWait(v)' /\ tgt'[v] = u
      BY <3>1, <3>2, <3>3, <3>4, <3>5, <3>8 DEF Debts, InWait
    <3>9. QED
      BY <3>5, <3>6, <3>7, <3>8 DEF Debts, exit, TypeOK
  <2>6. QED
    BY <2>1, <2>2, <2>3, <2>4, <2>5 DEF IInv
<1>3. CASE done[t] /\ joined[t] /\ AfterJoin(th, t) /\ UNCHANGED joiner
  <2> USE <1>3 DEF AfterJoin
  <2>1. TypeOK'
    <3>1. /\ pc' \in [Threads -> Where]
          /\ seen' \subseteq Tasks
          /\ status' \in {"running", "exit0", "exit1", "crash"}
          /\ reported' \in Tasks \cup {None}
      BY DEF TypeOK, Where, Goto, exit, FinishReturns, WaitReturns
    <3>2. QED
      BY <3>1 DEF TypeOK
  <2>2. GilSerialises' /\ NoLostWakeup' /\ Places'
    BY DEF TypeOK, GilSerialises, NoLostWakeup, Places, Threads, Executing,
           InJoin, Goto, exit, FinishReturns, WaitReturns
  <2>3. LiveIsUnjoined'
    BY DEF TypeOK, LiveIsUnjoined, Entries, Threads, Goto, FinishReturns,
           WaitReturns, InJoin, Places
  <2>4. CleanExit' /\ ReportedOnce'
    BY DEF TypeOK, CleanExit, ReportedOnce, Debts, Goto, exit, FinishReturns,
           WaitReturns
  <2>5. Debts'
    <3>1. ~InWait(th)'
      BY DEF InWait, InJoin, TypeOK, Goto, FinishReturns, WaitReturns
    <3>2. \A u \in Threads \ {th} : InWait(u)' = InWait(u) /\ tgt'[u] = tgt[u]
      BY DEF InWait, InJoin, TypeOK, Goto, FinishReturns, WaitReturns
    <3>3. InWait(th) => tgt[th] = t /\ ~(th = Main /\ fin)
      BY DEF InWait, InJoin
    <3>4. \A u \in Tasks \ {t} : waited'[u] = waited[u]
      BY DEF TypeOK
    <3>5. waited[t] => waited'[t]
      BY DEF TypeOK
    <3>6. \A u \in Threads : InWait(u)' => waited'[tgt'[u]]
      BY <3>1, <3>2, <3>4, <3>5 DEF Debts, TypeOK, Places, InWait
    <3>7. CASE th = Main /\ fin
      BY <3>1, <3>2, <3>3, <3>6, <3>7 DEF Debts, TypeOK, FinishReturns, exit
    <3>8. CASE ~(th = Main /\ fin)
      <4>1. seen' = seen \cup {t} /\ UNCHANGED exit /\ waited'[t]
        BY <3>8 DEF WaitReturns
      <4>2. ASSUME NEW u \in Tasks, waited'[u], u \notin seen'
            PROVE  \E v \in Threads : InWait(v)' /\ tgt'[v] = u
        BY <3>2, <3>3, <3>4, <4>1, <4>2 DEF Debts
      <4>3. QED
        BY <3>4, <3>5, <3>6, <4>1, <4>2 DEF Debts, TypeOK, exit
    <3>9. QED
      BY <3>7, <3>8
  <2>6. QED
    BY <2>1, <2>2, <2>3, <2>4, <2>5 DEF IInv
<1>4. QED
  BY <1>1, <1>2, <1>3 DEF JoinTask

(* The way out of pthread_join.                                            *)
LEMMA JoinReturnIInv ==
  ASSUME NEW th \in Threads, IInv, JoinReturn(th)
  PROVE  IInv'
<1> USE TaskAssumption
<1>0. /\ TypeOK /\ GilSerialises /\ NoLostWakeup /\ LiveIsUnjoined
      /\ CleanExit /\ ReportedOnce /\ Places /\ Debts
  BY DEF IInv
<1> USE <1>0
<1> DEFINE t == tgt[th]
<1>1. t \in Tasks /\ done[t] /\ pc[th] = "join" /\ gil = None
      /\ status = "running"
  BY DEF JoinReturn, Places, InJoin, TypeOK
<1>2. /\ joined' = [joined EXCEPT ![t] = TRUE]
      /\ live' = Unlive(live, t)
      /\ AfterJoin(th, t)
      /\ UNCHANGED <<joiner, done, errtext, waited, fin>>
  BY DEF JoinReturn
<1> HIDE DEF t
<1> USE <1>1, <1>2 DEF AfterJoin
<1>3. /\ live' \in Seq(Tasks)
      /\ NoRepeats(live')
      /\ Entries(live') = Entries(live) \ {t}
  BY UnliveRemoves DEF LiveIsUnjoined, NoRepeats, TypeOK
<1>4. TypeOK'
  BY <1>3 DEF TypeOK, Where, Threads, Goto, exit, FinishReturns, WaitReturns
<1>5. GilSerialises' /\ NoLostWakeup' /\ Places'
  <2>1. /\ pc'[th] \in Executing
        /\ fin /\ th = Main => pc'[th] = "run"
        /\ tgt'[th] = None /\ gil' = th
    BY DEF TypeOK, Threads, Executing, Goto, FinishReturns, WaitReturns
  <2>2. \A u \in Threads \ {th} : pc'[u] = pc[u] /\ tgt'[u] = tgt[u]
    BY DEF TypeOK, Threads, Goto, FinishReturns, WaitReturns
  <2>3. \A u \in Threads : pc[u] \notin Executing
    BY DEF GilSerialises, Threads
  <2>4. GilSerialises'
    BY <2>1, <2>2, <2>3 DEF GilSerialises
  <2>5. NoLostWakeup'
    BY <2>1, <2>2 DEF NoLostWakeup, Executing
  <2>6. Places'
    BY <2>1, <2>2 DEF Places, Executing, InJoin, Threads
  <2>7. QED
    BY <2>4, <2>5, <2>6
<1>6. LiveIsUnjoined'
  <2>1. \A u \in Tasks : pc'[u] # "idle" <=> pc[u] # "idle"
    BY DEF TypeOK, Threads, Goto, FinishReturns, WaitReturns
  <2>2. QED
    BY <2>1, <1>3 DEF LiveIsUnjoined, NoRepeats, TypeOK
<1>7. CleanExit' /\ ReportedOnce'
  BY DEF TypeOK, CleanExit, ReportedOnce, Debts, Goto, exit, FinishReturns,
         WaitReturns
<1>8. Debts'
  <2>1. waited[t] \/ (th = Main /\ fin)
    BY DEF Debts, InWait, InJoin, t
  <2>2. \A u \in Threads \ {th} : InWait(u)' = InWait(u) /\ tgt'[u] = tgt[u]
    BY DEF InWait, InJoin, TypeOK, Threads, Goto, FinishReturns, WaitReturns
  <2>3. ~InWait(th)'
    BY DEF InWait, InJoin, TypeOK, Threads, Goto, FinishReturns, WaitReturns
  <2>4. CASE th = Main /\ fin
    BY <2>2, <2>3, <2>4 DEF Debts, TypeOK, FinishReturns, exit, InWait
  <2>5. CASE ~(th = Main /\ fin)
    BY <2>1, <2>2, <2>3, <2>5 DEF Debts, TypeOK, WaitReturns, exit, t
  <2>6. QED
    BY <2>4, <2>5
<1>9. QED
  BY <1>4, <1>5, <1>6, <1>7, <1>8 DEF IInv

LEMMA StepIInv == IInv /\ [Next]_vars => IInv'
<1> SUFFICES ASSUME IInv, [Next]_vars PROVE IInv'
  OBVIOUS
<1> USE TaskAssumption
<1>0. /\ TypeOK /\ GilSerialises /\ NoLostWakeup /\ LiveIsUnjoined
      /\ CleanExit /\ ReportedOnce /\ Places /\ Debts
  BY DEF IInv
<1> USE <1>0
<1>1. ASSUME NEW th \in Threads, TooManyTasks(th) PROVE IInv'
  <2> USE <1>1 DEF TooManyTasks
  <2>1. TypeOK'
    BY DEF TypeOK, Where, Threads, Executing, InProgram, Goto, otask, exit
  <2>2. GilSerialises' /\ NoLostWakeup' /\ Places'
    BY DEF TypeOK, GilSerialises, NoLostWakeup, Places, Threads, Executing,
           InJoin, InProgram, Goto, otask, exit
  <2>3. LiveIsUnjoined'
    BY DEF TypeOK, LiveIsUnjoined, Entries, Threads, Executing,
           InProgram, Goto, otask, exit
  <2>4. CleanExit' /\ ReportedOnce' /\ Debts'
    BY DEF TypeOK, CleanExit, ReportedOnce, Debts, Places, Created, InWait,
           Threads, Executing, InJoin, InProgram, Goto, otask, exit
  <2>5. QED
    BY <2>1, <2>2, <2>3, <2>4 DEF IInv
<1>2. ASSUME NEW th \in Threads, RuntimeError(th) PROVE IInv'
  <2> USE <1>2 DEF RuntimeError
  <2>1. TypeOK'
    BY DEF TypeOK, Where, Threads, Executing, InProgram, Goto, otask, exit
  <2>2. GilSerialises' /\ NoLostWakeup' /\ Places'
    BY DEF TypeOK, GilSerialises, NoLostWakeup, Places, Threads, Executing,
           InJoin, InProgram, Goto, otask, exit
  <2>3. LiveIsUnjoined'
    BY DEF TypeOK, LiveIsUnjoined, Entries, Threads, Executing,
           InProgram, Goto, otask, exit
  <2>4. CleanExit' /\ ReportedOnce' /\ Debts'
    BY DEF TypeOK, CleanExit, ReportedOnce, Debts, Places, Created, InWait,
           Threads, Executing, InJoin, InProgram, Goto, otask, exit
  <2>5. QED
    BY <2>1, <2>2, <2>3, <2>4 DEF IInv
<1>3. ASSUME NEW th \in Threads, BlockIo(th) PROVE IInv'
  <2> USE <1>3 DEF BlockIo
  <2>1. TypeOK'
    BY DEF TypeOK, Where, Threads, Executing, InProgram, Goto, otask, exit
  <2>2. GilSerialises' /\ NoLostWakeup' /\ Places'
    BY DEF TypeOK, GilSerialises, NoLostWakeup, Places, Threads, Executing,
           InJoin, InProgram, Goto, otask, exit
  <2>3. LiveIsUnjoined'
    BY DEF TypeOK, LiveIsUnjoined, Entries, Threads, Executing,
           InProgram, Goto, otask, exit
  <2>4. CleanExit' /\ ReportedOnce' /\ Debts'
    BY DEF TypeOK, CleanExit, ReportedOnce, Debts, Places, Created, InWait,
           Threads, Executing, InJoin, InProgram, Goto, otask, exit
  <2>5. QED
    BY <2>1, <2>2, <2>3, <2>4 DEF IInv
<1>4. ASSUME NEW th \in Threads, IoReturn(th) PROVE IInv'
  <2> USE <1>4 DEF IoReturn
  <2>1. TypeOK'
    BY DEF TypeOK, Where, Threads, Executing, InProgram, Goto, otask, exit
  <2>2. GilSerialises' /\ NoLostWakeup' /\ Places'
    BY DEF TypeOK, GilSerialises, NoLostWakeup, Places, Threads, Executing,
           InJoin, InProgram, Goto, otask, exit
  <2>3. LiveIsUnjoined'
    BY DEF TypeOK, LiveIsUnjoined, Entries, Threads, Executing,
           InProgram, Goto, otask, exit
  <2>4. CleanExit' /\ ReportedOnce' /\ Debts'
    BY DEF TypeOK, CleanExit, ReportedOnce, Debts, Places, Created, InWait,
           Threads, Executing, InJoin, InProgram, Goto, otask, exit
  <2>5. QED
    BY <2>1, <2>2, <2>3, <2>4 DEF IInv
<1>5. ASSUME NEW th \in Threads, Catch(th) PROVE IInv'
  <2> USE <1>5 DEF Catch
  <2>1. TypeOK'
    BY DEF TypeOK, Where, Threads, Executing, InProgram, Goto, otask, exit
  <2>2. GilSerialises' /\ NoLostWakeup' /\ Places'
    BY DEF TypeOK, GilSerialises, NoLostWakeup, Places, Threads, Executing,
           InJoin, InProgram, Goto, otask, exit
  <2>3. LiveIsUnjoined'
    BY DEF TypeOK, LiveIsUnjoined, Entries, Threads, Executing,
           InProgram, Goto, otask, exit
  <2>4. CleanExit' /\ ReportedOnce' /\ Debts'
    BY DEF TypeOK, CleanExit, ReportedOnce, Debts, Places, Created, InWait,
           Threads, Executing, InJoin, InProgram, Goto, otask, exit
  <2>5. QED
    BY <2>1, <2>2, <2>3, <2>4 DEF IInv
<1>6. ASSUME NEW th \in Threads, SpuriousWake(th) PROVE IInv'
  <2> USE <1>6 DEF SpuriousWake
  <2>1. TypeOK'
    BY DEF TypeOK, Where, Threads, Executing, InProgram, Goto, otask, exit
  <2>2. GilSerialises' /\ NoLostWakeup' /\ Places'
    BY DEF TypeOK, GilSerialises, NoLostWakeup, Places, Threads, Executing,
           InJoin, InProgram, Goto, otask, exit
  <2>3. LiveIsUnjoined'
    BY DEF TypeOK, LiveIsUnjoined, Entries, Threads, Executing,
           InProgram, Goto, otask, exit
  <2>4. CleanExit' /\ ReportedOnce' /\ Debts'
    BY DEF TypeOK, CleanExit, ReportedOnce, Debts, Places, Created, InWait,
           Threads, Executing, InJoin, InProgram, Goto, otask, exit
  <2>5. QED
    BY <2>1, <2>2, <2>3, <2>4 DEF IInv
<1>7. ASSUME NEW th \in Threads, DoubleJoinCrashes(th) PROVE IInv'
  <2> USE <1>7 DEF DoubleJoinCrashes
  <2>1. TypeOK'
    BY DEF TypeOK, Where, Threads, Executing, InProgram, Goto, otask, exit
  <2>2. GilSerialises' /\ NoLostWakeup' /\ Places'
    BY DEF TypeOK, GilSerialises, NoLostWakeup, Places, Threads, Executing,
           InJoin, InProgram, Goto, otask, exit
  <2>3. LiveIsUnjoined'
    BY DEF TypeOK, LiveIsUnjoined, Entries, Threads, Executing,
           InProgram, Goto, otask, exit
  <2>4. CleanExit' /\ ReportedOnce' /\ Debts'
    BY DEF TypeOK, CleanExit, ReportedOnce, Debts, Places, Created, InWait,
           Threads, Executing, InJoin, InProgram, Goto, otask, exit
  <2>5. QED
    BY <2>1, <2>2, <2>3, <2>4 DEF IInv
<1>8. ASSUME NEW t \in Tasks, WorkerStart(t) PROVE IInv'
  <2> USE <1>8 DEF WorkerStart
  <2>1. TypeOK'
    BY DEF TypeOK, Where, Threads, Executing, InProgram, Goto, otask, exit
  <2>2. GilSerialises' /\ NoLostWakeup' /\ Places'
    BY DEF TypeOK, GilSerialises, NoLostWakeup, Places, Threads, Executing,
           InJoin, InProgram, Goto, otask, exit
  <2>3. LiveIsUnjoined'
    BY DEF TypeOK, LiveIsUnjoined, Entries, Threads, Executing,
           InProgram, Goto, otask, exit
  <2>4. CleanExit' /\ ReportedOnce' /\ Debts'
    BY DEF TypeOK, CleanExit, ReportedOnce, Debts, Places, Created, InWait,
           Threads, Executing, InJoin, InProgram, Goto, otask, exit
  <2>5. QED
    BY <2>1, <2>2, <2>3, <2>4 DEF IInv
<1>9. ASSUME NEW t \in Tasks, ThreadExits(t) PROVE IInv'
  <2> USE <1>9 DEF ThreadExits
  <2>1. TypeOK'
    BY DEF TypeOK, Where, Threads, Executing, InProgram, Goto, otask, exit
  <2>2. GilSerialises' /\ NoLostWakeup' /\ Places'
    BY DEF TypeOK, GilSerialises, NoLostWakeup, Places, Threads, Executing,
           InJoin, InProgram, Goto, otask, exit
  <2>3. LiveIsUnjoined'
    BY DEF TypeOK, LiveIsUnjoined, Entries, Threads, Executing,
           InProgram, Goto, otask, exit
  <2>4. CleanExit' /\ ReportedOnce' /\ Debts'
    BY DEF TypeOK, CleanExit, ReportedOnce, Debts, Places, Created, InWait,
           Threads, Executing, InJoin, InProgram, Goto, otask, exit
  <2>5. QED
    BY <2>1, <2>2, <2>3, <2>4 DEF IInv
<1>10. ASSUME MainDies PROVE IInv'
  <2> USE <1>10 DEF MainDies
  <2>1. TypeOK'
    BY DEF TypeOK, Where, Threads, Executing, InProgram, Goto, otask, exit
  <2>2. GilSerialises' /\ NoLostWakeup' /\ Places'
    BY DEF TypeOK, GilSerialises, NoLostWakeup, Places, Threads, Executing,
           InJoin, InProgram, Goto, otask, exit
  <2>3. LiveIsUnjoined'
    BY DEF TypeOK, LiveIsUnjoined, Entries, Threads, Executing,
           InProgram, Goto, otask, exit
  <2>4. CleanExit' /\ ReportedOnce' /\ Debts'
    BY DEF TypeOK, CleanExit, ReportedOnce, Debts, Places, Created, InWait,
           Threads, Executing, InJoin, InProgram, Goto, otask, exit
  <2>5. QED
    BY <2>1, <2>2, <2>3, <2>4 DEF IInv
<1>11. ASSUME Halt PROVE IInv'
  <2> USE <1>11 DEF Halt
  <2>1. TypeOK'
    BY DEF TypeOK, Where, Threads, Executing, InProgram, Goto, otask, exit
  <2>2. GilSerialises' /\ NoLostWakeup' /\ Places'
    BY DEF TypeOK, GilSerialises, NoLostWakeup, Places, Threads, Executing,
           InJoin, InProgram, Goto, otask, exit
  <2>3. LiveIsUnjoined'
    BY DEF TypeOK, LiveIsUnjoined, Entries, Threads, Executing,
           InProgram, Goto, otask, exit
  <2>4. CleanExit' /\ ReportedOnce' /\ Debts'
    BY DEF TypeOK, CleanExit, ReportedOnce, Debts, Places, Created, InWait,
           Threads, Executing, InJoin, InProgram, Goto, otask, exit
  <2>5. QED
    BY <2>1, <2>2, <2>3, <2>4 DEF IInv
<1>13. ASSUME ExitOk PROVE IInv'
  <2> USE <1>13 DEF ExitOk
  <2>1. TypeOK'
    BY DEF TypeOK, otask
  <2>2. GilSerialises' /\ NoLostWakeup' /\ Places' /\ LiveIsUnjoined'
    BY DEF TypeOK, GilSerialises, NoLostWakeup, Places, LiveIsUnjoined,
           Entries, Threads, Executing, InJoin, otask
  <2>3. ReportedOnce' /\ Debts'
    BY DEF TypeOK, ReportedOnce, Debts, InWait, Threads, InJoin, otask
  <2>4. CleanExit'
    <3>1. \A t \in Created : joined[t] /\ done[t]
      <4>1. Entries(live) = {}
        BY DEF Entries
      <4>2. QED
        BY <4>1 DEF LiveIsUnjoined, Created, Debts
    <3>2. ASSUME NEW t \in Created, errtext[t] PROVE t \in seen
      <4>1. waited[t]
        BY <3>1, <3>2 DEF Debts, Created
      <4>2. SUFFICES ASSUME NEW th \in Threads, InWait(th) PROVE FALSE
        BY <4>1 DEF Debts, Created
      <4>3. th \in Tasks /\ pc[th] \in InJoin
        BY <4>2 DEF InWait, Threads, InJoin
      <4>4. done[th]
        BY <4>3, <3>1 DEF Created, InJoin
      <4>5. QED
        BY <4>3, <4>4 DEF Places, InJoin
    <3>3. QED
      BY <3>1, <3>2 DEF CleanExit, Created, otask
  <2>5. QED
    BY <2>1, <2>2, <2>3, <2>4 DEF IInv
<1>14. ASSUME NEW th \in Threads, NEW t \in Tasks, Spawn(th, t) PROVE IInv'
  <2> USE <1>14 DEF Spawn
  <2>1. TypeOK'
    BY DEF TypeOK, Where, Threads, InProgram, Goto, otask, exit
  <2>2. GilSerialises' /\ NoLostWakeup' /\ Places'
    BY DEF TypeOK, GilSerialises, NoLostWakeup, Places, Threads, Executing,
           InJoin, InProgram, Goto, otask, exit
  <2>3. LiveIsUnjoined'
    <3>1. t \notin Entries(live) /\ ~joined[t]
      BY DEF LiveIsUnjoined, Places, Debts
    <3>2. NoRepeats(live) /\ live \in Seq(Tasks)
      BY DEF LiveIsUnjoined, NoRepeats, TypeOK
    <3>3. NoRepeats(live') /\ Entries(live') = Entries(live) \cup {t}
      BY <3>1, <3>2, AppendAdds
    <3>4. \A u \in Tasks : pc'[u] # "idle" <=> pc[u] # "idle" \/ u = t
      BY DEF TypeOK, Threads, Goto
    <3>5. QED
      BY <3>1, <3>3, <3>4 DEF LiveIsUnjoined, NoRepeats, otask
  <2>4. CleanExit' /\ ReportedOnce' /\ Debts'
    BY DEF TypeOK, CleanExit, ReportedOnce, Debts, Places, Created, InWait,
           Threads, Executing, InJoin, InProgram, Goto, otask, exit
  <2>5. QED
    BY <2>1, <2>2, <2>3, <2>4 DEF IInv
<1>15. ASSUME NEW th \in Threads, NEW t \in Tasks, SpawnFails(th, t) PROVE IInv'
  <2> USE <1>15 DEF SpawnFails
  <2>0. t # th
    BY DEF InProgram
  <2>1. TypeOK'
    <3>1. live' \in Seq(Tasks)
      BY DEF TypeOK
    <3>2. pc' \in [Threads -> Where]
      BY DEF TypeOK, Where, Threads
    <3>3. QED
      BY <3>1, <3>2 DEF TypeOK, otask, exit
  <2>2. GilSerialises' /\ NoLostWakeup' /\ Places'
    BY <2>0 DEF TypeOK, GilSerialises, NoLostWakeup, Places, Threads,
           Executing, InJoin, InProgram, otask, exit
  <2>3. LiveIsUnjoined'
    <3>1. t \notin Entries(live) /\ ~joined[t]
      BY DEF LiveIsUnjoined, Places, Debts
    <3>2. NoRepeats(live) /\ live \in Seq(Tasks)
      BY DEF LiveIsUnjoined, NoRepeats, TypeOK
    <3>3. NoRepeats(live') /\ Entries(live') = Entries(live) \cup {t}
      BY <3>1, <3>2, AppendAdds
    <3>4. \A u \in Tasks : pc'[u] # "idle" <=> pc[u] # "idle" \/ u = t
      BY <2>0 DEF TypeOK, Threads, InProgram
    <3>5. QED
      BY <3>1, <3>3, <3>4 DEF LiveIsUnjoined, NoRepeats, otask
  <2>4. CleanExit' /\ ReportedOnce' /\ Debts'
    <3>1. CleanExit' /\ ReportedOnce'
      BY DEF TypeOK, CleanExit, ReportedOnce, InProgram, otask, exit
    <3>2. \A u \in Threads : InWait(u)' <=> InWait(u)
      BY <2>0 DEF InWait, InJoin, TypeOK, Threads, InProgram
    <3>3. QED
      BY <3>1, <3>2 DEF TypeOK, Debts, otask, exit
  <2>5. QED
    BY <2>1, <2>2, <2>3, <2>4 DEF IInv
<1>16. ASSUME NEW t \in Tasks, NEW failed \in BOOLEAN, Finish(t, failed),
              status = "running", pc[t] \in Executing
       PROVE  IInv'
  <2> USE <1>16 DEF Finish
  <2>0. gil = t /\ ~done[t] /\ ~joined[t] /\ t \notin seen
    BY DEF GilSerialises, Threads, Places, Debts, Executing, TypeOK
  <2>1. TypeOK'
    BY DEF TypeOK, Where, Threads, exit
  <2>2. GilSerialises' /\ NoLostWakeup' /\ Places'
    BY <2>0 DEF TypeOK, GilSerialises, NoLostWakeup, Places, Threads,
           Executing, InJoin, exit
  <2>3. LiveIsUnjoined'
    BY DEF TypeOK, LiveIsUnjoined, Entries, Threads, Executing
  <2>4. CleanExit' /\ ReportedOnce' /\ Debts'
    <3>1. CleanExit' /\ ReportedOnce'
      BY <2>0 DEF TypeOK, CleanExit, ReportedOnce, exit
    <3>2. \A th \in Threads : InWait(th) => InWait(th)' /\ tgt'[th] = tgt[th]
      BY DEF InWait, InJoin, Executing, Threads
    <3>4. \A th \in Threads : InWait(th)' => InWait(th)
      BY DEF InWait, InJoin, Executing, Threads, TypeOK
    <3>5. QED
      BY <2>0, <3>1, <3>2, <3>4 DEF TypeOK, Debts, exit
  <2>5. QED
    BY <2>1, <2>2, <2>3, <2>4 DEF IInv
<1>17. ASSUME NEW th \in Threads, NEW t \in Tasks, Wait(th, t) PROVE IInv'
  <2>1. /\ status = "running" /\ pc[th] = "run" /\ gil = th
        /\ ~(th = Main /\ fin) /\ waited'[t]
    BY <1>17 DEF Wait, InProgram, TypeOK
  <2>2. waited' = [waited EXCEPT ![t] = TRUE] /\ JoinTask(th, t)
        /\ UNCHANGED <<done, errtext, joined, live, fin>>
    BY <1>17 DEF Wait
  <2>3. QED
    BY <2>1, <2>2, JoinTaskIInv
<1>18. ASSUME NEW th \in Threads, Reacquire(th) PROVE IInv'
  <2>1. /\ status = "running" /\ pc[th] = "woken" /\ gil = None
        /\ JoinTask(th, tgt[th])
        /\ UNCHANGED <<done, errtext, waited, joined, live, fin>>
    BY <1>18 DEF Reacquire, otask
  <2>2. tgt[th] \in Tasks
    BY <2>1 DEF Places, InJoin, TypeOK
  <2>3. ~(th = Main /\ fin) => waited'[tgt[th]]
    BY <2>1 DEF Debts, InWait, InJoin
  <2>4. QED
    BY <2>1, <2>2, <2>3, JoinTaskIInv
<1>19. ASSUME FinishNext PROVE IInv'
  <2>1. /\ status = "running" /\ pc[Main] = "run" /\ fin /\ gil = Main
        /\ JoinTask(Main, live[1])
        /\ UNCHANGED <<done, errtext, waited, joined, live, fin>>
    BY <1>19 DEF FinishNext, otask, GilSerialises, Threads, Executing
  <2>2. live[1] \in Tasks
    BY <1>19 DEF FinishNext, TypeOK
  <2>3. QED
    BY <2>1, <2>2, JoinTaskIInv DEF Threads
<1>20. ASSUME NEW th \in Threads, JoinReturn(th) PROVE IInv'
  BY <1>20, JoinReturnIInv
<1>21. CASE UNCHANGED vars
  BY <1>21 DEF vars, IInv, TypeOK, GilSerialises, NoLostWakeup, LiveIsUnjoined,
          Entries, CleanExit, ReportedOnce, Places, Debts, Created, InWait
<1>22. ASSUME NEW t \in Tasks, TaskReturns(t) PROVE IInv'
  BY <1>16, <1>22 DEF TaskReturns, InProgram, Executing
<1>23. ASSUME NEW t \in Tasks, TaskFails(t) PROVE IInv'
  BY <1>16, <1>23 DEF TaskFails, Executing
<1>24. QED
  BY <1>1, <1>2, <1>3, <1>4, <1>5, <1>6, <1>7, <1>8, <1>9, <1>10, <1>11,
     <1>13, <1>14, <1>15, <1>17, <1>18, <1>19, <1>20, <1>21, <1>22,
     <1>23
  DEF Next, ThreadStep, TaskStep, MainStep

-----------------------------------------------------------------------------
(* The inductive invariant holds in every behaviour.                       *)
THEOREM Invariance == Spec => []IInv
<1>1. IInv /\ [Next]_vars => IInv'
  BY StepIInv
<1>2. QED
  BY <1>1, InitIInv, PTL DEF Spec

(* Every variable keeps to its set (VmCtx and OTask, vx.h:109-190).         *)
THEOREM TypeCorrect == Spec => []TypeOK
<1>1. IInv => TypeOK
  BY DEF IInv
<1>2. QED
  BY <1>1, Invariance, PTL

(* Bytecode never runs on two threads, whatever the tasks do               *)
(* (task.c:5-8).                                                           *)
THEOREM GilSerialisesAlways == Spec => []GilSerialises
<1>1. IInv => GilSerialises
  BY DEF IInv
<1>2. QED
  BY <1>1, Invariance, PTL

(* No task finishes without waking those who wait for it                   *)
(* (task.c:64-66, 163-165).                                                *)
THEOREM NoLostWakeupEver == Spec => []NoLostWakeup
<1>1. IInv => NoLostWakeup
  BY DEF IInv
<1>2. QED
  BY <1>1, Invariance, PTL

(* The live table is the set of unjoined tasks, each once, also when two   *)
(* threads join the same task (task.c:134, 158-171).                       *)
THEOREM LiveIsUnjoinedAlways == Spec => []LiveIsUnjoined
<1>1. IInv => LiveIsUnjoined
  BY DEF IInv
<1>2. QED
  BY <1>1, Invariance, PTL

(* A normal exit has joined every task and lost no failure                 *)
(* (task.c:11-13, 183-191).                                                *)
THEOREM CleanExitAlways == Spec => []CleanExit
<1>1. IInv => CleanExit
  BY DEF IInv
<1>2. QED
  BY <1>1, Invariance, PTL

(* A failure reported at exit was never raised at a wait (task.c:187).     *)
THEOREM ReportedOnceAlways == Spec => []ReportedOnce
<1>1. IInv => ReportedOnce
  BY DEF IInv
<1>2. QED
  BY <1>1, Invariance, PTL

(* An outcome is final, and waits hand out final outcomes only             *)
(* (task.c:62-64, 173-181).                                                *)
THEOREM OutcomeIsFinalAlways == Spec => OutcomeIsFinal
<1> DEFINE Final == /\ \A t \in Tasks : done[t] => done'[t] /\ errtext'[t] = errtext[t]
                    /\ \A t \in seen' \ seen : done[t]
<1>1. IInv /\ [Next]_vars => [Final]_vars
  <2> SUFFICES ASSUME IInv, Next PROVE Final
    BY DEF vars
  <2>0. TypeOK /\ Places /\ Debts
    BY DEF IInv
  <2> USE <2>0, TaskAssumption DEF otask, exit
  <2>1. ASSUME NEW th \in Threads, ThreadStep(th) PROVE Final
    <3>1. CASE JoinReturn(th)
      BY <3>1 DEF JoinReturn, AfterJoin, FinishReturns, WaitReturns, Places
    <3>2. CASE Reacquire(th)
      BY <3>2 DEF Reacquire, JoinTask, AfterJoin, FinishReturns, WaitReturns
    <3>3. CASE UNCHANGED <<done, errtext, seen>>
      BY <3>3
    <3>4. QED
      BY <2>1, <3>1, <3>2, <3>3
      DEF ThreadStep, SpawnFails, TooManyTasks, RuntimeError, Catch, BlockIo,
          IoReturn, SpuriousWake, DoubleJoinCrashes
  <2>2. ASSUME NEW th \in Threads, NEW t \in Tasks,
               Spawn(th, t) \/ Wait(th, t)
        PROVE  Final
    BY <2>2 DEF Spawn, Wait, JoinTask, AfterJoin, FinishReturns, WaitReturns
  <2>3. ASSUME NEW t \in Tasks, TaskStep(t) PROVE Final
    <3>1. ASSUME NEW failed \in BOOLEAN, Finish(t, failed), ~done[t]
          PROVE  Final
      BY <3>1 DEF Finish, TypeOK
    <3>2. TaskReturns(t) \/ TaskFails(t) => ~done[t]
      BY DEF TaskReturns, TaskFails, InProgram, Places
    <3>3. WorkerStart(t) \/ ThreadExits(t) => Final
      BY DEF WorkerStart, ThreadExits
    <3>4. QED
      BY <2>3, <3>1, <3>2, <3>3 DEF TaskStep, TaskReturns, TaskFails
  <2>4. ASSUME MainStep PROVE Final
    BY <2>4 DEF MainStep, MainDies, Halt, FinishNext, ExitOk, JoinTask,
                AfterJoin, FinishReturns, WaitReturns
  <2>5. QED
    BY <2>1, <2>2, <2>3, <2>4 DEF Next
<1>2. QED
  BY <1>1, Invariance, PTL DEF Spec, OutcomeIsFinal
-----------------------------------------------------------------------------
(* VxTasks implements TaskPromise.                                         *)
LEMMA InitPromise == Init => Promise!Init
  BY TaskAssumption DEF Init, Promise!Init, Outcomes, Outcome, Threads

(* What a step may do to the abstract state, in terms of Outcome.          *)
LEMMA SameOutcome ==
  ASSUME TypeOK, UNCHANGED <<done, errtext>>,
         \A t \in Tasks : pc'[t] = "idle" <=> pc[t] = "idle"
  PROVE  UNCHANGED Outcomes
  BY DEF Outcomes, Outcome

LEMMA AfterJoinPromise ==
  ASSUME IInv, NEW th \in Threads, NEW t \in Tasks, status = "running",
         done[t], pc[t] # "idle", pc[th] # "idle", AfterJoin(th, t),
         UNCHANGED <<done, errtext>>,
         \/ waited' = waited
         \/ waited' = [waited EXCEPT ![t] = TRUE] /\ ~(th = Main /\ fin)
  PROVE  [Promise!Next]_(Promise!vars)
<1>0. TypeOK /\ Debts
  BY DEF IInv
<1> USE <1>0, TaskAssumption DEF AfterJoin
<1>1. UNCHANGED Outcomes
  <2>1. \A u \in Tasks : pc'[u] = "idle" <=> pc[u] = "idle"
    BY DEF TypeOK, Threads, FinishReturns, WaitReturns, Goto
  <2>2. QED
    BY <2>1, SameOutcome
<1>2. CASE th = Main /\ fin
  <2>1. CASE errtext[t] /\ ~waited[t]
    <3>1. Outcomes[t] = "err"
      BY <2>1 DEF Outcomes, Outcome
    <3>2. t \notin seen
      BY <2>1 DEF Debts
    <3>3. Promise!EndWithFailure(t)
      BY <1>1, <1>2, <2>1, <3>1, <3>2
      DEF Promise!EndWithFailure, Promise!Failed, FinishReturns
    <3>4. QED
      BY <3>3 DEF Promise!Next
  <2>2. CASE ~(errtext[t] /\ ~waited[t])
    BY <1>1, <1>2, <2>2 DEF FinishReturns, exit, Promise!vars
  <2>3. QED
    BY <2>1, <2>2
<1>3. CASE ~(th = Main /\ fin)
  <2>1. Outcomes[t] \in {"ok", "err"}
    BY DEF Outcomes, Outcome
  <2>2. Promise!HandOut(t)
    BY <1>1, <1>3, <2>1
    DEF Promise!HandOut, Promise!Settled, WaitReturns, exit
  <2>3. QED
    BY <2>2 DEF Promise!Next
<1>4. QED
  BY <1>2, <1>3

LEMMA JoinTaskPromise ==
  ASSUME IInv, NEW th \in Threads, NEW t \in Tasks, status = "running",
         pc[th] # "idle", JoinTask(th, t), UNCHANGED <<done, errtext>>,
         \/ waited' = waited
         \/ waited' = [waited EXCEPT ![t] = TRUE] /\ ~(th = Main /\ fin)
  PROVE  [Promise!Next]_(Promise!vars)
<1>1. CASE done[t] /\ joined[t] /\ AfterJoin(th, t)
  <2>1. pc[t] # "idle"
    BY <1>1 DEF IInv, Places
  <2>2. QED
    BY <1>1, <2>1, AfterJoinPromise
<1>2. CASE UNCHANGED <<seen, exit>> /\ Goto(th, "cond")
  BY <1>2, SameOutcome DEF IInv, TypeOK, Goto, exit, Promise!vars, Threads
<1>3. CASE UNCHANGED <<seen, exit>> /\ Goto(th, "join")
  BY <1>3, SameOutcome DEF IInv, TypeOK, Goto, exit, Promise!vars, Threads
<1>4. QED
  BY <1>1, <1>2, <1>3 DEF JoinTask

LEMMA FinishPromise ==
  ASSUME IInv, NEW t \in Tasks, NEW failed \in BOOLEAN, status = "running",
         pc[t] \in Executing, Finish(t, failed)
  PROVE  [Promise!Next]_(Promise!vars)
<1>0. TypeOK /\ Places
  BY DEF IInv
<1>1. ~done[t]
  BY <1>0 DEF Places, Executing
<1>2. Outcomes[t] = "pending"
  BY <1>1 DEF Outcomes, Outcome, Executing
<1>3. Outcome(t)' = IF failed THEN "err" ELSE "ok"
  BY <1>0, TaskAssumption DEF Finish, Outcome, TypeOK, Threads
<1>4. \A u \in Tasks \ {t} : Outcome(u)' = Outcome(u)
  BY <1>0, TaskAssumption DEF Finish, Outcome, TypeOK, Threads
<1>5. Outcomes' = [Outcomes EXCEPT ![t] = IF failed THEN "err" ELSE "ok"]
  BY <1>3, <1>4 DEF Outcomes
<1>6. Promise!Settle(t)
  BY <1>2, <1>5 DEF Promise!Settle, Finish, exit
<1>7. QED
  BY <1>6 DEF Promise!Next

LEMMA StepPromise ==
  IInv /\ [Next]_vars => [Promise!Next]_(Promise!vars)
<1> SUFFICES ASSUME IInv, [Next]_vars PROVE [Promise!Next]_(Promise!vars)
  OBVIOUS
<1>0. TypeOK /\ Places /\ Debts /\ GilSerialises /\ LiveIsUnjoined
  BY DEF IInv
<1> USE <1>0, TaskAssumption
<1>1. ASSUME NEW th \in Threads, NEW t \in Tasks, Spawn(th, t)
      PROVE  [Promise!Next]_(Promise!vars)
  <2>1. Outcomes[t] = "unborn" /\ status = "running" /\ UNCHANGED <<seen, exit>>
    BY <1>1 DEF Spawn, InProgram, Outcomes, Outcome
  <2>2. Outcome(t)' = "pending"
    BY <1>1 DEF Spawn, Outcome, Goto, TypeOK, Places, otask, Threads
  <2>3. \A u \in Tasks \ {t} : Outcome(u)' = Outcome(u)
    BY <1>1 DEF Spawn, Outcome, Goto, TypeOK, otask, Threads
  <2>4. Promise!Go(t)
    BY <2>1, <2>2, <2>3 DEF Promise!Go, Outcomes, exit
  <2>5. QED
    BY <2>4 DEF Promise!Next
<1>2. ASSUME NEW th \in Threads, NEW t \in Tasks, SpawnFails(th, t)
      PROVE  [Promise!Next]_(Promise!vars)
  <2>1. Outcomes[t] = "unborn" /\ status = "running" /\ UNCHANGED <<seen, exit>>
        /\ th # t /\ pc[th] = "run"
    BY <1>2 DEF SpawnFails, InProgram, Outcomes, Outcome
  <2>2. Outcome(t)' = "pending"
    BY <1>2, <2>1 DEF SpawnFails, Outcome, TypeOK, Places, otask, Threads
  <2>3. \A u \in Tasks \ {t} : Outcome(u)' = Outcome(u)
    BY <1>2, <2>1 DEF SpawnFails, Outcome, TypeOK, otask, Threads
  <2>4. Promise!Go(t)
    BY <2>1, <2>2, <2>3 DEF Promise!Go, Outcomes, exit
  <2>5. QED
    BY <2>4 DEF Promise!Next
<1>3. ASSUME NEW th \in Threads, NEW t \in Tasks, Wait(th, t)
      PROVE  [Promise!Next]_(Promise!vars)
  BY <1>3, JoinTaskPromise DEF Wait, InProgram
<1>4. ASSUME NEW th \in Threads, Reacquire(th)
      PROVE  [Promise!Next]_(Promise!vars)
  <2>1. tgt[th] \in Tasks
    BY <1>4 DEF Reacquire, Places, InJoin, TypeOK
  <2>2. /\ status = "running" /\ pc[th] # "idle"
        /\ JoinTask(th, tgt[th]) /\ UNCHANGED <<done, errtext>>
        /\ waited' = waited
    BY <1>4 DEF Reacquire, otask
  <2>3. QED
    BY <2>1, <2>2, JoinTaskPromise
<1>5. ASSUME NEW th \in Threads, JoinReturn(th)
      PROVE  [Promise!Next]_(Promise!vars)
  <2>1. tgt[th] \in Tasks /\ done[tgt[th]] /\ pc[tgt[th]] # "idle"
    BY <1>5 DEF JoinReturn, Places, InJoin, TypeOK
  <2>2. /\ status = "running" /\ pc[th] # "idle"
        /\ AfterJoin(th, tgt[th]) /\ UNCHANGED <<done, errtext, waited>>
    BY <1>5 DEF JoinReturn
  <2>3. QED
    BY <2>1, <2>2, AfterJoinPromise
<1>6. ASSUME FinishNext PROVE [Promise!Next]_(Promise!vars)
  <2>1. live[1] \in Tasks
    BY <1>6 DEF FinishNext, TypeOK
  <2>2. /\ status = "running" /\ pc[Main] # "idle" /\ Main \in Threads
        /\ JoinTask(Main, live[1]) /\ UNCHANGED <<done, errtext>>
        /\ waited' = waited
    BY <1>6 DEF FinishNext, otask, Threads
  <2>3. QED
    BY <2>1, <2>2, JoinTaskPromise
<1>7. ASSUME NEW t \in Tasks, TaskReturns(t) \/ TaskFails(t)
      PROVE  [Promise!Next]_(Promise!vars)
  BY <1>7, FinishPromise DEF TaskReturns, TaskFails, InProgram, Executing
<1>8. ASSUME ExitOk PROVE [Promise!Next]_(Promise!vars)
  <2>1. CleanExit' /\ status' = "exit0"
    BY <1>8, StepIInv DEF IInv, ExitOk, Next, MainStep
  <2>2. \A t \in Tasks : pc[t] # "idle" => done[t] /\ (errtext[t] => t \in seen)
    BY <1>8, <2>1 DEF CleanExit, Created, ExitOk, otask
  <2>3. Promise!Pending = {} /\ Promise!Failed \subseteq seen
    BY <2>2 DEF Promise!Pending, Promise!Failed, Outcomes, Outcome
  <2>4. UNCHANGED Outcomes
    BY <1>8, SameOutcome DEF ExitOk, otask
  <2>5. Promise!EndWell
    BY <1>8, <2>3, <2>4 DEF Promise!EndWell, ExitOk
  <2>6. QED
    BY <2>5 DEF Promise!Next
<1>9. ASSUME status = "running", status' \in {"exit1", "crash"},
             UNCHANGED <<pc, otask, seen, reported>>
      PROVE  [Promise!Next]_(Promise!vars)
  <2>1. UNCHANGED Outcomes
    BY <1>9, SameOutcome DEF otask
  <2>2. Promise!Die
    BY <1>9, <2>1 DEF Promise!Die
  <2>3. QED
    BY <2>2 DEF Promise!Next
<1>10. ASSUME UNCHANGED <<otask, seen, exit>>,
              \A t \in Tasks : pc'[t] = "idle" <=> pc[t] = "idle"
       PROVE  [Promise!Next]_(Promise!vars)
  BY <1>10, SameOutcome DEF otask, exit, Promise!vars
<1>11. ASSUME NEW th \in Threads,
              \/ TooManyTasks(th) \/ RuntimeError(th) \/ Catch(th)
              \/ BlockIo(th) \/ IoReturn(th) \/ SpuriousWake(th)
              \/ th \in Tasks /\ (WorkerStart(th) \/ ThreadExits(th))
       PROVE  [Promise!Next]_(Promise!vars)
  <2>1. UNCHANGED <<otask, seen, exit>> /\ pc[th] # "idle"
        /\ \E next \in Where \ {"idle"} : Goto(th, next)
    BY <1>11
    DEF TooManyTasks, RuntimeError, Catch, BlockIo, IoReturn, SpuriousWake,
        WorkerStart, ThreadExits, InProgram, Executing, Where
  <2>2. \A t \in Tasks : pc'[t] = "idle" <=> pc[t] = "idle"
    BY <2>1 DEF Goto, TypeOK, Threads
  <2>3. QED
    BY <1>10, <2>1, <2>2
<1>12. CASE UNCHANGED vars
  BY <1>10, <1>12 DEF vars, otask, exit
<1>13. QED
  BY <1>1, <1>2, <1>3, <1>4, <1>5, <1>6, <1>7, <1>8, <1>9, <1>10, <1>11, <1>12
  DEF Next, ThreadStep, TaskStep, MainStep, MainDies, Halt, DoubleJoinCrashes,
      Threads

(* The lock, the threads and the live table together keep what `go` and    *)
(* wait promise (docs/CONCURRENCY.md section 3).                           *)
THEOREM Refinement == Spec => ImplementsPromise
<1>1. IInv /\ [Next]_vars => [Promise!Next]_(Promise!vars)
  BY StepPromise
<1>2. QED
  BY <1>1, InitPromise, Invariance, PTL
  DEF Spec, ImplementsPromise, Promise!Spec
-----------------------------------------------------------------------------
(***************************************************************************)
(* What a collection frees is settled, for any set of tasks.  The steps of *)
(* VxTaskGC are steps of VxTasks, so the inductive invariant above holds   *)
(* here as well; Safe adds what the collector keeps.                       *)
(***************************************************************************)
(* A task that somebody else joined while main was inside tasks_finish     *)
(* with it was joined by a wait(), which has had its outcome.              *)
TakenFromMain ==
  fin /\ tgt[Main] # None /\ joined[tgt[Main]] => tgt[Main] \in seen

(* Handles are those of tasks that exist.                                  *)
Safe == GTypeOK /\ named \subseteq Created /\ FreedIsSettled /\ TakenFromMain

GInv == IInv /\ Safe

LEMMA GInitHolds == GInit => GInv
<1> SUFFICES ASSUME GInit PROVE GInv
  OBVIOUS
<1>1. IInv
  BY InitIInv DEF GInit
<1>2. Safe
  BY <1>1, TaskAssumption
  DEF GInit, Init, IInv, Safe, GTypeOK, FreedIsSettled, TakenFromMain
<1>3. QED
  BY <1>1, <1>2 DEF GInv

(* Reading freed memory may end the process; nothing else changes.         *)
LEMMA CrashHolds == IInv /\ UseAfterFreeCrashes => IInv'
<1> SUFFICES ASSUME IInv, UseAfterFreeCrashes PROVE IInv'
  OBVIOUS
<1>1. UNCHANGED <<pc, gil, tgt, joiner, done, errtext, waited, joined, live,
                  fin, seen, reported>>
      /\ status = "running" /\ status' = "crash"
  BY DEF UseAfterFreeCrashes, otask
<1>2. TypeOK' /\ NoLostWakeup' /\ LiveIsUnjoined'
  BY <1>1 DEF IInv, TypeOK, NoLostWakeup, LiveIsUnjoined, Entries
<1>3. GilSerialises' /\ CleanExit' /\ ReportedOnce'
  BY <1>1 DEF IInv, GilSerialises, CleanExit, ReportedOnce
<1>4. Places' /\ Debts'
  BY <1>1 DEF IInv, Places, Debts, InWait
<1>5. QED
  BY <1>2, <1>3, <1>4 DEF IInv

(* Every other step is one of VxTasks, or leaves its variables alone.      *)
LEMMA TaskStepOrCrash ==
  ASSUME [GNext]_allvars
  PROVE  [Next]_vars \/ UseAfterFreeCrashes
BY DEF GNext, GSpawn, GWait, DropHandle, Collect, Next, allvars

(* What no step takes back: a task stays created, joined and seen, and a   *)
(* joined one keeps its outcome.                                           *)
Kept ==
  /\ seen \subseteq seen'
  /\ \A t \in Tasks : pc[t] # "idle" => pc'[t] # "idle"
  /\ \A t \in Tasks : joined[t] => joined'[t] /\ errtext'[t] = errtext[t]

(* Nobody takes a freed task in hand.                                      *)
NotTaken ==
  \A u \in Threads : \A t \in swept :
    tgt'[u] = t => tgt[u] = t /\ (InWait(u)' => InWait(u))

(* What is safe stays so in a step that hands out no new handle.           *)
LEMMA KeepsSafe ==
  ASSUME GInv, TypeOK', UNCHANGED gcvars, Kept, NotTaken, TakenFromMain'
  PROVE  Safe'
<1>1. GTypeOK' /\ (named \subseteq Created)'
  BY DEF GInv, Safe, GTypeOK, gcvars, Created, Kept
<1>2. ASSUME NEW t \in swept
      PROVE  /\ joined'[t] /\ (errtext'[t] => t \in seen')
             /\ \A th \in Threads : tgt'[th] = t => ~InWait(th)' /\ t \in seen'
  <2>1. t \in Tasks /\ joined[t] /\ (errtext[t] => t \in seen)
    BY DEF GInv, Safe, GTypeOK, FreedIsSettled
  <2>2. joined'[t] /\ errtext'[t] = errtext[t] /\ seen \subseteq seen'
    BY <2>1 DEF Kept
  <2>3. ASSUME NEW th \in Threads, tgt'[th] = t
        PROVE  ~InWait(th)' /\ t \in seen'
    <3>1. tgt[th] = t /\ (InWait(th)' => InWait(th))
      BY <2>3 DEF NotTaken
    <3>2. ~InWait(th) /\ t \in seen
      BY <3>1 DEF GInv, Safe, FreedIsSettled
    <3>3. QED
      BY <2>2, <3>1, <3>2
  <2>4. QED
    BY <2>1, <2>2, <2>3
<1>3. FreedIsSettled'
  BY <1>2 DEF GInv, Safe, FreedIsSettled, gcvars
<1>4. QED
  BY <1>1, <1>3 DEF Safe

(* A step of one thread.                                                   *)
LEMMA ThreadStepSafe ==
  ASSUME GInv, NEW th \in Threads, ThreadStep(th), UNCHANGED gcvars, IInv'
  PROVE  Safe'
<1>0. TypeOK /\ TypeOK' /\ Places /\ TakenFromMain
  BY DEF GInv, IInv, Safe
<1> USE <1>0, TaskAssumption DEF Threads, otask, exit
<1>1. CASE JoinReturn(th)
  <2>1. Kept
    BY <1>1 DEF JoinReturn, AfterJoin, WaitReturns, FinishReturns, Goto,
       TypeOK, Kept
  <2>2. NotTaken
    BY <1>1 DEF JoinReturn, AfterJoin, WaitReturns, FinishReturns, Goto,
       TypeOK, InWait, InJoin, NotTaken, GInv, Safe, GTypeOK
  <2>3. CASE th = Main
    <3>1. tgt'[Main] = None
      BY <1>1, <2>3 DEF JoinReturn, AfterJoin, TypeOK
    <3>2. QED
      BY <1>1, <2>1, <2>2, <3>1, KeepsSafe DEF TakenFromMain
  <2>4. CASE th # Main
    <3>1. /\ seen' = seen \cup {tgt[th]} /\ tgt'[Main] = tgt[Main]
          /\ fin' = fin /\ joined' = [joined EXCEPT ![tgt[th]] = TRUE]
      BY <1>1, <2>4 DEF JoinReturn, AfterJoin, WaitReturns, TypeOK
    <3>2. TakenFromMain'
      BY <3>1 DEF TakenFromMain, TypeOK
    <3>3. QED
      BY <1>1, <2>1, <2>2, <3>2, KeepsSafe
  <2>5. QED
    BY <2>3, <2>4
<1>2. CASE Reacquire(th)
  <2>1. Kept
    BY <1>2 DEF Reacquire, JoinTask, AfterJoin, WaitReturns, FinishReturns,
       Goto, TypeOK, Kept
  <2>2. NotTaken
    BY <1>2 DEF Reacquire, JoinTask, AfterJoin, WaitReturns, FinishReturns,
       Goto, TypeOK, InWait, InJoin, NotTaken, GInv, Safe, GTypeOK
  <2>3. /\ tgt'[Main] \in {tgt[Main], None} /\ seen \subseteq seen'
        /\ UNCHANGED <<fin, joined>>
    BY <1>2 DEF Reacquire, JoinTask, AfterJoin, WaitReturns, FinishReturns,
       TypeOK
  <2>4. TakenFromMain'
    BY <2>3 DEF TakenFromMain
  <2>5. QED
    BY <2>1, <2>2, <2>4, KeepsSafe
<1>3. CASE ~(Reacquire(th) \/ JoinReturn(th))
  <2>1. UNCHANGED <<tgt, fin, seen, joined, errtext>>
    BY <1>3 DEF ThreadStep, SpawnFails, TooManyTasks, RuntimeError, Catch,
       BlockIo, IoReturn, SpuriousWake, DoubleJoinCrashes
  <2>2. /\ \A t \in Tasks : pc[t] # "idle" => pc'[t] # "idle"
        /\ \A u \in Threads : pc'[u] \in InJoin => pc[u] \in InJoin
    BY <1>3 DEF ThreadStep, SpawnFails, TooManyTasks, RuntimeError, Catch,
       BlockIo, IoReturn, SpuriousWake, DoubleJoinCrashes, Goto, TypeOK,
       Executing, InJoin
  <2>3. QED
    BY <2>1, <2>2, KeepsSafe DEF Kept, NotTaken, InWait, TakenFromMain
<1>4. QED
  BY <1>1, <1>2, <1>3

LEMMA TaskStepSafe ==
  ASSUME GInv, NEW t \in Tasks, TaskStep(t), UNCHANGED gcvars, IInv'
  PROVE  Safe'
<1>0. TypeOK /\ TypeOK' /\ Debts /\ Places /\ TakenFromMain
  BY DEF GInv, IInv, Safe
<1> USE <1>0, TaskAssumption DEF Threads, otask, exit, TaskStep, TaskReturns,
    TaskFails, WorkerStart, ThreadExits, Finish, Goto
<1>1. UNCHANGED <<tgt, fin, seen, joined>>
  OBVIOUS
<1>2. /\ \A u \in Tasks : pc[u] # "idle" => pc'[u] # "idle"
      /\ \A u \in Threads : pc'[u] \in InJoin => pc[u] \in InJoin
  BY DEF TypeOK, InJoin
<1>3. ~joined[t] \/ errtext' = errtext
  BY DEF Debts, Places, InProgram
<1>4. \A u \in Tasks : joined[u] => errtext'[u] = errtext[u]
  BY <1>3 DEF TypeOK
<1>5. Kept /\ NotTaken /\ TakenFromMain'
  BY <1>1, <1>2, <1>4 DEF Kept, NotTaken, InWait, TakenFromMain
<1>6. QED
  BY <1>5, KeepsSafe

(* tasks_finish takes its task from the live table, where nothing is       *)
(* joined, into a C local.                                                 *)
LEMMA MainStepSafe ==
  ASSUME GInv, MainStep, UNCHANGED gcvars, IInv'
  PROVE  Safe'
<1>0. TypeOK /\ TypeOK' /\ Places /\ LiveIsUnjoined /\ TakenFromMain
  BY DEF GInv, IInv, Safe
<1> USE <1>0, TaskAssumption DEF Threads, otask, exit
<1>1. CASE FinishNext
  <2>1. live[1] \in Entries(live) /\ live[1] \in Tasks
    BY <1>1 DEF FinishNext, Entries, TypeOK
  <2>2. ~joined[live[1]]
    BY <2>1 DEF LiveIsUnjoined
  <2>3. live[1] \notin swept
    BY <2>2 DEF GInv, Safe, FreedIsSettled
  <2>4. /\ UNCHANGED <<fin, seen, joined, errtext>>
        /\ tgt' = [tgt EXCEPT ![Main] = live[1]]
             \/ tgt' = [tgt EXCEPT ![Main] = None]
    BY <1>1, <2>2 DEF FinishNext, JoinTask
  <2>5. /\ \A u \in Tasks : pc[u] # "idle" => pc'[u] # "idle"
        /\ \A u \in Tasks : pc'[u] = pc[u]
    BY <1>1, <2>2 DEF FinishNext, JoinTask, Goto, TypeOK
  <2>6. ASSUME NEW u \in Threads, NEW t \in swept, tgt'[u] = t
        PROVE  tgt[u] = t /\ (InWait(u)' => InWait(u))
    <3>1. t \in Tasks /\ t # None
      BY DEF GInv, Safe, GTypeOK
    <3>2. u # Main
      BY <2>3, <2>4, <2>6, <3>1 DEF TypeOK
    <3>3. QED
      BY <2>4, <2>5, <2>6, <3>2 DEF InWait, TypeOK
  <2>7. Kept /\ NotTaken
    BY <2>4, <2>5, <2>6 DEF Kept, NotTaken
  <2>8. TakenFromMain'
    BY <2>2, <2>4 DEF TakenFromMain, TypeOK
  <2>9. QED
    BY <2>7, <2>8, KeepsSafe
<1>2. CASE MainDies \/ Halt \/ ExitOk
  <2>1. UNCHANGED <<pc, tgt, seen, joined, errtext>>
    BY <1>2 DEF MainDies, Halt, ExitOk
  <2>2. fin' = fin \/ pc[Main] = "run"
    BY <1>2 DEF MainDies, Halt, ExitOk, InProgram
  <2>3. pc[Main] = "run" => tgt[Main] = None
    BY DEF Places, InJoin
  <2>4. Kept /\ NotTaken /\ TakenFromMain'
    BY <2>1, <2>2, <2>3 DEF Kept, NotTaken, InWait, InJoin, TakenFromMain
  <2>5. QED
    BY <2>4, KeepsSafe
<1>3. QED
  BY <1>1, <1>2 DEF MainStep

(* A task that does not exist yet has not been swept.                      *)
LEMMA SpawnSafe ==
  ASSUME GInv, NEW th \in Threads, NEW t \in Tasks, GSpawn(th, t), IInv'
  PROVE  Safe'
<1>0. TypeOK /\ TypeOK' /\ Places /\ Debts /\ Safe
  BY DEF GInv, IInv
<1>1. t \notin swept
  BY <1>0 DEF Safe, FreedIsSettled, Debts, Places, GSpawn, Spawn
<1>2. UNCHANGED <<tgt, fin, seen, joined, errtext, swept>>
      /\ named' = named \cup {t} /\ pc' = [pc EXCEPT ![t] = "start"]
  BY DEF GSpawn, Spawn, Goto, otask
<1>3. \A u \in Threads : InWait(u)' => InWait(u)
  BY <1>0, <1>2, TaskAssumption DEF InWait, InJoin, TypeOK, Threads
<1>4. FreedIsSettled' /\ TakenFromMain'
  BY <1>0, <1>1, <1>2, <1>3 DEF Safe, FreedIsSettled, TakenFromMain
<1>5. GTypeOK' /\ (named \subseteq Created)'
  BY <1>0, <1>2, TaskAssumption
  DEF Safe, GTypeOK, Created, TypeOK, Threads
<1>6. QED
  BY <1>4, <1>5 DEF Safe

(* A wait is for a task whose handle the program holds.                    *)
LEMMA WaitSafe ==
  ASSUME GInv, NEW th \in Threads, NEW t \in Tasks, GWait(th, t), IInv'
  PROVE  Safe'
<1>0. TypeOK /\ TypeOK' /\ Safe
  BY DEF GInv, IInv
<1> USE <1>0, TaskAssumption DEF GWait, Wait, InProgram
<1>1. Kept
  BY DEF JoinTask, AfterJoin, WaitReturns, FinishReturns, Goto, TypeOK,
         Threads, Kept
<1>2. t \notin swept
  BY DEF Safe, FreedIsSettled
<1>3. \A u \in Threads :
        \/ tgt'[u] = tgt[u] /\ (InWait(u)' => InWait(u))
        \/ tgt'[u] \in {t, None}
  BY DEF JoinTask, AfterJoin, WaitReturns, FinishReturns, Goto, TypeOK,
         InWait, InJoin
<1>4. NotTaken
  BY <1>2, <1>3 DEF NotTaken, Safe, GTypeOK
<1>5. TakenFromMain'
  <2>1. UNCHANGED <<fin, joined>> /\ seen \subseteq seen'
    BY <1>1 DEF Kept
  <2>2. fin => th # Main
    OBVIOUS
  <2>3. th # Main => tgt'[Main] = tgt[Main]
    BY DEF JoinTask, AfterJoin, TypeOK, Threads
  <2>4. QED
    BY <2>1, <2>2, <2>3 DEF Safe, TakenFromMain
<1>6. QED
  BY <1>1, <1>4, <1>5, KeepsSafe

(* What a collection frees is no root: it has left the live table, so it   *)
(* was joined; a failed one was waited for, and as no waiter is left with  *)
(* it, some wait() has handed its failure out.                             *)
LEMMA CollectSafe ==
  ASSUME GInv, NEW th \in Threads, Collect(th), IInv'
  PROVE  Safe'
<1>0. TypeOK /\ TypeOK' /\ LiveIsUnjoined /\ Places /\ Debts /\ Safe
  BY DEF GInv, IInv
<1> USE <1>0 DEF Collect
<1>1. UNCHANGED <<pc, tgt, fin, joined, errtext, seen, named>>
  BY DEF vars, otask
<1>2. ASSUME NEW t \in Created \ Roots
      PROVE  /\ joined[t] /\ (errtext[t] => t \in seen) /\ t \notin named
             /\ \A u \in Threads : tgt[u] = t => ~InWait(u) /\ t \in seen
  <2>1. /\ t \in Tasks /\ joined[t] /\ t \notin named
        /\ \A u \in Threads : tgt[u] = t => ~InWait(u)
    BY DEF Roots, Created, LiveIsUnjoined
  <2>2. errtext[t] => t \in seen
    BY <2>1 DEF Debts, InProgram
  <2>3. ASSUME NEW u \in Threads, tgt[u] = t
        PROVE  t \in seen
    <3>1. u = Main /\ fin
      BY <2>1, <2>3, TaskAssumption DEF InWait, Places
    <3>2. QED
      BY <2>1, <2>3, <3>1, TaskAssumption DEF Safe, TakenFromMain
  <2>4. QED
    BY <2>1, <2>2, <2>3
<1>3. FreedIsSettled'
  BY <1>1, <1>2 DEF Safe, FreedIsSettled, InWait
<1>4. QED
  BY <1>1, <1>3 DEF Safe, GTypeOK, Created, TakenFromMain

LEMMA GNextHolds == GInv /\ [GNext]_allvars => GInv'
<1> SUFFICES ASSUME GInv, [GNext]_allvars PROVE GInv'
  OBVIOUS
<1>1. IInv'
  BY TaskStepOrCrash, StepIInv, CrashHolds DEF GInv
<1>2. Safe'
  <2>1. ASSUME NEW th \in Threads, NEW t \in Tasks, GSpawn(th, t)
        PROVE  Safe'
    BY <1>1, <2>1, SpawnSafe
  <2>2. ASSUME NEW th \in Threads, NEW t \in Tasks, GWait(th, t)
        PROVE  Safe'
    BY <1>1, <2>2, WaitSafe
  <2>3. ASSUME NEW th \in Threads, NEW t \in Tasks, DropHandle(th, t)
        PROVE  Safe'
    <3>1. /\ UNCHANGED <<pc, tgt, fin, joined, errtext, seen, swept>>
          /\ named' \subseteq named /\ TypeOK'
      BY <1>1, <2>3 DEF DropHandle, vars, otask, IInv
    <3>2. QED
      BY <3>1 DEF GInv, Safe, GTypeOK, Created, FreedIsSettled,
         TakenFromMain, InWait
  <2>4. ASSUME NEW th \in Threads, ThreadStep(th) /\ UNCHANGED gcvars
        PROVE  Safe'
    BY <1>1, <2>4, ThreadStepSafe
  <2>5. ASSUME NEW t \in Tasks, TaskStep(t) /\ UNCHANGED gcvars
        PROVE  Safe'
    BY <1>1, <2>5, TaskStepSafe
  <2>6. CASE MainStep /\ UNCHANGED gcvars
    BY <1>1, <2>6, MainStepSafe
  <2>7. ASSUME NEW th \in Threads, Collect(th)
        PROVE  Safe'
    BY <1>1, <2>7, CollectSafe
  <2>8. CASE UseAfterFreeCrashes \/ UNCHANGED allvars
    <3>1. /\ UNCHANGED <<pc, tgt, fin, joined, errtext, seen, gcvars>>
          /\ TypeOK'
      BY <1>1, <2>8 DEF UseAfterFreeCrashes, allvars, vars, otask, IInv
    <3>2. QED
      BY <3>1, KeepsSafe
      DEF Kept, NotTaken, InWait, TakenFromMain, GInv, Safe
  <2>9. QED
    BY <2>1, <2>2, <2>3, <2>4, <2>5, <2>6, <2>7, <2>8 DEF GNext
<1>3. QED
  BY <1>1, <1>2 DEF GInv

(* The inductive invariant: that of VxTasks, and what the collector keeps  *)
(* (task.c:31-191, gc.c:263-291).                                          *)
THEOREM CollectorInvariance == GSpec => []GInv
<1>1. QED
  BY GInitHolds, GNextHolds, PTL DEF GSpec

(* A collection frees a task only when it was joined, its failure raised   *)
(* at some wait(), no handle left and nobody at work on it except main in  *)
(* tasks_finish, which a wait() has overtaken there (task.c:158-191,       *)
(* gc.c:247-252, 263-287).                                                 *)
THEOREM FreedIsSettledAlways == GSpec => []FreedIsSettled
<1>1. GInv => FreedIsSettled
  BY DEF GInv, Safe
<1>2. QED
  BY <1>1, CollectorInvariance, PTL
=============================================================================
