------------------------------ MODULE VxUnwind ------------------------------
(***************************************************************************)
(* Control flow of one execution context of the C virtual machine: call    *)
(* frames, try handlers and sandbox blocks (vm/vm.c), together with the    *)
(* code the compiler emits for them (vxc.py).                              *)
(*                                                                         *)
(* The compiler knows, for each place of a function, the try, sandbox and  *)
(* loop blocks around it; here that is frames[i].open.  The machine knows  *)
(* only its three stacks.  break and continue are several instructions,    *)
(* and an error may strike between any two of them.                        *)
(***************************************************************************)
EXTENDS Integers, Sequences, SequencesExt, FiniteSetsExt

CONSTANTS
  Caps,          \* the capabilities: PERM_NET, PERM_FS
  Net, Fs,
  MaxFrames,     \* FRAMES_MAX
  MaxHandlers,   \* HANDLERS_MAX
  MaxSbox,       \* SBOX_MAX
  MaxOpen,       \* bound: blocks open in one function
  Slots,         \* stack slots of every function, its arguments included
  MaxTemps       \* bound: temporaries below a call

ASSUME UnwindAssumption ==
  /\ Net \in Caps /\ Fs \in Caps /\ Net # Fs
  /\ {MaxFrames, MaxHandlers, MaxSbox, MaxOpen} \subseteq Nat \ {0}
  /\ {Slots, MaxTemps} \subseteq Nat

VARIABLES
  grant,      \* what the context started with (--allow-*, or the spawner's)
  frames,     \* call frames: base, the operands of the calling expression below
              \* it, and the blocks open at the frame's ip
  handlers,   \* x_handlers
  sbox,       \* x_sbox
  perms,      \* the capability bits
  isolated,   \* s_n_isolated
  sp,         \* height of the operand stack
  todo,       \* instructions left of the statement being executed
  asking,     \* agent_ask's locals while it runs, or NoAsk
  spent,      \* the instruction limit is exceeded
  status      \* "running", "done" or "dead"

vars == <<grant, frames, handlers, sbox, perms, isolated, sp, todo, asking,
          spent, status>>

Try     == [kind |-> "try", deny |-> {}]
Loop    == [kind |-> "loop", deny |-> {}]
Sandbox(deny) == [kind |-> "sbox", deny |-> deny]
Blocks  == {Try, Loop} \cup {Sandbox(d) : d \in SUBSET Caps \ {{}}}

IsTry(b)  == b.kind = "try"
IsLoop(b) == b.kind = "loop"
IsSbox(b) == b.kind = "sbox"

NoAsk == [active |-> FALSE, perms |-> {}, isolated |-> FALSE]

Top       == Len(frames)
Open      == frames[Top].open
SetOpen(open) == frames' = [frames EXCEPT ![Top].open = open]

(* The part of a stack below the entries on its top that the running       *)
(* frame opened.                                                           *)
Keep(s) == SubSeq(s, 1, Max({0} \cup {i \in DOMAIN s : s[i].frame # Top}))

(* perms after leaving the sandboxes above the first n: the oldest of them *)
(* is left last.                                                           *)
PermsBelow(n) == IF n < Len(sbox) THEN sbox[n + 1].saved ELSE perms

Init ==
  /\ grant \in SUBSET Caps
  /\ frames   = << [base |-> 0, temps |-> 0, open |-> <<>>] >>
  /\ handlers = <<>>
  /\ sbox     = <<>>
  /\ perms    = grant
  /\ isolated = FALSE
  /\ sp       = Slots
  /\ todo     = <<>>
  /\ asking   = NoAsk
  /\ spent    = FALSE
  /\ status   = "running"
-----------------------------------------------------------------------------
(* Between two statements, with the limit not yet hit.                     *)
Ready ==
  /\ status = "running"
  /\ ~spent
  /\ todo = <<>>
  /\ ~asking.active

(* The context dies of an error nobody handles.                            *)
Die ==
  /\ handlers = <<>>
  /\ status' = "dead"
  /\ asking' = NoAsk
  /\ UNCHANGED <<grant, frames, handlers, sbox, perms, isolated, sp, todo>>

(* An error lands in the try of handler h: frames and operands are cut     *)
(* back, and the message is pushed for the catch block to store.           *)
Land(h, left, permsAfter, height) ==
  /\ handlers' = left
  /\ perms' = permsAfter
  /\ sbox' = SubSeq(sbox, 1, Min({h.nsbox, Len(sbox)}))
  /\ frames' = Append(SubSeq(frames, 1, h.frame - 1),
                      [frames[h.frame] EXCEPT !.open = h.catch])
  /\ sp' = height + 1
  /\ todo' = <<"POP">>
  /\ asking' = NoAsk
  /\ UNCHANGED <<grant, isolated, status>>

(* Mutants of Raise: the sandboxes of the failed block stay in force; the  *)
(* handler is not taken off.                                               *)
RaiseKeepsPerms ==
  \/ Die
  \/ /\ handlers # <<>>
     /\ LET h == Last(handlers) IN Land(h, Front(handlers), perms, h.sp)

RaiseKeepsHandler ==
  \/ Die
  \/ /\ handlers # <<>>
     /\ LET h == Last(handlers) IN Land(h, handlers, PermsBelow(h.nsbox), h.sp)

(* vm_error: longjmp to vx_run_loop, which takes the innermost handler and *)
(* leaves the sandboxes opened since.                                      *)
Raise ==
  \/ Die
  \/ /\ handlers # <<>>
     /\ LET h == Last(handlers)
        IN  Land(h, Front(handlers), PermsBelow(h.nsbox), h.sp)

(* A statement fails, or a table of the machine is full; ...               *)
RuntimeError == Ready /\ Raise /\ UNCHANGED spent

(* ... the time limit strikes, between any two instructions; ...           *)
TimeLimit ==
  /\ status = "running"
  /\ ~asking.active /\ ~spent
  /\ Raise
  /\ UNCHANGED spent

(* ... or the instruction limit: exceeded once, every later instruction    *)
(* raises it again.                                                        *)
InstrLimit ==
  /\ status = "running"
  /\ ~asking.active
  /\ spent' = TRUE
  /\ Raise
-----------------------------------------------------------------------------
(* TryCatch: TRY_PUSH, the block, TRY_POP.                                 *)
EnterTry ==
  /\ Ready
  /\ Len(Open) < MaxOpen
  /\ Len(handlers) < MaxHandlers
  /\ handlers' = Append(handlers, [frame |-> Top, sp |-> sp,
                                   nsbox |-> Len(sbox), catch |-> Open])
  /\ SetOpen(Append(Open, Try))
  /\ UNCHANGED <<grant, sbox, perms, isolated, sp, todo, asking, spent, status>>

LeaveTry ==
  /\ Ready
  /\ Open # <<>> /\ IsTry(Last(Open))
  /\ handlers' = Front(handlers)
  /\ SetOpen(Front(Open))
  /\ UNCHANGED <<grant, sbox, perms, isolated, sp, todo, asking, spent, status>>

(* Sandbox: SBOX_ENTER mask, the block, SBOX_EXIT.                         *)
EnterSandbox(deny) ==
  /\ Ready
  /\ Len(Open) < MaxOpen
  /\ Len(sbox) < MaxSbox
  /\ sbox' = Append(sbox, [saved |-> perms, frame |-> Top])
  /\ perms' = perms \ deny
  /\ SetOpen(Append(Open, Sandbox(deny)))
  /\ UNCHANGED <<grant, handlers, isolated, sp, todo, asking, spent, status>>

LeaveSandbox ==
  /\ Ready
  /\ Open # <<>> /\ IsSbox(Last(Open))
  /\ perms' = Last(sbox).saved
  /\ sbox' = Front(sbox)
  /\ SetOpen(Front(Open))
  /\ UNCHANGED <<grant, handlers, isolated, sp, todo, asking, spent, status>>

(* rpt and for: the counters live in hidden slots, no stack is touched.    *)
EnterLoop ==
  /\ Ready
  /\ Len(Open) < MaxOpen
  /\ SetOpen(Append(Open, Loop))
  /\ UNCHANGED <<grant, handlers, sbox, perms, isolated, sp, todo, asking,
                 spent, status>>

LeaveLoop ==
  /\ Ready
  /\ Open # <<>> /\ IsLoop(Last(Open))
  /\ SetOpen(Front(Open))
  /\ UNCHANGED <<grant, handlers, sbox, perms, isolated, sp, todo, asking,
                 spent, status>>

(* The place of the innermost loop of the running function, 0 if none.      *)
InnermostLoop == SelectLastInSeq(Open, IsLoop)

JumpOnly(kind) ==               \* mutant of Jump: no pop_tries_to_loop
  /\ Ready
  /\ InnermostLoop > 0
  /\ todo' = <<kind>>
  /\ UNCHANGED <<grant, frames, handlers, sbox, perms, isolated, sp, asking,
                 spent, status>>

(* The blocks of a kind between here and that loop.                        *)
Inside(kind) == {i \in DOMAIN Open : i > InnermostLoop /\ Open[i].kind = kind}

(* break and continue: pop_tries_to_loop emits a TRY_POP per try block and *)
(* an SBOX_EXIT per sandbox between here and the innermost loop, then JMP. *)
Jump(kind) ==
  LET Times(op, n) == [i \in 1..n |-> op]
  IN /\ Ready
     /\ InnermostLoop > 0
     /\ todo' = Times("TRY_POP", Cardinality(Inside("try")))
                \o Times("SBOX_EXIT", Cardinality(Inside("sbox"))) \o <<kind>>
     /\ UNCHANGED <<grant, frames, handlers, sbox, perms, isolated, sp, asking,
                    spent, status>>

NextInstr(op) ==
  /\ status = "running" /\ ~spent
  /\ todo # <<>> /\ Head(todo) = op
  /\ todo' = Tail(todo)
  /\ UNCHANGED <<grant, isolated, asking, spent, status>>

TryPop ==
  /\ NextInstr("TRY_POP")
  /\ handlers' = Front(handlers)
  /\ UNCHANGED <<frames, sbox, perms, sp>>

SboxExit ==
  /\ NextInstr("SBOX_EXIT")
  /\ perms' = Last(sbox).saved
  /\ sbox' = Front(sbox)
  /\ UNCHANGED <<frames, handlers, sp>>

JumpBreak ==
  /\ NextInstr("break")
  /\ SetOpen(SubSeq(Open, 1, InnermostLoop - 1))
  /\ UNCHANGED <<handlers, sbox, perms, sp>>

JumpContinue ==
  /\ NextInstr("continue")
  /\ SetOpen(SubSeq(Open, 1, InnermostLoop))
  /\ UNCHANGED <<handlers, sbox, perms, sp>>

StoreError ==
  /\ NextInstr("POP")
  /\ sp' = sp - 1
  /\ UNCHANGED <<frames, handlers, sbox, perms>>
-----------------------------------------------------------------------------
(* OP_CALL of a function, with temps operands of the calling expression    *)
(* below the callee.                                                       *)
Call(temps) ==
  /\ Ready
  /\ Top < MaxFrames
  /\ frames' = Append(frames, [base |-> sp + temps, temps |-> temps,
                               open |-> <<>>])
  /\ sp' = sp + temps + Slots
  /\ UNCHANGED <<grant, handlers, sbox, perms, isolated, todo, asking, spent,
                 status>>

ReturnKeepsSandboxes ==         \* mutant of Return: x_sbox is not unwound
  /\ Ready
  /\ handlers' = Keep(handlers)
  /\ IF Top = 1
     THEN status' = "done" /\ UNCHANGED <<frames, sp>>
     ELSE /\ frames' = Front(frames)
          /\ sp' = frames[Top].base - frames[Top].temps
          /\ UNCHANGED status
  /\ UNCHANGED <<grant, sbox, perms, isolated, todo, asking, spent>>

(* OP_RET: drop the handlers and sandboxes opened in this frame, then the  *)
(* frame, and sp goes back to its base.  The caller finishes its statement *)
(* with the result, which takes it and the operands below it off.  In a    *)
(* task the entry call may return as well: the context is done.            *)
Return ==
  LET left == Keep(sbox)
  IN /\ Ready
     /\ handlers' = Keep(handlers)
     /\ sbox' = left
     /\ perms' = PermsBelow(Len(left))
     /\ IF Top = 1
        THEN status' = "done" /\ UNCHANGED <<frames, sp>>
        ELSE /\ frames' = Front(frames)
             /\ sp' = frames[Top].base - frames[Top].temps
             /\ UNCHANGED status
     /\ UNCHANGED <<grant, isolated, todo, asking, spent>>

(* agent_ask: need_net, then PERM_FS is cleared until the reply is there.  *)
AgentAsk ==
  /\ Ready
  /\ Net \in perms
  /\ asking' = [active |-> TRUE, perms |-> perms, isolated |-> isolated]
  /\ perms' = perms \ {Fs}
  /\ isolated' = TRUE
  /\ UNCHANGED <<grant, frames, handlers, sbox, sp, todo, spent, status>>

AgentReply ==
  /\ asking.active
  /\ perms' = asking.perms
  /\ isolated' = asking.isolated
  /\ asking' = NoAsk
  /\ UNCHANGED <<grant, frames, handlers, sbox, sp, todo, spent, status>>

(* ai_post raises: no key, no connection, an HTTP error, a bad reply.      *)
AgentFails == asking.active /\ Raise /\ UNCHANGED spent
-----------------------------------------------------------------------------
Next ==
  \/ RuntimeError \/ TimeLimit \/ InstrLimit
  \/ EnterTry \/ LeaveTry
  \/ \E deny \in SUBSET Caps \ {{}} : EnterSandbox(deny)
  \/ LeaveSandbox
  \/ EnterLoop \/ LeaveLoop
  \/ \E kind \in {"break", "continue"} : Jump(kind)
  \/ TryPop \/ SboxExit \/ JumpBreak \/ JumpContinue \/ StoreError
  \/ \E temps \in 0..MaxTemps : Call(temps)
  \/ Return
  \/ AgentAsk \/ AgentReply \/ AgentFails

Spec == Init /\ [][Next]_vars

(* The dispatch loop goes on by itself.                                    *)
FairSpec == Spec /\ WF_vars(InstrLimit)
-----------------------------------------------------------------------------
TypeOK ==
  /\ grant \subseteq Caps
  /\ frames \in Seq([base : Nat, temps : Nat, open : Seq(Blocks)])
  /\ frames # <<>>
  /\ handlers \in Seq([frame : 1..MaxFrames, sp : Nat, nsbox : 0..MaxSbox,
                       catch : Seq(Blocks)])
  /\ sbox \in Seq([saved : SUBSET Caps, frame : 1..MaxFrames])
  /\ Len(handlers) <= MaxHandlers /\ Len(sbox) <= MaxSbox
  /\ perms \subseteq Caps
  /\ isolated \in BOOLEAN
  /\ sp \in Nat
  /\ todo \in Seq({"TRY_POP", "SBOX_EXIT", "break", "continue", "POP"})
  /\ asking \in [active : BOOLEAN, perms : SUBSET Caps, isolated : BOOLEAN]
  /\ spent \in BOOLEAN
  /\ status \in {"running", "done", "dead"}

(* Not in the middle of a break or continue.                               *)
AtRest == status = "running" /\ todo \in {<<>>, <<"POP">>}

(* What the program text says: each block in force, with its place.        *)
Places == {<<f, i>> : f \in DOMAIN frames, i \in 1..MaxOpen}
InForce == {p \in Places : p[2] \in DOMAIN frames[p[1]].open}
BlockAt(p) == frames[p[1]].open[p[2]]
Outside(p) == {q \in InForce : q[1] < p[1] \/ (q[1] = p[1] /\ q[2] < p[2])}
Count(P, Is(_)) == Cardinality({p \in P : Is(BlockAt(p))})
Denied(P) == UNION {BlockAt(p).deny : p \in P}

(* docs/REFERENCE.md:341-346: the capabilities in force are those granted, *)
(* less what the sandbox blocks around the place deny, however control got *)
(* there: by a call, the end of a block, break, return or a caught error   *)
(* (vm.c:92-100, 317-344; vxc.py:662-670, 734-740).  After an agent call   *)
(* has failed, which leaves the context isolated (net.c:331), they may be  *)
(* fewer and never more.                                                   *)
PermsAreLexical ==
  AtRest =>
    /\ perms \subseteq grant \ Denied(InForce)
    /\ ~isolated => perms = grant \ Denied(InForce)

(* The handler stack is exactly the try blocks in force, in their order,   *)
(* each with its frame, its sandbox depth and its statement's stack level  *)
(* (vm.c:317-320, 395-407).                                                *)
HandlersMatch ==
  LET tries == {p \in InForce : IsTry(BlockAt(p))}
      Nth(p) == handlers[1 + Count(Outside(p), IsTry)]
  IN AtRest =>
       /\ Len(handlers) = Cardinality(tries)
       /\ \A p \in tries :
            Nth(p) = [frame |-> p[1], sp |-> frames[p[1]].base + Slots,
                      nsbox |-> Count(Outside(p), IsSbox),
                      catch |-> SubSeq(frames[p[1]].open, 1, p[2] - 1)]

(* The sandbox stack is exactly the sandbox blocks in force, each with the *)
(* frame whose return must leave it (vm.c:321-323, 332-344).               *)
SandboxesMatch ==
  LET boxes == {p \in InForce : IsSbox(BlockAt(p))}
  IN AtRest =>
       /\ Len(sbox) = Cardinality(boxes)
       /\ \A p \in boxes : sbox[1 + Count(Outside(p), IsSbox)].frame = p[1]

(* No operand is lost or left behind by an error, a jump or a return: at a *)
(* statement the stack holds the slots of the top frame, and the message   *)
(* when a catch block begins (vm.c:97-100, 324-327).                       *)
StackIsLevel ==
  AtRest => sp = frames[Top].base + Slots + (IF todo = <<>> THEN 0 ELSE 1)

(* What the compiler knows of the open blocks and what the machine has on  *)
(* its three stacks is the same at every statement.                        *)
StacksMatch == TypeOK /\ HandlersMatch /\ SandboxesMatch /\ StackIsLevel

(* An error lands in the innermost try around the place that failed, in    *)
(* whatever function that is, and nowhere else (vm.c:92-100).              *)
LandsInnermost ==
  [][ AtRest /\ handlers' # handlers /\ todo' = <<"POP">> =>
        \E p \in InForce :
          /\ IsTry(BlockAt(p))
          /\ \A q \in InForce : IsTry(BlockAt(q)) => q = p \/ q \in Outside(p)
          /\ Len(frames') = p[1]
          /\ frames'[p[1]].open = SubSeq(frames[p[1]].open, 1, p[2] - 1)
          /\ SubSeq(frames', 1, p[1] - 1) = SubSeq(frames, 1, p[1] - 1) ]_vars

(* No nest of try blocks outlives the instruction limit (vm.c:112-114).    *)
LimitEnds == spent ~> status # "running"
=============================================================================
