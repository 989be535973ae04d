----------------------------- MODULE AgentTalk -----------------------------
(***************************************************************************)
(* What an agent promises: one conversation (docs/REFERENCE.md:363-368).   *)
(* A call sends the conversation so far and its own message; when it is    *)
(* answered, message and reply join the conversation together; when it     *)
(* fails, the conversation is as if it had not been made.                  *)
(* VxAgent implements it.                                                  *)
(***************************************************************************)
EXTENDS Sequences

CONSTANTS Asks     \* the calls of one agent, by any task

User(q)  == [q |-> q, role |-> "user"]
Reply(q) == [q |-> q, role |-> "assistant"]

VARIABLES
  talk,    \* the conversation
  sent,    \* what each call sent, <<>> before
  over     \* calls that returned or failed

vars == <<talk, sent, over>>

Init ==
  /\ talk = <<>>
  /\ sent = [q \in Asks |-> <<>>]
  /\ over = {}

Send(q) ==
  /\ q \notin over /\ sent[q] = <<>>
  /\ sent' = [sent EXCEPT ![q] = Append(talk, User(q))]
  /\ UNCHANGED <<talk, over>>

Answer(q) ==
  /\ q \notin over /\ sent[q] # <<>>
  /\ talk' = talk \o <<User(q), Reply(q)>>
  /\ over' = over \cup {q}
  /\ UNCHANGED sent

Fail(q) ==
  /\ q \notin over
  /\ over' = over \cup {q}
  /\ UNCHANGED <<talk, sent>>

Next == \E q \in Asks : Send(q) \/ Answer(q) \/ Fail(q)

Spec == Init /\ [][Next]_vars
=============================================================================
