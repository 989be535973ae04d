------------------------------ MODULE VxAgent ------------------------------
(***************************************************************************)
(* Agents of the C virtual machine (vm/net.c agent_ask and ai_post).       *)
(*                                                                         *)
(* An agent keeps its history as a list of texts without roles: entry i is *)
(* the user's if i is even (net.c:323).  Any number of tasks may call one  *)
(* agent.  A call runs under vx_gil up to the POST and after it, and the   *)
(* lock is free in between; an error leaves it by longjmp wherever it is.  *)
(* Memory may run out whenever a buffer grows (--max-mem).                 *)
(***************************************************************************)
EXTENDS Integers, Sequences

CONSTANTS
  Asks,      \* the calls made to the agent
  InitCap    \* new_agent's new_list(4)

ASSUME AgentAssumption == InitCap \in Nat \ {0} /\ InitCap % 2 = 0

VARIABLES
  history,   \* OAgent.history: the texts, each with the call it belongs to
             \* and who really said it
  cap,       \* OList.cap
  pc,        \* "before", "posting", "answered" or "failed", per call
  sent       \* the messages of the request body

vars == <<history, cap, pc, sent>>

Said(q, who) == [q |-> q, who |-> who]

(* body_msg over the history, then the prompt: roles by position.          *)
Message(q, role) == [q |-> q, role |-> role]

Body(q) ==
  Append([i \in DOMAIN history |->
            Message(history[i].q, IF i % 2 = 1 THEN "user" ELSE "assistant")],
         Message(q, "user"))

Init ==
  /\ history = <<>>
  /\ cap  = InitCap
  /\ pc   = [q \in Asks |-> "before"]
  /\ sent = [q \in Asks |-> <<>>]

(* need_net refuses, or the body or the key cannot be made: nothing was    *)
(* sent.                                                                   *)
Refused(q) ==
  /\ pc[q] = "before"
  /\ pc' = [pc EXCEPT ![q] = "failed"]
  /\ UNCHANGED <<history, cap, sent>>

(* agent_ask up to the POST, in one hold of the lock.                      *)
Post(q) ==
  /\ pc[q] = "before"
  /\ pc' = [pc EXCEPT ![q] = "posting"]
  /\ sent' = [sent EXCEPT ![q] = Body(q)]
  /\ UNCHANGED <<history, cap>>

(* Mutant of PostFails: the prompt joins the history before the POST.      *)
PostFailsKeepsPrompt(q) ==
  /\ pc[q] = "posting"
  /\ pc' = [pc EXCEPT ![q] = "failed"]
  /\ history' = Append(history, Said(q, "user"))
  /\ UNCHANGED <<cap, sent>>

(* ai_post raises: no connection, an HTTP error, a reply without content.  *)
PostFails(q) ==
  /\ pc[q] = "posting"
  /\ pc' = [pc EXCEPT ![q] = "failed"]
  /\ UNCHANGED <<history, cap, sent>>

(* Mutant of Grown: a full list grows by one place.                        *)
GrownByOne(c, n) == IF n = c THEN c + 1 ELSE c

(* list_push doubles a full list.                                          *)
Grown(c, n) == IF n = c THEN 2 * c ELSE c

(* The two list_push after the reply.  A push fails only where the list    *)
(* must grow; the first of the two may fail, ...                           *)
PushFails(q) ==
  /\ pc[q] = "posting"
  /\ pc' = [pc EXCEPT ![q] = "failed"]
  /\ \/ /\ Len(history) = cap
        /\ UNCHANGED <<history, cap>>
     \/ /\ Len(history) + 1 = Grown(cap, Len(history))
        /\ history' = Append(history, Said(q, "user"))
        /\ cap' = Grown(cap, Len(history))
  /\ UNCHANGED sent

(* Mutant of Answer: the prompt goes in after the reply.                   *)
AnswerSwapped(q) ==
  /\ pc[q] = "posting"
  /\ pc' = [pc EXCEPT ![q] = "answered"]
  /\ history' = history \o <<Said(q, "assistant"), Said(q, "user")>>
  /\ cap' = Grown(Grown(cap, Len(history)), Len(history) + 1)
  /\ UNCHANGED sent

(* ... or both succeed and the call returns the reply.                     *)
Answer(q) ==
  /\ pc[q] = "posting"
  /\ pc' = [pc EXCEPT ![q] = "answered"]
  /\ history' = history \o <<Said(q, "user"), Said(q, "assistant")>>
  /\ cap' = Grown(Grown(cap, Len(history)), Len(history) + 1)
  /\ UNCHANGED sent

Step(q) == Refused(q) \/ Post(q) \/ PostFails(q) \/ PushFails(q) \/ Answer(q)

Next == \E q \in Asks : Step(q)

Spec == Init /\ [][Next]_vars
-----------------------------------------------------------------------------
TypeOK ==
  /\ history \in Seq([q : Asks, who : {"user", "assistant"}])
  /\ cap \in Nat /\ Len(history) <= cap
  /\ pc \in [Asks -> {"before", "posting", "answered", "failed"}]
  /\ sent \in [Asks -> Seq([q : Asks, role : {"user", "assistant"}])]

(* The role a request gives a text is that of who said it, though roles    *)
(* are only guessed from the position (net.c:323-326): an agent never      *)
(* hears its own words as the user's.                                      *)
RolesAreRight ==
  \A q \in Asks : \A i \in 1..(Len(sent[q]) - 1) :
    sent[q][i].role = history[i].who

(* net.c:330: "on failure (longjmp) history is untouched".                 *)
FailureLeavesHistory ==
  [][\A q \in Asks : pc'[q] = "failed" /\ pc[q] # "failed"
                       => history' = history]_vars

(* Many tasks in one agent, with failures, are still one conversation      *)
(* (net.c:300-338).                                                        *)
Roles(h) == [i \in DOMAIN h |-> [q |-> h[i].q, role |-> h[i].who]]

Talk == INSTANCE AgentTalk WITH
          talk <- Roles(history),
          over <- {q \in Asks : pc[q] \in {"answered", "failed"}}

ImplementsTalk == Talk!Spec
=============================================================================
