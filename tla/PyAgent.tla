------------------------------ MODULE PyAgent ------------------------------
(***************************************************************************)
(* Agents of the two Python engines (vidyax.py _Agent), which share one    *)
(* runtime.  Tasks are Python threads: another thread may run between any  *)
(* two steps of a call, so a call is six actions.  The "cubicle" flag is a *)
(* global of the runtime, saved and restored by every call.                *)
(***************************************************************************)
EXTENDS Integers, Sequences

CONSTANTS
  Agents,
  Asks,      \* the calls, each made by some task to some agent
  NoAgent

ASSUME PyAgentAssumption == NoAgent \notin Agents

VARIABLES
  history,   \* _Agent._history
  cubicle,   \* _S_N_CUBICLE
  pc,        \* the line each call is at
  agent,     \* the agent each call is made to
  old,       \* its local old_s_n
  sent       \* its local messages, once sent

vars == <<history, cubicle, pc, agent, old, sent>>

User(q)  == [q |-> q, role |-> "user"]
Reply(q) == [q |-> q, role |-> "assistant"]

Busy == {q \in Asks : pc[q] \notin {"before", "answered", "failed"}}

Init ==
  /\ history = [a \in Agents |-> <<>>]
  /\ cubicle = FALSE
  /\ pc    = [q \in Asks |-> "before"]
  /\ agent = [q \in Asks |-> NoAgent]
  /\ old   = [q \in Asks |-> FALSE]
  /\ sent  = [q \in Asks |-> <<>>]

Goto(q, from, to) == pc[q] = from /\ pc' = [pc EXCEPT ![q] = to]

(* old_s_n = _S_N_CUBICLE                                                  *)
Enter(q, a) ==
  /\ Goto(q, "before", "entered")
  /\ agent' = [agent EXCEPT ![q] = a]
  /\ old' = [old EXCEPT ![q] = cubicle]
  /\ UNCHANGED <<history, cubicle, sent>>

(* _S_N_CUBICLE = True; the sandbox that follows is the thread's own.      *)
Isolate(q) ==
  /\ Goto(q, "entered", "isolated")
  /\ cubicle' = TRUE
  /\ UNCHANGED <<history, agent, old, sent>>

(* The message joins the history before it is sent.                        *)
AppendUser(q) ==
  /\ Goto(q, "isolated", "appended")
  /\ history' = [history EXCEPT ![agent[q]] = Append(@, User(q))]
  /\ UNCHANGED <<cubicle, agent, old, sent>>

(* messages.extend(self._history), and the POST.                           *)
Post(q) ==
  /\ Goto(q, "appended", "posting")
  /\ sent' = [sent EXCEPT ![q] = history[agent[q]]]
  /\ UNCHANGED <<history, cubicle, agent, old>>

(* Mutant of AppendReply: the reply replaces the tail of the history that  *)
(* was sent, as a history kept by assignment would.                        *)
AssignReply(q) ==
  /\ Goto(q, "posting", "replied")
  /\ history' = [history EXCEPT ![agent[q]] = Append(sent[q], Reply(q))]
  /\ UNCHANGED <<cubicle, agent, old, sent>>

(* The reply is there and joins the history; ...                           *)
AppendReply(q) ==
  /\ Goto(q, "posting", "replied")
  /\ history' = [history EXCEPT ![agent[q]] = Append(@, Reply(q))]
  /\ UNCHANGED <<cubicle, agent, old, sent>>

(* ... or _ask_messages raises: no permission, no key, no connection, an   *)
(* HTTP error, a reply of another shape.                                   *)
PostFails(q) ==
  /\ Goto(q, "posting", "raised")
  /\ UNCHANGED <<history, cubicle, agent, old, sent>>

(* finally: _S_N_CUBICLE = old_s_n                                         *)
Leave(q) ==
  /\ Goto(q, "replied", "answered") \/ Goto(q, "raised", "failed")
  /\ cubicle' = old[q]
  /\ UNCHANGED <<history, agent, old, sent>>

Step(q) ==
  \/ \E a \in Agents : Enter(q, a)
  \/ Isolate(q) \/ AppendUser(q) \/ Post(q)
  \/ AppendReply(q) \/ PostFails(q) \/ Leave(q)

Next == \E q \in Asks : Step(q)

Spec == Init /\ [][Next]_vars
-----------------------------------------------------------------------------
Places == {"before", "entered", "isolated", "appended", "posting", "replied",
           "raised", "answered", "failed"}

Messages == [q : Asks, role : {"user", "assistant"}]

TypeOK ==
  /\ history \in [Agents -> Seq(Messages)]
  /\ cubicle \in BOOLEAN
  /\ pc \in [Asks -> Places]
  /\ agent \in [Asks -> Agents \cup {NoAgent}]
  /\ old \in [Asks -> BOOLEAN]
  /\ sent \in [Asks -> Seq(Messages)]

IsPrefixOf(s, t) == Len(s) <= Len(t) /\ s = SubSeq(t, 1, Len(s))

Has(s, m) == \E i \in DOMAIN s : s[i] = m

(* However calls to one agent overlap, what a call sent is a prefix of the *)
(* history for good, it holds the call's own message, and no answered      *)
(* exchange is ever lost from it (vidyax.py:1409-1417).                    *)
NothingIsForgotten ==
  \A q \in Asks :
    LET h == history[agent[q]]
    IN  /\ sent[q] # <<>> => IsPrefixOf(sent[q], h) /\ Has(sent[q], User(q))
        /\ pc[q] \in {"replied", "answered"} =>
             \E i, j \in DOMAIN h : i < j /\ h[i] = User(q) /\ h[j] = Reply(q)
=============================================================================
