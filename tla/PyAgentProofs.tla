--------------------------- MODULE PyAgentProofs ---------------------------
(***************************************************************************)
(* Proofs about PyAgent, for every set of agents and of calls.             *)
(***************************************************************************)
EXTENDS PyAgent, TLAPS

(* Where a call has put its own message, has sent nothing yet, has its     *)
(* answer.                                                                 *)
Unsent    == {"before", "entered", "isolated", "appended"}
Appended  == {"appended", "posting", "replied", "raised", "answered", "failed"}
Answered  == {"replied", "answered"}

InOrder(h, q) ==
  \E i, j \in DOMAIN h : i < j /\ h[i] = User(q) /\ h[j] = Reply(q)

(* What the history of a call's agent holds, by the place of the call.     *)
Kept(q) ==
  /\ pc[q] # "before" => agent[q] \in Agents
  /\ pc[q] \in Unsent => sent[q] = <<>>
  /\ pc[q] \in Appended => Has(history[agent[q]], User(q))
  /\ sent[q] # <<>> => /\ IsPrefixOf(sent[q], history[agent[q]])
                       /\ Has(sent[q], User(q))
  /\ pc[q] \in Answered => InOrder(history[agent[q]], q)

IInv == TypeOK /\ \A q \in Asks : Kept(q)

-----------------------------------------------------------------------------
(* list.append keeps every entry where it is.                              *)
LEMMA AppendKeeps ==
  ASSUME NEW h \in Seq(Messages), NEW m \in Messages
  PROVE  /\ Append(h, m) \in Seq(Messages)
         /\ DOMAIN h = 1..Len(h)
         /\ DOMAIN Append(h, m) = 1..(Len(h) + 1)
         /\ \A i \in 1..Len(h) : Append(h, m)[i] = h[i]
         /\ Append(h, m)[Len(h) + 1] = m
  OBVIOUS

(* So what is in the history, before what, and at its head, stays so.      *)
LEMMA AppendKeepsEntries ==
  ASSUME NEW h \in Seq(Messages), NEW m \in Messages
  PROVE  /\ Has(Append(h, m), m)
         /\ \A x : Has(h, x) => Has(Append(h, m), x)
         /\ \A q : InOrder(h, q) => InOrder(Append(h, m), q)
         /\ \A q : Has(h, User(q)) /\ m = Reply(q) => InOrder(Append(h, m), q)
<1> DEFINE g == Append(h, m)
<1>1. /\ DOMAIN h = 1..Len(h)
      /\ DOMAIN g = 1..(Len(h) + 1)
      /\ \A i \in 1..Len(h) : g[i] = h[i]
      /\ g[Len(h) + 1] = m
      /\ Len(h) \in Nat
  BY AppendKeeps
<1> HIDE DEF g
<1>2. QED
  BY <1>1 DEF g, Has, InOrder

LEMMA AppendKeepsPrefix ==
  ASSUME NEW h \in Seq(Messages), NEW m \in Messages, NEW s \in Seq(Messages),
         IsPrefixOf(s, h)
  PROVE  IsPrefixOf(s, Append(h, m))
<1>1. Len(s) <= Len(h) /\ Len(Append(h, m)) = Len(h) + 1 /\ Len(s) \in Nat
      /\ Len(h) \in Nat
  BY DEF IsPrefixOf
<1>2. SubSeq(Append(h, m), 1, Len(s)) = SubSeq(h, 1, Len(s))
  BY <1>1, AppendKeeps
<1>3. QED
  BY <1>1, <1>2 DEF IsPrefixOf

LEMMA PrefixOfItself ==
  ASSUME NEW h \in Seq(Messages)
  PROVE  IsPrefixOf(h, h)
  BY DEF IsPrefixOf

-----------------------------------------------------------------------------
LEMMA InitHolds == Init => IInv
<1> SUFFICES ASSUME Init PROVE IInv
  OBVIOUS
<1>1. <<>> \in Seq(Messages)
  OBVIOUS
<1>2. TypeOK
  BY <1>1 DEF Init, TypeOK, Places
<1>3. ASSUME NEW q \in Asks PROVE Kept(q)
  BY DEF Init, Kept, Appended, Answered
<1>4. QED
  BY <1>2, <1>3 DEF IInv

(* A step of one call that leaves the histories alone.                     *)
LEMMA QuietStep ==
  ASSUME IInv, NEW p \in Asks,
         (\E a \in Agents : Enter(p, a)) \/ Isolate(p) \/ PostFails(p) \/ Leave(p)
  PROVE  IInv'
<1> USE DEF IInv
<1>1. TypeOK'
  BY DEF TypeOK, Enter, Isolate, PostFails, Leave, Goto, Places
<1>2. history' = history /\ sent' = sent
  BY DEF Enter, Isolate, PostFails, Leave
<1>3. ASSUME NEW q \in Asks PROVE Kept(q)'
  BY <1>2 DEF TypeOK, Enter, Isolate, PostFails, Leave, Goto, Kept, Unsent,
     Appended, Answered
<1>4. QED
  BY <1>1, <1>3

(* A call sends what the history holds: its own message is among it.       *)
LEMMA PostStep ==
  ASSUME IInv, NEW p \in Asks, Post(p)
  PROVE  IInv'
<1> USE DEF IInv
<1>0. agent[p] \in Agents /\ history[agent[p]] \in Seq(Messages)
  BY DEF TypeOK, Kept, Post, Goto
<1>1. TypeOK'
  BY <1>0 DEF TypeOK, Post, Goto, Places
<1>2. ASSUME NEW q \in Asks PROVE Kept(q)'
  BY <1>0, PrefixOfItself DEF TypeOK, Post, Goto, Kept, Unsent, Appended,
     Answered
<1>3. QED
  BY <1>1, <1>2

(* A call appends to the history of its agent; others may be about the     *)
(* same history.                                                           *)
LEMMA AppendStep ==
  ASSUME IInv, NEW p \in Asks, AppendUser(p) \/ AppendReply(p)
  PROVE  IInv'
<1> USE DEF IInv
<1> DEFINE m == IF AppendUser(p) THEN User(p) ELSE Reply(p)
<1>0. /\ agent[p] \in Agents /\ m \in Messages
      /\ AppendUser(p) => pc[p] = "isolated" /\ m = User(p)
      /\ ~AppendUser(p) => pc[p] = "posting" /\ m = Reply(p)
      /\ pc' = [pc EXCEPT ![p] = IF AppendUser(p) THEN "appended"
                                                  ELSE "replied"]
      /\ history' = [history EXCEPT ![agent[p]] = Append(@, m)]
      /\ UNCHANGED <<cubicle, agent, old, sent>>
  BY DEF TypeOK, Kept, AppendUser, AppendReply, Goto, Messages, User, Reply
<1> HIDE DEF m
<1>1. TypeOK'
  BY <1>0 DEF TypeOK, Places
<1>2. ASSUME NEW q \in Asks PROVE Kept(q)'
  <2>1. CASE agent[q] # agent[p]
    BY <1>0, <2>1 DEF TypeOK, Kept, Unsent, Appended, Answered
  <2>2. CASE agent[q] = agent[p]
    <3> DEFINE h == history[agent[p]]
               g == Append(h, m)
    <3>1. h \in Seq(Messages) /\ sent[q] \in Seq(Messages)
      BY <1>0 DEF TypeOK
    <3>2. history'[agent'[q]] = g /\ sent'[q] = sent[q]
          /\ agent'[q] = agent[p]
      BY <1>0, <2>2 DEF TypeOK
    <3>3. /\ Has(g, m)
          /\ \A x : Has(h, x) => Has(g, x)
          /\ InOrder(h, q) => InOrder(g, q)
          /\ Has(h, User(q)) /\ m = Reply(q) => InOrder(g, q)
          /\ IsPrefixOf(sent[q], h) => IsPrefixOf(sent[q], g)
      BY <3>1, <1>0, AppendKeepsEntries, AppendKeepsPrefix
    <3> HIDE DEF g
    <3>4. CASE q # p
      BY <1>0, <2>2, <3>2, <3>3, <3>4 DEF TypeOK, Kept, Unsent, Appended,
         Answered
    <3>5. CASE q = p
      BY <1>0, <2>2, <3>2, <3>3, <3>5 DEF TypeOK, Kept, Unsent, Appended,
         Answered
    <3>6. QED
      BY <3>4, <3>5
  <2>3. QED
    BY <2>1, <2>2
<1>3. QED
  BY <1>1, <1>2

LEMMA NextHolds == IInv /\ [Next]_vars => IInv'
<1> SUFFICES ASSUME IInv, [Next]_vars PROVE IInv'
  OBVIOUS
<1>1. ASSUME NEW q \in Asks, Step(q) PROVE IInv'
  BY <1>1, QuietStep, PostStep, AppendStep DEF Step
<1>2. CASE UNCHANGED vars
  BY <1>2 DEF vars, IInv, TypeOK, Kept
<1>3. QED
  BY <1>1, <1>2 DEF Next

(* The inductive invariant, for any calls of any agents                    *)
(* (vidyax.py:1399-1421).                                                  *)
THEOREM Invariance == Spec => []IInv
<1>1. QED
  BY InitHolds, NextHolds, PTL DEF Spec

(* Whatever else is appended in the meantime, no message that was sent or  *)
(* answered leaves the history (vidyax.py:1409-1417).                      *)
THEOREM NothingIsForgottenAlways == Spec => []NothingIsForgotten
<1>1. IInv => NothingIsForgotten
  BY DEF IInv, Kept, NothingIsForgotten, Answered, InOrder
<1>2. QED
  BY <1>1, Invariance, PTL
=============================================================================
