--------------------------- MODULE VxAgentProofs ---------------------------
(***************************************************************************)
(* Proofs about the agents of the C virtual machine, for any number of     *)
(* calls and any even initial capacity.                                    *)
(*                                                                         *)
(* Roles are right because the history always has an even length and an    *)
(* even capacity: an answer adds two texts, and when the first of the two  *)
(* fits, so does the second.  PushFails can therefore only fail at its     *)
(* first push, which changes nothing.                                      *)
(***************************************************************************)
EXTENDS VxAgent, SequenceTheorems, TLAPS

Role(i) == IF i % 2 = 1 THEN "user" ELSE "assistant"

Texts    == [q : Asks, who : {"user", "assistant"}]
Messages == [q : Asks, role : {"user", "assistant"}]

(* Everything the other parts of the invariant speak of is of its type.    *)
Even == Len(history) % 2 = 0 /\ cap % 2 = 0 /\ cap > 0

Alternates == \A i \in DOMAIN history : history[i].who = Role(i)

(* What was sent is a prefix of the history of today, with its prompt.     *)
SentIsPrefix ==
  \A q \in Asks :
    /\ Len(sent[q]) <= Len(history) + 1
    /\ \A i \in 1..(Len(sent[q]) - 1) : sent[q][i].role = Role(i)

(* A call has sent something exactly from its POST on.                     *)
SentWhenPosting ==
  \A q \in Asks : /\ pc[q] = "before" => sent[q] = <<>>
                  /\ pc[q] = "posting" => sent[q] # <<>>

IInv == TypeOK /\ Even /\ Alternates /\ SentIsPrefix /\ SentWhenPosting
-----------------------------------------------------------------------------
(* A push that finds room for the first of two texts has room for both.    *)
LEMMA NoHalfPush ==
  ASSUME NEW n \in Nat, NEW c \in Nat, n % 2 = 0, c % 2 = 0, c > 0, n <= c
  PROVE  /\ n + 1 # Grown(c, n)
         /\ Grown(Grown(c, n), n + 1) = Grown(c, n)
         /\ n + 2 <= Grown(c, n)
         /\ Grown(c, n) \in Nat /\ Grown(c, n) % 2 = 0 /\ Grown(c, n) > 0
<1>1. CASE n = c
  <2>1. Grown(c, n) = 2 * c
    BY <1>1 DEF Grown
  <2>2. (2 * c) % 2 = 0 /\ c >= 2
    OBVIOUS
  <2> QED BY <1>1, <2>1, <2>2 DEF Grown
<1>2. CASE n < c
  <2>1. Grown(c, n) = c
    BY <1>2 DEF Grown
  <2>2. n + 1 # c
    OBVIOUS
  <2> QED BY <1>2, <2>1, <2>2 DEF Grown
<1> QED BY <1>1, <1>2

(* Roles gives one message for each text.                                  *)
LEMMA RolesType ==
  ASSUME NEW h \in Seq(Texts)
  PROVE  Roles(h) \in Seq(Messages) /\ Len(Roles(h)) = Len(h)
<1>1. Len(h) \in Nat /\ DOMAIN h = 1..Len(h)
      /\ \A i \in 1..Len(h) : h[i] \in Texts
  OBVIOUS
<1>2. Roles(h) \in [1..Len(h) -> Messages]
  BY <1>1 DEF Roles, Texts, Messages
<1> QED BY <1>1, <1>2

(* A request body of an alternating history gives each text its role.      *)
LEMMA BodyIsRight ==
  ASSUME IInv, NEW q \in Asks
  PROVE  /\ Body(q) \in Seq(Messages)
         /\ Len(Body(q)) = Len(history) + 1
         /\ \A i \in 1..Len(history) : Body(q)[i].role = Role(i)
         /\ Body(q) = Append(Roles(history), Message(q, "user"))
<1> DEFINE b == [i \in DOMAIN history |->
                   Message(history[i].q, IF i % 2 = 1 THEN "user" ELSE "assistant")]
<1>1. history \in Seq(Texts) /\ Len(history) \in Nat
  BY DEF IInv, TypeOK, Texts
<1>2. DOMAIN history = 1..Len(history)
  BY <1>1
<1>3. \A i \in DOMAIN history : history[i] \in Texts
  BY <1>1
<1>4. b \in Seq(Messages) /\ Len(b) = Len(history)
  BY <1>1, <1>2, <1>3 DEF Messages, Texts, Message
<1>5. Body(q) = Append(b, Message(q, "user"))
  BY DEF Body
<1>6. Message(q, "user") \in Messages
  BY DEF Message, Messages
<1>7. b = Roles(history)
  BY <1>1, <1>2 DEF Roles, Message, IInv, Alternates, Role
<1>8. \A i \in 1..Len(history) : b[i].role = Role(i)
  BY <1>2 DEF Message, Role
<1> HIDE DEF b
<1>9. /\ Append(b, Message(q, "user")) \in Seq(Messages)
      /\ Len(Append(b, Message(q, "user"))) = Len(history) + 1
      /\ \A i \in 1..Len(history) : Append(b, Message(q, "user"))[i] = b[i]
  BY <1>1, <1>4, <1>6
<1> QED BY <1>5, <1>7, <1>8, <1>9
-----------------------------------------------------------------------------
LEMMA InitOK == Init => IInv
<1> SUFFICES ASSUME Init PROVE IInv
  OBVIOUS
<1>1. TypeOK
  BY AgentAssumption DEF Init, TypeOK
<1>2. Even
  BY AgentAssumption DEF Init, Even
<1>3. Alternates /\ SentIsPrefix /\ SentWhenPosting
  BY DEF Init, Alternates, SentIsPrefix, SentWhenPosting
<1> QED BY <1>1, <1>2, <1>3 DEF IInv

(* What a call that fails leaves behind: nothing.                          *)
LEMMA PushFailsFirst ==
  ASSUME IInv, NEW q \in Asks, PushFails(q)
  PROVE  UNCHANGED <<history, cap, sent>> /\ pc[q] = "posting"
         /\ pc' = [pc EXCEPT ![q] = "failed"]
<1>1. Len(history) \in Nat /\ cap \in Nat /\ Len(history) <= cap
  BY DEF IInv, TypeOK
<1>2. Len(history) + 1 # Grown(cap, Len(history))
  BY <1>1, NoHalfPush DEF IInv, Even
<1> QED BY <1>2 DEF PushFails

(* What an answer adds to the history.                                     *)
LEMMA AnswerAdds ==
  ASSUME IInv, NEW q \in Asks, Answer(q)
  PROVE  /\ history' \in Seq(Texts) /\ Len(history') = Len(history) + 2
         /\ \A i \in 1..Len(history) : history'[i] = history[i]
         /\ history'[Len(history) + 1] = Said(q, "user")
         /\ history'[Len(history) + 2] = Said(q, "assistant")
<1> DEFINE two == <<Said(q, "user"), Said(q, "assistant")>>
<1>1. two \in Seq(Texts) /\ Len(two) = 2
  BY DEF Said, Texts
<1>2. history \in Seq(Texts) /\ Len(history) \in Nat
  BY DEF IInv, TypeOK, Texts
<1>3. history' = history \o two
  BY DEF Answer
<1>4. two[1] = Said(q, "user") /\ two[2] = Said(q, "assistant")
  OBVIOUS
<1> HIDE DEF two
<1>5. /\ history' \in Seq(Texts) /\ Len(history') = Len(history) + 2
      /\ \A i \in 1..(Len(history) + 2) :
           history'[i] = IF i <= Len(history) THEN history[i]
                         ELSE two[i - Len(history)]
  <2>1. /\ history \o two \in Seq(Texts)
        /\ Len(history \o two) = Len(history) + Len(two)
        /\ \A i \in 1..(Len(history) + Len(two)) : (history \o two)[i] =
             IF i <= Len(history) THEN history[i] ELSE two[i - Len(history)]
    BY <1>1, <1>2, ConcatProperties, Zenon
  <2> QED BY <1>1, <1>3, <2>1
<1>6. \A i \in 1..Len(history) : history'[i] = history[i]
  BY <1>2, <1>5
<1>7. history'[Len(history) + 1] = two[1] /\ history'[Len(history) + 2] = two[2]
  BY <1>2, <1>5
<1> QED BY <1>4, <1>5, <1>6, <1>7

LEMMA StepOK == IInv /\ [Next]_vars => IInv'
<1> SUFFICES ASSUME IInv, [Next]_vars PROVE IInv'
  OBVIOUS
<1> USE DEF IInv
<1>1. Len(history) \in Nat /\ cap \in Nat /\ Len(history) <= cap
  BY DEF TypeOK
<1>3. ASSUME NEW q \in Asks, Refused(q) \/ PostFails(q) \/ PushFails(q)
      PROVE  IInv'
  <2>1. UNCHANGED <<history, cap, sent>> /\ pc' = [pc EXCEPT ![q] = "failed"]
    BY <1>3, PushFailsFirst DEF Refused, PostFails
  <2>2. TypeOK'
    BY <2>1 DEF TypeOK
  <2>3. Even' /\ Alternates' /\ SentIsPrefix'
    BY <2>1 DEF Even, Alternates, SentIsPrefix, Role
  <2>4. SentWhenPosting'
    BY <2>1 DEF SentWhenPosting, TypeOK
  <2> QED BY <2>2, <2>3, <2>4
<1>4. ASSUME NEW q \in Asks, Post(q) PROVE IInv'
  <2>1. /\ Body(q) \in Seq(Messages)
        /\ Len(Body(q)) = Len(history) + 1
        /\ \A i \in 1..Len(history) : Body(q)[i].role = Role(i)
    BY BodyIsRight
  <2>2. UNCHANGED <<history, cap>> /\ sent' = [sent EXCEPT ![q] = Body(q)]
    BY <1>4 DEF Post
  <2>3. TypeOK'
    BY <1>4, <2>1, <2>2 DEF Post, TypeOK, Messages
  <2>4. SentIsPrefix'
    <3> SUFFICES ASSUME NEW p \in Asks
                 PROVE  /\ Len(sent'[p]) <= Len(history) + 1
                        /\ \A i \in 1..(Len(sent'[p]) - 1) :
                             sent'[p][i].role = Role(i)
      BY <2>2 DEF SentIsPrefix, Role
    <3>1. CASE p = q
      <4>1. sent'[p] = Body(q)
        BY <2>2, <3>1 DEF TypeOK
      <4> QED BY <1>1, <2>1, <4>1
    <3>2. CASE p # q
      BY <2>2, <3>2 DEF TypeOK, SentIsPrefix
    <3> QED BY <3>1, <3>2
  <2>5. Even' /\ Alternates'
    BY <2>2 DEF Even, Alternates, Role
  <2>6. SentWhenPosting'
    <3>1. Body(q) # <<>>
      BY <1>1, <2>1
    <3> QED BY <1>4, <2>2, <3>1 DEF Post, SentWhenPosting, TypeOK
  <2> QED BY <2>3, <2>4, <2>5, <2>6
<1>5. ASSUME NEW q \in Asks, Answer(q) PROVE IInv'
  <2>1. /\ history' \in Seq(Texts) /\ Len(history') = Len(history) + 2
        /\ \A i \in 1..Len(history) : history'[i] = history[i]
        /\ history'[Len(history) + 1] = Said(q, "user")
        /\ history'[Len(history) + 2] = Said(q, "assistant")
    BY <1>5, AnswerAdds
  <2>2. cap' = Grown(cap, Len(history)) /\ Len(history) + 2 <= cap'
        /\ cap' \in Nat /\ cap' % 2 = 0 /\ cap' > 0
    <3> DEFINE n == Len(history)
    <3>1. n \in Nat /\ n % 2 = 0 /\ cap % 2 = 0 /\ cap > 0 /\ n <= cap
      BY <1>1 DEF Even
    <3>2. cap' = Grown(Grown(cap, n), n + 1)
      BY <1>5 DEF Answer
    <3> HIDE DEF n
    <3>3. /\ Grown(Grown(cap, n), n + 1) = Grown(cap, n)
          /\ n + 2 <= Grown(cap, n)
          /\ Grown(cap, n) \in Nat /\ Grown(cap, n) % 2 = 0 /\ Grown(cap, n) > 0
      BY <1>1, <3>1, NoHalfPush
    <3> QED BY <3>2, <3>3 DEF n
  <2>3. TypeOK'
    BY <1>5, <2>1, <2>2 DEF Answer, TypeOK, Texts
  <2>4. Even'
    <3>1. (Len(history) + 2) % 2 = 0
      BY <1>1 DEF Even
    <3> QED BY <2>1, <2>2, <3>1 DEF Even
  <2>5. Alternates'
    <3> SUFFICES ASSUME NEW i \in DOMAIN history'
                 PROVE  history'[i].who = Role(i)
      BY DEF Alternates, Role
    <3>1. i \in 1..Len(history) \/ i = Len(history) + 1 \/ i = Len(history) + 2
      BY <1>1, <2>1
    <3>2. (Len(history) + 1) % 2 = 1 /\ (Len(history) + 2) % 2 # 1
      BY <1>1 DEF Even
    <3>3. DOMAIN history = 1..Len(history)
      BY DEF TypeOK
    <3>4. CASE i \in 1..Len(history)
      BY <2>1, <3>3, <3>4 DEF Alternates
    <3>5. CASE i = Len(history) + 1
      BY <2>1, <3>2, <3>5 DEF Role, Said
    <3>6. CASE i = Len(history) + 2
      BY <2>1, <3>2, <3>6 DEF Role, Said
    <3> QED BY <3>1, <3>4, <3>5, <3>6
  <2>6. SentIsPrefix'
    <3>1. \A p \in Asks : Len(sent[p]) \in Nat
      BY DEF TypeOK
    <3> QED BY <1>1, <1>5, <2>1, <3>1 DEF Answer, SentIsPrefix, Role
  <2>7. SentWhenPosting'
    BY <1>5 DEF Answer, SentWhenPosting, TypeOK
  <2> QED BY <2>3, <2>4, <2>5, <2>6, <2>7
<1>6. CASE UNCHANGED vars
  BY <1>6 DEF vars, TypeOK, Even, Alternates, SentIsPrefix, SentWhenPosting, Role
<1> QED BY <1>3, <1>4, <1>5, <1>6 DEF Next, Step

(* IInv is inductive, so it holds in every state.                          *)
THEOREM Invariance == Spec => []IInv
<1> QED BY InitOK, StepOK, PTL DEF Spec

(* TypeOK: every part of an agent keeps its type, and the history fits its *)
(* list.                                                                   *)
THEOREM TypeCorrect == Spec => []TypeOK
<1>1. IInv => TypeOK
  BY DEF IInv
<1> QED BY <1>1, Invariance, PTL

(* RolesAreRight: an agent is never sent its own words as the user's       *)
(* (net.c:323-326), however its calls overlap and fail.                    *)
THEOREM RolesAreRightAlways == Spec => []RolesAreRight
<1>1. IInv => RolesAreRight
  <2> SUFFICES ASSUME IInv, NEW q \in Asks, NEW i \in 1..(Len(sent[q]) - 1)
               PROVE  sent[q][i].role = history[i].who
    BY DEF RolesAreRight
  <2>1. Len(sent[q]) \in Nat /\ Len(history) \in Nat
        /\ DOMAIN history = 1..Len(history)
    BY DEF IInv, TypeOK
  <2>2. i \in DOMAIN history
    BY <2>1 DEF IInv, SentIsPrefix
  <2> QED BY <2>2 DEF IInv, SentIsPrefix, Alternates
<1> QED BY <1>1, Invariance, PTL

(* FailureLeavesHistory: a call that fails leaves the history as it was    *)
(* (net.c:330), also when memory runs out between the two pushes.          *)
THEOREM FailureLeavesHistoryAlways == Spec => FailureLeavesHistory
<1> DEFINE Leaves == \A q \in Asks : pc'[q] = "failed" /\ pc[q] # "failed"
                                       => history' = history
<1>1. IInv /\ [Next]_vars => [Leaves]_vars
  <2> SUFFICES ASSUME IInv, Next,
                      NEW q \in Asks, pc'[q] = "failed", pc[q] # "failed"
               PROVE  history' = history
    BY DEF vars
  <2>1. PICK p \in Asks : Step(p)
    BY DEF Next
  <2>2. CASE Refused(p) \/ Post(p) \/ PostFails(p)
    BY <2>2 DEF Refused, Post, PostFails
  <2>3. CASE PushFails(p)
    BY <2>3, PushFailsFirst
  <2>4. CASE Answer(p)
    BY <2>4 DEF Answer, IInv, TypeOK
  <2> QED BY <2>1, <2>2, <2>3, <2>4 DEF Step
<1> QED BY <1>1, Invariance, PTL DEF Spec, FailureLeavesHistory

(* ImplementsTalk: the calls of all tasks, with their failures, are one    *)
(* conversation as AgentTalk has it (net.c:300-338).                       *)
THEOREM Refinement == Spec => ImplementsTalk
<1> DEFINE Over == {q \in Asks : pc[q] \in {"answered", "failed"}}
<1>1. Init => Talk!Init
  BY DEF Init, Talk!Init, Roles
<1>2. IInv /\ [Next]_vars => [Talk!Next]_Talk!vars
  <2> SUFFICES ASSUME IInv, [Next]_vars PROVE [Talk!Next]_Talk!vars
    OBVIOUS
  <2>1. pc \in [Asks -> {"before", "posting", "answered", "failed"}]
        /\ sent \in [Asks -> Seq(Messages)]
    BY DEF IInv, TypeOK, Messages
  <2>2. ASSUME NEW q \in Asks, UNCHANGED <<history, cap, sent>>,
               pc[q] \in {"before", "posting"}, pc' = [pc EXCEPT ![q] = "failed"]
        PROVE  Talk!Next
    <3>1. Over' = Over \cup {q} /\ q \notin Over
      BY <2>1, <2>2
    <3>2. Roles(history)' = Roles(history)
      BY <2>2 DEF Roles
    <3>3. Talk!Fail(q)
      BY <2>2, <3>1, <3>2 DEF Talk!Fail
    <3> QED BY <3>3 DEF Talk!Next
  <2>3. ASSUME NEW q \in Asks, Post(q) PROVE Talk!Next
    <3>1. Over' = Over /\ q \notin Over
      BY <2>1, <2>3 DEF Post
    <3>2. Roles(history)' = Roles(history)
      BY <2>3 DEF Post, Roles
    <3>3. sent[q] = <<>>
      BY <2>3 DEF Post, IInv, SentWhenPosting
    <3>4. Body(q) = Append(Roles(history), Talk!User(q))
      BY BodyIsRight DEF Talk!User, Message
    <3>5. Talk!Send(q)
      BY <2>3, <3>1, <3>2, <3>3, <3>4 DEF Post, Talk!Send
    <3> QED BY <3>5 DEF Talk!Next
  <2>4. ASSUME NEW q \in Asks, Answer(q) PROVE Talk!Next
    <3> DEFINE old == Roles(history)
               new == <<Talk!User(q), Talk!Reply(q)>>
    <3>1. Over' = Over \cup {q} /\ q \notin Over
      BY <2>1, <2>4 DEF Answer
    <3>2. sent[q] # <<>> /\ UNCHANGED sent
      BY <2>4 DEF Answer, IInv, SentWhenPosting
    <3>3. Roles(history)' = old \o new
      <4>1. /\ history' \in Seq(Texts) /\ Len(history') = Len(history) + 2
            /\ \A i \in 1..Len(history) : history'[i] = history[i]
            /\ history'[Len(history) + 1] = Said(q, "user")
            /\ history'[Len(history) + 2] = Said(q, "assistant")
        BY <2>4, AnswerAdds
      <4>2. history \in Seq(Texts) /\ Len(history) \in Nat
            /\ DOMAIN history = 1..Len(history)
        BY DEF IInv, TypeOK, Texts
      <4>3. old \in Seq(Messages) /\ Len(old) = Len(history)
        BY <4>2, RolesType
      <4>4. new \in Seq(Messages) /\ Len(new) = 2
            /\ new[1] = Talk!User(q) /\ new[2] = Talk!Reply(q)
        BY DEF Talk!User, Talk!Reply, Messages
      <4>5. Roles(history)' \in Seq(Messages)
            /\ Len(Roles(history)') = Len(history) + 2
        <5>1. Roles(history)' = Roles(history')
          BY DEF Roles
        <5>2. Roles(history') \in Seq(Messages)
              /\ Len(Roles(history')) = Len(history')
          BY <4>1, RolesType
        <5> QED BY <4>1, <5>1, <5>2
      <4>6. \A i \in 1..Len(history) : Roles(history)'[i] = old[i]
        BY <4>1, <4>2 DEF Roles
      <4>7. /\ Roles(history)'[Len(history) + 1] = new[1]
            /\ Roles(history)'[Len(history) + 2] = new[2]
        BY <4>1, <4>2, <4>4 DEF Roles, Said, Talk!User, Talk!Reply
      <4> HIDE DEF old, new
      <4>8. /\ old \o new \in Seq(Messages)
            /\ Len(old \o new) = Len(old) + Len(new)
            /\ \A i \in 1..(Len(old) + Len(new)) : (old \o new)[i] =
                 IF i <= Len(old) THEN old[i] ELSE new[i - Len(old)]
        BY <4>3, <4>4, ConcatProperties, Zenon
      <4>9. \A i \in 1..(Len(history) + 2) : Roles(history)'[i] = (old \o new)[i]
        <5> SUFFICES ASSUME NEW i \in 1..(Len(history) + 2)
                     PROVE  Roles(history)'[i] = (old \o new)[i]
          OBVIOUS
        <5>1. CASE i \in 1..Len(history)
          BY <4>2, <4>3, <4>4, <4>6, <4>8, <5>1
        <5>2. CASE i = Len(history) + 1
          BY <4>2, <4>3, <4>4, <4>7, <4>8, <5>2
        <5>3. CASE i = Len(history) + 2
          BY <4>2, <4>3, <4>4, <4>7, <4>8, <5>3
        <5>4. i \in 1..Len(history) \/ i = Len(history) + 1 \/ i = Len(history) + 2
          BY <4>2
        <5> QED BY <5>1, <5>2, <5>3, <5>4
      <4> QED BY <4>2, <4>3, <4>4, <4>5, <4>8, <4>9, SeqEqual
    <3>4. Talk!Answer(q)
      BY <3>1, <3>2, <3>3 DEF Talk!Answer
    <3> QED BY <3>4 DEF Talk!Next
  <2>5. ASSUME NEW q \in Asks, Refused(q) \/ PostFails(q) \/ PushFails(q)
        PROVE  Talk!Next
    <3>1. /\ UNCHANGED <<history, cap, sent>>
          /\ pc[q] \in {"before", "posting"}
          /\ pc' = [pc EXCEPT ![q] = "failed"]
      BY <2>5, PushFailsFirst DEF Refused, PostFails
    <3> QED BY <2>2, <3>1
  <2>6. CASE UNCHANGED vars
    BY <2>6 DEF vars, Talk!vars, Roles
  <2> QED BY <2>3, <2>4, <2>5, <2>6 DEF Next, Step
<1> QED BY <1>1, <1>2, Invariance, PTL DEF Spec, ImplementsTalk, Talk!Spec
=============================================================================
