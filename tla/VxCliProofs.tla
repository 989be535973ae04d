---------------------------- MODULE VxCliProofs ----------------------------
(***************************************************************************)
(* Proofs about what VxCli starts: the language server with its editor,    *)
(* for every set of documents and texts and every length of a session, the *)
(* package commands, for every set of packages, and the reading of a       *)
(* program with its modules, for every set of directories.                 *)
(***************************************************************************)
EXTENDS VxLsp, VxPackages, VxUse, FiniteSetTheorems, SequenceTheorems, TLAPS

-----------------------------------------------------------------------------
(***************************************************************************)
(* How many places of a sequence have a property: one more at its end, one *)
(* less at its beginning.                                                  *)
(***************************************************************************)
LEMMA CountGrows ==
  ASSUME NEW n \in Nat, NEW I \in SUBSET (1..n), NEW J \in SUBSET (1..(n + 1)),
         \A i \in 1..n : i \in J <=> i \in I
  PROVE  /\ Cardinality(I) \in Nat
         /\ Cardinality(J) = Cardinality(I) + (IF n + 1 \in J THEN 1 ELSE 0)
<1>1. IsFiniteSet(I) /\ Cardinality(I) \in Nat
  <2>1. IsFiniteSet(1..n)
    BY FS_Interval
  <2>2. QED
    BY <2>1, FS_Subset, FS_CardinalityType
<1>2. n + 1 \notin I /\ \A i \in 1..(n + 1) : i \in 1..n \/ i = n + 1
  OBVIOUS
<1>3. CASE n + 1 \in J
  <2>1. J = I \cup {n + 1}
    BY <1>2, <1>3
  <2>2. QED
    BY <1>1, <1>2, <1>3, <2>1, FS_AddElement
<1>4. CASE n + 1 \notin J
  <2>1. J = I
    BY <1>2, <1>4
  <2>2. QED
    BY <1>1, <1>4, <2>1
<1>5. QED
  BY <1>1, <1>3, <1>4

LEMMA CountShifts ==
  ASSUME NEW n \in Nat, NEW I \in SUBSET (1..(n + 1)), NEW J \in SUBSET (1..n),
         \A i \in 1..n : i \in J <=> i + 1 \in I
  PROVE  /\ Cardinality(J) \in Nat
         /\ Cardinality(I) = Cardinality(J) + (IF 1 \in I THEN 1 ELSE 0)
<1> DEFINE K == I \ {1}
           f == [i \in J |-> i + 1]
<1>1. IsFiniteSet(J) /\ Cardinality(J) \in Nat
  <2>1. IsFiniteSet(1..n)
    BY FS_Interval
  <2>2. QED
    BY <2>1, FS_Subset, FS_CardinalityType
<1>2. f \in Bijection(J, K)
  <2>1. f \in [J -> K]
    OBVIOUS
  <2>2. \A a, b \in J : f[a] = f[b] => a = b
    OBVIOUS
  <2>3. \A k \in K : \E i \in J : f[i] = k
    <3>1. ASSUME NEW k \in K PROVE k - 1 \in 1..n /\ k - 1 \in J /\ f[k - 1] = k
      <4>1. k - 1 \in 1..n /\ (k - 1) + 1 = k
        OBVIOUS
      <4>2. QED
        BY <4>1
    <3>2. QED
      BY <3>1
  <2>4. QED
    BY <2>1, <2>2, <2>3 DEF Bijection, Injection, Surjection, IsInjective
<1>3. IsFiniteSet(K) /\ Cardinality(K) = Cardinality(J)
  <2> HIDE DEF f, K
  <2>1. QED
    BY <1>1, <1>2, FS_Bijection DEF ExistsBijection
<1>4. CASE 1 \in I
  <2>1. I = K \cup {1} /\ 1 \notin K
    BY <1>4
  <2> HIDE DEF K
  <2>2. Cardinality(K \cup {1}) = Cardinality(K) + 1
    BY <1>3, <2>1, FS_AddElement
  <2>3. QED
    BY <1>1, <1>3, <1>4, <2>1, <2>2
<1>5. CASE 1 \notin I
  BY <1>1, <1>3, <1>5
<1>6. QED
  BY <1>1, <1>4, <1>5

(* Append and Tail on a sequence of anything.                              *)
IsSeq(s) == s \in Seq(SetOf(s))

LEMMA SeqOfOwn ==
  ASSUME NEW S, NEW s \in Seq(S)
  PROVE  IsSeq(s)
<1>1. Len(s) \in Nat /\ DOMAIN s = 1..Len(s)
  OBVIOUS
<1>2. \A i \in 1..Len(s) : s[i] \in SetOf(s)
  BY <1>1 DEF SetOf
<1>3. QED
  BY <1>1, <1>2 DEF IsSeq

LEMMA Appended ==
  ASSUME NEW s, IsSeq(s), NEW m
  PROVE  /\ IsSeq(Append(s, m))
         /\ Len(s) \in Nat /\ DOMAIN s = 1..Len(s)
         /\ Len(Append(s, m)) = Len(s) + 1
         /\ DOMAIN Append(s, m) = 1..(Len(s) + 1)
         /\ \A i \in 1..Len(s) : Append(s, m)[i] = s[i]
         /\ Append(s, m)[Len(s) + 1] = m
<1>1. s \in Seq(SetOf(s) \cup {m})
  BY DEF IsSeq
<1>2. /\ Len(s) \in Nat /\ DOMAIN s = 1..Len(s)
      /\ Append(s, m) \in Seq(SetOf(s) \cup {m})
      /\ Len(Append(s, m)) = Len(s) + 1
      /\ \A i \in 1..Len(s) : Append(s, m)[i] = s[i]
      /\ Append(s, m)[Len(s) + 1] = m
  BY <1>1 DEF IsSeq
<1>3. DOMAIN Append(s, m) = 1..(Len(s) + 1)
  BY <1>2
<1>4. IsSeq(Append(s, m))
  BY <1>2, SeqOfOwn
<1>5. QED
  BY <1>2, <1>3, <1>4

LEMMA TailOf ==
  ASSUME NEW s, IsSeq(s), s # <<>>
  PROVE  /\ IsSeq(Tail(s))
         /\ Len(s) \in Nat /\ Len(s) > 0 /\ DOMAIN s = 1..Len(s)
         /\ Len(Tail(s)) = Len(s) - 1
         /\ DOMAIN Tail(s) = 1..(Len(s) - 1)
         /\ \A i \in 1..(Len(s) - 1) : Tail(s)[i] = s[i + 1]
         /\ Head(s) = s[1]
<1>1. /\ Len(s) \in Nat /\ Len(s) > 0 /\ DOMAIN s = 1..Len(s)
      /\ Tail(s) \in Seq(SetOf(s))
      /\ Len(Tail(s)) = Len(s) - 1
      /\ \A i \in 1..(Len(s) - 1) : Tail(s)[i] = s[i + 1]
      /\ Head(s) = s[1]
  BY DEF IsSeq
<1>2. DOMAIN Tail(s) = 1..(Len(s) - 1)
  BY <1>1
<1>3. IsSeq(Tail(s))
  BY <1>1, SeqOfOwn
<1>4. QED
  BY <1>1, <1>2, <1>3

-----------------------------------------------------------------------------
(***************************************************************************)
(* The language server.  What its invariant says beyond the property: that *)
(* a question is counted once wherever it is, that for an open document    *)
(* the last message that settles its text brings the text the editor has,  *)
(* and that once no change of it is under way the last diagnostics of it   *)
(* are those of that text.                                                 *)
(***************************************************************************)
Messages == {"change", "close", "exit"} \cup Requests

Shapes ==
  /\ IsSeq(inbox) /\ IsSeq(outbox)
  /\ sent \in Nat /\ DOMAIN asked \subseteq 0..(sent - 1)
  /\ \A i \in DOMAIN inbox : inbox[i].k \in Messages
  /\ \A i \in DOMAIN inbox : inbox[i].k = "change" => inbox[i].texts \in Seq(Texts)
  /\ \A i \in DOMAIN outbox : outbox[i].k \in {"reply", "diagnostics"}

Due(id) == IF id \in DOMAIN asked THEN 1 ELSE 0
Counted(id) == Cardinality(Questions(id)) + Cardinality(Answers(id)) = Due(id)

IsChange(msg, u) == msg.k = "change" /\ msg.uri = u
Settles(msg, u) ==
  \/ IsChange(msg, u) /\ msg.texts # <<>>
  \/ msg.k = "close" /\ msg.uri = u
Brings(msg, u, text) ==
  IsChange(msg, u) /\ msg.texts # <<>> /\ msg.texts[Len(msg.texts)] = text
Shows(msg, u) == msg.k = "diagnostics" /\ msg.uri = u

TextArrives(u) ==
  \/ /\ \A i \in DOMAIN inbox : ~Settles(inbox[i], u)
     /\ u \in DOMAIN docs /\ docs[u] = view[u]
  \/ \E i \in DOMAIN inbox :
       /\ Brings(inbox[i], u, view[u])
       /\ \A j \in DOMAIN inbox : j > i => ~Settles(inbox[j], u)

MarksShown(u) ==
  \/ /\ \A i \in DOMAIN outbox : ~Shows(outbox[i], u)
     /\ u \in DOMAIN marks /\ marks[u] = Diagnosis[view[u]]
  \/ \E i \in DOMAIN outbox :
       /\ Shows(outbox[i], u) /\ outbox[i].diags = Diagnosis[view[u]]
       /\ \A j \in DOMAIN outbox : j > i => ~Shows(outbox[j], u)
MarksArrive(u) == (\A i \in DOMAIN inbox : ~IsChange(inbox[i], u)) => MarksShown(u)

LspInv ==
  /\ Shapes
  /\ \A id \in Nat : Counted(id)
  /\ \A u \in DOMAIN view : TextArrives(u) /\ MarksArrive(u)

LEMMA QuestionSent ==
  ASSUME IsSeq(inbox), NEW m, inbox' = Append(inbox, m), NEW id
  PROVE  /\ Cardinality(Questions(id)) \in Nat
         /\ Cardinality(Questions(id)') =
              Cardinality(Questions(id)) + (IF m.k \in Requests /\ m.id = id THEN 1 ELSE 0)
<1>1. PICK n \in Nat : n = Len(inbox)
  BY Appended
<1>2. /\ DOMAIN inbox = 1..n /\ DOMAIN inbox' = 1..(n + 1)
      /\ \A i \in 1..n : inbox'[i] = inbox[i]
      /\ inbox'[n + 1] = m
  BY <1>1, Appended
<1>3. /\ Questions(id) \in SUBSET (1..n) /\ Questions(id)' \in SUBSET (1..(n + 1))
      /\ \A i \in 1..n : i \in Questions(id)' <=> i \in Questions(id)
      /\ n + 1 \in Questions(id)' <=> m.k \in Requests /\ m.id = id
  BY <1>2 DEF Questions
<1>4. QED
  BY <1>3, CountGrows

LEMMA QuestionRead ==
  ASSUME IsSeq(inbox), inbox # <<>>, inbox' = Tail(inbox), NEW id
  PROVE  /\ Cardinality(Questions(id)') \in Nat
         /\ Cardinality(Questions(id)) =
              Cardinality(Questions(id)')
                + (IF Head(inbox).k \in Requests /\ Head(inbox).id = id THEN 1 ELSE 0)
<1>1. PICK n \in Nat : n + 1 = Len(inbox)
  <2>1. Len(inbox) - 1 \in Nat /\ (Len(inbox) - 1) + 1 = Len(inbox)
    BY TailOf
  <2>2. QED
    BY <2>1
<1>2. /\ DOMAIN inbox = 1..(n + 1) /\ DOMAIN inbox' = 1..n
      /\ \A i \in 1..n : inbox'[i] = inbox[i + 1]
      /\ inbox[1] = Head(inbox)
  BY <1>1, TailOf
<1>3. /\ Questions(id)' \in SUBSET (1..n) /\ Questions(id) \in SUBSET (1..(n + 1))
      /\ \A i \in 1..n : i \in Questions(id)' <=> i + 1 \in Questions(id)
      /\ 1 \in Questions(id) <=> Head(inbox).k \in Requests /\ Head(inbox).id = id
  BY <1>2 DEF Questions
<1>4. QED
  BY <1>3, CountShifts

LEMMA AnswerWritten ==
  ASSUME IsSeq(outbox), NEW m, outbox' = Append(outbox, m), NEW id
  PROVE  /\ Cardinality(Answers(id)) \in Nat
         /\ Cardinality(Answers(id)') =
              Cardinality(Answers(id)) + (IF m.k = "reply" /\ m.id = id THEN 1 ELSE 0)
<1>1. PICK n \in Nat : n = Len(outbox)
  BY Appended
<1>2. /\ DOMAIN outbox = 1..n /\ DOMAIN outbox' = 1..(n + 1)
      /\ \A i \in 1..n : outbox'[i] = outbox[i]
      /\ outbox'[n + 1] = m
  BY <1>1, Appended
<1>3. /\ Answers(id) \in SUBSET (1..n) /\ Answers(id)' \in SUBSET (1..(n + 1))
      /\ \A i \in 1..n : i \in Answers(id)' <=> i \in Answers(id)
      /\ n + 1 \in Answers(id)' <=> m.k = "reply" /\ m.id = id
  BY <1>2 DEF Answers
<1>4. QED
  BY <1>3, CountGrows

LEMMA AnswerRead ==
  ASSUME IsSeq(outbox), outbox # <<>>, outbox' = Tail(outbox), NEW id
  PROVE  /\ Cardinality(Answers(id)') \in Nat
         /\ Cardinality(Answers(id)) =
              Cardinality(Answers(id)')
                + (IF Head(outbox).k = "reply" /\ Head(outbox).id = id THEN 1 ELSE 0)
<1>1. PICK n \in Nat : n + 1 = Len(outbox)
  <2>1. Len(outbox) - 1 \in Nat /\ (Len(outbox) - 1) + 1 = Len(outbox)
    BY TailOf
  <2>2. QED
    BY <2>1
<1>2. /\ DOMAIN outbox = 1..(n + 1) /\ DOMAIN outbox' = 1..n
      /\ \A i \in 1..n : outbox'[i] = outbox[i + 1]
      /\ outbox[1] = Head(outbox)
  BY <1>1, TailOf
<1>3. /\ Answers(id)' \in SUBSET (1..n) /\ Answers(id) \in SUBSET (1..(n + 1))
      /\ \A i \in 1..n : i \in Answers(id)' <=> i + 1 \in Answers(id)
      /\ 1 \in Answers(id) <=> Head(outbox).k = "reply" /\ Head(outbox).id = id
  BY <1>2 DEF Answers
<1>4. QED
  BY <1>3, CountShifts

LEMMA Uncounted ==
  ASSUME NEW id
  PROVE  /\ inbox' = inbox => Questions(id)' = Questions(id)
         /\ outbox' = outbox => Answers(id)' = Answers(id)
         /\ IsSeq(inbox) => Cardinality(Questions(id)) \in Nat
         /\ IsSeq(outbox) => Cardinality(Answers(id)) \in Nat
<1>1. ASSUME IsSeq(inbox) PROVE Cardinality(Questions(id)) \in Nat
  <2>1. Len(inbox) \in Nat /\ Questions(id) \in SUBSET (1..Len(inbox))
    BY <1>1, Appended DEF Questions
  <2>2. IsFiniteSet(1..Len(inbox))
    BY <2>1, FS_Interval
  <2>3. QED
    BY <2>1, <2>2, FS_Subset, FS_CardinalityType
<1>2. ASSUME IsSeq(outbox) PROVE Cardinality(Answers(id)) \in Nat
  <2>1. Len(outbox) \in Nat /\ Answers(id) \in SUBSET (1..Len(outbox))
    BY <1>2, Appended DEF Answers
  <2>2. IsFiniteSet(1..Len(outbox))
    BY <2>1, FS_Interval
  <2>3. QED
    BY <2>1, <2>2, FS_Subset, FS_CardinalityType
<1>3. QED
  BY <1>1, <1>2 DEF Questions, Answers

-----------------------------------------------------------------------------
(***************************************************************************)
(* What the editor sends.                                                  *)
(***************************************************************************)
IsMessage(m) ==
  m.k \in Messages /\ (m.k = "change" => m.texts \in Seq(Texts))

LEMMA SendShapes ==
  ASSUME Shapes, NEW m, IsMessage(m), Send(m), DOMAIN asked' \subseteq DOMAIN asked \cup {sent}
  PROVE  Shapes'
<1>1. /\ IsSeq(inbox') /\ DOMAIN inbox = 1..Len(inbox) /\ Len(inbox) \in Nat
      /\ DOMAIN inbox' = 1..(Len(inbox) + 1)
      /\ \A i \in 1..Len(inbox) : inbox'[i] = inbox[i]
      /\ inbox'[Len(inbox) + 1] = m
  BY Appended DEF Shapes, Send
<1>2. /\ \A i \in DOMAIN inbox' : inbox'[i].k \in Messages
      /\ \A i \in DOMAIN inbox' : inbox'[i].k = "change" => inbox'[i].texts \in Seq(Texts)
  BY <1>1 DEF Shapes, IsMessage
<1>3. sent' \in Nat /\ DOMAIN asked' \subseteq 0..(sent' - 1)
  BY DEF Shapes, Send
<1>4. QED
  BY <1>1, <1>2, <1>3 DEF Shapes, Send

LEMMA SendKeeps ==
  ASSUME Shapes, NEW m, IsMessage(m), Send(m), marks' = marks,
         NEW u, TextArrives(u), MarksArrive(u), ~Settles(m, u), view'[u] = view[u]
  PROVE  TextArrives(u)' /\ MarksArrive(u)'
<1>1. PICK n \in Nat : n = Len(inbox)
  BY Appended DEF Shapes
<1>2. /\ DOMAIN inbox = 1..n /\ DOMAIN inbox' = 1..(n + 1)
      /\ \A i \in 1..n : inbox'[i] = inbox[i]
      /\ inbox'[n + 1] = m
  BY <1>1, Appended DEF Shapes, Send
<1>3. TextArrives(u)'
  <2>1. CASE /\ \A i \in DOMAIN inbox : ~Settles(inbox[i], u)
             /\ u \in DOMAIN docs /\ docs[u] = view[u]
    <3>1. \A i \in DOMAIN inbox' : ~Settles(inbox'[i], u)
      BY <1>2, <2>1
    <3>2. QED
      BY <2>1, <3>1 DEF TextArrives, Send
  <2>2. ASSUME NEW i \in DOMAIN inbox, Brings(inbox[i], u, view[u]),
               \A j \in DOMAIN inbox : j > i => ~Settles(inbox[j], u)
        PROVE  TextArrives(u)'
    <3>1. i \in DOMAIN inbox' /\ Brings(inbox'[i], u, view'[u])
      BY <1>2, <2>2
    <3>2. \A j \in DOMAIN inbox' : j > i => ~Settles(inbox'[j], u)
      BY <1>2, <2>2
    <3>3. QED
      BY <3>1, <3>2 DEF TextArrives
  <2>3. QED
    BY <2>1, <2>2 DEF TextArrives
<1>4. MarksArrive(u)'
  <2>1. (\A i \in DOMAIN inbox' : ~IsChange(inbox'[i], u)) => \A i \in DOMAIN inbox : ~IsChange(inbox[i], u)
    BY <1>2
  <2>2. QED
    BY <2>1 DEF MarksArrive, MarksShown, Send, Diagnosis
<1>5. QED
  BY <1>3, <1>4

LEMMA SendBrings ==
  ASSUME Shapes, NEW m, Send(m), NEW u, Brings(m, u, view'[u])
  PROVE  TextArrives(u)' /\ MarksArrive(u)'
<1>1. PICK n \in Nat : n = Len(inbox)
  BY Appended DEF Shapes
<1>2. /\ DOMAIN inbox' = 1..(n + 1)
      /\ inbox'[n + 1] = m
  BY <1>1, Appended DEF Shapes, Send
<1>3. n + 1 \in DOMAIN inbox' /\ \A j \in DOMAIN inbox' : ~(j > n + 1)
  BY <1>2
<1>4. TextArrives(u)'
  BY <1>2, <1>3 DEF TextArrives
<1>5. IsChange(inbox'[n + 1], u)
  BY <1>2 DEF Brings
<1>6. MarksArrive(u)'
  BY <1>3, <1>5 DEF MarksArrive, MarksShown
<1>7. QED
  BY <1>4, <1>6

LEMMA SendCounts ==
  ASSUME Shapes, NEW m, Send(m), NEW id \in Nat, Counted(id),
         \/ m.k \notin Requests /\ asked' = asked
         \/ m.k \in Requests /\ m.id = sent /\ DOMAIN asked' = DOMAIN asked \cup {sent}
  PROVE  Counted(id)'
<1>1. /\ Cardinality(Questions(id)) \in Nat /\ Cardinality(Answers(id)) \in Nat
      /\ Answers(id)' = Answers(id)
      /\ Cardinality(Questions(id)') =
           Cardinality(Questions(id)) + (IF m.k \in Requests /\ m.id = id THEN 1 ELSE 0)
  BY QuestionSent, Uncounted DEF Shapes, Send
<1>2. Cardinality(Answers(id)') = Cardinality(Answers(id))
  BY <1>1
<1>3. Due(id)' = Due(id) + (IF m.k \in Requests /\ m.id = id THEN 1 ELSE 0)
  <2>1. sent \notin DOMAIN asked
    BY DEF Shapes
  <2>2. QED
    BY <2>1 DEF Due
<1>4. Due(id) \in Nat
  BY DEF Due
<1>5. QED
  BY <1>1, <1>2, <1>3, <1>4 DEF Counted

LEMMA EditKeeps ==
  ASSUME LspInv, NEW u \in Uris, NEW texts \in Seq(Texts), Edit(u, texts)
  PROVE  LspInv'
<1> DEFINE m == [k |-> "change", uri |-> u, texts |-> texts]
<1>1. /\ Send(m) /\ asked' = asked /\ marks' = marks
      /\ view' = IF texts = <<>> THEN view ELSE With(view, u, texts[Len(texts)])
      /\ u \notin DOMAIN view => texts # <<>>
  BY DEF Edit
<1>2. /\ IsMessage(m) /\ m.k \notin Requests
      /\ \A v : Settles(m, v) => v = u /\ texts # <<>>
      /\ texts # <<>> => Brings(m, u, texts[Len(texts)])
  BY DEF IsMessage, Messages, Requests, Settles, IsChange, Brings
<1> HIDE DEF m
<1>3. Shapes'
  BY <1>1, <1>2, SendShapes DEF LspInv
<1>4. ASSUME NEW id \in Nat PROVE Counted(id)'
  BY <1>1, <1>2, SendCounts DEF LspInv
<1>5. ASSUME NEW v \in DOMAIN view' PROVE TextArrives(v)' /\ MarksArrive(v)'
  <2>1. CASE v = u /\ texts # <<>>
    <3>1. view'[v] = texts[Len(texts)]
      BY <1>1, <2>1 DEF With
    <3>2. Brings(m, v, view'[v])
      BY <1>2, <2>1, <3>1
    <3>3. QED
      BY <1>1, <3>2, SendBrings DEF LspInv
  <2>2. CASE ~(v = u /\ texts # <<>>)
    <3>1. v \in DOMAIN view /\ view'[v] = view[v]
      BY <1>1, <1>5, <2>2 DEF With
    <3>2. ~Settles(m, v)
      BY <1>2, <2>2
    <3>3. QED
      BY <1>1, <1>2, <3>1, <3>2, SendKeeps DEF LspInv
  <2>3. QED
    BY <2>1, <2>2
<1>6. QED
  BY <1>3, <1>4, <1>5 DEF LspInv

LEMMA CloseKeeps ==
  ASSUME LspInv, NEW u \in Uris, CloseDoc(u)
  PROVE  LspInv'
<1> DEFINE m == [k |-> "close", uri |-> u]
<1>1. /\ Send(m) /\ asked' = asked /\ marks' = marks
      /\ view' = Without(view, u)
  BY DEF CloseDoc
<1>2. /\ IsMessage(m) /\ m.k \notin Requests
      /\ \A v : Settles(m, v) => v = u
  BY DEF IsMessage, Messages, Requests, Settles, IsChange
<1> HIDE DEF m
<1>3. Shapes'
  BY <1>1, <1>2, SendShapes DEF LspInv
<1>4. ASSUME NEW id \in Nat PROVE Counted(id)'
  BY <1>1, <1>2, SendCounts DEF LspInv
<1>5. ASSUME NEW v \in DOMAIN view' PROVE TextArrives(v)' /\ MarksArrive(v)'
  <2>1. v \in DOMAIN view /\ view'[v] = view[v] /\ v # u
    BY <1>1, <1>5 DEF Without
  <2>2. QED
    BY <1>1, <1>2, <2>1, SendKeeps DEF LspInv
<1>6. QED
  BY <1>3, <1>4, <1>5 DEF LspInv

LEMMA AskKeeps ==
  ASSUME LspInv, NEW k \in Requests, NEW u \in Uris, NEW pos, Ask(k, u, pos)
  PROVE  LspInv'
<1> DEFINE m == [k |-> k, uri |-> u, pos |-> pos, id |-> sent]
<1>1. /\ Send(m) /\ view' = view /\ marks' = marks
      /\ DOMAIN asked' = DOMAIN asked \cup {sent}
  BY DEF Ask, With
<1>2. /\ IsMessage(m) /\ m.k \in Requests /\ m.id = sent
      /\ \A v : ~Settles(m, v)
  BY DEF IsMessage, Messages, Requests, Settles, IsChange
<1> HIDE DEF m
<1>3. Shapes'
  BY <1>1, <1>2, SendShapes DEF LspInv
<1>4. ASSUME NEW id \in Nat PROVE Counted(id)'
  BY <1>1, <1>2, SendCounts DEF LspInv
<1>5. ASSUME NEW v \in DOMAIN view' PROVE TextArrives(v)' /\ MarksArrive(v)'
  BY <1>1, <1>2, SendKeeps DEF LspInv
<1>6. QED
  BY <1>3, <1>4, <1>5 DEF LspInv

LEMMA SendExitKeeps ==
  ASSUME LspInv, SendExit
  PROVE  LspInv'
<1> DEFINE m == [k |-> "exit"]
<1>1. Send(m) /\ view' = view /\ marks' = marks /\ asked' = asked
  BY DEF SendExit
<1>2. /\ IsMessage(m) /\ m.k \notin Requests
      /\ \A v : ~Settles(m, v)
  BY DEF IsMessage, Messages, Requests, Settles, IsChange
<1> HIDE DEF m
<1>3. Shapes'
  BY <1>1, <1>2, SendShapes DEF LspInv
<1>4. ASSUME NEW id \in Nat PROVE Counted(id)'
  BY <1>1, <1>2, SendCounts DEF LspInv
<1>5. ASSUME NEW v \in DOMAIN view' PROVE TextArrives(v)' /\ MarksArrive(v)'
  BY <1>1, <1>2, SendKeeps DEF LspInv
<1>6. QED
  BY <1>3, <1>4, <1>5 DEF LspInv

-----------------------------------------------------------------------------
(***************************************************************************)
(* What the server does with a message, and the editor with an answer.     *)
(***************************************************************************)
LEMMA AnswersOnce ==
  ASSUME NEW msg, Answer(msg)
  PROVE  /\ \E r : outbox' = Append(outbox, reply(msg.id, r))
         /\ docs' = docs /\ running' = running
<1>1. CASE msg.k = "completion"
  BY <1>1 DEF Answer, Write
<1>2. CASE msg.k = "hover"
  BY <1>2 DEF Answer, Write
<1>3. CASE msg.k = "documentSymbol"
  BY <1>3 DEF Answer, Write
<1>4. CASE msg.k = "broken"
  BY <1>4 DEF Answer, Write
<1>5. CASE msg.k \notin {"completion", "hover", "documentSymbol", "broken"}
  BY <1>5 DEF Answer, Write
<1>6. QED
  BY <1>1, <1>2, <1>3, <1>4, <1>5 DEF Answer

LEMMA Read ==
  ASSUME Shapes, Serve
  PROVE  /\ inbox' = Tail(inbox) /\ inbox # <<>> /\ handle(Head(inbox))
         /\ view' = view /\ asked' = asked /\ marks' = marks /\ sent' = sent
         /\ Len(inbox) \in Nat \ {0}
         /\ IsSeq(inbox')
         /\ DOMAIN inbox = 1..Len(inbox) /\ DOMAIN inbox' = 1..(Len(inbox) - 1)
         /\ \A i \in 1..(Len(inbox) - 1) : inbox'[i] = inbox[i + 1]
         /\ Head(inbox) = inbox[1] /\ IsMessage(Head(inbox))
<1>1. inbox # <<>> /\ IsSeq(inbox) /\ inbox' = Tail(inbox)
  BY DEF Serve, Shapes
<1>2. /\ IsSeq(inbox') /\ Len(inbox) \in Nat \ {0}
      /\ DOMAIN inbox = 1..Len(inbox) /\ DOMAIN inbox' = 1..(Len(inbox) - 1)
      /\ \A i \in 1..(Len(inbox) - 1) : inbox'[i] = inbox[i + 1]
      /\ Head(inbox) = inbox[1]
  BY <1>1, TailOf
<1>3. 1 \in DOMAIN inbox
  BY <1>2
<1>4. QED
  BY <1>1, <1>2, <1>3 DEF Serve, Shapes, IsMessage

LEMMA ServeShapes ==
  ASSUME Shapes, Serve,
         \/ outbox' = outbox
         \/ \E m : m.k \in {"reply", "diagnostics"} /\ outbox' = Append(outbox, m)
  PROVE  Shapes'
<1>1. /\ \A i \in DOMAIN inbox' : inbox'[i].k \in Messages
      /\ \A i \in DOMAIN inbox' : inbox'[i].k = "change" => inbox'[i].texts \in Seq(Texts)
  <2>1. ASSUME NEW i \in DOMAIN inbox' PROVE i + 1 \in DOMAIN inbox /\ inbox'[i] = inbox[i + 1]
    BY <2>1, Read
  <2>2. QED
    BY <2>1 DEF Shapes
<1>2. IsSeq(outbox') /\ \A i \in DOMAIN outbox' : outbox'[i].k \in {"reply", "diagnostics"}
  <2>1. CASE outbox' = outbox
    BY <2>1 DEF Shapes
  <2>2. ASSUME NEW m, m.k \in {"reply", "diagnostics"}, outbox' = Append(outbox, m)
        PROVE  IsSeq(outbox') /\ \A i \in DOMAIN outbox' : outbox'[i].k \in {"reply", "diagnostics"}
    <3>1. /\ IsSeq(outbox') /\ DOMAIN outbox = 1..Len(outbox) /\ Len(outbox) \in Nat
          /\ DOMAIN outbox' = 1..(Len(outbox) + 1)
          /\ \A i \in 1..Len(outbox) : outbox'[i] = outbox[i]
          /\ outbox'[Len(outbox) + 1] = m
      BY <2>2, Appended DEF Shapes
    <3>2. ASSUME NEW i \in DOMAIN outbox' PROVE outbox'[i].k \in {"reply", "diagnostics"}
      <4>1. CASE i = Len(outbox) + 1
        BY <2>2, <3>1, <4>1
      <4>2. CASE i # Len(outbox) + 1
        <5>1. i \in DOMAIN outbox /\ outbox'[i] = outbox[i]
          BY <3>1, <4>2
        <5>2. QED
          BY <5>1 DEF Shapes
      <4>3. QED
        BY <4>1, <4>2
    <3>3. QED
      BY <3>1, <3>2
  <2>3. QED
    BY <2>1, <2>2
<1>3. QED
  BY <1>1, <1>2, Read DEF Shapes

LEMMA ServeCounts ==
  ASSUME Shapes, Serve, NEW id \in Nat, Counted(id),
         \/ Head(inbox).k \in Requests
            /\ \E m : m.k = "reply" /\ m.id = Head(inbox).id /\ outbox' = Append(outbox, m)
         \/ Head(inbox).k \notin Requests
            /\ (outbox' = outbox \/ \E m : m.k # "reply" /\ outbox' = Append(outbox, m))
  PROVE  Counted(id)'
<1>1. /\ Cardinality(Questions(id)') \in Nat
      /\ Cardinality(Questions(id)) =
           Cardinality(Questions(id)')
             + (IF Head(inbox).k \in Requests /\ Head(inbox).id = id THEN 1 ELSE 0)
  BY Read, QuestionRead DEF Shapes
<1>2. /\ Cardinality(Answers(id)) \in Nat
      /\ Cardinality(Answers(id)') =
           Cardinality(Answers(id))
             + (IF Head(inbox).k \in Requests /\ Head(inbox).id = id THEN 1 ELSE 0)
  <2>1. CASE outbox' = outbox /\ Head(inbox).k \notin Requests
    <3>1. Answers(id)' = Answers(id) /\ Cardinality(Answers(id)) \in Nat
      BY <2>1, Uncounted DEF Shapes
    <3>2. Cardinality(Answers(id)') = Cardinality(Answers(id))
      BY <3>1
    <3>3. QED
      BY <2>1, <3>1, <3>2
  <2>2. ASSUME NEW m, outbox' = Append(outbox, m),
               m.k = "reply" /\ m.id = id <=> Head(inbox).k \in Requests /\ Head(inbox).id = id
        PROVE  <1>2!1 /\ <1>2!2
    BY <2>2, AnswerWritten DEF Shapes
  <2>3. QED
    BY <2>1, <2>2
<1>3. Due(id)' = Due(id) /\ Due(id) \in Nat
  BY Read DEF Due
<1>4. QED
  BY <1>1, <1>2, <1>3 DEF Counted

(* A message that is no change of u.                                       *)
LEMMA ServeOthers ==
  ASSUME Shapes, Serve, NEW u \in DOMAIN view, TextArrives(u), MarksArrive(u),
         ~IsChange(Head(inbox), u),
         u \in DOMAIN docs /\ ~Settles(Head(inbox), u) => u \in DOMAIN docs' /\ docs'[u] = docs[u],
         \/ outbox' = outbox
         \/ \E m : ~Shows(m, u) /\ outbox' = Append(outbox, m)
  PROVE  TextArrives(u)' /\ MarksArrive(u)'
<1>1. PICK n \in Nat : n + 1 = Len(inbox)
  <2>1. Len(inbox) - 1 \in Nat /\ (Len(inbox) - 1) + 1 = Len(inbox)
    BY Read
  <2>2. QED
    BY <2>1
<1>2. /\ DOMAIN inbox = 1..(n + 1) /\ DOMAIN inbox' = 1..n
      /\ \A i \in 1..n : inbox'[i] = inbox[i + 1]
      /\ inbox[1] = Head(inbox) /\ view' = view /\ marks' = marks
  BY <1>1, Read
<1>3. TextArrives(u)'
  <2>1. CASE /\ \A i \in DOMAIN inbox : ~Settles(inbox[i], u)
             /\ u \in DOMAIN docs /\ docs[u] = view[u]
    <3>1. \A i \in DOMAIN inbox' : ~Settles(inbox'[i], u)
      <4>1. ASSUME NEW i \in DOMAIN inbox' PROVE i + 1 \in DOMAIN inbox /\ inbox'[i] = inbox[i + 1]
        BY <1>2
      <4>2. QED
        BY <4>1, <2>1
    <3>2. ~Settles(Head(inbox), u)
      <4>1. 1 \in DOMAIN inbox
        BY <1>2
      <4>2. QED
        BY <1>2, <2>1, <4>1
    <3>3. QED
      BY <1>2, <2>1, <3>1, <3>2 DEF TextArrives
  <2>2. ASSUME NEW i \in DOMAIN inbox, Brings(inbox[i], u, view[u]),
               \A j \in DOMAIN inbox : j > i => ~Settles(inbox[j], u)
        PROVE  TextArrives(u)'
    <3>1. i # 1
      BY <1>2, <2>2 DEF Brings
    <3>2. PICK k \in 1..n : k + 1 = i
      <4>1. i - 1 \in 1..n /\ (i - 1) + 1 = i
        BY <1>2, <2>2, <3>1
      <4>2. QED
        BY <4>1
    <3>3. k \in DOMAIN inbox' /\ Brings(inbox'[k], u, view'[u])
      BY <1>2, <2>2, <3>2
    <3>4. ASSUME NEW j \in DOMAIN inbox', j > k PROVE ~Settles(inbox'[j], u)
      <4>1. j + 1 \in DOMAIN inbox /\ j + 1 > i /\ inbox'[j] = inbox[j + 1]
        BY <1>2, <3>2, <3>4
      <4>2. QED
        BY <2>2, <4>1
    <3>5. QED
      BY <3>3, <3>4 DEF TextArrives
  <2>3. QED
    BY <2>1, <2>2 DEF TextArrives
<1>4. ASSUME \A i \in DOMAIN inbox' : ~IsChange(inbox'[i], u)
      PROVE  \A i \in DOMAIN inbox : ~IsChange(inbox[i], u)
  <2>1. ASSUME NEW i \in DOMAIN inbox PROVE ~IsChange(inbox[i], u)
    <3>1. CASE i = 1
      BY <1>2, <3>1
    <3>2. CASE i # 1
      <4>1. i - 1 \in DOMAIN inbox' /\ inbox'[i - 1] = inbox[(i - 1) + 1] /\ (i - 1) + 1 = i
        BY <1>2, <3>2
      <4>2. QED
        BY <1>4, <4>1
    <3>3. QED
      BY <3>1, <3>2
  <2>2. QED
    BY <2>1
<1>5. MarksArrive(u)'
  <2>1. CASE outbox' = outbox
    BY <1>2, <1>4, <2>1 DEF MarksArrive, MarksShown, Diagnosis
  <2>2. ASSUME NEW m, ~Shows(m, u), outbox' = Append(outbox, m),
               \A i \in DOMAIN inbox' : ~IsChange(inbox'[i], u)
        PROVE  MarksShown(u)'
    <3>1. PICK l \in Nat : l = Len(outbox)
      BY Appended DEF Shapes
    <3>2. /\ DOMAIN outbox = 1..l /\ DOMAIN outbox' = 1..(l + 1)
          /\ \A i \in 1..l : outbox'[i] = outbox[i]
          /\ outbox'[l + 1] = m
      BY <2>2, <3>1, Appended DEF Shapes
    <3>3. CASE /\ \A i \in DOMAIN outbox : ~Shows(outbox[i], u)
               /\ u \in DOMAIN marks /\ marks[u] = Diagnosis[view[u]]
      <4>1. \A i \in DOMAIN outbox' : ~Shows(outbox'[i], u)
        BY <2>2, <3>2, <3>3
      <4>2. QED
        BY <1>2, <3>3, <4>1 DEF MarksShown, Diagnosis
    <3>4. ASSUME NEW i \in DOMAIN outbox, Shows(outbox[i], u),
                 outbox[i].diags = Diagnosis[view[u]],
                 \A j \in DOMAIN outbox : j > i => ~Shows(outbox[j], u)
          PROVE  MarksShown(u)'
      <4>1. i \in DOMAIN outbox' /\ outbox'[i] = outbox[i]
        BY <3>2
      <4>2. \A j \in DOMAIN outbox' : j > i => ~Shows(outbox'[j], u)
        BY <2>2, <3>2, <3>4
      <4>3. QED
        BY <1>2, <3>4, <4>1, <4>2 DEF MarksShown, Diagnosis
    <3>5. QED
      BY <1>4, <2>2, <3>3, <3>4 DEF MarksArrive, MarksShown
  <2>3. QED
    BY <2>1, <2>2 DEF MarksArrive, MarksShown, Diagnosis
<1>6. QED
  BY <1>3, <1>5

(* A change of u: the diagnostics that follow it are those of its text,    *)
(* and if no change of u comes after it that text is the editor's.         *)
LEMMA ServeChange ==
  ASSUME Shapes, Serve, NEW u \in DOMAIN view, TextArrives(u), MarksArrive(u),
         IsChange(Head(inbox), u)
  PROVE  TextArrives(u)' /\ MarksArrive(u)'
<1> DEFINE msg == Head(inbox)
<1>1. PICK n \in Nat : n + 1 = Len(inbox)
  <2>1. Len(inbox) - 1 \in Nat /\ (Len(inbox) - 1) + 1 = Len(inbox)
    BY Read
  <2>2. QED
    BY <2>1
<1>2. /\ DOMAIN inbox = 1..(n + 1) /\ DOMAIN inbox' = 1..n
      /\ \A i \in 1..n : inbox'[i] = inbox[i + 1]
      /\ inbox[1] = msg /\ view' = view /\ marks' = marks /\ IsMessage(msg)
  BY <1>1, Read
<1>3. Opened(msg) /\ msg.uri = u /\ msg.texts \in Seq(Texts)
  <2>1. handle(msg) /\ msg.k = "change" /\ msg.uri = u /\ IsMessage(msg)
    BY <1>2, Read DEF IsChange
  <2>2. QED
    BY <2>1 DEF handle, IsMessage
<1>4. docs' = IF msg.texts = <<>> THEN docs ELSE With(docs, u, msg.texts[Len(msg.texts)])
  BY <1>3 DEF Opened
<1>5. outbox' = Append(outbox, notify(u, IF u \in DOMAIN docs' THEN docs'[u] ELSE <<>>))
  BY <1>3 DEF Opened, Write
<1>6. \/ /\ \A i \in DOMAIN inbox' : ~Settles(inbox'[i], u)
         /\ u \in DOMAIN docs' /\ docs'[u] = view[u]
      \/ \E i \in DOMAIN inbox' :
           /\ Brings(inbox'[i], u, view[u])
           /\ \A j \in DOMAIN inbox' : j > i => ~Settles(inbox'[j], u)
  <2>1. CASE /\ \A i \in DOMAIN inbox : ~Settles(inbox[i], u)
             /\ u \in DOMAIN docs /\ docs[u] = view[u]
    <3>1. \A i \in DOMAIN inbox' : ~Settles(inbox'[i], u)
      <4>1. ASSUME NEW i \in DOMAIN inbox' PROVE i + 1 \in DOMAIN inbox /\ inbox'[i] = inbox[i + 1]
        BY <1>2
      <4>2. QED
        BY <4>1, <2>1
    <3>2. ~Settles(msg, u)
      <4>1. 1 \in DOMAIN inbox
        BY <1>2
      <4>2. QED
        BY <1>2, <2>1, <4>1
    <3>3. msg.texts = <<>>
      BY <3>2 DEF Settles
    <3>4. QED
      BY <1>4, <2>1, <3>1, <3>3
  <2>2. ASSUME NEW i \in DOMAIN inbox, Brings(inbox[i], u, view[u]),
               \A j \in DOMAIN inbox : j > i => ~Settles(inbox[j], u)
        PROVE  <1>6
    <3>1. CASE i = 1
      <4>1. docs' = With(docs, u, view[u])
        BY <1>2, <1>4, <2>2, <3>1 DEF Brings
      <4>2. u \in DOMAIN docs' /\ docs'[u] = view[u]
        BY <4>1 DEF With
      <4>3. ASSUME NEW j \in DOMAIN inbox' PROVE ~Settles(inbox'[j], u)
        <5>1. j + 1 \in DOMAIN inbox /\ j + 1 > i /\ inbox'[j] = inbox[j + 1]
          BY <1>2, <3>1, <4>3
        <5>2. QED
          BY <2>2, <5>1
      <4>4. QED
        BY <4>2, <4>3
    <3>2. CASE i # 1
      <4>1. PICK k \in 1..n : k + 1 = i
        <5>1. i - 1 \in 1..n /\ (i - 1) + 1 = i
          BY <1>2, <2>2, <3>2
        <5>2. QED
          BY <5>1
      <4>2. k \in DOMAIN inbox' /\ Brings(inbox'[k], u, view[u])
        BY <1>2, <2>2, <4>1
      <4>3. ASSUME NEW j \in DOMAIN inbox', j > k PROVE ~Settles(inbox'[j], u)
        <5>1. j + 1 \in DOMAIN inbox /\ j + 1 > i /\ inbox'[j] = inbox[j + 1]
          BY <1>2, <4>1, <4>3
        <5>2. QED
          BY <2>2, <5>1
      <4>4. QED
        BY <4>2, <4>3
    <3>3. QED
      BY <3>1, <3>2
  <2>3. QED
    BY <2>1, <2>2 DEF TextArrives
<1>7. TextArrives(u)'
  BY <1>2, <1>6 DEF TextArrives
<1>8. ASSUME \A i \in DOMAIN inbox' : ~IsChange(inbox'[i], u)
      PROVE  \E i \in DOMAIN outbox' :
                    /\ Shows(outbox'[i], u) /\ outbox'[i].diags = Diagnosis[view'[u]]
                    /\ \A j \in DOMAIN outbox' : j > i => ~Shows(outbox'[j], u)
  <2>1. u \in DOMAIN docs' /\ docs'[u] = view[u]
    BY <1>6, <1>8 DEF Brings
  <2>2. PICK m : m = notify(u, view[u]) /\ outbox' = Append(outbox, m)
    BY <1>5, <2>1
  <2>3. Shows(m, u) /\ m.diags = Diagnosis[view[u]]
    BY <2>2 DEF notify, Shows
  <2>4. /\ Len(outbox) \in Nat
        /\ DOMAIN outbox' = 1..(Len(outbox) + 1)
        /\ outbox'[Len(outbox) + 1] = m
    BY <2>2, Appended DEF Shapes
  <2>5. /\ Len(outbox) + 1 \in DOMAIN outbox'
        /\ \A j \in DOMAIN outbox' : ~(j > Len(outbox) + 1)
    BY <2>4
  <2>6. QED
    BY <1>2, <2>3, <2>4, <2>5
<1>9. MarksArrive(u)'
  BY <1>8 DEF MarksArrive, MarksShown, Diagnosis
<1>10. QED
  BY <1>7, <1>9

LEMMA ServeKeeps ==
  ASSUME LspInv, Serve
  PROVE  LspInv'
<1> DEFINE msg == Head(inbox)
<1>0. Shapes /\ handle(msg) /\ IsMessage(msg) /\ view' = view
  BY Read DEF LspInv
<1>1. CASE msg.k = "change"
  <2>1. Opened(msg)
    BY <1>0, <1>1 DEF handle
  <2>2. PICK text : outbox' = Append(outbox, notify(msg.uri, text))
    BY <2>1 DEF Opened, Write
  <2>3. PICK m : m.k = "diagnostics" /\ m.uri = msg.uri /\ outbox' = Append(outbox, m)
    BY <2>2 DEF notify
  <2>4. Shapes'
    BY <1>0, <2>3, ServeShapes
  <2>5. ASSUME NEW id \in Nat PROVE Counted(id)'
    BY <1>0, <1>1, <2>3, ServeCounts DEF LspInv, Requests
  <2>6. ASSUME NEW v \in DOMAIN view' PROVE TextArrives(v)' /\ MarksArrive(v)'
    <3>1. v \in DOMAIN view /\ TextArrives(v) /\ MarksArrive(v)
      BY <1>0, <2>6 DEF LspInv
    <3>2. CASE msg.uri = v
      BY <1>0, <1>1, <3>1, <3>2, ServeChange DEF IsChange
    <3>3. CASE msg.uri # v
      <4>1. ~IsChange(msg, v) /\ ~Shows(m, v)
        BY <2>3, <3>3 DEF IsChange, Shows
      <4>2. v \in DOMAIN docs => v \in DOMAIN docs' /\ docs'[v] = docs[v]
        BY <2>1, <3>3 DEF Opened, With
      <4>3. QED
        BY <1>0, <2>3, <3>1, <4>1, <4>2, ServeOthers
    <3>4. QED
      BY <3>2, <3>3
  <2>7. QED
    BY <2>4, <2>5, <2>6 DEF LspInv
<1>2. CASE msg.k = "close"
  <2>1. docs' = Without(docs, msg.uri) /\ outbox' = outbox
    BY <1>0, <1>2 DEF handle, Closed
  <2>2. Shapes'
    BY <1>0, <2>1, ServeShapes
  <2>3. ASSUME NEW id \in Nat PROVE Counted(id)'
    BY <1>0, <1>2, <2>1, ServeCounts DEF LspInv, Requests
  <2>4. ASSUME NEW v \in DOMAIN view' PROVE TextArrives(v)' /\ MarksArrive(v)'
    <3>1. v \in DOMAIN view /\ TextArrives(v) /\ MarksArrive(v)
      BY <1>0, <2>4 DEF LspInv
    <3>2. ~IsChange(msg, v)
      BY <1>2 DEF IsChange
    <3>3. v \in DOMAIN docs /\ ~Settles(msg, v) => v \in DOMAIN docs' /\ docs'[v] = docs[v]
      BY <1>2, <2>1 DEF Settles, Without
    <3>4. QED
      BY <1>0, <2>1, <3>1, <3>2, <3>3, ServeOthers
  <2>5. QED
    BY <2>2, <2>3, <2>4 DEF LspInv
<1>3. CASE msg.k = "exit"
  <2>1. docs' = docs /\ outbox' = outbox
    BY <1>0, <1>3 DEF handle, Exit
  <2>2. Shapes'
    BY <1>0, <2>1, ServeShapes
  <2>3. ASSUME NEW id \in Nat PROVE Counted(id)'
    BY <1>0, <1>3, <2>1, ServeCounts DEF LspInv, Requests
  <2>4. ASSUME NEW v \in DOMAIN view' PROVE TextArrives(v)' /\ MarksArrive(v)'
    <3>1. v \in DOMAIN view /\ TextArrives(v) /\ MarksArrive(v)
      BY <1>0, <2>4 DEF LspInv
    <3>2. ~IsChange(msg, v)
      BY <1>3 DEF IsChange
    <3>3. QED
      BY <1>0, <2>1, <3>1, <3>2, ServeOthers
  <2>5. QED
    BY <2>2, <2>3, <2>4 DEF LspInv
<1>4. CASE msg.k \in Requests
  <2>1. Answer(msg)
    BY <1>0, <1>4 DEF handle, Requests
  <2>2. docs' = docs
    BY <2>1, AnswersOnce
  <2>3. PICK r : outbox' = Append(outbox, reply(msg.id, r))
    BY <2>1, AnswersOnce
  <2>4. PICK m : m.k = "reply" /\ m.id = msg.id /\ outbox' = Append(outbox, m)
    BY <2>3 DEF reply
  <2>5. Shapes'
    BY <1>0, <2>4, ServeShapes
  <2>6. ASSUME NEW id \in Nat PROVE Counted(id)'
    BY <1>0, <1>4, <2>4, ServeCounts DEF LspInv
  <2>7. ASSUME NEW v \in DOMAIN view' PROVE TextArrives(v)' /\ MarksArrive(v)'
    <3>1. v \in DOMAIN view /\ TextArrives(v) /\ MarksArrive(v)
      BY <1>0, <2>7 DEF LspInv
    <3>2. ~IsChange(msg, v) /\ ~Shows(m, v)
      BY <1>4, <2>4 DEF IsChange, Shows, Requests
    <3>3. QED
      BY <1>0, <2>2, <2>4, <3>1, <3>2, ServeOthers
  <2>8. QED
    BY <2>5, <2>6, <2>7 DEF LspInv
<1>5. QED
  BY <1>0, <1>1, <1>2, <1>3, <1>4 DEF IsMessage, Messages

LEMMA ReceiveKeeps ==
  ASSUME LspInv, Receive
  PROVE  LspInv'
<1> DEFINE msg == Head(outbox)
<1>1. /\ Shapes /\ outbox # <<>> /\ outbox' = Tail(outbox) /\ IsSeq(outbox)
      /\ inbox' = inbox /\ docs' = docs /\ view' = view /\ sent' = sent
  BY DEF Receive, LspInv, Shapes
<1>2. PICK n \in Nat : n + 1 = Len(outbox)
  <2>1. Len(outbox) - 1 \in Nat /\ (Len(outbox) - 1) + 1 = Len(outbox)
    BY <1>1, TailOf
  <2>2. QED
    BY <2>1
<1>3. /\ DOMAIN outbox = 1..(n + 1) /\ DOMAIN outbox' = 1..n /\ IsSeq(outbox')
      /\ \A i \in 1..n : outbox'[i] = outbox[i + 1]
      /\ outbox[1] = msg
  BY <1>1, <1>2, TailOf
<1>4. msg.k \in {"reply", "diagnostics"}
  <2>1. 1 \in DOMAIN outbox
    BY <1>3
  <2>2. QED
    BY <1>1, <1>3, <2>1 DEF Shapes
<1>5. /\ msg.k = "reply" => asked' = Without(asked, msg.id) /\ marks' = marks
      /\ msg.k # "reply" => asked' = asked /\ marks' = With(marks, msg.uri, msg.diags)
  BY DEF Receive
<1>6. Shapes'
  <2>1. DOMAIN asked' \subseteq DOMAIN asked
    BY <1>5 DEF Without
  <2>2. ASSUME NEW i \in DOMAIN outbox' PROVE outbox'[i].k \in {"reply", "diagnostics"}
    <3>1. i + 1 \in DOMAIN outbox /\ outbox'[i] = outbox[i + 1]
      BY <1>3, <2>2
    <3>2. QED
      BY <1>1, <3>1 DEF Shapes
  <2>3. QED
    BY <1>1, <1>3, <2>1, <2>2 DEF Shapes
<1>7. ASSUME NEW id \in Nat PROVE Counted(id)'
  <2>1. /\ Cardinality(Answers(id)') \in Nat
        /\ Cardinality(Answers(id)) =
             Cardinality(Answers(id)') + (IF msg.k = "reply" /\ msg.id = id THEN 1 ELSE 0)
    BY <1>1, AnswerRead
  <2>2. Cardinality(Questions(id)) \in Nat /\ Questions(id)' = Questions(id)
    BY <1>1, Uncounted DEF Shapes
  <2>3. Cardinality(Questions(id)') = Cardinality(Questions(id))
    BY <2>2
  <2>4. Counted(id)
    BY DEF LspInv
  <2>5. CASE msg.k = "reply" /\ msg.id = id
    <3>1. Due(id)' = 0
      BY <1>5, <2>5 DEF Due, Without
    <3>2. Due(id) \in {0, 1}
      BY DEF Due
    <3>3. QED
      BY <2>1, <2>2, <2>3, <2>4, <2>5, <3>1, <3>2 DEF Counted
  <2>6. CASE ~(msg.k = "reply" /\ msg.id = id)
    <3>1. Due(id)' = Due(id)
      BY <1>5, <2>6 DEF Due, Without
    <3>2. QED
      BY <2>1, <2>2, <2>3, <2>4, <2>6, <3>1 DEF Counted
  <2>7. QED
    BY <2>5, <2>6
<1>8. ASSUME NEW u \in DOMAIN view' PROVE TextArrives(u)' /\ MarksArrive(u)'
  <2>1. u \in DOMAIN view /\ TextArrives(u) /\ MarksArrive(u)
    BY <1>1, <1>8 DEF LspInv
  <2>2. TextArrives(u)'
    BY <1>1, <2>1 DEF TextArrives
  <2>3. ASSUME \A i \in DOMAIN inbox' : ~IsChange(inbox'[i], u)
        PROVE  MarksShown(u)'
    <3>1. CASE /\ \A i \in DOMAIN outbox : ~Shows(outbox[i], u)
               /\ u \in DOMAIN marks /\ marks[u] = Diagnosis[view[u]]
      <4>1. ~Shows(msg, u)
        <5>1. 1 \in DOMAIN outbox
          BY <1>3
        <5>2. QED
          BY <1>3, <3>1, <5>1
      <4>2. u \in DOMAIN marks' /\ marks'[u] = marks[u]
        BY <1>4, <1>5, <3>1, <4>1 DEF Shows, With
      <4>3. ASSUME NEW i \in DOMAIN outbox' PROVE ~Shows(outbox'[i], u)
        <5>1. i + 1 \in DOMAIN outbox /\ outbox'[i] = outbox[i + 1]
          BY <1>3, <4>3
        <5>2. QED
          BY <3>1, <5>1
      <4>4. QED
        BY <1>1, <3>1, <4>2, <4>3 DEF MarksShown, Diagnosis
    <3>2. ASSUME NEW i \in DOMAIN outbox, Shows(outbox[i], u),
                 outbox[i].diags = Diagnosis[view[u]],
                 \A j \in DOMAIN outbox : j > i => ~Shows(outbox[j], u)
          PROVE  MarksShown(u)'
      <4>1. CASE i = 1
        <5>1. u \in DOMAIN marks' /\ marks'[u] = Diagnosis[view[u]]
          BY <1>3, <1>5, <3>2, <4>1 DEF Shows, With
        <5>2. ASSUME NEW j \in DOMAIN outbox' PROVE ~Shows(outbox'[j], u)
          <6>1. j + 1 \in DOMAIN outbox /\ j + 1 > i /\ outbox'[j] = outbox[j + 1]
            BY <1>3, <4>1, <5>2
          <6>2. QED
            BY <3>2, <6>1
        <5>3. QED
          BY <1>1, <5>1, <5>2 DEF MarksShown, Diagnosis
      <4>2. CASE i # 1
        <5>1. PICK k \in 1..n : k + 1 = i
          <6>1. i - 1 \in 1..n /\ (i - 1) + 1 = i
            BY <1>3, <3>2, <4>2
          <6>2. QED
            BY <6>1
        <5>2. k \in DOMAIN outbox' /\ outbox'[k] = outbox[i]
          BY <1>3, <5>1
        <5>3. ASSUME NEW j \in DOMAIN outbox', j > k PROVE ~Shows(outbox'[j], u)
          <6>1. j + 1 \in DOMAIN outbox /\ j + 1 > i /\ outbox'[j] = outbox[j + 1]
            BY <1>3, <5>1, <5>3
          <6>2. QED
            BY <3>2, <6>1
        <5>4. QED
          BY <1>1, <3>2, <5>2, <5>3 DEF MarksShown, Diagnosis
      <4>3. QED
        BY <4>1, <4>2
    <3>3. QED
      BY <1>1, <2>1, <2>3, <3>1, <3>2 DEF MarksArrive, MarksShown
  <2>4. MarksArrive(u)'
    BY <2>3 DEF MarksArrive, MarksShown, Diagnosis
  <2>5. QED
    BY <2>2, <2>4
<1>9. QED
  BY <1>6, <1>7, <1>8 DEF LspInv

LEMMA LspInitHolds ==
  LspInit => LspInv
<1> SUFFICES ASSUME LspInit PROVE LspInv
  OBVIOUS
<1>1. IsSeq(<<>>) /\ DOMAIN <<>> = {}
  <2>1. <<>> \in Seq({}) /\ DOMAIN <<>> = {}
    OBVIOUS
  <2>2. QED
    BY <2>1, SeqOfOwn
<1>2. Shapes
  BY <1>1 DEF LspInit, Shapes
<1>3. ASSUME NEW id \in Nat PROVE Counted(id)
  <2>1. Questions(id) = {} /\ Answers(id) = {}
    BY <1>1 DEF LspInit, Questions, Answers
  <2>2. Due(id) = 0
    BY <1>1 DEF LspInit, Due
  <2>3. QED
    BY <2>1, <2>2, FS_EmptySet DEF Counted
<1>4. QED
  BY <1>1, <1>2, <1>3 DEF LspInit, LspInv

LEMMA LspStepKeeps ==
  LspInv /\ [LspNext]_lspVars => LspInv'
<1> SUFFICES ASSUME LspInv, [LspNext]_lspVars PROVE LspInv'
  OBVIOUS
<1>1. CASE Serve
  BY <1>1, ServeKeeps
<1>2. CASE Receive
  BY <1>2, ReceiveKeeps
<1>3. CASE SendExit
  BY <1>3, SendExitKeeps
<1>4. ASSUME NEW u \in Uris,
             NEW t \in {<<>>} \cup {<<x>> : x \in Texts} \cup {p \in Texts \X Texts : p[1] # p[2]},
             Edit(u, t)
      PROVE  LspInv'
  <2>1. t \in Seq(Texts)
    <3>1. CASE t = <<>>
      BY <3>1
    <3>2. ASSUME NEW x \in Texts, t = <<x>> PROVE t \in Seq(Texts)
      BY <3>2
    <3>3. ASSUME NEW x \in Texts, NEW y \in Texts, t = <<x, y>> PROVE t \in Seq(Texts)
      BY <3>3
    <3>4. QED
      BY <1>4, <3>1, <3>2, <3>3
  <2>2. QED
    BY <1>4, <2>1, EditKeeps
<1>5. ASSUME NEW u \in Uris, CloseDoc(u) PROVE LspInv'
  BY <1>5, CloseKeeps
<1>6. ASSUME NEW u \in Uris, NEW k \in Requests, Ask(k, u, <<1, 1>>) PROVE LspInv'
  BY <1>6, AskKeeps
<1>7. CASE UNCHANGED lspVars
  <2>1. /\ docs' = docs /\ inbox' = inbox /\ outbox' = outbox /\ view' = view
        /\ asked' = asked /\ marks' = marks /\ sent' = sent
    BY <1>7 DEF lspVars
  <2>2. Shapes'
    BY <2>1 DEF LspInv, Shapes
  <2>3. ASSUME NEW id \in Nat PROVE Counted(id)'
    <3>1. Questions(id)' = Questions(id) /\ Answers(id)' = Answers(id) /\ Due(id)' = Due(id)
      BY <2>1 DEF Questions, Answers, Due
    <3>2. Cardinality(Questions(id)') = Cardinality(Questions(id))
      BY <3>1
    <3>3. Cardinality(Answers(id)') = Cardinality(Answers(id))
      BY <3>1
    <3>4. QED
      BY <3>1, <3>2, <3>3 DEF LspInv, Counted
  <2>4. ASSUME NEW u \in DOMAIN view' PROVE TextArrives(u)' /\ MarksArrive(u)'
    <3>1. TextArrives(u) /\ MarksArrive(u)
      BY <2>1, <2>4 DEF LspInv
    <3>2. QED
      BY <2>1, <3>1 DEF TextArrives, MarksArrive, MarksShown, Diagnosis
  <2>5. QED
    BY <2>2, <2>3, <2>4 DEF LspInv
<1>8. QED
  BY <1>1, <1>2, <1>3, <1>4, <1>5, <1>6, <1>7 DEF LspNext

(* The inductive invariant of server and editor: what is in the two pipes, *)
(* what the server knows and what the editor waits for.                    *)
THEOREM LspInvariance == LspSpec => []LspInv
<1>1. QED
  BY LspInitHolds, LspStepKeeps, PTL DEF LspSpec

(* The editor is served right, for all documents, texts and diagnoses and  *)
(* however long the session: one answer to each question, and errors that  *)
(* are those of the text it has once nothing is under way.                 *)
THEOREM ServedAlways ==
  LspSpec => []EditorIsServed
<1>1. ASSUME LspInv PROVE EditorIsServed
  <2>1. OneAnswerEach
    <3>1. ASSUME NEW id \in 0..(MaxSent - 1)
          PROVE  Cardinality(Questions(id)) + Cardinality(Answers(id))
                   = (IF id \in DOMAIN asked THEN 1 ELSE 0)
      <4>1. id \in Nat
        OBVIOUS
      <4>2. QED
        BY <1>1, <4>1 DEF LspInv, Counted, Due
    <3>2. QED
      BY <3>1 DEF OneAnswerEach
  <2>2. ASSUME inbox = <<>>, outbox = <<>>, NEW u \in DOMAIN view
        PROVE  u \in DOMAIN marks /\ marks[u] = Diagnosis[view[u]]
    <3>1. DOMAIN inbox = {} /\ DOMAIN outbox = {}
      BY <2>2
    <3>2. QED
      BY <1>1, <2>2, <3>1 DEF LspInv, MarksArrive, MarksShown
  <2>3. QED
    BY <2>1, <2>2 DEF EditorIsServed, MarksAreCurrent
<1>2. QED
  BY <1>1, LspInvariance, PTL

-----------------------------------------------------------------------------
(***************************************************************************)
(* The package commands.  A package fits a name if no other package is at  *)
(* home there: every file below vx_modules is of a package that fits its   *)
(* directory, every call is about one that fits its name, and what is put  *)
(* in the lock file does.  A name stays while its directory has a main.vx  *)
(* or a rename is about to bring it; what has been got as an archive has a *)
(* call that is not done, or an entry and a name that stays; and only the  *)
(* repositories whose packages move away, and what is being removed or has *)
(* been parted by a kill, have an entry and no directory.                  *)
(***************************************************************************)
Before == {"download", "single", "refused"}
Calls == [spec : DOMAIN Hub, name : Names, deps : Seq(DOMAIN Hub),
          at : Before \cup {"json", "rmtree", "rename", "deps", "lock"}]

Fits(s, n) == \A t \in AtHome : n \in Labels(t) => s \in Kin(t)

ProjectFile(p) == p = Append(Project, "vx.json") \/ p = Append(Project, "main.vx")
SingleFile(p, s) == p = FileOf(Hub[s].repo) /\ files[p] = Single(s)
PackageFile(p, s) ==
  \E n \in Names : \E f \in DOMAIN Archive(s) :
    /\ p = Append(DirOf(n), f) /\ files[p] = Archive(s)[f]
    /\ Fits(s, n) /\ (f = "vx.json" => n \in Labels(s))
FilesAreOwned ==
  \A p \in DOMAIN files :
    ProjectFile(p) \/ \E s \in DOMAIN Hub : SingleFile(p, s) \/ PackageFile(p, s)

HasMain(disk, n) == Append(DirOf(n), "main.vx") \in DOMAIN disk
MovingTo(disk, calls, n) ==
  /\ calls # <<>> /\ calls[Len(calls)].at = "rename"
  /\ disk[json(calls[Len(calls)].name)].name = n
Remains(disk, calls, n) == n \in Movers \/ HasMain(disk, n) \/ MovingTo(disk, calls, n)
Whole(disk, s, n) == \A f \in DOMAIN Archive(s) : Append(DirOf(n), f) \in DOMAIN disk

CallIsRight(c, disk, calls, gotten) ==
  /\ Fits(c.spec, c.name)
  /\ c.at \notin {"deps", "lock"} => c.name = Hub[c.spec].repo
  /\ c.at \notin Before =>
       c.spec \in DOMAIN gotten /\ gotten[c.spec] = "zip" /\ Remains(disk, calls, c.name)
  /\ c.at \in {"json", "rmtree", "rename"} => Whole(disk, c.spec, c.name)
  /\ c.at \in {"rmtree", "rename"} =>
       json(c.name) \in DOMAIN disk /\ disk[json(c.name)].name # c.name
  /\ c.at = "rename" => ~IsDir(disk, DirOf(disk[json(c.name)].name))
  /\ c.at \in {"deps", "lock"} /\ c.spec \in AtHome => c.name = Called(c.spec)
CallsAreRight ==
  /\ stack \in Seq(Calls)
  /\ \A i \in 1..Len(stack) :
       CallIsRight(stack[i], files, stack, got) /\ (i < Len(stack) => stack[i].at = "deps")

InHand(calls, s) ==
  \E i \in 1..Len(calls) : calls[i].spec = s /\ calls[i].at \notin Before
Entered(gotten, entries, s) ==
  /\ Called(s) \in DOMAIN entries /\ entries[Called(s)] \in Kin(s) \cap DOMAIN gotten
  /\ gotten[entries[Called(s)]] = "zip"
Have(disk, calls, gotten, entries, s) ==
  \/ /\ gotten[s] = "zip"
     /\ InHand(calls, s) \/ (Entered(gotten, entries, s) /\ Remains(disk, calls, Called(s)))
  \/ gotten[s] = "single" /\ FileOf(Hub[s].repo) \in DOMAIN disk
GotIsThere == \A s \in AtHome \cap DOMAIN got : Have(files, stack, got, data, s)
LastIsThere == \A s \in AtHome \cap DOMAIN last : Have(files, stack, last, lock, s)

HasDir(n) == Remains(files, stack, n) \/ n \in torn \/ (phase = "remove" /\ removing = n)
EntriesAreRight == \A n \in DOMAIN lock \cup DOMAIN data : HasDir(n)

Phases ==
  /\ phase \in {"idle", "install", "remove"}
  /\ phase # "install" => stack = <<>> /\ data = <<>> /\ got = <<>>
  /\ phase # "idle" => last = <<>>

PkgInv ==
  /\ Phases /\ FilesAreOwned /\ CallsAreRight
  /\ GotIsThere /\ LastIsThere /\ EntriesAreRight

(***************************************************************************)
(* Names.                                                                  *)
(***************************************************************************)
LEMMA HubHolds ==
  ASSUME NEW s \in DOMAIN Hub
  PROVE  /\ Hub[s].kind \in {"repo", "url", "path"} /\ Hub[s].json \in BOOLEAN
         /\ Hub[s].deps \in Seq(DOMAIN Hub)
         /\ Hub[s].name \in Names /\ Hub[s].repo \in Names
         /\ Hub[s].repo \in Labels(s) /\ Called(s) \in Labels(s) /\ Labels(s) \subseteq Names
         /\ Hub[s].json => Called(s) = Hub[s].name
         /\ ~Hub[s].json => Called(s) = Hub[s].repo
BY HubAssumption DEF Labels, Called, Names

\* What is called the same and of the same repository has the same names.
LEMMA KinAlike ==
  ASSUME NEW s, NEW t \in Kin(s)
  PROVE  /\ t \in DOMAIN Hub /\ Labels(t) = Labels(s)
         /\ Called(t) = Called(s) /\ Hub[t].repo = Hub[s].repo
BY DEF Kin, Labels

LEMMA HomeNames ==
  ASSUME NEW s \in AtHome, NEW t \in DOMAIN Hub, NEW n \in Labels(s), n \in Labels(t)
  PROVE  s \in DOMAIN Hub /\ t \in Kin(s)
BY DEF AtHome

LEMMA FitsOwn ==
  ASSUME NEW s \in DOMAIN Hub, NEW n \in Labels(s)
  PROVE  Fits(s, n)
BY HomeNames DEF Fits

LEMMA FitsHome ==
  ASSUME NEW s \in AtHome, NEW n \in Labels(s), NEW t, Fits(t, n)
  PROVE  t \in Kin(s)
BY DEF Fits

\* What fits the directory of a repository fits the one its package moves to.
LEMMA FitsMoved ==
  ASSUME NEW v \in DOMAIN Hub, NEW from, from = Hub[v].repo, NEW s, Fits(s, from)
  PROVE  Fits(s, Called(v))
<1>1. ASSUME NEW t \in AtHome, Called(v) \in Labels(t) PROVE s \in Kin(t)
  <2>1. v \in Kin(t)
    BY <1>1, HubHolds, HomeNames
  <2>2. from \in Labels(t)
    BY <2>1, KinAlike DEF Labels
  <2>3. QED
    BY <2>2, FitsHome
<1>2. QED
  BY <1>1 DEF Fits

LEMMA HomeIsNoMover ==
  ASSUME NEW s \in AtHome
  PROVE  Called(s) \notin Movers
<1>1. ASSUME NEW t \in DOMAIN Hub, Called(t) # Hub[t].repo, Hub[t].repo = Called(s)
      PROVE  FALSE
  <2>1. Called(s) \in Labels(s) /\ Called(s) \in Labels(t)
    BY <1>1 DEF Labels
  <2>2. t \in Kin(s)
    BY <2>1, HomeNames
  <2>3. QED
    BY <1>1, <2>2, KinAlike
<1>2. QED
  BY <1>1 DEF Movers

(***************************************************************************)
(* Paths.                                                                  *)
(***************************************************************************)
LEMMA PathParts ==
  ASSUME NEW m, NEW f
  PROVE  /\ Len(Append(DirOf(m), f)) = 4
         /\ Append(DirOf(m), f)[3] = m /\ Append(DirOf(m), f)[4] = f
BY DEF DirOf, Dest, In, Project

LEMMA UnderDir ==
  ASSUME NEW m, NEW f, NEW n
  PROVE  Under(Append(DirOf(m), f), DirOf(n)) <=> m = n
BY DEF Under, DirOf, Dest, In, Project

LEMMA FileNotUnder ==
  ASSUME NEW m, NEW n
  PROVE  ~Under(FileOf(m), DirOf(n))
BY DEF Under, DirOf, FileOf, Dest, In, Project

LEMMA LastName ==
  ASSUME NEW n, NEW f, NEW p, p = Append(DirOf(n), f)
  PROVE  p[Len(p)] = f
<1>1. Len(p) = 4 /\ p[4] = f
  BY PathParts
<1>2. QED
  BY <1>1

LEMMA ProjectParts ==
  ASSUME NEW p, ProjectFile(p)
  PROVE  Len(p) = 2
BY DEF ProjectFile, Project

LEMMA ProjectPaths ==
  ASSUME NEW p, ProjectFile(p)
  PROVE  /\ \A n : ~Under(p, DirOf(n))
         /\ \A n, f : p # Append(DirOf(n), f)
<1>1. ASSUME NEW n PROVE ~Under(p, DirOf(n))
  <2>1. Len(DirOf(n)) = 3
    BY DEF DirOf, Dest, In, Project
  <2>2. QED
    BY <2>1, ProjectParts DEF Under
<1>2. ASSUME NEW n, NEW f PROVE p # Append(DirOf(n), f)
  <2>1. Len(Append(DirOf(n), f)) = 4
    BY PathParts
  <2>2. QED
    BY <2>1, ProjectParts
<1>3. QED
  BY <1>1, <1>2

LEMMA FileParts ==
  ASSUME NEW x
  PROVE  Len(Append(Dest, x)) = 3 /\ Append(Dest, x)[3] = x
BY DEF Dest, In, Project

LEMMA FilePaths ==
  ASSUME NEW m, NEW p, p = FileOf(m)
  PROVE  /\ ~ProjectFile(p)
         /\ \A n, f : p # Append(DirOf(n), f)
         /\ \A n \in Names : m \in Names /\ p = FileOf(n) => m = n
<1>1. Len(p) = 3 /\ p[3] = m \o ".vx"
  BY FileParts DEF FileOf
<1>2. ~ProjectFile(p)
  <2>1. ProjectFile(p) => Len(p) = 2
    BY ProjectParts
  <2>2. QED
    BY <1>1, <2>1
<1>3. ASSUME NEW n, NEW f PROVE p # Append(DirOf(n), f)
  <2>1. Len(Append(DirOf(n), f)) = 4
    BY PathParts
  <2>2. QED
    BY <1>1, <2>1
<1>4. ASSUME NEW n \in Names, m \in Names, p = FileOf(n) PROVE m = n
  <2>1. p[3] = n \o ".vx"
    BY <1>4, FileParts DEF FileOf
  <2>2. m \o ".vx" = n \o ".vx"
    BY <1>1, <2>1
  <2>3. QED
    BY <1>4, <2>2, HubAssumption
<1>5. QED
  BY <1>2, <1>3, <1>4

(***************************************************************************)
(* What is on the disk.                                                    *)
(***************************************************************************)
LEMMA ArchiveFiles ==
  ASSUME NEW s \in DOMAIN Hub
  PROVE  /\ "main.vx" \in DOMAIN Archive(s) /\ Archive(s)["main.vx"].of = s
         /\ DOMAIN Archive(s) \subseteq {"main.vx", "vx.json"}
         /\ "vx.json" \in DOMAIN Archive(s) <=> Hub[s].json
         /\ Hub[s].json =>
              /\ Archive(s)["vx.json"].name = Hub[s].name /\ Archive(s)["vx.json"].deps = Hub[s].deps
              /\ Archive(s)["vx.json"].main = "main.vx"
<1> DEFINE F == {"main.vx"} \cup (IF Hub[s].json THEN {"vx.json"} ELSE {})
           m == [of |-> s, body |-> Body(s)]
           j == [of |-> s, main |-> "main.vx", name |-> Hub[s].name, deps |-> Hub[s].deps]
<1>1. Archive(s) = [f \in F |-> IF f = "main.vx" THEN m ELSE j]
  BY DEF Archive
<1>2. m.of = s
  OBVIOUS
<1>3. j.main = "main.vx" /\ j.name = Hub[s].name /\ j.deps = Hub[s].deps
  OBVIOUS
<1> HIDE DEF m, j
<1>4. QED
  BY <1>1, <1>2, <1>3

\* Whose a file in a directory of vx_modules is.
LEMMA Owner ==
  ASSUME FilesAreOwned, NEW n, NEW f, Append(DirOf(n), f) \in DOMAIN files
  PROVE  \E t \in DOMAIN Hub :
           /\ n \in Names /\ f \in DOMAIN Archive(t)
           /\ files[Append(DirOf(n), f)] = Archive(t)[f]
           /\ Fits(t, n) /\ (f = "vx.json" => n \in Labels(t))
<1> DEFINE p == Append(DirOf(n), f)
<1>1. ~ProjectFile(p)
  BY ProjectPaths
<1>2. ASSUME NEW t \in DOMAIN Hub PROVE ~SingleFile(p, t)
  BY FilePaths DEF SingleFile
<1>3. PICK t \in DOMAIN Hub : PackageFile(p, t)
  BY <1>1, <1>2 DEF FilesAreOwned
<1>4. PICK m \in Names, g \in DOMAIN Archive(t) :
         /\ p = Append(DirOf(m), g) /\ files[p] = Archive(t)[g]
         /\ Fits(t, m) /\ (g = "vx.json" => m \in Labels(t))
  BY <1>3 DEF PackageFile
<1>5. m = n /\ g = f
  <2>1. Append(DirOf(m), g) = Append(DirOf(n), f)
    BY <1>4
  <2>2. Append(DirOf(m), g)[3] = m /\ Append(DirOf(m), g)[4] = g
    BY PathParts
  <2>3. Append(DirOf(n), f)[3] = n /\ Append(DirOf(n), f)[4] = f
    BY PathParts
  <2>4. QED
    BY <2>1, <2>2, <2>3
<1>6. QED
  BY <1>4, <1>5

\* What is in a directory where a package is at home.
LEMMA Contents ==
  ASSUME FilesAreOwned, NEW s \in AtHome, NEW n \in Labels(s), NEW f,
         Append(DirOf(n), f) \in DOMAIN files
  PROVE  \E t \in Kin(s) : /\ t \in DOMAIN Hub /\ f \in DOMAIN Archive(t)
                           /\ files[Append(DirOf(n), f)] = Archive(t)[f]
<1>1. PICK t \in DOMAIN Hub : /\ f \in DOMAIN Archive(t)
                              /\ files[Append(DirOf(n), f)] = Archive(t)[f]
                              /\ Fits(t, n)
  BY Owner
<1>2. QED
  BY <1>1, FitsHome

LEMMA SingleContents ==
  ASSUME FilesAreOwned, NEW s \in AtHome, FileOf(Hub[s].repo) \in DOMAIN files
  PROVE  \E t \in Kin(s) : files[FileOf(Hub[s].repo)] = Single(t)
<1> DEFINE p == FileOf(Hub[s].repo)
<1>1. ~ProjectFile(p)
  BY FilePaths
<1>2. ASSUME NEW t \in DOMAIN Hub PROVE ~PackageFile(p, t)
  BY FilePaths DEF PackageFile
<1>3. PICK t \in DOMAIN Hub : SingleFile(p, t)
  BY <1>1, <1>2 DEF FilesAreOwned
<1>4. s \in DOMAIN Hub
  BY DEF AtHome
<1>5. Hub[t].repo = Hub[s].repo
  <2>1. Hub[s].repo \in Names /\ Hub[t].repo \in Names
    BY <1>4, HubHolds
  <2>2. QED
    BY <1>3, <2>1, FilePaths DEF SingleFile
<1>6. t \in Kin(s)
  <2>1. Hub[s].repo \in Labels(s) /\ Hub[s].repo \in Labels(t)
    BY <1>5 DEF Labels
  <2>2. QED
    BY <2>1, HomeNames
<1>7. QED
  BY <1>3, <1>6 DEF SingleFile

\* What the vx.json in a directory says of its package.
LEMMA JsonSays ==
  ASSUME FilesAreOwned, NEW n, json(n) \in DOMAIN files
  PROVE  \E v \in DOMAIN Hub :
           /\ n \in Labels(v) /\ Called(v) = files[json(n)].name
           /\ Called(v) \in Names /\ files[json(n)].deps \in Seq(DOMAIN Hub)
<1>1. Append(DirOf(n), "vx.json") \in DOMAIN files
  BY DEF json
<1>2. PICK v \in DOMAIN Hub : /\ "vx.json" \in DOMAIN Archive(v) /\ n \in Labels(v)
                              /\ files[Append(DirOf(n), "vx.json")] = Archive(v)["vx.json"]
  BY <1>1, Owner
<1>3. /\ Called(v) = files[json(n)].name
      /\ files[json(n)].deps = Hub[v].deps
  BY <1>2, ArchiveFiles, HubHolds DEF json
<1>4. QED
  BY <1>2, <1>3, HubHolds

(***************************************************************************)
(* What a step does to the disk: which directories it leaves alone, and    *)
(* that every file still is of one package.                                *)
(***************************************************************************)
DirsKept(D) ==
  \A n, f : n \notin D /\ Append(DirOf(n), f) \in DOMAIN files => Append(DirOf(n), f) \in DOMAIN files'
FilesKept == \A n : FileOf(n) \in DOMAIN files => FileOf(n) \in DOMAIN files'

LEMMA WholeKept ==
  ASSUME NEW D, DirsKept(D), NEW s \in DOMAIN Hub, NEW n, n \notin D, Whole(files, s, n)
  PROVE  Whole(files', s, n)
<1>1. ASSUME NEW f \in DOMAIN Archive(s) PROVE Append(DirOf(n), f) \in DOMAIN files'
  BY DEF DirsKept, Whole
<1>2. QED
  BY <1>1 DEF Whole

LEMMA WholeHasMain ==
  ASSUME NEW disk, NEW s \in DOMAIN Hub, NEW n, Whole(disk, s, n)
  PROVE  HasMain(disk, n)
BY ArchiveFiles DEF Whole, HasMain

LEMMA MainIsDir ==
  ASSUME NEW disk, NEW n, HasMain(disk, n)
  PROVE  IsDir(disk, DirOf(n))
BY UnderDir DEF HasMain, IsDir

LEMMA Unchanged ==
  ASSUME FilesAreOwned, files' = files
  PROVE  FilesAreOwned' /\ DirsKept({}) /\ FilesKept
BY DEF FilesAreOwned, SingleFile, PackageFile, DirsKept, FilesKept

LEMMA OwnedStill ==
  ASSUME FilesAreOwned, NEW p \in DOMAIN files, files'[p] = files[p]
  PROVE  (ProjectFile(p) \/ \E s \in DOMAIN Hub : SingleFile(p, s) \/ PackageFile(p, s))'
BY DEF FilesAreOwned, SingleFile, PackageFile, ProjectFile

LEMMA UnpackedDisk ==
  ASSUME FilesAreOwned, NEW s \in DOMAIN Hub, NEW S \in SUBSET DOMAIN Archive(s),
         files' = Unpacked(s, S)
  PROVE  /\ FilesAreOwned' /\ DirsKept({}) /\ FilesKept
         /\ \A f \in S : Append(DirOf(Hub[s].repo), f) \in DOMAIN files'
<1> DEFINE N == {Append(DirOf(Hub[s].repo), f) : f \in S}
<1>1. /\ DOMAIN files' = N \cup DOMAIN files
      /\ \A p \in N : files'[p] = Archive(s)[p[Len(p)]]
      /\ \A p \in DOMAIN files \ N : files'[p] = files[p]
  BY DEF Unpacked, Over
<1>2. ASSUME NEW p \in N PROVE PackageFile(p, s)'
  <2>1. PICK f \in S : p = Append(DirOf(Hub[s].repo), f)
    BY <1>2
  <2>2. p[Len(p)] = f
    BY <2>1, LastName
  <2>3. files'[p] = Archive(s)[f]
    BY <1>1, <2>2
  <2>4. Hub[s].repo \in Names /\ Hub[s].repo \in Labels(s) /\ Fits(s, Hub[s].repo)
    BY HubHolds, FitsOwn
  <2>5. QED
    BY <2>1, <2>3, <2>4 DEF PackageFile
<1>3. FilesAreOwned'
  BY <1>1, <1>2, OwnedStill DEF FilesAreOwned
<1>4. QED
  BY <1>1, <1>3 DEF DirsKept, FilesKept

LEMMA FetchedDisk ==
  ASSUME FilesAreOwned, NEW s \in DOMAIN Hub,
         files' = With(files, FileOf(Hub[s].repo), Single(s))
  PROVE  /\ FilesAreOwned' /\ DirsKept({}) /\ FilesKept
         /\ FileOf(Hub[s].repo) \in DOMAIN files'
<1> DEFINE q == FileOf(Hub[s].repo)
<1>1. /\ DOMAIN files' = {q} \cup DOMAIN files
      /\ files'[q] = Single(s)
      /\ \A p \in DOMAIN files \ {q} : files'[p] = files[p]
  BY DEF With
<1>2. SingleFile(q, s)'
  BY <1>1 DEF SingleFile
<1>3. FilesAreOwned'
  BY <1>1, <1>2, OwnedStill DEF FilesAreOwned
<1>4. QED
  BY <1>1, <1>3 DEF DirsKept, FilesKept

LEMMA CreatedDisk ==
  ASSUME FilesAreOwned, InitProject
  PROVE  FilesAreOwned' /\ DirsKept({}) /\ FilesKept
<1> DEFINE N == {Append(Project, "vx.json"), Append(Project, "main.vx")}
           own == [of |-> "", main |-> "main.vx", name |-> "project", deps |-> <<>>]
           main == [of |-> "", body |-> <<PrintS(Str("Hello"), 1)>>]
           new == [p \in N |-> IF p = Append(Project, "vx.json") THEN own ELSE main]
<1>1. files' = Over(files, new)
  BY DEF InitProject
<1>2. DOMAIN files' = N \cup DOMAIN files /\ \A p \in DOMAIN files : files'[p] = files[p]
  <2>1. DOMAIN new = N
    OBVIOUS
  <2> HIDE DEF new, N
  <2>2. QED
    BY <1>1, <2>1 DEF Over
<1>3. ASSUME NEW p \in N PROVE ProjectFile(p)'
  BY <1>3 DEF ProjectFile
<1>4. FilesAreOwned'
  BY <1>2, <1>3, OwnedStill DEF FilesAreOwned
<1>5. QED
  BY <1>2, <1>4 DEF DirsKept, FilesKept

LEMMA DeletedDisk ==
  ASSUME FilesAreOwned, NEW n, files' = rmtree(files, DirOf(n))
  PROVE  /\ FilesAreOwned' /\ DirsKept({n}) /\ FilesKept
         /\ ~IsDir(files', DirOf(n))
         /\ \A p \in DOMAIN files' : files'[p] = files[p]
<1>1. /\ DOMAIN files' = {p \in DOMAIN files : ~Under(p, DirOf(n))}
      /\ \A p \in DOMAIN files' : files'[p] = files[p]
  BY DEF rmtree, Keep
<1>2. FilesAreOwned'
  BY <1>1, OwnedStill DEF FilesAreOwned
<1>3. DirsKept({n})
  BY <1>1, UnderDir DEF DirsKept
<1>4. FilesKept
  BY <1>1, FileNotUnder DEF FilesKept
<1>5. QED
  BY <1>1, <1>2, <1>3, <1>4 DEF IsDir

LEMMA FileDeletedDisk ==
  ASSUME FilesAreOwned, NEW n, files' = Keep(files, DOMAIN files \ {FileOf(n)})
  PROVE  FilesAreOwned' /\ DirsKept({})
<1>1. /\ DOMAIN files' = DOMAIN files \ {FileOf(n)}
      /\ \A p \in DOMAIN files' : files'[p] = files[p]
  BY DEF Keep
<1>2. FilesAreOwned'
  BY <1>1, OwnedStill DEF FilesAreOwned
<1>3. DirsKept({})
  BY <1>1, FilePaths DEF DirsKept
<1>4. QED
  BY <1>2, <1>3

LEMMA MovedPath ==
  ASSUME NEW m, NEW n, NEW f, NEW p, p = Append(DirOf(m), f)
  PROVE  DirOf(n) \o SubSeq(p, Len(DirOf(m)) + 1, Len(p)) = Append(DirOf(n), f)
<1>1. /\ Len(DirOf(m)) = 3 /\ Len(p) = 4 /\ p[4] = f
      /\ p \in Seq({"project", "vx_modules", m, f})
  BY PathParts DEF DirOf, Dest, In, Project
<1>2. SubSeq(p, 4, 4) = <<f>>
  <2> DEFINE S == {"project", "vx_modules", m, f}
             q == SubSeq(p, 4, 4)
  <2>1. q \in Seq(S) /\ <<f>> \in Seq(S) /\ Len(q) = 1 /\ q[1] = f
    BY <1>1
  <2>2. ASSUME NEW i \in 1..Len(q) PROVE q[i] = <<f>>[i]
    <3>1. i = 1
      BY <2>1
    <3>2. QED
      BY <2>1, <3>1
  <2>3. Len(q) = Len(<<f>>)
    BY <2>1
  <2> HIDE DEF q, S
  <2>4. q = <<f>>
    BY <2>1, <2>2, <2>3, SeqEqual
  <2>5. QED
    BY <2>4 DEF q
<1>3. DirOf(n) \in Seq({"project", "vx_modules", n})
  BY DEF DirOf, Dest, In, Project
<1>4. DirOf(n) \o <<f>> = Append(DirOf(n), f)
  BY <1>3
<1>5. QED
  BY <1>1, <1>2, <1>4

LEMMA MovedDisk ==
  ASSUME FilesAreOwned, NEW v \in DOMAIN Hub, NEW from, NEW to,
         from = Hub[v].repo, to = Called(v), from # to,
         json(from) \in DOMAIN files, files[json(from)].name = to,
         files' = Moved(files, DirOf(from), DirOf(to))
  PROVE  /\ FilesAreOwned' /\ DirsKept({from}) /\ FilesKept
         /\ HasMain(files, from) => HasMain(files', to)
<1> DEFINE New(p) == IF Under(p, DirOf(from))
                     THEN DirOf(to) \o SubSeq(p, Len(DirOf(from)) + 1, Len(p)) ELSE p
           Old(q) == CHOOSE p \in DOMAIN files : New(p) = q
<1>1. files' = [q \in {New(p) : p \in DOMAIN files} |-> files[Old(q)]]
  BY DEF Moved
<1>2. ASSUME NEW p \in DOMAIN files, Under(p, DirOf(from))
      PROVE  \E f : p = Append(DirOf(from), f)
  <2>1. ~ProjectFile(p)
    BY <1>2, ProjectPaths
  <2>2. ASSUME NEW t \in DOMAIN Hub PROVE ~SingleFile(p, t)
    BY <1>2, FileNotUnder DEF SingleFile
  <2>3. PICK m, f : p = Append(DirOf(m), f)
    BY <2>1, <2>2 DEF FilesAreOwned, PackageFile
  <2>4. m = from
    BY <1>2, <2>3, UnderDir
  <2>5. QED
    BY <2>3, <2>4
<1>3. ASSUME NEW f PROVE New(Append(DirOf(from), f)) = Append(DirOf(to), f)
  <2>1. Under(Append(DirOf(from), f), DirOf(from))
    BY UnderDir
  <2>2. QED
    BY <2>1, MovedPath
<1>4. ASSUME NEW p, ~Under(p, DirOf(from)) PROVE New(p) = p
  BY <1>4
<1> HIDE DEF New
<1>5. DOMAIN files' = {New(p) : p \in DOMAIN files}
  BY <1>1
\* A file of the directory fits the new name as it did the old one.
<1>6. ASSUME NEW f, NEW q, Append(DirOf(from), f) \in DOMAIN files,
             q = Append(DirOf(to), f), files'[q] = files[Append(DirOf(from), f)]
      PROVE  \E t \in DOMAIN Hub : PackageFile(q, t)'
  <2>1. PICK t \in DOMAIN Hub :
           /\ f \in DOMAIN Archive(t) /\ files[Append(DirOf(from), f)] = Archive(t)[f]
           /\ Fits(t, from)
    BY <1>6, Owner
  <2>2. to \in Names /\ Fits(t, to)
    BY <2>1, HubHolds, FitsMoved
  <2>3. f = "vx.json" => to \in Labels(t)
    <3>1. ASSUME f = "vx.json" PROVE to \in Labels(t)
      <4>1. files[json(from)] = Archive(t)["vx.json"] /\ "vx.json" \in DOMAIN Archive(t)
        BY <2>1, <3>1 DEF json
      <4>2. to = Called(t)
        BY <4>1, ArchiveFiles, HubHolds
      <4>3. QED
        BY <4>2, HubHolds
    <3>2. QED
      BY <3>1
  <2>4. files'[q] = Archive(t)[f]
    BY <1>6, <2>1
  <2>5. QED
    BY <1>6, <2>1, <2>2, <2>3, <2>4 DEF PackageFile
<1>7. ASSUME NEW q \in DOMAIN files'
      PROVE  (ProjectFile(q) \/ \E t \in DOMAIN Hub : SingleFile(q, t) \/ PackageFile(q, t))'
  <2>1. PICK p \in DOMAIN files : p = Old(q) /\ New(p) = q
    BY <1>5, <1>7
  <2>2. files'[q] = files[p]
    BY <1>1, <1>5, <1>7, <2>1
  <2>3. CASE Under(p, DirOf(from))
    <3>1. PICK f : p = Append(DirOf(from), f)
      BY <1>2, <2>3
    <3>2. q = Append(DirOf(to), f)
      BY <1>3, <2>1, <3>1
    <3>3. PICK t \in DOMAIN Hub : PackageFile(q, t)'
      BY <1>6, <2>2, <3>1, <3>2
    <3>4. QED
      BY <3>3
  <2>4. CASE ~Under(p, DirOf(from))
    <3>1. q = p
      BY <1>4, <2>1, <2>4
    <3>2. QED
      BY <2>2, <3>1, OwnedStill
  <2>5. QED
    BY <2>3, <2>4
<1>8. FilesAreOwned'
  BY <1>7 DEF FilesAreOwned
<1>9. ASSUME NEW n, NEW f, n # from, Append(DirOf(n), f) \in DOMAIN files
      PROVE  Append(DirOf(n), f) \in DOMAIN files'
  <2>1. ~Under(Append(DirOf(n), f), DirOf(from))
    BY <1>9, UnderDir
  <2>0. New(Append(DirOf(n), f)) = Append(DirOf(n), f)
    BY <1>4, <2>1
  <2>2. QED
    BY <1>5, <1>9, <2>0
<1>10. ASSUME NEW n, FileOf(n) \in DOMAIN files PROVE FileOf(n) \in DOMAIN files'
  <2>1. New(FileOf(n)) = FileOf(n)
    BY <1>4, FileNotUnder
  <2>2. QED
    BY <1>5, <1>10, <2>1
<1>11. ASSUME HasMain(files, from) PROVE HasMain(files', to)
  BY <1>3, <1>5, <1>11 DEF HasMain
<1>12. QED
  BY <1>8, <1>9, <1>10, <1>11 DEF DirsKept, FilesKept

(***************************************************************************)
(* What of the invariant a step keeps.                                     *)
(***************************************************************************)
NamesStay == \A n : Remains(files, stack, n) => Remains(files', stack', n)
GotGrows == \A s \in DOMAIN got : s \in DOMAIN got' /\ got'[s] = got[s]

\* Where nothing is about to be renamed, a name stays as its directory does.
LEMMA RemainsStill ==
  ASSUME stack = <<>> \/ stack[Len(stack)].at # "rename", DirsKept({})
  PROVE  NamesStay
BY DEF NamesStay, Remains, MovingTo, HasMain, DirsKept

LEMMA CallKept ==
  ASSUME NEW c \in Calls, CallIsRight(c, files, stack, got), c.at = "deps", NamesStay, GotGrows
  PROVE  CallIsRight(c, files', stack', got')
<1>1. /\ c.spec \in DOMAIN got /\ got[c.spec] = "zip" /\ Remains(files, stack, c.name)
      /\ Fits(c.spec, c.name) /\ (c.spec \in AtHome => c.name = Called(c.spec))
  BY DEF CallIsRight, Before
<1>2. c.spec \in DOMAIN got' /\ got'[c.spec] = "zip" /\ Remains(files', stack', c.name)
  BY <1>1 DEF NamesStay, GotGrows
<1>3. QED
  BY <1>1, <1>2 DEF CallIsRight

LEMMA HaveKept ==
  ASSUME NEW s, NEW old, NEW new, s \in DOMAIN got,
         Have(files, stack, got, old, s), NamesStay, FilesKept, GotGrows,
         InHand(stack, s) => InHand(stack', s),
         Entered(got, old, s) => Entered(got', new, s)
  PROVE  Have(files', stack', got', new, s)
<1>1. Remains(files, stack, Called(s)) => Remains(files', stack', Called(s))
  BY DEF NamesStay
<1>2. FileOf(Hub[s].repo) \in DOMAIN files => FileOf(Hub[s].repo) \in DOMAIN files'
  BY DEF FilesKept
<1>3. got'[s] = got[s]
  BY DEF GotGrows
<1>4. QED
  BY <1>1, <1>2, <1>3 DEF Have

LEMMA EnteredKept ==
  ASSUME NEW s, NEW entries, Entered(got, entries, s), GotGrows
  PROVE  Entered(got', entries, s)
BY DEF Entered, GotGrows

LEMMA HasDirKept ==
  ASSUME NEW n, HasDir(n), NamesStay, n \in torn => n \in torn', phase = "install"
  PROVE  HasDir(n)'
BY DEF HasDir, NamesStay

LEMMA Top ==
  ASSUME CallsAreRight, NEW place, Doing(place)
  PROVE  \E n \in Nat, c \in Calls :
           /\ n > 0 /\ n = Len(stack) /\ DOMAIN stack = 1..n /\ stack[n] = c
           /\ c = Frame /\ c.at = place /\ c.spec \in DOMAIN Hub
           /\ CallIsRight(c, files, stack, got)
           /\ \A i \in 1..(n - 1) : /\ stack[i] \in Calls /\ stack[i].at = "deps"
                                    /\ CallIsRight(stack[i], files, stack, got)
<1>1. stack \in Seq(Calls) /\ stack # <<>>
  BY DEF CallsAreRight, Doing
<1>2. Len(stack) \in Nat /\ Len(stack) > 0 /\ DOMAIN stack = 1..Len(stack)
  BY <1>1
<1>3. stack[Len(stack)] \in Calls
  BY <1>1, <1>2
<1>4. stack[Len(stack)].at = place /\ stack[Len(stack)].spec \in DOMAIN Hub
  BY <1>3 DEF Doing, Frame, Calls
<1>5. CallIsRight(stack[Len(stack)], files, stack, got)
  BY <1>2 DEF CallsAreRight
<1>6. ASSUME NEW i \in 1..(Len(stack) - 1)
      PROVE  /\ stack[i] \in Calls /\ stack[i].at = "deps"
             /\ CallIsRight(stack[i], files, stack, got)
  <2>1. i \in 1..Len(stack) /\ i < Len(stack)
    BY <1>2
  <2>2. QED
    BY <1>1, <2>1 DEF CallsAreRight
<1>7. QED
  BY <1>2, <1>3, <1>4, <1>5, <1>6 DEF Frame

LEMMA LowerKept ==
  ASSUME CallsAreRight, NEW place, Doing(place), NamesStay, GotGrows
  PROVE  \A i \in 1..(Len(stack) - 1) : CallIsRight(stack[i], files', stack', got')
BY Top, CallKept

LEMMA TopReplaced ==
  ASSUME CallsAreRight, NEW place, Doing(place), NamesStay, GotGrows,
         NEW c \in Calls, c.spec = Wanted, CallIsRight(c, files', stack', got'),
         stack' = [stack EXCEPT ![Len(stack)] = c]
  PROVE  /\ CallsAreRight'
         /\ c.at \notin Before \/ place \in Before => \A s : InHand(stack, s) => InHand(stack', s)
         /\ c.at \notin Before => InHand(stack', Wanted)
<1>1. PICK n \in Nat, old \in Calls :
         /\ n > 0 /\ n = Len(stack) /\ DOMAIN stack = 1..n /\ stack[n] = old
         /\ old = Frame /\ old.at = place
         /\ \A i \in 1..(n - 1) : /\ stack[i] \in Calls /\ stack[i].at = "deps"
  BY Top
<1>2. /\ stack' \in Seq(Calls) /\ Len(stack') = n /\ stack'[n] = c
      /\ \A i \in 1..(n - 1) : stack'[i] = stack[i]
  BY <1>1 DEF CallsAreRight
<1>3. ASSUME NEW i \in 1..Len(stack')
      PROVE  CallIsRight(stack'[i], files', stack', got') /\ (i < Len(stack') => stack'[i].at = "deps")
  <2>1. CASE i = n
    BY <1>2, <2>1
  <2>2. CASE i # n
    <3>1. i \in 1..(n - 1)
      BY <1>1, <1>2, <2>2
    <3>2. CallIsRight(stack[i], files', stack', got')
      BY <1>1, <3>1, LowerKept
    <3>3. QED
      BY <1>1, <1>2, <3>1, <3>2
  <2>3. QED
    BY <2>1, <2>2
<1>4. CallsAreRight'
  BY <1>2, <1>3 DEF CallsAreRight
<1>5. ASSUME c.at \notin Before \/ place \in Before, NEW s, InHand(stack, s)
      PROVE  InHand(stack', s)
  <2>1. PICK i \in 1..Len(stack) : stack[i].spec = s /\ stack[i].at \notin Before
    BY <1>5 DEF InHand
  <2>2. i \in 1..Len(stack')
    BY <1>1, <1>2, <2>1
  <2>3. CASE i = n
    <3>1. stack'[i].spec = s /\ stack'[i].at \notin Before
      BY <1>1, <1>2, <1>5, <2>1, <2>3 DEF Wanted
    <3>2. QED
      BY <2>2, <3>1 DEF InHand
  <2>4. CASE i # n
    <3>1. stack'[i] = stack[i]
      BY <1>1, <1>2, <2>1, <2>4
    <3>2. QED
      BY <2>1, <2>2, <3>1 DEF InHand
  <2>5. QED
    BY <2>3, <2>4
<1>6. ASSUME c.at \notin Before PROVE InHand(stack', Wanted)
  <2>1. n \in 1..Len(stack') /\ stack'[n].spec = Wanted /\ stack'[n].at \notin Before
    BY <1>1, <1>2, <1>6
  <2>2. QED
    BY <2>1 DEF InHand
<1>7. QED
  BY <1>4, <1>5, <1>6

LEMMA TopReturns ==
  ASSUME CallsAreRight, NEW place, Doing(place), Returns, NamesStay, GotGrows
  PROVE  /\ CallsAreRight'
         /\ \A s : (s # Wanted \/ place \in Before) /\ InHand(stack, s) => InHand(stack', s)
<1>1. PICK n \in Nat, old \in Calls :
         /\ n > 0 /\ n = Len(stack) /\ DOMAIN stack = 1..n /\ stack[n] = old
         /\ old = Frame /\ old.at = place
         /\ \A i \in 1..(n - 1) : /\ stack[i] \in Calls /\ stack[i].at = "deps"
  BY Top
<1>2. /\ stack' \in Seq(Calls) /\ Len(stack') = n - 1
      /\ \A i \in 1..(n - 1) : stack'[i] = stack[i]
  BY <1>1, SubSeqProperties DEF CallsAreRight, Returns
<1>3. CallsAreRight'
  <2>1. ASSUME NEW i \in 1..Len(stack')
        PROVE  CallIsRight(stack'[i], files', stack', got') /\ stack'[i].at = "deps"
    <3>1. i \in 1..(n - 1)
      BY <1>1, <1>2
    <3>2. CallIsRight(stack[i], files', stack', got')
      BY <1>1, <3>1, LowerKept
    <3>3. QED
      BY <1>1, <1>2, <3>1, <3>2
  <2>2. QED
    BY <1>2, <2>1 DEF CallsAreRight
<1>4. ASSUME NEW s, s # Wanted \/ place \in Before, InHand(stack, s)
      PROVE  InHand(stack', s)
  <2>1. PICK i \in 1..Len(stack) : stack[i].spec = s /\ stack[i].at \notin Before
    BY <1>4 DEF InHand
  <2>2. i # n
    BY <1>1, <1>4, <2>1 DEF Wanted
  <2>3. i \in 1..Len(stack') /\ stack'[i] = stack[i]
    BY <1>1, <1>2, <2>1, <2>2
  <2>4. QED
    BY <2>1, <2>3 DEF InHand
<1>5. QED
  BY <1>3, <1>4

LEMMA NoDomain ==
  DOMAIN <<>> = {} /\ Len(<<>>) = 0
OBVIOUS

LEMMA InstallGoesOn ==
  ASSUME PkgInv, phase = "install", phase' = "install", lock' = lock, last' = last,
         FilesAreOwned', CallsAreRight', GotIsThere',
         \A n \in DOMAIN data' : HasDir(n)', \A n \in DOMAIN lock : HasDir(n)'
  PROVE  PkgInv'
<1>1. Phases' /\ last' = <<>>
  BY DEF PkgInv, Phases
<1>2. LastIsThere'
  BY <1>1, NoDomain DEF LastIsThere
<1>3. EntriesAreRight'
  BY DEF PkgInv, EntriesAreRight
<1>4. QED
  BY <1>1, <1>2, <1>3 DEF PkgInv

(* A step that loses no call, no file and no name, and adds to got only    *)
(* what it has.                                                            *)
LEMMA CallGoesOn ==
  ASSUME PkgInv, phase = "install", phase' = phase, lock' = lock,
         last' = last, data' = data, torn' = torn,
         FilesAreOwned', FilesKept, NamesStay, GotGrows, CallsAreRight',
         \A s : InHand(stack, s) => InHand(stack', s),
         \A s \in DOMAIN got' \ DOMAIN got : Have(files', stack', got', data', s)
  PROVE  PkgInv'
<1>1. \A n : HasDir(n) => HasDir(n)'
  BY HasDirKept
<1>2. ASSUME NEW s \in AtHome, s \in DOMAIN got' PROVE Have(files', stack', got', data', s)
  <2>1. CASE s \in DOMAIN got
    <3>1. Have(files, stack, got, data, s)
      BY <2>1 DEF PkgInv, GotIsThere
    <3>2. Entered(got, data, s) => Entered(got', data', s)
      BY EnteredKept
    <3>3. QED
      BY <2>1, <3>1, <3>2, HaveKept
  <2>2. CASE s \notin DOMAIN got
    BY <1>2, <2>2
  <2>3. QED
    BY <2>1, <2>2
<1>3. GotIsThere'
  BY <1>2 DEF GotIsThere
<1>4. QED
  BY <1>1, <1>3, InstallGoesOn DEF PkgInv, EntriesAreRight

LEMMA NewCallIsRight ==
  ASSUME NEW s \in DOMAIN Hub, NEW disk, NEW calls, NEW gotten
  PROVE  /\ NewCall(s) \in Calls /\ NewCall(s).at \in Before /\ NewCall(s).spec = s
         /\ CallIsRight(NewCall(s), disk, calls, gotten)
<1>1. NewCall(s).at \in Before
  BY HubHolds DEF NewCall, Before
<1>2. /\ NewCall(s).spec = s /\ NewCall(s).name = Hub[s].repo /\ NewCall(s).deps = <<>>
  BY DEF NewCall
<1>3. NewCall(s) \in Calls
  <2>1. <<>> \in Seq(DOMAIN Hub) /\ Hub[s].repo \in Names
    BY HubHolds
  <2>2. QED
    BY <1>1, <2>1 DEF NewCall, Calls
<1>4. Fits(s, Hub[s].repo)
  BY HubHolds, FitsOwn
<1>5. CallIsRight(NewCall(s), disk, calls, gotten)
  BY <1>1, <1>2, <1>4 DEF CallIsRight, Before
<1>6. QED
  BY <1>1, <1>2, <1>3, <1>5

\* The call on top, and that nothing is about to be renamed.
LEMMA NotRenaming ==
  ASSUME CallsAreRight, NEW place, Doing(place), place # "rename", DirsKept({})
  PROVE  NamesStay
<1>1. stack[Len(stack)].at # "rename"
  BY DEF Doing, Frame
<1>2. QED
  BY <1>1, RemainsStill

LEMMA AgainKeeps ==
  ASSUME PkgInv, Again
  PROVE  PkgInv'
<1>1. PICK place \in Before : Doing(place) /\ place # "rename"
  BY DEF Again, Before
<1>2. /\ files' = files /\ phase' = phase /\ lock' = lock /\ last' = last /\ got' = got
      /\ data' = data /\ torn' = torn /\ Returns /\ phase = "install"
  BY DEF Again, Doing
<1>3. FilesAreOwned' /\ DirsKept({}) /\ FilesKept
  BY <1>2, Unchanged DEF PkgInv
<1>4. NamesStay /\ GotGrows
  BY <1>1, <1>2, <1>3, NotRenaming DEF PkgInv, GotGrows
<1>5. CallsAreRight' /\ \A s : InHand(stack, s) => InHand(stack', s)
  BY <1>1, <1>2, <1>4, TopReturns DEF PkgInv
<1>6. QED
  BY <1>2, <1>3, <1>4, <1>5, CallGoesOn

LEMMA DownloadBreaksKeeps ==
  ASSUME PkgInv, DownloadBreaks
  PROVE  PkgInv'
<1>1. /\ Doing("download") /\ phase' = phase /\ lock' = lock /\ last' = last /\ got' = got
      /\ data' = data /\ torn' = torn /\ GoOn("single") /\ phase = "install"
  BY DEF DownloadBreaks, Doing
<1>2. PICK n \in Nat, top \in Calls :
         n = Len(stack) /\ stack[n] = top /\ top = Frame /\ top.at = "download"
         /\ CallIsRight(top, files, stack, got) /\ DOMAIN stack = 1..n /\ n > 0
  BY <1>1, Top DEF PkgInv
<1>3. PICK S \in SUBSET DOMAIN Archive(Wanted) : files' = Unpacked(Wanted, S)
  BY DEF DownloadBreaks
<1>4. Wanted \in DOMAIN Hub
  BY <1>2 DEF Wanted, Calls
<1>5. FilesAreOwned' /\ DirsKept({}) /\ FilesKept
  BY <1>3, <1>4, UnpackedDisk DEF PkgInv
<1>6. PICK c \in Calls : c = [top EXCEPT !.at = "single"]
  BY DEF Calls, Before
<1>7. /\ c.spec = Wanted /\ c.at = "single" /\ c.name = top.name
      /\ stack' = [stack EXCEPT ![Len(stack)] = c]
  BY <1>1, <1>2, <1>6 DEF GoOn, Calls, Wanted
<1>8. CallIsRight(c, files', stack', got')
  <2>1. Fits(c.spec, c.name) /\ c.name = Hub[c.spec].repo
    BY <1>2, <1>7 DEF CallIsRight, Wanted
  <2>2. QED
    BY <1>7, <2>1 DEF CallIsRight, Before
<1>9. NamesStay /\ GotGrows
  BY <1>1, <1>5, NotRenaming DEF PkgInv, GotGrows
<1>10. CallsAreRight' /\ \A s : InHand(stack, s) => InHand(stack', s)
  BY <1>1, <1>7, <1>8, <1>9, TopReplaced DEF PkgInv, Before
<1>11. QED
  BY <1>1, <1>5, <1>9, <1>10, CallGoesOn

LEMMA DownloadZipKeeps ==
  ASSUME PkgInv, DownloadZip
  PROVE  PkgInv'
<1>1. /\ Doing("download") /\ phase' = phase /\ lock' = lock /\ last' = last
      /\ got' = With(got, Wanted, "zip") /\ Wanted \notin DOMAIN got
      /\ data' = data /\ torn' = torn /\ GoOn("json") /\ phase = "install"
  BY DEF DownloadZip, Obtained, Known, Doing
<1>2. PICK n \in Nat, top \in Calls :
         n = Len(stack) /\ stack[n] = top /\ top = Frame /\ top.at = "download"
         /\ CallIsRight(top, files, stack, got) /\ DOMAIN stack = 1..n /\ n > 0
  BY <1>1, Top DEF PkgInv
<1>3. PICK s \in DOMAIN Hub : /\ s = Wanted /\ s = top.spec /\ top.name = Hub[s].repo
                              /\ Fits(s, Hub[s].repo)
  BY <1>2 DEF Wanted, Calls, CallIsRight
<1>4. files' = Unpacked(s, DOMAIN Archive(s))
  BY <1>3 DEF DownloadZip
<1>5. /\ FilesAreOwned' /\ DirsKept({}) /\ FilesKept
      /\ \A f \in DOMAIN Archive(s) : Append(DirOf(Hub[s].repo), f) \in DOMAIN files'
  BY <1>4, UnpackedDisk DEF PkgInv
<1>6. Whole(files', s, Hub[s].repo)
  BY <1>5 DEF Whole
<1>7. Remains(files', stack', Hub[s].repo)
  BY <1>6, WholeHasMain DEF Remains
<1>8. GotGrows /\ s \in DOMAIN got' /\ got'[s] = "zip" /\ DOMAIN got' = DOMAIN got \cup {s}
  BY <1>1, <1>3 DEF With, GotGrows
<1>9. PICK c \in Calls : c = [top EXCEPT !.at = "json"]
  BY DEF Calls, Before
<1>10. /\ c.spec = s /\ c.at = "json" /\ c.name = Hub[s].repo
       /\ stack' = [stack EXCEPT ![Len(stack)] = c]
  BY <1>1, <1>2, <1>3, <1>9 DEF GoOn, Calls
<1>11. CallIsRight(c, files', stack', got')
  BY <1>3, <1>6, <1>7, <1>8, <1>10 DEF CallIsRight, Before
<1>12. NamesStay
  BY <1>1, <1>5, NotRenaming DEF PkgInv
<1>13. CallsAreRight' /\ InHand(stack', s) /\ \A t : InHand(stack, t) => InHand(stack', t)
  BY <1>1, <1>3, <1>8, <1>10, <1>11, <1>12, TopReplaced DEF PkgInv, Before
<1>14. Have(files', stack', got', data', s)
  BY <1>8, <1>13 DEF Have
<1>15. QED
  BY <1>1, <1>5, <1>8, <1>12, <1>13, <1>14, CallGoesOn

LEMMA FetchSingleKeeps ==
  ASSUME PkgInv, FetchSingle
  PROVE  PkgInv'
<1>1. /\ Doing("single") /\ phase' = phase /\ lock' = lock /\ last' = last
      /\ got' = With(got, Wanted, "single") /\ Wanted \notin DOMAIN got
      /\ data' = data /\ torn' = torn /\ Returns /\ phase = "install"
  BY DEF FetchSingle, Obtained, Known, Doing
<1>2. PICK s \in DOMAIN Hub : s = Wanted
  <2>1. Wanted \in DOMAIN Hub
    BY <1>1, Top DEF PkgInv, Wanted
  <2>2. QED
    BY <2>1
<1>3. files' = With(files, FileOf(Hub[s].repo), Single(s))
  BY <1>2 DEF FetchSingle
<1>4. /\ FilesAreOwned' /\ DirsKept({}) /\ FilesKept
      /\ FileOf(Hub[s].repo) \in DOMAIN files'
  BY <1>3, FetchedDisk DEF PkgInv
<1>5. GotGrows /\ s \in DOMAIN got' /\ got'[s] = "single" /\ DOMAIN got' = DOMAIN got \cup {s}
  BY <1>1, <1>2 DEF With, GotGrows
<1>6. NamesStay
  BY <1>1, <1>4, NotRenaming DEF PkgInv
<1>7. CallsAreRight' /\ \A t : InHand(stack, t) => InHand(stack', t)
  BY <1>1, <1>5, <1>6, TopReturns DEF PkgInv, Before
<1>8. Have(files', stack', got', data', s)
  BY <1>4, <1>5 DEF Have
<1>9. QED
  BY <1>1, <1>4, <1>5, <1>6, <1>7, <1>8, CallGoesOn

LEMMA ReadJsonKeeps ==
  ASSUME PkgInv, ReadJson
  PROVE  PkgInv'
<1>1. /\ Doing("json") /\ phase' = phase /\ lock' = lock /\ last' = last /\ got' = got
      /\ data' = data /\ torn' = torn /\ files' = files /\ phase = "install"
  BY DEF ReadJson, Doing
<1>2. PICK n \in Nat, top \in Calls :
         n = Len(stack) /\ stack[n] = top /\ top = Frame /\ top.at = "json"
         /\ CallIsRight(top, files, stack, got) /\ DOMAIN stack = 1..n /\ n > 0
         /\ top.spec \in DOMAIN Hub
  BY <1>1, Top DEF PkgInv
<1>3. PICK s \in DOMAIN Hub, name \in Names :
         /\ s = Wanted /\ s = top.spec /\ name = top.name /\ name = Hub[s].repo
  BY <1>2, HubHolds DEF Wanted, CallIsRight
<1>4. /\ Whole(files, s, name) /\ Fits(s, name)
      /\ s \in DOMAIN got /\ got[s] = "zip" /\ Remains(files, stack, name)
  BY <1>2, <1>3 DEF CallIsRight, Before
<1>5. FilesAreOwned' /\ DirsKept({}) /\ FilesKept
  BY <1>1, Unchanged DEF PkgInv
<1>6. NamesStay /\ GotGrows
  BY <1>1, <1>5, NotRenaming DEF PkgInv, GotGrows
<1>7. Remains(files', stack', name)
  BY <1>4, <1>6 DEF NamesStay
<1>8. \E c \in Calls : /\ c.spec = s /\ c.at \notin Before
                       /\ CallIsRight(c, files', stack', got')
                       /\ stack' = [stack EXCEPT ![Len(stack)] = c]
  <2>1. CASE json(name) \notin DOMAIN files
    <3>1. PICK c \in Calls : c = [top EXCEPT !.at = "lock"]
      BY DEF Calls, Before
    <3>2. c.spec = s /\ c.at = "lock" /\ c.name = name
      BY <1>3, <3>1 DEF Calls
    <3>3. stack' = [stack EXCEPT ![Len(stack)] = c]
      BY <1>2, <1>3, <2>1, <3>1 DEF ReadJson
    <3>4. name = Called(s)
      <4>1. ~Hub[s].json
        BY <1>4, <2>1, ArchiveFiles DEF Whole, json
      <4>2. QED
        BY <1>3, <4>1, HubHolds
    <3>5. CallIsRight(c, files', stack', got')
      BY <1>1, <1>4, <1>7, <3>2, <3>4 DEF CallIsRight, Before
    <3>6. QED
      BY <3>2, <3>3, <3>5 DEF Before
  <2>2. CASE json(name) \in DOMAIN files
    <3> DEFINE f == json(name)
    <3>1. PICK v \in DOMAIN Hub : /\ name \in Labels(v) /\ Called(v) = files[f].name
                                  /\ files[f].deps \in Seq(DOMAIN Hub)
      BY <2>2, JsonSays DEF PkgInv
    <3>2. PICK deps \in Seq(DOMAIN Hub) : deps = files[f].deps
      BY <3>1
    <3>3. PICK to : to = files[f].name /\ to = Called(v)
      BY <3>1
    <3>4. stack' = [stack EXCEPT ![Len(stack)] =
                      [top EXCEPT !.deps = deps,
                         !.at = CASE to = name -> "deps"
                                  [] to # name /\ IsDir(files, DirOf(to)) -> "rmtree"
                                  [] OTHER -> "rename"]]
      BY <1>2, <1>3, <2>2, <3>2, <3>3 DEF ReadJson
    <3>5. PICK place \in {"deps", "rmtree", "rename"} :
             /\ stack' = [stack EXCEPT ![Len(stack)] = [top EXCEPT !.deps = deps, !.at = place]]
             /\ place = "deps" <=> to = name
             /\ place = "rename" => ~IsDir(files, DirOf(to))
      <4>1. CASE to = name
        BY <3>4, <4>1
      <4>2. CASE to # name /\ IsDir(files, DirOf(to))
        BY <3>4, <4>2
      <4>3. CASE to # name /\ ~IsDir(files, DirOf(to))
        BY <3>4, <4>3
      <4>4. QED
        BY <4>1, <4>2, <4>3
    <3>6. PICK c \in Calls : c = [top EXCEPT !.deps = deps, !.at = place]
      BY DEF Calls, Before
    <3>7. c.spec = s /\ c.at = place /\ c.name = name
      BY <1>3, <3>6 DEF Calls
    <3>8. ASSUME place = "deps", s \in AtHome PROVE name = Called(s)
      <4>1. name \in Labels(s)
        BY <1>3 DEF Labels
      <4>2. v \in Kin(s)
        BY <3>1, <3>8, <4>1, HomeNames
      <4>3. QED
        BY <3>3, <3>5, <3>8, <4>2, KinAlike
    <3>9. CallIsRight(c, files', stack', got')
      <4>1. files'[json(name)].name = to /\ json(name) \in DOMAIN files' /\ Whole(files', s, name)
        BY <1>1, <1>4, <2>2, <3>3
      <4>2. place = "rename" => ~IsDir(files', DirOf(to))
        BY <1>1, <3>5
      <4>3. s \in DOMAIN got' /\ got'[s] = "zip"
        BY <1>1, <1>4
      <4> HIDE DEF f
      <4>4. QED
        BY <1>3, <1>4, <1>7, <3>5, <3>7, <3>8, <4>1, <4>2, <4>3 DEF CallIsRight, Before
    <3>10. QED
      BY <3>5, <3>6, <3>7, <3>9 DEF Before
  <2>3. QED
    BY <2>1, <2>2
<1>9. CallsAreRight' /\ \A t : InHand(stack, t) => InHand(stack', t)
  <2>1. PICK c \in Calls : /\ c.spec = Wanted /\ c.at \notin Before
                           /\ CallIsRight(c, files', stack', got')
                           /\ stack' = [stack EXCEPT ![Len(stack)] = c]
    BY <1>3, <1>8
  <2>2. QED
    BY <1>1, <1>6, <2>1, TopReplaced DEF PkgInv
<1>10. QED
  BY <1>1, <1>5, <1>6, <1>9, CallGoesOn

LEMMA RmTreeKeeps ==
  ASSUME PkgInv, RmTree
  PROVE  PkgInv'
<1>1. /\ Doing("rmtree") /\ phase' = phase /\ lock' = lock /\ last' = last /\ got' = got
      /\ data' = data /\ torn' = torn /\ GoOn("rename") /\ phase = "install"
  BY DEF RmTree, Doing
<1>2. PICK n \in Nat, top \in Calls :
         n = Len(stack) /\ stack[n] = top /\ top = Frame /\ top.at = "rmtree"
         /\ CallIsRight(top, files, stack, got) /\ DOMAIN stack = 1..n /\ n > 0
         /\ top.spec \in DOMAIN Hub
  BY <1>1, Top DEF PkgInv
<1>3. PICK s \in DOMAIN Hub, name \in Names :
         /\ s = Wanted /\ s = top.spec /\ name = top.name /\ name = Hub[s].repo
  BY <1>2, HubHolds DEF Wanted, CallIsRight
<1>4. PICK to : to = files[json(name)].name
  OBVIOUS
<1>5. /\ Whole(files, s, name) /\ Fits(s, name) /\ s \in DOMAIN got /\ got[s] = "zip"
      /\ json(name) \in DOMAIN files /\ to # name /\ Remains(files, stack, name)
  BY <1>2, <1>3, <1>4 DEF CallIsRight, Before
<1>6. files' = rmtree(files, DirOf(to))
  BY <1>2, <1>3, <1>4 DEF RmTree
<1>7. /\ FilesAreOwned' /\ DirsKept({to}) /\ FilesKept /\ ~IsDir(files', DirOf(to))
      /\ \A p \in DOMAIN files' : files'[p] = files[p]
  BY <1>6, DeletedDisk DEF PkgInv
<1>8. json(name) \in DOMAIN files' /\ files'[json(name)].name = to
  BY <1>4, <1>5, <1>7 DEF DirsKept, json
<1>9. PICK c \in Calls : c = [top EXCEPT !.at = "rename"]
  BY DEF Calls, Before
<1>10. /\ c.spec = s /\ c.at = "rename" /\ c.name = name
       /\ stack' = [stack EXCEPT ![Len(stack)] = c]
  BY <1>1, <1>2, <1>3, <1>9 DEF GoOn, Calls
<1>11. stack' # <<>> /\ stack'[Len(stack')] = c
  BY <1>2, <1>10 DEF PkgInv, CallsAreRight
<1>12. NamesStay
  <2>1. ASSUME NEW m, Remains(files, stack, m) PROVE Remains(files', stack', m)
    <3>1. CASE m = to
      BY <1>8, <1>10, <1>11, <3>1 DEF Remains, MovingTo
    <3>2. CASE m # to
      <4>1. ~MovingTo(files, stack, m)
        BY <1>1 DEF MovingTo, Doing, Frame
      <4>2. HasMain(files, m) => HasMain(files', m)
        BY <1>7, <3>2 DEF HasMain, DirsKept
      <4>3. QED
        BY <2>1, <4>1, <4>2 DEF Remains
    <3>3. QED
      BY <3>1, <3>2
  <2>2. QED
    BY <2>1 DEF NamesStay
<1>13. GotGrows
  BY <1>1 DEF GotGrows
<1>14. CallIsRight(c, files', stack', got')
  <2>1. Whole(files', s, name)
    BY <1>5, <1>7, WholeKept
  <2>2. Remains(files', stack', name) /\ s \in DOMAIN got' /\ got'[s] = "zip"
    BY <1>1, <1>5, <1>12 DEF NamesStay
  <2>3. ~IsDir(files', DirOf(files'[json(name)].name))
    BY <1>7, <1>8
  <2>4. QED
    BY <1>3, <1>5, <1>8, <1>10, <2>1, <2>2, <2>3 DEF CallIsRight, Before
<1>15. CallsAreRight' /\ \A t : InHand(stack, t) => InHand(stack', t)
  <2>1. c.spec = Wanted /\ c.at \notin Before
    BY <1>3, <1>10 DEF Before
  <2>2. QED
    BY <1>1, <1>10, <1>12, <1>13, <1>14, <2>1, TopReplaced DEF PkgInv
<1>16. QED
  BY <1>1, <1>7, <1>12, <1>13, <1>15, CallGoesOn

LEMMA RenameKeeps ==
  ASSUME PkgInv, Rename
  PROVE  PkgInv'
<1>1. /\ Doing("rename") /\ phase' = phase /\ lock' = lock /\ last' = last /\ got' = got
      /\ data' = data /\ phase = "install"
  BY DEF Rename, Doing
<1>2. PICK n \in Nat, top \in Calls :
         n = Len(stack) /\ stack[n] = top /\ top = Frame /\ top.at = "rename"
         /\ CallIsRight(top, files, stack, got) /\ DOMAIN stack = 1..n /\ n > 0
         /\ top.spec \in DOMAIN Hub
  BY <1>1, Top DEF PkgInv
<1>3. PICK s \in DOMAIN Hub, from \in Names :
         /\ s = Wanted /\ s = top.spec /\ from = top.name /\ from = Hub[s].repo
  BY <1>2, HubHolds DEF Wanted, CallIsRight
<1>4. /\ Whole(files, s, from) /\ Fits(s, from) /\ s \in DOMAIN got /\ got[s] = "zip"
      /\ json(from) \in DOMAIN files /\ files[json(from)].name # from
  BY <1>2, <1>3 DEF CallIsRight, Before
<1>5. PICK v \in DOMAIN Hub, to \in Names :
         to = files[json(from)].name /\ to = Called(v) /\ from \in Labels(v)
  BY <1>4, JsonSays DEF PkgInv
<1>6. from # to /\ from = Hub[v].repo
  BY <1>4, <1>5 DEF Labels
<1>7. /\ files' = Moved(files, DirOf(from), DirOf(to)) /\ torn' = torn \ {to}
      /\ stack' = [stack EXCEPT ![Len(stack)] = [@ EXCEPT !.name = to, !.at = "deps"]]
  BY <1>2, <1>3, <1>5 DEF Rename
<1>8. FilesAreOwned' /\ DirsKept({from}) /\ FilesKept /\ HasMain(files', to)
  <2>1. HasMain(files, from)
    BY <1>4, WholeHasMain
  <2>2. FilesAreOwned
    BY DEF PkgInv
  <2>3. json(from) \in DOMAIN files /\ files[json(from)].name = to
    BY <1>4, <1>5
  <2>4. QED
    BY <1>5, <1>6, <1>7, <2>1, <2>2, <2>3, MovedDisk
<1>9. PICK c \in Calls : c = [top EXCEPT !.name = to, !.at = "deps"]
  BY DEF Calls, Before
<1>10. /\ c.spec = s /\ c.at = "deps" /\ c.name = to
       /\ stack' = [stack EXCEPT ![Len(stack)] = c]
  BY <1>2, <1>3, <1>7, <1>9 DEF Calls
<1>11. from \in Movers
  BY <1>5, <1>6 DEF Movers
<1>12. NamesStay
  <2>1. ASSUME NEW m, Remains(files, stack, m) PROVE Remains(files', stack', m)
    <3>1. CASE m = from
      BY <1>11, <3>1 DEF Remains
    <3>2. CASE m = to
      BY <1>8, <3>2 DEF Remains
    <3>3. CASE m # from /\ m # to
      <4>1. ~MovingTo(files, stack, m)
        BY <1>2, <1>3, <1>5, <3>3 DEF MovingTo
      <4>2. HasMain(files, m) => HasMain(files', m)
        BY <1>8, <3>3 DEF HasMain, DirsKept
      <4>3. QED
        BY <2>1, <4>1, <4>2 DEF Remains
    <3>4. QED
      BY <3>1, <3>2, <3>3
  <2>2. QED
    BY <2>1 DEF NamesStay
<1>13. GotGrows
  BY <1>1 DEF GotGrows
<1>14. Remains(files', stack', to) /\ Fits(s, to)
  BY <1>4, <1>5, <1>6, <1>8, FitsMoved DEF Remains
<1>15. ASSUME s \in AtHome PROVE to = Called(s)
  <2>1. from \in Labels(s)
    BY <1>3 DEF Labels
  <2>2. v \in Kin(s)
    BY <1>5, <1>15, <2>1, HomeNames
  <2>3. QED
    BY <1>5, <2>2, KinAlike
<1>16. CallIsRight(c, files', stack', got')
  BY <1>1, <1>4, <1>10, <1>14, <1>15 DEF CallIsRight, Before
<1>17. CallsAreRight' /\ \A t : InHand(stack, t) => InHand(stack', t)
  <2>1. c.spec = Wanted /\ c.at \notin Before
    BY <1>3, <1>10 DEF Before
  <2>2. QED
    BY <1>1, <1>10, <1>12, <1>13, <1>16, <2>1, TopReplaced DEF PkgInv
<1>18. ASSUME NEW m, HasDir(m) PROVE HasDir(m)'
  <2>1. CASE m = to
    BY <1>14, <2>1 DEF HasDir
  <2>2. CASE m # to
    <3>1. m \in torn => m \in torn'
      BY <1>7, <2>2
    <3>2. QED
      BY <1>1, <1>12, <1>18, <3>1, HasDirKept
  <2>3. QED
    BY <2>1, <2>2
<1>19. ASSUME NEW t \in AtHome, t \in DOMAIN got' PROVE Have(files', stack', got', data', t)
  <2>1. t \in DOMAIN got /\ Have(files, stack, got, data, t)
    BY <1>1, <1>19 DEF PkgInv, GotIsThere
  <2>2. Entered(got, data, t) => Entered(got', data', t)
    BY <1>1
  <2>3. QED
    BY <1>8, <1>12, <1>13, <1>17, <2>1, <2>2, HaveKept
<1>20. GotIsThere'
  BY <1>19 DEF GotIsThere
<1>21. QED
  BY <1>1, <1>8, <1>17, <1>18, <1>20, InstallGoesOn DEF PkgInv, EntriesAreRight

LEMMA DependencyKeeps ==
  ASSUME PkgInv, Dependency
  PROVE  PkgInv'
<1>1. /\ Doing("deps") /\ phase' = phase /\ lock' = lock /\ last' = last /\ got' = got
      /\ data' = data /\ torn' = torn /\ files' = files /\ phase = "install"
  BY DEF Dependency, Doing
<1>2. PICK n \in Nat, top \in Calls :
         /\ n = Len(stack) /\ stack[n] = top /\ top = Frame /\ top.at = "deps"
         /\ CallIsRight(top, files, stack, got) /\ DOMAIN stack = 1..n /\ n > 0
         /\ top.spec \in DOMAIN Hub
         /\ \A i \in 1..(n - 1) : /\ stack[i] \in Calls /\ stack[i].at = "deps"
  BY <1>1, Top DEF PkgInv
<1>3. PICK s \in DOMAIN Hub : s = Wanted /\ s = top.spec
  BY <1>2 DEF Wanted
<1>4. FilesAreOwned' /\ DirsKept({}) /\ FilesKept
  BY <1>1, Unchanged DEF PkgInv
<1>5. NamesStay /\ GotGrows
  BY <1>1, <1>4, NotRenaming DEF PkgInv, GotGrows
<1>6. /\ Fits(s, top.name) /\ Remains(files', stack', top.name)
      /\ s \in DOMAIN got' /\ got'[s] = "zip" /\ (s \in AtHome => top.name = Called(s))
  BY <1>1, <1>2, <1>3, <1>5 DEF CallIsRight, Before, NamesStay
<1>7. CASE top.deps = <<>>
  <2>1. PICK c \in Calls : c = [top EXCEPT !.at = "lock"]
    BY DEF Calls, Before
  <2>2. /\ c.spec = Wanted /\ c.at = "lock" /\ c.name = top.name
        /\ c.at \notin Before /\ "deps" \notin Before
    BY <1>3, <2>1 DEF Calls, Before
  <2>3. stack' = [stack EXCEPT ![Len(stack)] = c]
    BY <1>2, <1>7, <2>1 DEF Dependency
  <2>4. CallIsRight(c, files', stack', got')
    BY <1>6, <1>3, <2>2 DEF CallIsRight, Before
  <2>5. CallsAreRight' /\ \A t : InHand(stack, t) => InHand(stack', t)
    BY <1>1, <1>5, <2>2, <2>3, <2>4, TopReplaced DEF PkgInv
  <2>6. QED
    BY <1>1, <1>4, <1>5, <2>5, CallGoesOn
<1>8. CASE top.deps # <<>>
  <2>1. top.deps \in Seq(DOMAIN Hub)
    BY DEF Calls
  <2>2. PICK t \in DOMAIN Hub : t = Head(top.deps)
    BY <1>8, <2>1
  <2>3. PICK c \in Calls : c = [top EXCEPT !.deps = Tail(@)]
    <3>1. Tail(top.deps) \in Seq(DOMAIN Hub)
      BY <1>8, <2>1, HeadTailProperties
    <3>2. QED
      BY <3>1 DEF Calls
  <2>4. c.spec = s /\ c.at = "deps" /\ c.name = top.name
    BY <1>2, <1>3, <2>3 DEF Calls
  <2>5. PICK new \in Calls : new = NewCall(t) /\ new.at \in Before /\ CallIsRight(new, files', stack', got')
    BY NewCallIsRight
  <2>6. stack' = Append([stack EXCEPT ![n] = c], new)
    <3>1. stack' = Append([stack EXCEPT ![Len(stack)].deps = Tail(@)], NewCall(Head(top.deps)))
      BY <1>2, <1>8 DEF Dependency
    <3>2. [stack EXCEPT ![Len(stack)].deps = Tail(@)] = [stack EXCEPT ![n] = c]
      BY <1>2, <2>3
    <3>3. QED
      BY <2>2, <2>5, <3>1, <3>2
  <2>7. /\ stack' \in Seq(Calls) /\ Len(stack') = n + 1
        /\ stack'[n + 1] = new /\ stack'[n] = c
        /\ \A i \in 1..(n - 1) : stack'[i] = stack[i]
    <3> DEFINE mid == [stack EXCEPT ![n] = c]
    <3>1. stack \in Seq(Calls) /\ n \in 1..Len(stack)
      BY <1>2 DEF PkgInv, CallsAreRight
    <3>2. /\ mid \in Seq(Calls) /\ Len(mid) = n /\ mid[n] = c
          /\ \A i \in 1..(n - 1) : mid[i] = stack[i]
      BY <1>2, <3>1
    <3> HIDE DEF mid
    <3>3. stack' = Append(mid, new)
      BY <2>6 DEF mid
    <3>4. QED
      BY <1>2, <3>2, <3>3
  <2>8. CallIsRight(c, files', stack', got')
    BY <1>6, <2>4 DEF CallIsRight, Before
  <2>9. ASSUME NEW i \in 1..Len(stack')
        PROVE  CallIsRight(stack'[i], files', stack', got') /\ (i < Len(stack') => stack'[i].at = "deps")
    <3>1. CASE i = n + 1
      BY <2>5, <2>7, <3>1
    <3>2. CASE i = n
      BY <2>4, <2>7, <2>8, <3>2
    <3>3. CASE i \in 1..(n - 1)
      <4>1. CallIsRight(stack[i], files', stack', got')
        BY <1>1, <1>2, <1>5, <3>3, LowerKept DEF PkgInv
      <4>2. QED
        BY <1>2, <2>7, <3>3, <4>1
    <3>4. QED
      BY <1>2, <2>7, <3>1, <3>2, <3>3
  <2>10. ASSUME NEW i \in 1..Len(stack')
         PROVE  i # n + 1 => i \in 1..Len(stack) /\ stack'[i].spec = stack[i].spec
                                                 /\ stack'[i].at = stack[i].at
    BY <1>2, <1>3, <2>4, <2>7
  <2>11. CallsAreRight'
    BY <2>7, <2>9 DEF CallsAreRight
  <2>12. ASSUME NEW r, InHand(stack, r) PROVE InHand(stack', r)
    <3>1. PICK i \in 1..Len(stack) : stack[i].spec = r /\ stack[i].at \notin Before
      BY <2>12 DEF InHand
    <3>2. i \in 1..Len(stack') /\ stack'[i].spec = stack[i].spec /\ stack'[i].at = stack[i].at
      BY <1>2, <2>7, <2>10
    <3>3. QED
      BY <3>1, <3>2 DEF InHand
  <2>13. QED
    BY <1>1, <1>4, <1>5, <2>11, <2>12, CallGoesOn
<1>9. QED
  BY <1>7, <1>8

LEMMA LockEntryKeeps ==
  ASSUME PkgInv, LockEntry
  PROVE  PkgInv'
<1>1. /\ Doing("lock") /\ phase' = phase /\ lock' = lock /\ last' = last /\ got' = got
      /\ torn' = torn /\ files' = files /\ Returns /\ phase = "install"
  BY DEF LockEntry, Doing
<1>2. PICK n \in Nat, top \in Calls :
         /\ n = Len(stack) /\ stack[n] = top /\ top = Frame /\ top.at = "lock"
         /\ CallIsRight(top, files, stack, got) /\ top.spec \in DOMAIN Hub
  BY <1>1, Top DEF PkgInv
<1>3. PICK s \in DOMAIN Hub, name \in Names : s = Wanted /\ s = top.spec /\ name = top.name
  BY <1>2 DEF Wanted, Calls
<1>4. /\ s \in DOMAIN got /\ got[s] = "zip" /\ Remains(files, stack, name) /\ Fits(s, name)
      /\ s \in AtHome => name = Called(s)
  BY <1>2, <1>3 DEF CallIsRight, Before
<1>5. data' = With(data, name, s)
  BY <1>2, <1>3 DEF LockEntry
<1>6. /\ DOMAIN data' = DOMAIN data \cup {name} /\ data'[name] = s
      /\ \A m \in DOMAIN data \ {name} : data'[m] = data[m]
  BY <1>5 DEF With
<1>7. FilesAreOwned' /\ DirsKept({}) /\ FilesKept
  BY <1>1, Unchanged DEF PkgInv
<1>8. NamesStay /\ GotGrows
  BY <1>1, <1>7, NotRenaming DEF PkgInv, GotGrows
<1>9. CallsAreRight' /\ \A t : t # s /\ InHand(stack, t) => InHand(stack', t)
  BY <1>1, <1>3, <1>8, TopReturns DEF PkgInv
<1>10. ASSUME NEW t \in AtHome, t \in DOMAIN got' PROVE Have(files', stack', got', data', t)
  <2>1. t \in DOMAIN got /\ Have(files, stack, got, data, t) /\ t \in DOMAIN Hub
    BY <1>1, <1>10 DEF PkgInv, GotIsThere, AtHome
  <2>2. CASE t = s
    <3>1. Called(t) = name /\ t \in Kin(t)
      BY <1>4, <2>1, <2>2, <1>10 DEF Kin
    <3>2. Entered(got', data', t)
      BY <1>1, <1>4, <1>6, <2>2, <3>1 DEF Entered
    <3>3. Remains(files', stack', Called(t))
      BY <1>4, <1>8, <3>1 DEF NamesStay
    <3>4. QED
      BY <1>1, <1>4, <2>2, <3>2, <3>3 DEF Have
  <2>3. CASE t # s
    <3>1. ASSUME Entered(got, data, t) PROVE Entered(got', data', t)
      <4>1. CASE Called(t) # name
        BY <1>1, <1>6, <3>1, <4>1 DEF Entered
      <4>2. CASE Called(t) = name
        <5>1. s \in Kin(t)
          BY <1>4, <2>1, <4>2, HubHolds, FitsHome
        <5>2. QED
          BY <1>1, <1>4, <1>6, <4>2, <5>1 DEF Entered
      <4>3. QED
        BY <4>1, <4>2
    <3>2. QED
      BY <1>7, <1>8, <1>9, <2>1, <2>3, <3>1, HaveKept
  <2>4. QED
    BY <2>2, <2>3
<1>11. ASSUME NEW m, HasDir(m) PROVE HasDir(m)'
  BY <1>1, <1>8, <1>11, HasDirKept
<1>12. HasDir(name)'
  BY <1>4, <1>8 DEF HasDir, NamesStay
<1>13. GotIsThere'
  BY <1>10 DEF GotIsThere
<1>14. (\A m \in DOMAIN data' : HasDir(m)') /\ (\A m \in DOMAIN lock : HasDir(m)')
  BY <1>6, <1>11, <1>12 DEF PkgInv, EntriesAreRight
<1>15. QED
  BY <1>1, <1>7, <1>9, <1>13, <1>14, InstallGoesOn

(* A step after which no call is under way.                                *)
LEMMA NoCalls ==
  stack' = <<>> => CallsAreRight'
<1> SUFFICES ASSUME stack' = <<>> PROVE CallsAreRight'
  OBVIOUS
<1>1. stack' \in Seq(Calls) /\ Len(stack') = 0
  OBVIOUS
<1>2. QED
  BY <1>1 DEF CallsAreRight

LEMMA AtRest ==
  ASSUME PkgInv, phase' \in {"idle", "remove"}, stack' = <<>>, data' = <<>>, got' = <<>>,
         FilesAreOwned', LastIsThere', phase' = "remove" => last' = <<>>,
         \A n \in DOMAIN lock' : HasDir(n)'
  PROVE  PkgInv'
<1>1. Phases'
  BY DEF Phases
<1>2. GotIsThere' /\ EntriesAreRight'
  BY NoDomain DEF GotIsThere, EntriesAreRight
<1>3. QED
  BY <1>1, <1>2, NoCalls DEF PkgInv

LEMMA AbortKeeps ==
  ASSUME PkgInv, SingleFails \/ Refuse
  PROVE  PkgInv'
<1>1. PICK place \in Before : Doing(place) /\ place # "rename"
  BY DEF SingleFails, Refuse, Before
<1>2. /\ phase' = "idle" /\ stack' = <<>> /\ data' = <<>> /\ got' = <<>> /\ files' = files
      /\ lock' = lock /\ last' = last /\ torn' = torn /\ phase = "install"
  BY <1>1 DEF SingleFails, Refuse, Abort, Doing
<1>3. FilesAreOwned' /\ DirsKept({})
  BY <1>2, Unchanged DEF PkgInv
<1>4. NamesStay
  BY <1>1, <1>3, NotRenaming DEF PkgInv
<1>5. ASSUME NEW m, HasDir(m) PROVE HasDir(m)'
  BY <1>2, <1>4, <1>5, HasDirKept
<1>6. last' = <<>>
  BY <1>2 DEF PkgInv, Phases
<1>7. LastIsThere'
  BY <1>6, NoDomain DEF LastIsThere
<1>8. QED
  BY <1>2, <1>3, <1>5, <1>7, AtRest DEF PkgInv, EntriesAreRight

LEMMA KillKeeps ==
  ASSUME PkgInv, Kill
  PROVE  PkgInv'
<1>1. /\ phase # "idle" /\ phase' = "idle" /\ stack' = <<>> /\ data' = <<>> /\ got' = <<>>
      /\ files' = files /\ last' = last
      /\ lock' = lock \/ lock' = <<>>
  BY DEF Kill
<1>2. FilesAreOwned'
  BY <1>1, Unchanged DEF PkgInv
<1>3. ASSUME NEW m, HasDir(m) PROVE HasDir(m)'
  <2>1. CASE m \in torn
    BY <2>1 DEF Kill, HasDir
  <2>2. CASE phase = "remove" /\ removing = m
    BY <2>2 DEF Kill, HasDir
  <2>3. CASE MovingTo(files, stack, m)
    <3>1. Doing("rename") /\ phase # "remove" /\ files[json(Frame.name)].name = m
      BY <2>3 DEF MovingTo, Doing, Frame, PkgInv, Phases
    <3>2. m \in torn'
      BY <3>1 DEF Kill
    <3>3. QED
      BY <3>2 DEF HasDir
  <2>4. CASE m \in Movers \/ HasMain(files, m)
    BY <1>1, <2>4 DEF HasDir, Remains
  <2>5. QED
    BY <1>3, <2>1, <2>2, <2>3, <2>4 DEF HasDir, Remains
<1>4. last' = <<>>
  BY <1>1 DEF PkgInv, Phases
<1>5. LastIsThere'
  BY <1>4, NoDomain DEF LastIsThere
<1>6. \A n \in DOMAIN lock' : HasDir(n)'
  BY <1>1, <1>3, NoDomain DEF PkgInv, EntriesAreRight
<1>7. QED
  BY <1>1, <1>2, <1>5, <1>6, AtRest

LEMMA WriteLockKeeps ==
  ASSUME PkgInv, WriteLock
  PROVE  PkgInv'
<1>1. /\ phase = "install" /\ stack = <<>> /\ lock' = data /\ last' = got /\ phase' = "idle"
      /\ data' = <<>> /\ got' = <<>> /\ files' = files /\ stack' = stack /\ torn' = torn
  BY DEF WriteLock
<1>2. FilesAreOwned'
  BY <1>1, Unchanged DEF PkgInv
<1>3. ASSUME NEW m, HasDir(m) PROVE HasDir(m)'
  BY <1>1, <1>3 DEF HasDir
<1>4. LastIsThere'
  BY <1>1 DEF PkgInv, GotIsThere, LastIsThere
<1>5. \A n \in DOMAIN lock' : HasDir(n)'
  BY <1>1, <1>3 DEF PkgInv, EntriesAreRight
<1>6. QED
  BY <1>1, <1>2, <1>4, <1>5, AtRest

LEMMA UpdateLockKeeps ==
  ASSUME PkgInv, UpdateLock
  PROVE  PkgInv'
<1>1. /\ phase = "remove" /\ phase' = "idle" /\ lock' = Keep(lock, DOMAIN lock \ {removing})
      /\ files' = files /\ stack' = stack /\ got' = got /\ data' = data /\ last' = last
      /\ torn' = torn
  BY DEF UpdateLock
<1>2. stack' = <<>> /\ data' = <<>> /\ got' = <<>> /\ last' = <<>>
  BY <1>1 DEF PkgInv, Phases
<1>3. FilesAreOwned'
  BY <1>1, Unchanged DEF PkgInv
<1>4. ASSUME NEW n \in DOMAIN lock' PROVE HasDir(n)'
  <2>1. n \in DOMAIN lock /\ n # removing
    BY <1>1 DEF Keep
  <2>2. HasDir(n)
    BY <2>1 DEF PkgInv, EntriesAreRight
  <2>3. QED
    BY <1>1, <2>1, <2>2 DEF HasDir
<1>5. LastIsThere'
  BY <1>2, NoDomain DEF LastIsThere
<1>6. QED
  BY <1>1, <1>2, <1>3, <1>4, <1>5, AtRest

LEMMA InstallKeeps ==
  ASSUME PkgInv, NEW s \in DOMAIN Hub, Install(s)
  PROVE  PkgInv'
<1>1. /\ phase = "idle" /\ phase' = "install" /\ data' = lock /\ got' = <<>> /\ last' = <<>>
      /\ stack' = <<NewCall(s)>> /\ files' = files /\ lock' = lock /\ torn' = torn
  BY DEF Install
<1>2. FilesAreOwned' /\ DirsKept({})
  BY <1>1, Unchanged DEF PkgInv
<1>3. CallsAreRight'
  <2>1. PICK c \in Calls : /\ c = NewCall(s) /\ c.at \in Before
                           /\ CallIsRight(c, files', stack', got')
    BY NewCallIsRight
  <2>2. stack' \in Seq(Calls) /\ Len(stack') = 1 /\ stack'[1] = c
    BY <1>1, <2>1
  <2>3. QED
    BY <2>1, <2>2 DEF CallsAreRight
<1>4. NamesStay
  BY <1>1, <1>2, RemainsStill DEF PkgInv, Phases
<1>5. ASSUME NEW m, HasDir(m) PROVE HasDir(m)'
  BY <1>1, <1>4, <1>5 DEF HasDir, NamesStay
<1>6. Phases'
  BY <1>1 DEF Phases
<1>7. GotIsThere' /\ LastIsThere'
  BY <1>1, NoDomain DEF GotIsThere, LastIsThere
<1>8. EntriesAreRight'
  BY <1>1, <1>5 DEF PkgInv, EntriesAreRight
<1>9. QED
  BY <1>2, <1>3, <1>6, <1>7, <1>8 DEF PkgInv

LEMMA RemovePackageKeeps ==
  ASSUME PkgInv, NEW n, RemovePackage(n)
  PROVE  PkgInv'
<1>1. /\ phase = "idle" /\ last' = <<>> /\ removing' = n /\ phase' = "remove"
      /\ lock' = lock /\ stack' = stack /\ got' = got /\ data' = data /\ torn' = torn
      /\ files' = rmtree(files, DirOf(n)) \/ files' = Keep(files, DOMAIN files \ {FileOf(n)})
  BY DEF RemovePackage
<1>2. stack = <<>> /\ stack' = <<>> /\ data' = <<>> /\ got' = <<>>
  BY <1>1 DEF PkgInv, Phases
<1>3. FilesAreOwned' /\ DirsKept({n})
  <2>1. CASE files' = rmtree(files, DirOf(n))
    BY <2>1, DeletedDisk DEF PkgInv
  <2>2. CASE files' = Keep(files, DOMAIN files \ {FileOf(n)})
    BY <2>2, FileDeletedDisk DEF PkgInv, DirsKept
  <2>3. QED
    BY <1>1, <2>1, <2>2
<1>4. ASSUME NEW m, HasDir(m) PROVE HasDir(m)'
  <2>1. CASE m = n
    BY <1>1, <2>1 DEF HasDir
  <2>2. CASE m # n
    <3>1. ~MovingTo(files, stack, m)
      BY <1>2 DEF MovingTo
    <3>2. HasMain(files, m) => HasMain(files', m)
      BY <1>3, <2>2 DEF HasMain, DirsKept
    <3>3. QED
      BY <1>1, <1>4, <3>1, <3>2 DEF HasDir, Remains
  <2>3. QED
    BY <2>1, <2>2
<1>5. LastIsThere'
  BY <1>1, NoDomain DEF LastIsThere
<1>6. QED
  BY <1>1, <1>2, <1>3, <1>4, <1>5, AtRest DEF PkgInv, EntriesAreRight

LEMMA IdleKeeps ==
  ASSUME PkgInv, InitProject \/ \E n \in Names : NotFound(n)
  PROVE  PkgInv'
<1>1. /\ phase = "idle" /\ last' = <<>> /\ phase' = phase
      /\ lock' = lock /\ stack' = stack /\ got' = got /\ data' = data /\ torn' = torn
      /\ files' = files \/ InitProject
  BY DEF InitProject, NotFound
<1>2. stack = <<>> /\ stack' = <<>> /\ data' = <<>> /\ got' = <<>>
  BY <1>1 DEF PkgInv, Phases
<1>3. FilesAreOwned' /\ DirsKept({})
  BY <1>1, Unchanged, CreatedDisk DEF PkgInv
<1>4. NamesStay
  BY <1>2, <1>3, RemainsStill
<1>5. ASSUME NEW m, HasDir(m) PROVE HasDir(m)'
  BY <1>1, <1>4, <1>5 DEF HasDir, NamesStay
<1>6. LastIsThere'
  BY <1>1, NoDomain DEF LastIsThere
<1>7. QED
  BY <1>1, <1>2, <1>3, <1>5, <1>6, AtRest DEF PkgInv, EntriesAreRight

LEMMA PkgInitHolds ==
  PkgInit => PkgInv
<1> SUFFICES ASSUME PkgInit PROVE PkgInv
  OBVIOUS
<1>1. stack \in Seq(Calls) /\ 1..Len(stack) = {}
  <2>1. <<>> \in Seq(Calls)
    OBVIOUS
  <2>2. 1..Len(<<>>) = {}
    BY NoDomain
  <2>3. QED
    BY <2>1, <2>2 DEF PkgInit
<1>2. /\ DOMAIN files = {} /\ DOMAIN lock = {} /\ DOMAIN got = {} /\ DOMAIN data = {}
      /\ DOMAIN last = {} /\ Phases
  BY NoDomain DEF PkgInit, Phases
<1>3. CallsAreRight
  BY <1>1 DEF CallsAreRight
<1>4. FilesAreOwned /\ GotIsThere /\ LastIsThere /\ EntriesAreRight
  BY <1>2 DEF FilesAreOwned, GotIsThere, LastIsThere, EntriesAreRight
<1>5. QED
  BY <1>2, <1>3, <1>4 DEF PkgInv

LEMMA PkgStepKeeps ==
  PkgInv /\ [PkgNext]_pkgVars => PkgInv'
<1> SUFFICES ASSUME PkgInv, [PkgNext]_pkgVars PROVE PkgInv'
  OBVIOUS
<1>1. CASE Step
  BY <1>1, AgainKeeps, DownloadZipKeeps, DownloadBreaksKeeps, FetchSingleKeeps, AbortKeeps,
     ReadJsonKeeps, RmTreeKeeps, RenameKeeps, DependencyKeeps, LockEntryKeeps, WriteLockKeeps,
     UpdateLockKeeps DEF Step
<1>2. CASE Kill
  BY <1>2, KillKeeps
<1>3. CASE Command
  BY <1>3, InstallKeeps, RemovePackageKeeps, IdleKeeps DEF Command
<1>4. CASE UNCHANGED pkgVars
  <2>1. /\ files' = files /\ lock' = lock /\ phase' = phase /\ stack' = stack /\ got' = got
        /\ data' = data /\ removing' = removing /\ last' = last /\ torn' = torn
    BY <1>4 DEF pkgVars
  <2>2. FilesAreOwned'
    BY <2>1, Unchanged DEF PkgInv
  <2>3. ASSUME NEW m, HasDir(m) PROVE HasDir(m)'
    BY <2>1, <2>3 DEF HasDir
  <2>4. Phases' /\ CallsAreRight' /\ GotIsThere' /\ LastIsThere'
    BY <2>1 DEF PkgInv, Phases, CallsAreRight, GotIsThere, LastIsThere
  <2>5. EntriesAreRight'
    BY <2>1, <2>3 DEF PkgInv, EntriesAreRight
  <2>6. QED
    BY <2>2, <2>4, <2>5 DEF PkgInv
<1>5. QED
  BY <1>1, <1>2, <1>3, <1>4 DEF PkgNext

(* The inductive invariant of the package commands: disk, lock file and    *)
(* calls fit at every step, whatever fails and whenever the process dies.  *)
THEOREM PkgInvariance == PkgSpec => []PkgInv
<1>1. QED
  BY PkgInitHolds, PkgStepKeeps, PTL DEF PkgSpec


(* Between two commands every name in the lock file has its directory but  *)
(* for names parted by a kill and repositories whose package moves away,   *)
(* and what an install has unpacked at home is entered, it or its kin,     *)
(* under the name of its directory: for every set of packages, whichever   *)
(* of them share names, and every sequence of commands, failures and kills.*)
THEOREM LockAlwaysTrue ==
  PkgSpec => []LockTellsTheTruth
<1>1. ASSUME PkgInv PROVE LockTellsTheTruth
  <2>1. ASSUME phase = "idle", NEW n \in DOMAIN lock \ (torn \cup Movers)
        PROVE  Append(DirOf(n), "main.vx") \in DOMAIN files
    <3>1. HasDir(n) /\ stack = <<>>
      BY <1>1, <2>1 DEF PkgInv, EntriesAreRight, Phases
    <3>2. QED
      BY <2>1, <3>1 DEF HasDir, Remains, MovingTo, HasMain
  <2>2. ASSUME phase = "idle", NEW s \in AtHome, s \in DOMAIN last, last[s] = "zip"
        PROVE  LET n == Called(s)
               IN  /\ n \in DOMAIN lock /\ lock[n] \in Kin(s) \cap DOMAIN last
                   /\ last[lock[n]] = "zip" /\ Append(DirOf(n), "main.vx") \in DOMAIN files
    <3>1. Have(files, stack, last, lock, s) /\ stack = <<>>
      BY <1>1, <2>2 DEF PkgInv, LastIsThere, Phases
    <3>2. ~InHand(stack, s)
      BY <3>1, NoDomain DEF InHand
    <3>3. Entered(last, lock, s) /\ Remains(files, stack, Called(s))
      BY <2>2, <3>1, <3>2 DEF Have
    <3>4. HasMain(files, Called(s))
      BY <3>1, <3>3, HomeIsNoMover DEF Remains, MovingTo
    <3>5. QED
      BY <3>3, <3>4 DEF Entered, HasMain
  <2>3. QED
    BY <2>1, <2>2 DEF LockTellsTheTruth
<1>2. QED
  BY <1>1, PkgInvariance, PTL

(* What vx_modules has under the name of a package at home is of that      *)
(* package or of its kin.                                                  *)
LEMMA FoundInModules ==
  ASSUME FilesAreOwned, NEW s \in AtHome, NEW n \in Labels(s),
         HasMain(files, n) \/ (n = Hub[s].repo /\ FileOf(n) \in DOMAIN files)
  PROVE  /\ InDir(files, Dest, n) \in DOMAIN files
         /\ files[InDir(files, Dest, n)].of \in Kin(s)
<1> DEFINE main == Append(DirOf(n), "main.vx")
           vxjson == Append(DirOf(n), "vx.json")
           named == Append(DirOf(n), files[vxjson].main)
           file == FileOf(n)
<1>1. InDir(files, Dest, n) = IF vxjson \in DOMAIN files /\ named \in DOMAIN files THEN named
                              ELSE IF main \in DOMAIN files THEN main
                              ELSE IF file \in DOMAIN files THEN file ELSE <<>>
  BY DEF InDir, DirOf, FileOf
<1>2. ASSUME main \in DOMAIN files PROVE files[main].of \in Kin(s)
  <2>1. PICK t \in Kin(s) : t \in DOMAIN Hub /\ files[main] = Archive(t)["main.vx"]
    BY <1>2, Contents
  <2>2. QED
    BY <2>1, ArchiveFiles
<1>3. ASSUME vxjson \in DOMAIN files PROVE named = main
  <2>1. PICK t \in Kin(s) : /\ t \in DOMAIN Hub /\ "vx.json" \in DOMAIN Archive(t)
                            /\ files[vxjson] = Archive(t)["vx.json"]
    BY <1>3, Contents
  <2>2. files[vxjson].main = "main.vx"
    BY <2>1, ArchiveFiles
  <2>3. QED
    BY <2>2
<1>4. ASSUME n = Hub[s].repo, file \in DOMAIN files PROVE files[file].of \in Kin(s)
  <2>1. PICK t \in Kin(s) : files[FileOf(Hub[s].repo)] = Single(t)
    BY <1>4, SingleContents
  <2>2. Single(t).of = t
    BY DEF Single
  <2>3. QED
    BY <1>4, <2>1, <2>2
<1>5. main \in DOMAIN files \/ (n = Hub[s].repo /\ file \in DOMAIN files)
  BY DEF HasMain
<1> HIDE DEF main, vxjson, named, file
<1>6. QED
  BY <1>1, <1>2, <1>3, <1>4, <1>5

LEMMA NeverEmpty ==
  ASSUME FilesAreOwned, NEW p \in DOMAIN files
  PROVE  Len(p) # 0
<1>1. CASE ProjectFile(p)
  <2>1. Len(p) = 2
    BY <1>1, ProjectParts
  <2>2. QED
    BY <2>1
<1>2. CASE \E t \in DOMAIN Hub : SingleFile(p, t) \/ PackageFile(p, t)
  <2>1. PICK t \in DOMAIN Hub : SingleFile(p, t) \/ PackageFile(p, t)
    BY <1>2
  <2>2. CASE SingleFile(p, t)
    <3>1. p = Append(Dest, Hub[t].repo \o ".vx")
      BY <2>2 DEF SingleFile, FileOf
    <3>2. Len(Append(Dest, Hub[t].repo \o ".vx")) = 3
      BY FileParts
    <3>3. QED
      BY <3>1, <3>2
  <2>3. CASE PackageFile(p, t)
    <3>1. PICK m \in Names : \E f \in DOMAIN Archive(t) : p = Append(DirOf(m), f)
      BY <2>3 DEF PackageFile
    <3>2. PICK f \in DOMAIN Archive(t) : p = Append(DirOf(m), f)
      BY <3>1
    <3>3. Len(Append(DirOf(m), f)) = 4
      BY PathParts
    <3>4. QED
      BY <3>2, <3>3
  <2>4. QED
    BY <2>1, <2>2, <2>3
<1>3. QED
  BY <1>1, <1>2 DEF FilesAreOwned

LEMMA Resolved ==
  ASSUME FilesAreOwned, NEW s \in AtHome, NEW n \in Labels(s), InDir(files, Project, n) = <<>>,
         HasMain(files, n) \/ (n = Hub[s].repo /\ FileOf(n) \in DOMAIN files)
  PROVE  Resolve(files, Project, n) # <<>> /\ files[Resolve(files, Project, n)].of \in Kin(s)
<1> DEFINE dirs == _module_paths(Project)
           have == {i \in DOMAIN dirs : InDir(files, dirs[i], n) # <<>>}
           least == CHOOSE i \in have : \A j \in have : i <= j
<1>1. Resolve(files, Project, n) = IF have = {} THEN <<>> ELSE InDir(files, dirs[least], n)
  BY DEF Resolve
<1>2. DOMAIN dirs = 1..4 /\ dirs[1] = Project /\ dirs[2] = Dest
  BY DEF _module_paths, Dest
<1>3. PICK path : /\ path = InDir(files, Dest, n) /\ path \in DOMAIN files
                  /\ files[path].of \in Kin(s)
  BY FoundInModules
<1>4. path # <<>>
  <2>1. Len(path) # 0
    BY <1>3, NeverEmpty
  <2>2. QED
    BY <2>1, NoDomain
<1> HIDE DEF dirs
<1>5. 2 \in have /\ 1 \notin have
  BY <1>2, <1>3, <1>4
<1>6. have \subseteq 1..4 /\ \A j \in have : 2 <= j
  BY <1>2, <1>5
<1> HIDE DEF have
<1>7. least = 2
  <2>1. least \in have /\ \A j \in have : least <= j
    BY <1>5, <1>6
  <2> HIDE DEF least
  <2>2. QED
    BY <1>5, <1>6, <2>1
<1>8. QED
  BY <1>1, <1>2, <1>3, <1>4, <1>5, <1>7

(* What an install that succeeded has installed at home can be used, as it *)
(* or its kin: for every set of packages, whatever earlier commands have   *)
(* left behind.                                                            *)
THEOREM InstalledAlwaysUsable ==
  PkgSpec => []InstalledIsUsable
<1>1. ASSUME PkgInv PROVE InstalledIsUsable
  <2>1. ASSUME phase = "idle", NEW s \in AtHome, s \in DOMAIN last,
               NEW name, name = IF last[s] = "zip" THEN Called(s) ELSE Hub[s].repo,
               InDir(files, Project, name) = <<>>
        PROVE  Resolve(files, Project, name) # <<>> /\ files[Resolve(files, Project, name)].of \in Kin(s)
    <3>1. Have(files, stack, last, lock, s) /\ FilesAreOwned /\ stack = <<>>
      BY <1>1, <2>1 DEF PkgInv, LastIsThere, Phases
    <3>2. ~InHand(stack, s)
      BY <3>1, NoDomain DEF InHand
    <3>3. name \in Labels(s)
      BY <2>1 DEF Labels
    <3>4. CASE last[s] = "zip"
      <4>1. Remains(files, stack, Called(s))
        BY <3>1, <3>2, <3>4 DEF Have
      <4>2. HasMain(files, name)
        BY <2>1, <3>1, <3>4, <4>1, HomeIsNoMover DEF Remains, MovingTo
      <4>3. QED
        BY <2>1, <3>1, <3>3, <4>2, Resolved
    <3>5. CASE last[s] # "zip"
      <4>1. name = Hub[s].repo /\ FileOf(name) \in DOMAIN files
        BY <2>1, <3>1, <3>5 DEF Have
      <4>2. QED
        BY <2>1, <3>1, <3>3, <4>1, Resolved
    <3>6. QED
      BY <3>4, <3>5
  <2>2. QED
    BY <2>1 DEF InstalledIsUsable
<1>2. QED
  BY <1>1, PkgInvariance, PTL

-----------------------------------------------------------------------------
(***************************************************************************)
(* Reading a program.  Of the modules that are loaded some are being       *)
(* loaded, those of the calls; the others are done.  Each call is of a     *)
(* file that parses, stands at a `use' of the file of the next call, and   *)
(* has only done modules and spliced statements behind it.  What a done    *)
(* module uses is done, so the done modules are complete in the graph, and *)
(* none needs itself.                                                      *)
(***************************************************************************)
OfCalls(calls) == {calls[k].file : k \in 2..Len(calls)}
DoneOf(calls, have) == have \ OfCalls(calls)
NeedsOf(disk, p) == Needs(Graph(disk), p)

PlacesIn(disk) == [file : DOMAIN disk, at : Nat \ {0}]
CallsFit(disk, calls) ==
  /\ calls \in Seq(PlacesIn(disk))
  /\ calls # <<>> /\ calls[1].file = Main
  /\ \A k \in DOMAIN calls :
       Parses(disk, calls[k].file) /\ calls[k].at <= Len(disk[calls[k].file].body) + 1

AtUseOf(disk, calls, k, p) ==
  LET f == calls[k].file
      i == calls[k].at
  IN  i \in DOMAIN disk[f].body /\ ~Stays(disk[f].body[i]) /\ UsesOf(disk, f, i) = p
ModulesAreLoaded(disk, calls, have) ==
  /\ OfCalls(calls) \subseteq have
  /\ \A j, k \in 2..Len(calls) : calls[j].file = calls[k].file => j = k
  /\ \A k \in 1..(Len(calls) - 1) : AtUseOf(disk, calls, k, calls[k + 1].file)

IsDone(disk, out, done, p) ==
  /\ Parses(disk, p) /\ UsedBy(disk, p) \subseteq done
  /\ p \notin NeedsOf(disk, p)
  /\ Own(disk, p) \subseteq SetOf(out)
IsBehind(disk, out, done, p, i) ==
  IF Stays(disk[p].body[i]) THEN <<p, i>> \in SetOf(out) ELSE UsesOf(disk, p, i) \in done
WhatIsDone(disk, calls, have, out) ==
  /\ \A p \in DoneOf(calls, have) : IsDone(disk, out, DoneOf(calls, have), p)
  /\ \A k \in DOMAIN calls : \A i \in 1..(calls[k].at - 1) :
       IsBehind(disk, out, DoneOf(calls, have), calls[k].file, i)

InOrder(disk, out) ==
  \A b \in DOMAIN out : \A i \in 1..(out[b][2] - 1) :
    StandsFor(disk, Graph(disk), out[b][1], i) \subseteq {out[a] : a \in 1..(b - 1)}
OnlyOnce(out) == \A a, b \in DOMAIN out : out[a] = out[b] => a = b
SplicedFrom(disk, calls, have, out) ==
  /\ IsSeq(out)
  /\ \A e \in SetOf(out) : e[1] \in have \cup {Main} /\ e \in Own(disk, e[1])
  /\ Main \notin OfCalls(calls) =>
       /\ OnlyOnce(out)
       /\ \A k \in DOMAIN calls : \A e \in SetOf(out) : e[1] = calls[k].file => e[2] < calls[k].at
  /\ InOrder(disk, out)

AllIsNeeded(disk, calls, have) ==
  /\ have \subseteq NeedsOf(disk, Main)
  /\ \A j, k \in DOMAIN calls : j < k => calls[k].file \in NeedsOf(disk, calls[j].file)

Reads(disk, calls, have, out) ==
  /\ disk \in Projects /\ CallsFit(disk, calls) /\ ModulesAreLoaded(disk, calls, have)
  /\ WhatIsDone(disk, calls, have, out) /\ SplicedFrom(disk, calls, have, out)
  /\ AllIsNeeded(disk, calls, have)

UseInv ==
  /\ program = <<>> => reading = <<>> /\ loaded = {} /\ spliced = <<>> /\ raised = ""
  /\ reading # <<>> => Reads(program, reading, loaded, spliced) /\ raised = ""
  /\ ExpansionIsRight

(* A module is looked for among the files, and <<>> is what is not found.  *)
LEMMA FoundAtPlace ==
  ASSUME NEW disk, NEW base, NEW x
  PROVE  Resolve(disk, base, x) \in DOMAIN disk \cup {<<>>}
<1>1. \A dir : InDir(disk, dir, x) \in DOMAIN disk \cup {<<>>}
  BY DEF InDir
<1> DEFINE dirs == _module_paths(base)
           have == {i \in DOMAIN dirs : InDir(disk, dirs[i], x) # <<>>}
           least == CHOOSE i \in have : \A j \in have : i <= j
<1>2. Resolve(disk, base, x) = IF have = {} THEN <<>> ELSE InDir(disk, dirs[least], x)
  BY DEF Resolve
<1> HIDE DEF dirs, have, least
<1>3. QED
  BY <1>1, <1>2

LEMMA UsesArePlaces ==
  ASSUME NEW disk, NEW p
  PROVE  UsedBy(disk, p) \subseteq DOMAIN disk \cup {<<>>}
BY FoundAtPlace DEF UsedBy, UsesOf

(* What the graph is: a set of places is complete when it has what each of *)
(* its files uses.                                                         *)
PlacesOf(disk) == DOMAIN disk \cup {<<>>}
IsComplete(disk, S) ==
  S \subseteq PlacesOf(disk) /\ \A p \in S \cap DOMAIN disk : UsedBy(disk, p) \subseteq S

LEMMA GraphIs ==
  ASSUME NEW disk
  PROVE  /\ Graph(disk).places = PlacesOf(disk)
         /\ \A e : e \in Graph(disk).uses <=>
              \E p \in DOMAIN disk : \E q \in UsedBy(disk, p) : e = <<p, q>>
         /\ \A S : S \in Graph(disk).complete <=> IsComplete(disk, S)
<1> DEFINE uses == UNION {{p} \X UsedBy(disk, p) : p \in DOMAIN disk}
           complete == {S \in SUBSET PlacesOf(disk) : \A e \in uses : e[1] \in S => e[2] \in S}
<1>1. Graph(disk) = [places |-> PlacesOf(disk), uses |-> uses, complete |-> complete]
  BY DEF Graph, PlacesOf
<1>2. \A e : e \in uses <=> \E p \in DOMAIN disk : \E q \in UsedBy(disk, p) : e = <<p, q>>
  OBVIOUS
<1>3. \A S : S \in complete <=> S \subseteq PlacesOf(disk) /\ \A e \in uses : e[1] \in S => e[2] \in S
  OBVIOUS
<1> HIDE DEF uses, complete
<1>4. ASSUME NEW S
      PROVE  (\A e \in uses : e[1] \in S => e[2] \in S)
               <=> \A p \in S \cap DOMAIN disk : UsedBy(disk, p) \subseteq S
  <2>1. ASSUME \A e \in uses : e[1] \in S => e[2] \in S,
               NEW p \in S \cap DOMAIN disk, NEW q \in UsedBy(disk, p)
        PROVE  q \in S
    <3>1. <<p, q>> \in uses
      BY <1>2, <2>1
    <3>2. QED
      BY <2>1, <3>1
  <2>2. ASSUME \A p \in S \cap DOMAIN disk : UsedBy(disk, p) \subseteq S,
               NEW e \in uses, e[1] \in S
        PROVE  e[2] \in S
    <3>1. PICK p \in DOMAIN disk : \E q \in UsedBy(disk, p) : e = <<p, q>>
      BY <1>2, <2>2
    <3>2. QED
      BY <2>2, <3>1
  <2>3. QED
    BY <2>1, <2>2
<1>5. \A S : S \in complete <=> IsComplete(disk, S)
  BY <1>3, <1>4 DEF IsComplete
<1>6. QED
  BY <1>1, <1>2, <1>5

(* A file needs what it uses, and what that needs; and no more than any    *)
(* complete set that has what it uses.                                     *)
LEMMA NeedsIs ==
  ASSUME NEW disk, NEW p \in DOMAIN disk, NEW q
  PROVE  q \in NeedsOf(disk, p) <=>
           /\ q \in PlacesOf(disk)
           /\ \A S : IsComplete(disk, S) /\ UsedBy(disk, p) \subseteq S => q \in S
<1>1. \A S : (\A e \in Graph(disk).uses : e[1] = p => e[2] \in S) <=> UsedBy(disk, p) \subseteq S
  <2>1. ASSUME NEW S, \A e \in Graph(disk).uses : e[1] = p => e[2] \in S, NEW r \in UsedBy(disk, p)
        PROVE  r \in S
    <3>1. <<p, r>> \in Graph(disk).uses
      BY <2>1, GraphIs
    <3>2. QED
      BY <2>1, <3>1
  <2>2. ASSUME NEW S, UsedBy(disk, p) \subseteq S, NEW e \in Graph(disk).uses, e[1] = p
        PROVE  e[2] \in S
    <3>1. PICK r \in DOMAIN disk : \E t \in UsedBy(disk, r) : e = <<r, t>>
      BY <2>2, GraphIs
    <3>2. QED
      BY <2>2, <3>1
  <2>3. QED
    BY <2>1, <2>2
<1>2. QED
  BY <1>1, GraphIs DEF NeedsOf, Needs

LEMMA NeedsUses ==
  ASSUME NEW disk, NEW p \in DOMAIN disk
  PROVE  UsedBy(disk, p) \subseteq NeedsOf(disk, p)
BY NeedsIs, UsesArePlaces DEF PlacesOf

LEMMA NeedsGoOn ==
  ASSUME NEW disk, NEW p \in DOMAIN disk, NEW q \in NeedsOf(disk, p), q \in DOMAIN disk
  PROVE  UsedBy(disk, q) \subseteq NeedsOf(disk, p)
<1>1. ASSUME NEW r \in UsedBy(disk, q), NEW S, IsComplete(disk, S), UsedBy(disk, p) \subseteq S
      PROVE  r \in S
  <2>1. q \in S
    BY <1>1, NeedsIs
  <2>2. QED
    BY <1>1, <2>1 DEF IsComplete
<1>2. UsedBy(disk, q) \subseteq PlacesOf(disk)
  BY UsesArePlaces DEF PlacesOf
<1>3. QED
  BY <1>1, <1>2, NeedsIs

LEMMA NeedsAtMost ==
  ASSUME NEW disk, NEW p \in DOMAIN disk, NEW S, IsComplete(disk, S), UsedBy(disk, p) \subseteq S
  PROVE  NeedsOf(disk, p) \subseteq S
BY NeedsIs

(***************************************************************************)
(* The calls.  One goes on to its next statement, one is begun for a       *)
(* module, and one ends.                                                   *)
(***************************************************************************)
MovedOn(calls) == [calls EXCEPT ![Len(calls)].at = @ + 1]
OneLess(calls) == SubSeq(calls, 1, Len(calls) - 1)
OneMore(calls, p) == Append(calls, CallOn(p))

LEMMA BodyOf ==
  ASSUME NEW disk \in Projects, NEW p \in DOMAIN disk
  PROVE  /\ p # <<>> /\ Len(disk[p].body) \in Nat
         /\ DOMAIN disk[p].body = 1..Len(disk[p].body)
<1>1. p # <<>> /\ disk[p].body \in Seq(SetOf(disk[p].body))
  BY UseAssumption
<1>2. QED
  BY <1>1

LEMMA CallsAre ==
  ASSUME NEW disk \in Projects, NEW calls, CallsFit(disk, calls)
  PROVE  /\ Len(calls) \in Nat /\ Len(calls) > 0 /\ DOMAIN calls = 1..Len(calls)
         /\ calls[1].file = Main
         /\ \A k \in 1..Len(calls) :
              /\ calls[k] = [file |-> calls[k].file, at |-> calls[k].at]
              /\ calls[k].file \in DOMAIN disk /\ Parses(disk, calls[k].file)
              /\ calls[k].at \in Nat /\ calls[k].at > 0
              /\ calls[k].at <= Len(disk[calls[k].file].body) + 1
              /\ Len(disk[calls[k].file].body) \in Nat
              /\ DOMAIN disk[calls[k].file].body = 1..Len(disk[calls[k].file].body)
<1>1. calls \in Seq(PlacesIn(disk)) /\ calls # <<>> /\ calls[1].file = Main
  BY DEF CallsFit
<1>2. Len(calls) \in Nat /\ Len(calls) > 0 /\ DOMAIN calls = 1..Len(calls)
  BY <1>1
<1>3. ASSUME NEW k \in 1..Len(calls)
      PROVE  /\ calls[k] = [file |-> calls[k].file, at |-> calls[k].at]
             /\ calls[k].file \in DOMAIN disk /\ Parses(disk, calls[k].file)
             /\ calls[k].at \in Nat /\ calls[k].at > 0
             /\ calls[k].at <= Len(disk[calls[k].file].body) + 1
  <2>1. calls[k] \in PlacesIn(disk)
    BY <1>1, <1>2, <1>3
  <2>2. /\ calls[k] = [file |-> calls[k].file, at |-> calls[k].at]
        /\ calls[k].file \in DOMAIN disk /\ calls[k].at \in Nat /\ calls[k].at > 0
    BY <2>1 DEF PlacesIn
  <2>3. QED
    BY <1>2, <1>3, <2>2 DEF CallsFit
<1>4. QED
  BY <1>1, <1>2, <1>3, BodyOf

LEMMA CallMoves ==
  ASSUME NEW disk \in Projects, NEW calls, CallsFit(disk, calls),
         calls[Len(calls)].at <= Len(disk[calls[Len(calls)].file].body)
  PROVE  /\ CallsFit(disk, MovedOn(calls))
         /\ Len(MovedOn(calls)) = Len(calls) /\ DOMAIN MovedOn(calls) = 1..Len(calls)
         /\ \A k \in 1..Len(calls) :
              /\ MovedOn(calls)[k].file = calls[k].file
              /\ MovedOn(calls)[k].at = IF k = Len(calls) THEN calls[k].at + 1 ELSE calls[k].at
         /\ OfCalls(MovedOn(calls)) = OfCalls(calls)
<1> DEFINE n == Len(calls)
           f == calls[n].file
           m == calls[n].at
           next == MovedOn(calls)
<1>1. /\ calls \in Seq(PlacesIn(disk)) /\ n \in Nat /\ n > 0 /\ DOMAIN calls = 1..n
      /\ calls[n] = [file |-> f, at |-> m] /\ f \in DOMAIN disk /\ m \in Nat
  <2>1. n \in Nat /\ n > 0 /\ DOMAIN calls = 1..n
    BY CallsAre
  <2>2. calls[n] = [file |-> f, at |-> m] /\ f \in DOMAIN disk /\ m \in Nat
    BY <2>1, CallsAre
  <2>3. calls \in Seq(PlacesIn(disk))
    BY DEF CallsFit
  <2>4. QED
    BY <2>1, <2>2, <2>3
<1>2. next = [calls EXCEPT ![n] = [file |-> f, at |-> m + 1]]
  <2>1. next = [calls EXCEPT ![n] = [calls[n] EXCEPT !.at = m + 1]]
    BY DEF MovedOn
  <2>2. [calls[n] EXCEPT !.at = m + 1] = [file |-> f, at |-> m + 1]
    <3> HIDE DEF f, m
    <3>1. QED
      BY <1>1
  <2>3. QED
    BY <2>1, <2>2
<1>3. [file |-> f, at |-> m + 1] \in PlacesIn(disk)
  BY <1>1 DEF PlacesIn
<1> HIDE DEF next
<1>4. /\ next \in Seq(PlacesIn(disk)) /\ Len(next) = n /\ DOMAIN next = 1..n
      /\ next[n] = [file |-> f, at |-> m + 1]
      /\ \A k \in 1..n : k # n => next[k] = calls[k]
  <2> HIDE DEF n
  <2>1. QED
    BY <1>1, <1>2, <1>3
<1>5. \A k \in 1..n : /\ next[k].file = calls[k].file
                      /\ next[k].at = IF k = n THEN calls[k].at + 1 ELSE calls[k].at
  <2>1. next[n].file = f /\ next[n].at = m + 1
    <3> HIDE DEF f, m, n
    <3>1. QED
      BY <1>4
  <2>2. \A k \in 1..n : k # n => next[k] = calls[k]
    BY <1>4
  <2>3. QED
    BY <2>1, <2>2
<1>6. next # <<>> /\ next[1].file = Main
  <2>1. 1 \in 1..n /\ calls[1].file = Main
    BY <1>1, CallsAre
  <2>2. next[1].file = Main
    BY <1>5, <2>1
  <2>3. 1 \in DOMAIN next
    BY <1>4, <2>1
  <2>4. QED
    BY <2>2, <2>3, NoDomain
<1>7. ASSUME NEW k \in 1..n
      PROVE  Parses(disk, next[k].file) /\ next[k].at <= Len(disk[next[k].file].body) + 1
  <2>1. /\ Parses(disk, calls[k].file) /\ calls[k].at <= Len(disk[calls[k].file].body) + 1
        /\ Len(disk[calls[k].file].body) \in Nat
    BY <1>7, CallsAre
  <2>2. CASE k = n
    <3>1. next[k].file = calls[k].file /\ next[k].at = m + 1 /\ calls[k].file = f
      BY <1>5, <2>2
    <3>2. m <= Len(disk[f].body)
      OBVIOUS
    <3>3. m + 1 <= Len(disk[f].body) + 1
      BY <1>1, <2>1, <2>2, <3>2
    <3>4. QED
      BY <2>1, <3>1, <3>3
  <2>3. CASE k # n
    BY <1>5, <2>1, <2>3
  <2>4. QED
    BY <2>2, <2>3
<1>8. CallsFit(disk, next)
  BY <1>4, <1>6, <1>7 DEF CallsFit
<1>9. OfCalls(next) = OfCalls(calls)
  <2>1. OfCalls(next) = {next[k].file : k \in 2..n}
    BY <1>4 DEF OfCalls
  <2>2. \A k \in 1..n : next[k].file = calls[k].file
    BY <1>5
  <2>3. \A k \in 2..n : k \in 1..n
    BY <1>1
  <2>4. QED
    BY <2>1, <2>2, <2>3 DEF OfCalls
<1>10. QED
  BY <1>4, <1>5, <1>8, <1>9 DEF next

LEMMA CallEnds ==
  ASSUME NEW disk \in Projects, NEW calls, CallsFit(disk, calls), Len(calls) # 1
  PROVE  /\ CallsFit(disk, OneLess(calls)) /\ Len(calls) > 1
         /\ Len(OneLess(calls)) = Len(calls) - 1 /\ DOMAIN OneLess(calls) = 1..(Len(calls) - 1)
         /\ \A k \in 1..(Len(calls) - 1) : OneLess(calls)[k] = calls[k]
         /\ OfCalls(calls) = OfCalls(OneLess(calls)) \cup {calls[Len(calls)].file}
<1> DEFINE n == Len(calls)
           rest == OneLess(calls)
<1>1. calls \in Seq(PlacesIn(disk)) /\ n \in Nat /\ n > 1 /\ DOMAIN calls = 1..n
  <2>1. calls \in Seq(PlacesIn(disk))
    BY DEF CallsFit
  <2>2. n \in Nat /\ n > 0 /\ DOMAIN calls = 1..n
    BY CallsAre
  <2>3. QED
    BY <2>1, <2>2
<1>2. /\ rest \in Seq(PlacesIn(disk)) /\ Len(rest) = n - 1
      /\ \A k \in 1..(n - 1) : rest[k] = calls[k]
  <2>1. QED
    BY <1>1, SubSeqProperties DEF OneLess
<1> HIDE DEF rest
<1>3. DOMAIN rest = 1..(n - 1)
  BY <1>2
<1>4. CallsFit(disk, rest)
  <2>1. rest # <<>> /\ rest[1].file = Main
    BY <1>1, <1>2, CallsAre
  <2>2. QED
    BY <1>1, <1>2, <1>3, <2>1, CallsAre DEF CallsFit
<1>5. OfCalls(calls) = OfCalls(rest) \cup {calls[n].file}
  <2>1. 2..n = 2..(n - 1) \cup {n}
    BY <1>1
  <2>2. OfCalls(rest) = {calls[k].file : k \in 2..(n - 1)}
    BY <1>1, <1>2 DEF OfCalls
  <2>3. QED
    BY <2>1, <2>2 DEF OfCalls
<1>6. QED
  BY <1>1, <1>2, <1>3, <1>4, <1>5 DEF rest

LEMMA CallBegins ==
  ASSUME NEW disk \in Projects, NEW calls, CallsFit(disk, calls), NEW p, Parses(disk, p)
  PROVE  /\ CallsFit(disk, OneMore(calls, p))
         /\ Len(OneMore(calls, p)) = Len(calls) + 1
         /\ DOMAIN OneMore(calls, p) = 1..(Len(calls) + 1)
         /\ \A k \in 1..Len(calls) : OneMore(calls, p)[k] = calls[k]
         /\ OneMore(calls, p)[Len(calls) + 1] = CallOn(p)
         /\ OfCalls(OneMore(calls, p)) = OfCalls(calls) \cup {p}
<1> DEFINE n == Len(calls)
           more == OneMore(calls, p)
<1>1. calls \in Seq(PlacesIn(disk)) /\ n \in Nat /\ n > 0 /\ DOMAIN calls = 1..n
  BY CallsAre DEF CallsFit
<1>2. CallOn(p) \in PlacesIn(disk) /\ CallOn(p).file = p /\ CallOn(p).at = 1 /\ p \in DOMAIN disk
  BY DEF CallOn, Parses, PlacesIn
<1>3. /\ more \in Seq(PlacesIn(disk)) /\ Len(more) = n + 1
      /\ \A k \in 1..n : more[k] = calls[k]
      /\ more[n + 1] = CallOn(p)
  <2>1. QED
    BY <1>1, <1>2, AppendProperties DEF OneMore
<1> HIDE DEF more
<1>4. DOMAIN more = 1..(n + 1)
  BY <1>3
<1>5. CallsFit(disk, more)
  <2>1. more # <<>> /\ more[1].file = Main
    BY <1>1, <1>3, <1>4, CallsAre
  <2>2. ASSUME NEW k \in 1..(n + 1)
        PROVE  Parses(disk, more[k].file) /\ more[k].at <= Len(disk[more[k].file].body) + 1
    <3>1. CASE k = n + 1
      <4>1. more[k].file = p /\ more[k].at = 1 /\ p \in DOMAIN disk
        BY <1>2, <1>3, <3>1
      <4>2. Len(disk[p].body) \in Nat
        BY <4>1, BodyOf
      <4>3. 1 <= Len(disk[p].body) + 1
        BY <4>2
      <4>4. QED
        BY <4>1, <4>3
    <3>2. CASE k # n + 1
      <4>1. k \in 1..n /\ more[k] = calls[k]
        BY <1>1, <1>3, <3>2
      <4>2. Parses(disk, calls[k].file) /\ calls[k].at <= Len(disk[calls[k].file].body) + 1
        BY <4>1, CallsAre
      <4>3. QED
        BY <4>1, <4>2
    <3>3. QED
      BY <3>1, <3>2
  <2>3. QED
    BY <1>3, <1>4, <2>1, <2>2 DEF CallsFit
<1>6. OfCalls(more) = OfCalls(calls) \cup {p}
  <2>1. 2..(n + 1) = 2..n \cup {n + 1}
    BY <1>1
  <2>2. \A k \in 2..n : more[k].file = calls[k].file
    BY <1>1, <1>3
  <2>3. more[n + 1].file = p
    BY <1>2, <1>3
  <2>4. QED
    BY <1>3, <2>1, <2>2, <2>3 DEF OfCalls
<1>7. QED
  BY <1>1, <1>3, <1>4, <1>5, <1>6 DEF more

(***************************************************************************)
(* What each kind of step keeps.  When the innermost call goes on, what    *)
(* is behind its statement is spliced or done.                             *)
(***************************************************************************)
LEMMA BehindKept ==
  ASSUME NEW disk, NEW p, NEW i, NEW out, NEW more, NEW done, NEW done2,
         SetOf(out) \subseteq SetOf(more), done \subseteq done2,
         IsBehind(disk, out, done, p, i)
  PROVE  IsBehind(disk, more, done2, p, i)
BY DEF IsBehind

LEMMA MovingKeeps ==
  ASSUME NEW disk \in Projects, NEW calls, NEW have, NEW out,
         CallsFit(disk, calls), ModulesAreLoaded(disk, calls, have),
         WhatIsDone(disk, calls, have, out), AllIsNeeded(disk, calls, have),
         calls[Len(calls)].at <= Len(disk[calls[Len(calls)].file].body),
         IsBehind(disk, out, DoneOf(calls, have), calls[Len(calls)].file, calls[Len(calls)].at)
  PROVE  /\ CallsFit(disk, MovedOn(calls)) /\ ModulesAreLoaded(disk, MovedOn(calls), have)
         /\ WhatIsDone(disk, MovedOn(calls), have, out)
         /\ AllIsNeeded(disk, MovedOn(calls), have)
<1> DEFINE n == Len(calls)
           next == MovedOn(calls)
<1>1. /\ n \in Nat /\ n > 0 /\ DOMAIN calls = 1..n
      /\ \A k \in 1..n : calls[k].at \in Nat
  BY CallsAre
<1>2. /\ CallsFit(disk, next) /\ Len(next) = n /\ DOMAIN next = 1..n
      /\ OfCalls(next) = OfCalls(calls)
  BY CallMoves
<1>3. \A k \in 1..n : next[k].file = calls[k].file
  BY CallMoves
<1>4. \A k \in 1..n : next[k].at = IF k = n THEN calls[k].at + 1 ELSE calls[k].at
  BY CallMoves
<1> HIDE DEF next
<1>5. DoneOf(next, have) = DoneOf(calls, have)
  BY <1>2 DEF DoneOf
<1>6. ModulesAreLoaded(disk, next, have)
  <2>1. \A j, k \in 2..n : next[j].file = next[k].file => j = k
    <3>1. \A k \in 2..n : k \in 1..n
      BY <1>1
    <3>2. \A j, k \in 2..n : calls[j].file = calls[k].file => j = k
      BY DEF ModulesAreLoaded
    <3>3. QED
      BY <1>3, <3>1, <3>2
  <2>2. ASSUME NEW k \in 1..(n - 1)
        PROVE  AtUseOf(disk, next, k, next[k + 1].file)
    <3>1. k \in 1..n /\ k # n /\ k + 1 \in 1..n
      <4> HIDE DEF n
      <4>1. QED
        BY <1>1, <2>2
    <3>2. next[k].at = calls[k].at /\ next[k].file = calls[k].file
      BY <1>3, <1>4, <3>1
    <3>3. next[k + 1].file = calls[k + 1].file
      BY <1>3, <3>1
    <3>4. AtUseOf(disk, calls, k, calls[k + 1].file)
      BY DEF ModulesAreLoaded
    <3>5. QED
      BY <3>2, <3>3, <3>4 DEF AtUseOf
  <2>3. OfCalls(next) \subseteq have
    BY <1>2 DEF ModulesAreLoaded
  <2>4. QED
    BY <1>2, <2>1, <2>2, <2>3 DEF ModulesAreLoaded
<1>7. WhatIsDone(disk, next, have, out)
  <2>1. \A p \in DoneOf(next, have) : IsDone(disk, out, DoneOf(next, have), p)
    BY <1>5 DEF WhatIsDone
  <2>2. ASSUME NEW k \in 1..n, NEW i \in 1..(next[k].at - 1)
        PROVE  IsBehind(disk, out, DoneOf(next, have), next[k].file, i)
    <3>1. next[k].file = calls[k].file
      BY <1>3
    <3>2. CASE i \in 1..(calls[k].at - 1)
      <4>1. IsBehind(disk, out, DoneOf(calls, have), calls[k].file, i)
        BY <1>1, <3>2 DEF WhatIsDone
      <4>2. QED
        BY <1>5, <3>1, <4>1
    <3>3. CASE i \notin 1..(calls[k].at - 1)
      <4>1. k = n
        BY <1>1, <1>4, <2>2, <3>3
      <4>2. next[k].at = calls[n].at + 1 /\ calls[n].at \in Nat
        BY <1>1, <1>4, <4>1
      <4>3. i = calls[n].at
        <5> HIDE DEF n
        <5>1. QED
          BY <2>2, <3>3, <4>1, <4>2
      <4>4. QED
        BY <1>5, <3>1, <4>1, <4>3
    <3>4. QED
      BY <3>2, <3>3
  <2>3. QED
    BY <1>2, <2>1, <2>2 DEF WhatIsDone
<1>8. AllIsNeeded(disk, next, have)
  BY <1>1, <1>2, <1>3 DEF AllIsNeeded
<1>9. QED
  BY <1>2, <1>6, <1>7, <1>8 DEF next

LEMMA MovingSplices ==
  ASSUME NEW disk \in Projects, NEW calls, NEW have, NEW out,
         CallsFit(disk, calls), SplicedFrom(disk, calls, have, out),
         calls[Len(calls)].at <= Len(disk[calls[Len(calls)].file].body)
  PROVE  SplicedFrom(disk, MovedOn(calls), have, out)
<1> DEFINE next == MovedOn(calls)
<1>1. /\ DOMAIN next = DOMAIN calls /\ OfCalls(next) = OfCalls(calls)
      /\ DOMAIN calls = 1..Len(calls)
  BY CallMoves, CallsAre
<1>2. \A k \in 1..Len(calls) : next[k].file = calls[k].file
  BY CallMoves
<1>3. \A k \in 1..Len(calls) : next[k].at = IF k = Len(calls) THEN calls[k].at + 1 ELSE calls[k].at
  BY CallMoves
<1>4. \A k \in 1..Len(calls) : calls[k].at \in Nat
  BY CallsAre
<1> HIDE DEF next
<1>5. ASSUME Main \notin OfCalls(calls), NEW k \in 1..Len(calls), NEW e \in SetOf(out),
             e[1] = calls[k].file
      PROVE  e[2] < next[k].at
  <2>1. e[2] < calls[k].at /\ e \in Own(disk, e[1])
    BY <1>1, <1>5 DEF SplicedFrom
  <2>2. e[2] \in DOMAIN disk[calls[k].file].body
    BY <1>5, <2>1 DEF Own
  <2>3. e[2] \in Nat
    <3>1. calls[k].file \in DOMAIN disk
      BY CallsAre
    <3>2. DOMAIN disk[calls[k].file].body = 1..Len(disk[calls[k].file].body)
      BY <3>1, BodyOf
    <3>3. QED
      BY <2>2, <3>2
  <2>4. QED
    BY <1>3, <1>4, <2>1, <2>3
<1>6. ASSUME Main \notin OfCalls(next)
      PROVE  /\ OnlyOnce(out)
             /\ \A k \in DOMAIN next : \A e \in SetOf(out) : e[1] = next[k].file => e[2] < next[k].at
  <2>1. OnlyOnce(out)
    BY <1>1, <1>6 DEF SplicedFrom
  <2>2. QED
    BY <1>1, <1>2, <1>5, <1>6, <2>1
<1>7. IsSeq(out) /\ InOrder(disk, out) /\ \A e \in SetOf(out) : e[1] \in have \cup {Main} /\ e \in Own(disk, e[1])
  BY DEF SplicedFrom
<1>8. QED
  BY <1>6, <1>7 DEF SplicedFrom, next

(* The file of the innermost call is read to its end: all that it uses is  *)
(* done, and all its own statements are spliced.                           *)
LEMMA DoneIsComplete ==
  ASSUME NEW disk, NEW calls, NEW have, NEW out, WhatIsDone(disk, calls, have, out)
  PROVE  IsComplete(disk, DoneOf(calls, have))
BY DEF WhatIsDone, IsDone, IsComplete, PlacesOf, Parses

LEMMA LastIsRead ==
  ASSUME NEW disk \in Projects, NEW calls, NEW have, NEW out,
         CallsFit(disk, calls), WhatIsDone(disk, calls, have, out),
         calls[Len(calls)].at > Len(disk[calls[Len(calls)].file].body)
  PROVE  /\ UsedBy(disk, calls[Len(calls)].file) \subseteq DoneOf(calls, have)
         /\ Own(disk, calls[Len(calls)].file) \subseteq SetOf(out)
         /\ NeedsOf(disk, calls[Len(calls)].file) \subseteq DoneOf(calls, have)
<1> DEFINE f == calls[Len(calls)].file
           body == disk[f].body
           done == DoneOf(calls, have)
<1>0. Len(calls) \in 1..Len(calls) /\ DOMAIN calls = 1..Len(calls)
  <2>1. Len(calls) \in Nat /\ Len(calls) > 0 /\ DOMAIN calls = 1..Len(calls)
    BY CallsAre
  <2>2. QED
    BY <2>1
<1>1. Len(calls) \in DOMAIN calls /\ f \in DOMAIN disk
  BY <1>0, CallsAre
<1>2. Len(body) \in Nat /\ DOMAIN body = 1..Len(body)
  BY <1>1, BodyOf
<1>3. calls[Len(calls)].at \in Nat
  BY <1>0, CallsAre
<1>4. ASSUME NEW i \in DOMAIN body PROVE IsBehind(disk, out, done, f, i)
  <2>1. i \in 1..(calls[Len(calls)].at - 1)
    BY <1>2, <1>3
  <2>2. QED
    BY <1>1, <2>1 DEF WhatIsDone
<1>5. UsedBy(disk, f) \subseteq done
  BY <1>4 DEF UsedBy, IsBehind
<1>6. Own(disk, f) \subseteq SetOf(out)
  BY <1>4 DEF Own, IsBehind
<1>7. NeedsOf(disk, f) \subseteq done
  BY <1>1, <1>5, DoneIsComplete, NeedsAtMost
<1>8. QED
  BY <1>5, <1>6, <1>7

(* What the innermost call uses, all files of the calls need, and so the   *)
(* main file.                                                              *)
LEMMA UsedIsNeeded ==
  ASSUME NEW disk \in Projects, NEW calls, NEW have, NEW p,
         CallsFit(disk, calls), AllIsNeeded(disk, calls, have),
         AtUseOf(disk, calls, Len(calls), p)
  PROVE  /\ \A j \in 1..Len(calls) : p \in NeedsOf(disk, calls[j].file)
         /\ p \in NeedsOf(disk, Main)
<1> DEFINE n == Len(calls)
<1>1. n \in Nat /\ n > 0 /\ DOMAIN calls = 1..n /\ calls[1].file = Main
  BY CallsAre
<1>2. \A j \in 1..n : calls[j].file \in DOMAIN disk
  BY CallsAre
<1>3. p \in UsedBy(disk, calls[n].file)
  BY DEF AtUseOf, UsedBy
<1>4. ASSUME NEW j \in 1..n PROVE p \in NeedsOf(disk, calls[j].file)
  <2>1. CASE j = n
    BY <1>2, <1>3, <2>1, NeedsUses
  <2>2. CASE j # n
    <3>1. j < n /\ n \in DOMAIN calls /\ j \in DOMAIN calls
      <4> HIDE DEF n
      <4>1. QED
        BY <1>1, <1>4, <2>2
    <3>2. calls[n].file \in NeedsOf(disk, calls[j].file)
      BY <3>1 DEF AllIsNeeded
    <3>3. QED
      BY <1>1, <1>2, <1>3, <3>2, NeedsGoOn
  <2>3. QED
    BY <2>1, <2>2
<1>5. p \in NeedsOf(disk, calls[1].file)
  BY <1>1, <1>4
<1>6. QED
  BY <1>1, <1>4, <1>5

(* Should a module use the program itself, the call about it does not end: *)
(* it comes to the `use' that the first call stands at, and that module is *)
(* still being loaded.                                                     *)
LEMMA MainStaysOpen ==
  ASSUME NEW disk \in Projects, NEW calls, NEW have, NEW out,
         CallsFit(disk, calls), ModulesAreLoaded(disk, calls, have),
         WhatIsDone(disk, calls, have, out), Len(calls) > 1,
         calls[Len(calls)].at > Len(disk[calls[Len(calls)].file].body)
  PROVE  calls[Len(calls)].file # Main
<1>1. SUFFICES ASSUME calls[Len(calls)].file = Main PROVE FALSE
  OBVIOUS
<1>2. Len(calls) \in Nat /\ DOMAIN calls = 1..Len(calls) /\ calls[1].file = Main
  BY CallsAre
<1>3. AtUseOf(disk, calls, 1, calls[2].file)
  <2>1. 1 \in 1..(Len(calls) - 1) /\ 1 + 1 = 2
    BY <1>2
  <2>2. QED
    BY <2>1 DEF ModulesAreLoaded
<1>4. calls[2].file \in UsedBy(disk, Main)
  BY <1>2, <1>3 DEF AtUseOf, UsedBy
<1>5. calls[2].file \in DoneOf(calls, have)
  BY <1>1, <1>4, LastIsRead
<1>6. calls[2].file \in OfCalls(calls)
  BY <1>2 DEF OfCalls
<1>7. QED
  BY <1>5, <1>6 DEF DoneOf

LEMMA EndingKeeps ==
  ASSUME NEW disk \in Projects, NEW calls, NEW have, NEW out,
         Reads(disk, calls, have, out), Len(calls) # 1,
         calls[Len(calls)].at > Len(disk[calls[Len(calls)].file].body)
  PROVE  Reads(disk, MovedOn(OneLess(calls)), have, out)
<1> DEFINE n == Len(calls)
           f == calls[n].file
           rest == OneLess(calls)
<1>1. /\ CallsFit(disk, calls) /\ ModulesAreLoaded(disk, calls, have)
      /\ WhatIsDone(disk, calls, have, out) /\ SplicedFrom(disk, calls, have, out)
      /\ AllIsNeeded(disk, calls, have)
  BY DEF Reads
<1>2. n \in Nat /\ n > 1 /\ DOMAIN calls = 1..n
  BY <1>1, CallsAre, CallEnds
<1>3. /\ CallsFit(disk, rest) /\ Len(rest) = n - 1 /\ DOMAIN rest = 1..(n - 1)
      /\ OfCalls(calls) = OfCalls(rest) \cup {f}
  BY <1>1, CallEnds
<1>4. \A k \in 1..(n - 1) : rest[k] = calls[k]
  BY <1>1, CallEnds
<1>5. \A k \in 1..(n - 1) : k \in 1..n /\ k # n
  <2> HIDE DEF n
  <2>1. QED
    BY <1>2
<1> HIDE DEF rest
<1>6. f \in have /\ f \notin OfCalls(rest) /\ f # Main
  <2>1. \A j, k \in 2..n : calls[j].file = calls[k].file => j = k
    BY <1>1 DEF ModulesAreLoaded
  <2>2. OfCalls(rest) = {calls[k].file : k \in 2..(n - 1)}
    <3>1. \A k \in 2..(n - 1) : k \in 1..(n - 1)
      BY <1>2
    <3>2. QED
      BY <1>3, <1>4, <3>1 DEF OfCalls
  <2>3. n \in 2..n /\ \A k \in 2..(n - 1) : k \in 2..n /\ k # n
    <3> HIDE DEF n
    <3>1. QED
      BY <1>2
  <2>4. f \notin OfCalls(rest)
    BY <2>1, <2>2, <2>3
  <2>5. f \in have
    BY <1>1, <1>3 DEF ModulesAreLoaded
  <2>6. f # Main
    BY <1>1, <1>2, MainStaysOpen
  <2>7. QED
    BY <2>4, <2>5, <2>6
<1>7. DoneOf(rest, have) = DoneOf(calls, have) \cup {f} /\ f \notin DoneOf(calls, have)
  BY <1>3, <1>6 DEF DoneOf
<1>8. ModulesAreLoaded(disk, rest, have)
  <2>1. OfCalls(rest) \subseteq have
    BY <1>1, <1>3 DEF ModulesAreLoaded
  <2>2. \A j, k \in 2..(n - 1) : rest[j].file = rest[k].file => j = k
    <3>1. \A k \in 2..(n - 1) : k \in 2..n /\ k \in 1..(n - 1)
      BY <1>2
    <3>2. \A j, k \in 2..n : calls[j].file = calls[k].file => j = k
      BY <1>1 DEF ModulesAreLoaded
    <3>3. QED
      BY <1>4, <3>1, <3>2
  <2>3. ASSUME NEW k \in 1..(n - 2) PROVE AtUseOf(disk, rest, k, rest[k + 1].file)
    <3>1. k \in 1..(n - 1) /\ k + 1 \in 1..(n - 1)
      <4> HIDE DEF n
      <4>1. QED
        BY <1>2, <2>3
    <3>2. AtUseOf(disk, calls, k, calls[k + 1].file)
      BY <1>1, <3>1 DEF ModulesAreLoaded
    <3>3. QED
      BY <1>4, <3>1, <3>2 DEF AtUseOf
  <2>4. Len(rest) - 1 = n - 2
    BY <1>2, <1>3
  <2>5. QED
    BY <1>3, <2>1, <2>2, <2>3, <2>4 DEF ModulesAreLoaded
<1>9. WhatIsDone(disk, rest, have, out)
  <2>1. ASSUME NEW p \in DoneOf(rest, have) PROVE IsDone(disk, out, DoneOf(rest, have), p)
    <3>1. CASE p \in DoneOf(calls, have)
      BY <1>1, <1>7, <3>1 DEF WhatIsDone, IsDone
    <3>2. CASE p = f
      <4>1. Parses(disk, f)
        <5>1. n \in 1..n
          BY <1>2
        <5>2. QED
          BY <1>1, <5>1, CallsAre
      <4>2. QED
        BY <1>1, <1>7, <3>2, <4>1, LastIsRead DEF IsDone
    <3>3. QED
      BY <1>7, <3>1, <3>2
  <2>2. ASSUME NEW k \in 1..(n - 1), NEW i \in 1..(rest[k].at - 1)
        PROVE  IsBehind(disk, out, DoneOf(rest, have), rest[k].file, i)
    <3>1. IsBehind(disk, out, DoneOf(calls, have), calls[k].file, i)
      BY <1>1, <1>2, <1>4, <1>5, <2>2 DEF WhatIsDone
    <3>2. QED
      BY <1>4, <1>7, <2>2, <3>1, BehindKept
  <2>3. QED
    BY <1>3, <2>1, <2>2 DEF WhatIsDone
<1>10. AllIsNeeded(disk, rest, have)
  <2>1. ASSUME NEW j \in 1..(n - 1), NEW k \in 1..(n - 1), j < k
        PROVE  rest[k].file \in NeedsOf(disk, rest[j].file)
    <3>1. calls[k].file \in NeedsOf(disk, calls[j].file)
      BY <1>1, <1>2, <1>5, <2>1 DEF AllIsNeeded
    <3>2. QED
      BY <1>4, <3>1
  <2>2. QED
    BY <1>1, <1>3, <2>1 DEF AllIsNeeded
<1>11. SplicedFrom(disk, rest, have, out)
  <2>1. ASSUME Main \notin OfCalls(rest)
        PROVE  /\ OnlyOnce(out)
               /\ \A k \in DOMAIN rest : \A e \in SetOf(out) : e[1] = rest[k].file => e[2] < rest[k].at
    <3>1. Main \notin OfCalls(calls)
      BY <1>3, <1>6, <2>1
    <3>2. OnlyOnce(out)
      BY <1>1, <3>1 DEF SplicedFrom
    <3>3. \A k \in DOMAIN calls : \A e \in SetOf(out) : e[1] = calls[k].file => e[2] < calls[k].at
      BY <1>1, <3>1 DEF SplicedFrom
    <3>4. QED
      BY <1>2, <1>3, <1>4, <1>5, <3>2, <3>3
  <2>2. IsSeq(out) /\ InOrder(disk, out) /\ \A e \in SetOf(out) : e[1] \in have \cup {Main} /\ e \in Own(disk, e[1])
    BY <1>1 DEF SplicedFrom
  <2>3. QED
    BY <2>1, <2>2 DEF SplicedFrom
<1>12. /\ rest[Len(rest)].at <= Len(disk[rest[Len(rest)].file].body)
       /\ IsBehind(disk, out, DoneOf(rest, have), rest[Len(rest)].file, rest[Len(rest)].at)
  <2>1. n - 1 \in 1..(n - 1) /\ (n - 1) + 1 = n
    BY <1>2
  <2>2. AtUseOf(disk, calls, n - 1, f)
    BY <1>1, <2>1 DEF ModulesAreLoaded
  <2>3. rest[Len(rest)] = calls[n - 1]
    BY <1>3, <1>4, <2>1
  <2>4. calls[n - 1].file \in DOMAIN disk
    BY <1>1, <1>5, <2>1, CallsAre
  <2>5. DOMAIN disk[calls[n - 1].file].body = 1..Len(disk[calls[n - 1].file].body)
    BY <2>4, BodyOf
  <2>6. calls[n - 1].at <= Len(disk[calls[n - 1].file].body)
    BY <2>2, <2>5 DEF AtUseOf
  <2>7. IsBehind(disk, out, DoneOf(rest, have), calls[n - 1].file, calls[n - 1].at)
    BY <1>7, <2>2 DEF AtUseOf, IsBehind
  <2>8. QED
    BY <2>3, <2>6, <2>7
<1>13. /\ CallsFit(disk, MovedOn(rest)) /\ ModulesAreLoaded(disk, MovedOn(rest), have)
       /\ WhatIsDone(disk, MovedOn(rest), have, out) /\ AllIsNeeded(disk, MovedOn(rest), have)
  BY <1>3, <1>8, <1>9, <1>10, <1>12, MovingKeeps
<1>14. SplicedFrom(disk, MovedOn(rest), have, out)
  BY <1>3, <1>11, <1>12, MovingSplices
<1>15. QED
  BY <1>13, <1>14 DEF Reads, rest

LEMMA LoadingKeeps ==
  ASSUME NEW disk \in Projects, NEW calls, NEW have, NEW out, NEW p,
         Reads(disk, calls, have, out), AtUseOf(disk, calls, Len(calls), p),
         p \notin have, Parses(disk, p)
  PROVE  Reads(disk, OneMore(calls, p), have \cup {p}, out)
<1> DEFINE n == Len(calls)
           more == OneMore(calls, p)
           all == have \cup {p}
<1>1. /\ CallsFit(disk, calls) /\ ModulesAreLoaded(disk, calls, have)
      /\ WhatIsDone(disk, calls, have, out) /\ SplicedFrom(disk, calls, have, out)
      /\ AllIsNeeded(disk, calls, have)
  BY DEF Reads
<1>2. n \in Nat /\ n > 0 /\ DOMAIN calls = 1..n
  BY <1>1, CallsAre
<1>3. /\ CallsFit(disk, more) /\ Len(more) = n + 1 /\ DOMAIN more = 1..(n + 1)
      /\ OfCalls(more) = OfCalls(calls) \cup {p}
  BY <1>1, CallBegins
<1>4. \A k \in 1..n : more[k] = calls[k]
  BY <1>1, CallBegins
<1>5. more[n + 1].file = p /\ more[n + 1].at = 1
  <2>1. more[n + 1] = CallOn(p)
    BY <1>1, CallBegins
  <2>2. QED
    BY <2>1 DEF CallOn
<1> HIDE DEF more
<1>6. DoneOf(more, all) = DoneOf(calls, have)
  BY <1>3 DEF DoneOf
<1>7. ModulesAreLoaded(disk, more, all)
  <2>1. OfCalls(more) \subseteq all
    BY <1>1, <1>3 DEF ModulesAreLoaded
  <2>2. ASSUME NEW j \in 2..(n + 1), NEW k \in 2..(n + 1), more[j].file = more[k].file
        PROVE  j = k
    <3>1. \A i \in 2..(n + 1) : i = n + 1 \/ (i \in 2..n /\ i \in 1..n)
      <4> HIDE DEF n
      <4>1. QED
        BY <1>2
    <3>2. \A i \in 2..n : calls[i].file \in have
      BY <1>1 DEF ModulesAreLoaded, OfCalls
    <3>3. CASE j = n + 1 /\ k # n + 1
      BY <1>4, <1>5, <2>2, <3>1, <3>2, <3>3
    <3>4. CASE j # n + 1 /\ k = n + 1
      BY <1>4, <1>5, <2>2, <3>1, <3>2, <3>4
    <3>5. CASE j # n + 1 /\ k # n + 1
      <4>1. j \in 2..n /\ k \in 2..n /\ calls[j].file = calls[k].file
        BY <1>4, <2>2, <3>1, <3>5
      <4>2. QED
        BY <1>1, <4>1 DEF ModulesAreLoaded
    <3>6. QED
      BY <3>3, <3>4, <3>5
  <2>3. ASSUME NEW k \in 1..n PROVE AtUseOf(disk, more, k, more[k + 1].file)
    <3>1. CASE k = n
      BY <1>4, <1>5, <2>3, <3>1 DEF AtUseOf
    <3>2. CASE k # n
      <4>1. k \in 1..(n - 1) /\ k + 1 \in 1..n
        <5> HIDE DEF n
        <5>1. QED
          BY <1>2, <2>3, <3>2
      <4>2. AtUseOf(disk, calls, k, calls[k + 1].file)
        BY <1>1, <4>1 DEF ModulesAreLoaded
      <4>3. QED
        BY <1>4, <2>3, <4>1, <4>2 DEF AtUseOf
    <3>3. QED
      BY <3>1, <3>2
  <2>4. Len(more) - 1 = n
    BY <1>2, <1>3
  <2>5. QED
    BY <1>3, <2>1, <2>2, <2>3, <2>4 DEF ModulesAreLoaded
<1>8. WhatIsDone(disk, more, all, out)
  <2>1. \A q \in DoneOf(more, all) : IsDone(disk, out, DoneOf(more, all), q)
    BY <1>1, <1>6 DEF WhatIsDone
  <2>2. ASSUME NEW k \in 1..(n + 1), NEW i \in 1..(more[k].at - 1)
        PROVE  IsBehind(disk, out, DoneOf(more, all), more[k].file, i)
    <3>1. k # n + 1
      BY <1>5, <2>2
    <3>2. k \in 1..n
      <4> HIDE DEF n
      <4>1. QED
        BY <1>2, <2>2, <3>1
    <3>3. QED
      BY <1>1, <1>2, <1>4, <1>6, <2>2, <3>2 DEF WhatIsDone
  <2>3. QED
    BY <1>3, <2>1, <2>2 DEF WhatIsDone
<1>9. AllIsNeeded(disk, more, all)
  <2>1. (\A j \in 1..n : p \in NeedsOf(disk, calls[j].file)) /\ p \in NeedsOf(disk, Main)
    BY <1>1, UsedIsNeeded
  <2>2. ASSUME NEW j \in 1..(n + 1), NEW k \in 1..(n + 1), j < k
        PROVE  more[k].file \in NeedsOf(disk, more[j].file)
    <3>1. j \in 1..n /\ (k = n + 1 \/ k \in 1..n)
      <4> HIDE DEF n
      <4>1. QED
        BY <1>2, <2>2
    <3>2. CASE k = n + 1
      BY <1>4, <1>5, <2>1, <3>1, <3>2
    <3>3. CASE k \in 1..n
      <4>1. calls[k].file \in NeedsOf(disk, calls[j].file)
        BY <1>1, <1>2, <2>2, <3>1, <3>3 DEF AllIsNeeded
      <4>2. QED
        BY <1>4, <3>1, <3>3, <4>1
    <3>4. QED
      BY <3>1, <3>2, <3>3
  <2>3. QED
    BY <1>1, <1>3, <2>1, <2>2 DEF AllIsNeeded
<1>10. SplicedFrom(disk, more, all, out)
  <2>1. IsSeq(out) /\ InOrder(disk, out) /\ \A e \in SetOf(out) : e[1] \in have \cup {Main} /\ e \in Own(disk, e[1])
    BY <1>1 DEF SplicedFrom
  <2>2. ASSUME Main \notin OfCalls(more)
        PROVE  /\ OnlyOnce(out)
               /\ \A k \in DOMAIN more : \A e \in SetOf(out) : e[1] = more[k].file => e[2] < more[k].at
    <3>1. Main \notin OfCalls(calls) /\ p # Main
      BY <1>3, <2>2
    <3>2. OnlyOnce(out)
      BY <1>1, <3>1 DEF SplicedFrom
    <3>3. ASSUME NEW k \in DOMAIN more, NEW e \in SetOf(out), e[1] = more[k].file
          PROVE  e[2] < more[k].at
      <4>1. k # n + 1
        BY <1>5, <2>1, <3>1, <3>3
      <4>2. k \in 1..n
        <5> HIDE DEF n
        <5>1. QED
          BY <1>2, <1>3, <3>3, <4>1
      <4>3. e[2] < calls[k].at
        BY <1>1, <1>2, <1>4, <3>1, <3>3, <4>2 DEF SplicedFrom
      <4>4. QED
        BY <1>4, <4>2, <4>3
    <3>4. QED
      BY <3>2, <3>3
  <2>3. QED
    BY <2>1, <2>2 DEF SplicedFrom
<1>11. QED
  BY <1>3, <1>7, <1>8, <1>9, <1>10 DEF Reads, more

LEMMA SkippingKeeps ==
  ASSUME NEW disk \in Projects, NEW calls, NEW have, NEW out, NEW p,
         Reads(disk, calls, have, out), AtUseOf(disk, calls, Len(calls), p),
         p \in DoneOf(calls, have)
  PROVE  Reads(disk, MovedOn(calls), have, out)
<1>1. /\ CallsFit(disk, calls) /\ ModulesAreLoaded(disk, calls, have)
      /\ WhatIsDone(disk, calls, have, out) /\ SplicedFrom(disk, calls, have, out)
      /\ AllIsNeeded(disk, calls, have)
  BY DEF Reads
<1>2. Len(calls) \in 1..Len(calls)
  <2>1. Len(calls) \in Nat /\ Len(calls) > 0
    BY <1>1, CallsAre
  <2>2. QED
    BY <2>1
<1>3. calls[Len(calls)].at <= Len(disk[calls[Len(calls)].file].body)
  <2>1. calls[Len(calls)].file \in DOMAIN disk
    BY <1>1, <1>2, CallsAre
  <2>2. QED
    BY <2>1, BodyOf DEF AtUseOf
<1>4. IsBehind(disk, out, DoneOf(calls, have), calls[Len(calls)].file, calls[Len(calls)].at)
  BY DEF AtUseOf, IsBehind
<1>5. /\ CallsFit(disk, MovedOn(calls)) /\ ModulesAreLoaded(disk, MovedOn(calls), have)
      /\ WhatIsDone(disk, MovedOn(calls), have, out) /\ AllIsNeeded(disk, MovedOn(calls), have)
  BY <1>1, <1>3, <1>4, MovingKeeps
<1>6. SplicedFrom(disk, MovedOn(calls), have, out)
  BY <1>1, <1>3, MovingSplices
<1>7. QED
  BY <1>5, <1>6 DEF Reads

(* What a `use' that is behind stands for has been spliced.                *)
LEMMA BehindIsSpliced ==
  ASSUME NEW disk \in Projects, NEW calls, NEW have, NEW out, WhatIsDone(disk, calls, have, out),
         NEW p, NEW i, IsBehind(disk, out, DoneOf(calls, have), p, i)
  PROVE  StandsFor(disk, Graph(disk), p, i) \subseteq SetOf(out)
<1> DEFINE u == UsesOf(disk, p, i)
           done == DoneOf(calls, have)
<1>1. CASE Stays(disk[p].body[i])
  BY <1>1 DEF StandsFor, IsBehind
<1>2. CASE ~Stays(disk[p].body[i])
  <2>1. u \in done
    BY <1>2 DEF IsBehind
  <2>2. Parses(disk, u) /\ UsedBy(disk, u) \subseteq done
    BY <2>1 DEF WhatIsDone, IsDone
  <2>3. NeedsOf(disk, u) \subseteq done
    BY <2>2, DoneIsComplete, NeedsAtMost DEF Parses
  <2>4. \A q \in done : Own(disk, q) \subseteq SetOf(out)
    BY DEF WhatIsDone, IsDone
  <2>5. StandsFor(disk, Graph(disk), p, i) = UNION {Own(disk, q) : q \in {u} \cup NeedsOf(disk, u)}
    BY <1>2 DEF StandsFor, NeedsOf
  <2>6. QED
    BY <2>1, <2>3, <2>4, <2>5
<1>3. QED
  BY <1>1, <1>2

LEMMA KeepingKeeps ==
  ASSUME NEW disk \in Projects, NEW calls, NEW have, NEW out, NEW p, NEW i,
         Reads(disk, calls, have, out), p = calls[Len(calls)].file, i = calls[Len(calls)].at,
         i <= Len(disk[p].body), Stays(disk[p].body[i])
  PROVE  Reads(disk, MovedOn(calls), have, Append(out, <<p, i>>))
<1> DEFINE n == Len(calls)
           more == Append(out, <<p, i>>)
           next == MovedOn(calls)
<1>1. /\ CallsFit(disk, calls) /\ ModulesAreLoaded(disk, calls, have)
      /\ WhatIsDone(disk, calls, have, out) /\ SplicedFrom(disk, calls, have, out)
      /\ AllIsNeeded(disk, calls, have)
  BY DEF Reads
<1>2. n \in Nat /\ n > 0 /\ DOMAIN calls = 1..n /\ n \in 1..n
  <2>1. n \in Nat /\ n > 0 /\ DOMAIN calls = 1..n
    BY <1>1, CallsAre
  <2>2. QED
    BY <2>1
<1>3. /\ p \in DOMAIN disk /\ i \in Nat /\ i > 0 /\ i \in DOMAIN disk[p].body
      /\ DOMAIN disk[p].body = 1..Len(disk[p].body) /\ Len(disk[p].body) \in Nat
  <2>1. p \in DOMAIN disk /\ i \in Nat /\ i > 0
    BY <1>1, <1>2, CallsAre
  <2>2. DOMAIN disk[p].body = 1..Len(disk[p].body) /\ Len(disk[p].body) \in Nat
    BY <2>1, BodyOf
  <2>3. i \in 1..Len(disk[p].body)
    BY <2>1, <2>2
  <2>4. QED
    BY <2>1, <2>2, <2>3
<1>4. /\ IsSeq(more) /\ Len(out) \in Nat /\ DOMAIN out = 1..Len(out)
      /\ DOMAIN more = 1..(Len(out) + 1)
      /\ \A a \in 1..Len(out) : more[a] = out[a]
      /\ more[Len(out) + 1] = <<p, i>>
  BY <1>1, Appended DEF SplicedFrom
<1> HIDE DEF more, next
<1>5. SetOf(more) = SetOf(out) \cup {<<p, i>>}
  <2>1. \A a \in 1..(Len(out) + 1) : a = Len(out) + 1 \/ a \in 1..Len(out)
    BY <1>4
  <2>2. \A a \in 1..Len(out) : a \in 1..(Len(out) + 1)
    BY <1>4
  <2>3. Len(out) + 1 \in 1..(Len(out) + 1)
    BY <1>4
  <2>4. SetOf(out) = {out[a] : a \in 1..Len(out)} /\ SetOf(more) = {more[a] : a \in 1..(Len(out) + 1)}
    BY <1>4 DEF SetOf
  <2>5. QED
    BY <1>4, <2>1, <2>2, <2>3, <2>4
<1>6. WhatIsDone(disk, calls, have, more)
  <2>1. \A q \in DoneOf(calls, have) : IsDone(disk, more, DoneOf(calls, have), q)
    BY <1>1, <1>5 DEF WhatIsDone, IsDone
  <2>2. ASSUME NEW k \in DOMAIN calls, NEW j \in 1..(calls[k].at - 1)
        PROVE  IsBehind(disk, more, DoneOf(calls, have), calls[k].file, j)
    BY <1>1, <1>5, <2>2, BehindKept DEF WhatIsDone
  <2>3. QED
    BY <2>1, <2>2 DEF WhatIsDone
<1>7. IsBehind(disk, more, DoneOf(calls, have), p, i)
  BY <1>5 DEF IsBehind
<1>8. /\ CallsFit(disk, next) /\ ModulesAreLoaded(disk, next, have)
      /\ WhatIsDone(disk, next, have, more) /\ AllIsNeeded(disk, next, have)
  BY <1>1, <1>6, <1>7, MovingKeeps DEF next
<1>9. p \in have \cup {Main} /\ <<p, i>> \in Own(disk, p)
  <2>1. p \in have \cup {Main}
    <3>1. CASE n = 1
      BY <1>1, <3>1, CallsAre
    <3>2. CASE n # 1
      <4>1. n \in 2..n
        BY <1>2, <3>2
      <4>2. QED
        BY <1>1, <4>1 DEF ModulesAreLoaded, OfCalls
    <3>3. QED
      BY <3>1, <3>2
  <2>2. QED
    BY <1>3, <2>1 DEF Own
<1>10. \A e \in SetOf(more) : e[1] \in have \cup {Main} /\ e \in Own(disk, e[1])
  BY <1>1, <1>5, <1>9 DEF SplicedFrom
<1>11. ASSUME Main \notin OfCalls(next)
       PROVE  /\ OnlyOnce(more)
              /\ \A k \in DOMAIN next : \A e \in SetOf(more) : e[1] = next[k].file => e[2] < next[k].at
  <2>1. /\ DOMAIN next = 1..n /\ OfCalls(next) = OfCalls(calls)
        /\ \A k \in 1..n : next[k].file = calls[k].file
    BY <1>1, CallMoves DEF next
  <2>2. \A k \in 1..n : next[k].at = IF k = n THEN calls[k].at + 1 ELSE calls[k].at
    BY <1>1, CallMoves DEF next
  <2>3. OnlyOnce(out)
    BY <1>1, <1>11, <2>1 DEF SplicedFrom
  <2>4. \A k \in 1..n : \A e \in SetOf(out) : e[1] = calls[k].file => e[2] < calls[k].at
    BY <1>1, <1>2, <1>11, <2>1 DEF SplicedFrom
  <2>5. <<p, i>> \notin SetOf(out)
    <3>1. SUFFICES ASSUME <<p, i>> \in SetOf(out) PROVE FALSE
      OBVIOUS
    <3>2. i < i
      BY <1>2, <2>4, <3>1
    <3>3. QED
      BY <1>3, <3>2
  <2>6. OnlyOnce(more)
    <3>1. ASSUME NEW a \in 1..(Len(out) + 1), NEW b \in 1..(Len(out) + 1), more[a] = more[b]
          PROVE  a = b
      <4>1. \A c \in 1..(Len(out) + 1) : c = Len(out) + 1 \/ c \in 1..Len(out)
        BY <1>4
      <4>2. \A c \in 1..Len(out) : more[c] \in SetOf(out) /\ more[c] = out[c]
        BY <1>4 DEF SetOf
      <4>3. CASE a \in 1..Len(out) /\ b \in 1..Len(out)
        BY <1>4, <2>3, <3>1, <4>2, <4>3 DEF OnlyOnce
      <4>4. CASE a \in 1..Len(out) /\ b = Len(out) + 1
        BY <1>4, <2>5, <3>1, <4>2, <4>4
      <4>5. CASE a = Len(out) + 1 /\ b \in 1..Len(out)
        BY <1>4, <2>5, <3>1, <4>2, <4>5
      <4>6. CASE a = Len(out) + 1 /\ b = Len(out) + 1
        BY <4>6
      <4>7. QED
        BY <4>1, <4>3, <4>4, <4>5, <4>6
    <3>2. QED
      BY <1>4, <3>1 DEF OnlyOnce
  <2>7. ASSUME NEW k \in 1..n, NEW e \in SetOf(more), e[1] = next[k].file
        PROVE  e[2] < next[k].at
    <3>1. calls[k].at \in Nat
      BY <1>1, CallsAre
    <3>2. CASE e \in SetOf(out)
      <4>1. e[2] < calls[k].at
        BY <2>1, <2>4, <2>7, <3>2
      <4>2. e \in Own(disk, e[1]) /\ e[1] = calls[k].file /\ calls[k].file \in DOMAIN disk
        BY <1>1, <1>10, <2>1, <2>7, CallsAre
      <4>3. e[2] \in DOMAIN disk[calls[k].file].body
        BY <4>2 DEF Own
      <4>4. e[2] \in Nat
        <5>1. DOMAIN disk[calls[k].file].body = 1..Len(disk[calls[k].file].body)
          BY <4>2, BodyOf
        <5>2. QED
          BY <4>3, <5>1
      <4>5. QED
        BY <2>2, <3>1, <4>1, <4>4
    <3>3. CASE e = <<p, i>>
      <4>1. calls[k].file = calls[n].file
        BY <2>1, <2>7, <3>3
      <4>2. k = n
        <5>1. \A j, m \in 2..n : calls[j].file = calls[m].file => j = m
          BY <1>1 DEF ModulesAreLoaded
        <5>2. \A j \in 2..n : calls[j].file # Main
          BY <1>11, <2>1 DEF OfCalls
        <5>3. \A j \in 1..n : j = 1 \/ j \in 2..n
          <6> HIDE DEF n
          <6>1. QED
            BY <1>2
        <5>4. calls[1].file = Main
          BY <1>1, CallsAre
        <5>5. CASE k \in 2..n /\ n \in 2..n
          BY <4>1, <5>1, <5>5
        <5>6. CASE k = 1
          BY <1>2, <4>1, <5>2, <5>3, <5>4, <5>6
        <5>7. CASE n = 1
          BY <2>7, <5>7
        <5>8. QED
          BY <1>2, <5>3, <5>5, <5>6, <5>7
      <4>3. next[k].at = i + 1
        BY <2>2, <4>2
      <4>4. QED
        BY <1>3, <3>3, <4>3
    <3>4. QED
      BY <1>5, <3>2, <3>3
  <2>8. QED
    BY <2>1, <2>6, <2>7
<1>12. InOrder(disk, more)
  <2>1. ASSUME NEW b \in 1..(Len(out) + 1), NEW j \in 1..(more[b][2] - 1)
        PROVE  StandsFor(disk, Graph(disk), more[b][1], j) \subseteq {more[a] : a \in 1..(b - 1)}
    <3>1. CASE b \in 1..Len(out)
      <4>1. \A a \in 1..(b - 1) : a \in 1..Len(out)
        BY <1>4, <3>1
      <4>2. {more[a] : a \in 1..(b - 1)} = {out[a] : a \in 1..(b - 1)}
        BY <1>4, <4>1
      <4>3. StandsFor(disk, Graph(disk), out[b][1], j) \subseteq {out[a] : a \in 1..(b - 1)}
        BY <1>1, <1>4, <2>1, <3>1 DEF SplicedFrom, InOrder
      <4>4. QED
        BY <1>4, <3>1, <4>2, <4>3
    <3>2. CASE b = Len(out) + 1
      <4>1. more[b][1] = p /\ more[b][2] = i
        BY <1>4, <3>2
      <4>2. IsBehind(disk, out, DoneOf(calls, have), p, j)
        BY <1>1, <1>2, <2>1, <4>1 DEF WhatIsDone
      <4>3. StandsFor(disk, Graph(disk), p, j) \subseteq SetOf(out)
        BY <1>1, <4>2, BehindIsSpliced
      <4>4. (Len(out) + 1) - 1 = Len(out)
        BY <1>4
      <4>5. {more[a] : a \in 1..Len(out)} = SetOf(out)
        BY <1>4 DEF SetOf
      <4>6. QED
        BY <3>2, <4>1, <4>3, <4>4, <4>5
    <3>3. QED
      BY <1>4, <3>1, <3>2
  <2>2. QED
    BY <1>4, <2>1 DEF InOrder
<1>13. SplicedFrom(disk, next, have, more)
  BY <1>4, <1>10, <1>11, <1>12 DEF SplicedFrom
<1>14. QED
  BY <1>8, <1>13 DEF Reads, next, more

(***************************************************************************)
(* The end, and the errors.  At the end of the main file nothing is being  *)
(* loaded, so what is loaded is done, and is what the main file needs.     *)
(***************************************************************************)
LEMMA EndIsRight ==
  ASSUME NEW disk \in Projects, NEW calls, NEW have, NEW out,
         Reads(disk, calls, have, out), Len(calls) = 1,
         calls[Len(calls)].at > Len(disk[calls[Len(calls)].file].body)
  PROVE  /\ <<>> \notin NeedsOf(disk, Main)
         /\ \A p \in NeedsOf(disk, Main) : p \notin NeedsOf(disk, p) /\ Parses(disk, p)
         /\ SetOf(out) = UNION {Own(disk, p) : p \in NeedsOf(disk, Main) \cup {Main}}
         /\ OnlyOnce(out) /\ InOrder(disk, out)
<1>1. /\ CallsFit(disk, calls) /\ WhatIsDone(disk, calls, have, out)
      /\ SplicedFrom(disk, calls, have, out) /\ AllIsNeeded(disk, calls, have)
  BY DEF Reads
<1>2. calls[Len(calls)].file = Main
  BY <1>1, CallsAre
<1>3. OfCalls(calls) = {} /\ DoneOf(calls, have) = have
  BY DEF OfCalls, DoneOf
<1>4. NeedsOf(disk, Main) = have
  <2>1. NeedsOf(disk, Main) \subseteq have
    BY <1>1, <1>2, <1>3, LastIsRead
  <2>2. QED
    BY <1>1, <2>1 DEF AllIsNeeded
<1>5. \A p \in have : IsDone(disk, out, have, p)
  BY <1>1, <1>3 DEF WhatIsDone
<1>6. \A p \in have : p \notin NeedsOf(disk, p) /\ Parses(disk, p)
  BY <1>5 DEF IsDone
<1>7. <<>> \notin have
  BY <1>6, UseAssumption DEF Parses
<1>8. SetOf(out) = UNION {Own(disk, p) : p \in have \cup {Main}}
  <2>1. Own(disk, Main) \subseteq SetOf(out)
    BY <1>1, <1>2, LastIsRead
  <2>2. \A p \in have : Own(disk, p) \subseteq SetOf(out)
    BY <1>5 DEF IsDone
  <2>3. \A e \in SetOf(out) : e[1] \in have \cup {Main} /\ e \in Own(disk, e[1])
    BY <1>1 DEF SplicedFrom
  <2>4. QED
    BY <2>1, <2>2, <2>3
<1>9. OnlyOnce(out) /\ InOrder(disk, out)
  BY <1>1, <1>3 DEF SplicedFrom
<1>10. QED
  BY <1>4, <1>6, <1>7, <1>8, <1>9

LEMMA ErrorIsRight ==
  ASSUME NEW disk \in Projects, NEW calls, NEW have, NEW out, NEW p,
         Reads(disk, calls, have, out), AtUseOf(disk, calls, Len(calls), p)
  PROVE  /\ p \in NeedsOf(disk, Main)
         /\ p \in OfCalls(calls) => p \in NeedsOf(disk, p)
<1>1. CallsFit(disk, calls) /\ AllIsNeeded(disk, calls, have)
  BY DEF Reads
<1>2. (\A j \in 1..Len(calls) : p \in NeedsOf(disk, calls[j].file)) /\ p \in NeedsOf(disk, Main)
  BY <1>1, UsedIsNeeded
<1>3. ASSUME p \in OfCalls(calls) PROVE p \in NeedsOf(disk, p)
  <2>1. PICK k \in 2..Len(calls) : p = calls[k].file
    BY <1>3 DEF OfCalls
  <2>2. Len(calls) \in Nat
    BY <1>1, CallsAre
  <2>3. k \in 1..Len(calls)
    BY <2>2
  <2>4. QED
    BY <1>2, <2>1, <2>3
<1>4. QED
  BY <1>2, <1>3

LEMMA ReadingBegins ==
  ASSUME NEW disk \in Projects, Parses(disk, Main)
  PROVE  Reads(disk, <<CallOn(Main)>>, {}, <<>>)
<1> DEFINE calls == <<CallOn(Main)>>
<1>1. Len(calls) = 1 /\ DOMAIN calls = {1} /\ calls[1].file = Main /\ calls[1].at = 1
  BY DEF CallOn
<1>2. CallsFit(disk, calls)
  <2>1. CallOn(Main) \in PlacesIn(disk)
    BY DEF CallOn, Parses, PlacesIn
  <2>2. calls \in Seq(PlacesIn(disk)) /\ calls # <<>>
    BY <2>1
  <2>3. 1 <= Len(disk[Main].body) + 1
    <3>1. Len(disk[Main].body) \in Nat
      BY BodyOf DEF Parses
    <3>2. QED
      BY <3>1
  <2>4. QED
    BY <1>1, <2>2, <2>3 DEF CallsFit
<1> HIDE DEF calls
<1>3. OfCalls(calls) = {} /\ DoneOf(calls, {}) = {}
  BY <1>1 DEF OfCalls, DoneOf
<1>4. ModulesAreLoaded(disk, calls, {})
  BY <1>1, <1>3 DEF ModulesAreLoaded
<1>5. WhatIsDone(disk, calls, {}, <<>>)
  BY <1>1, <1>3 DEF WhatIsDone
<1>6. IsSeq(<<>>) /\ SetOf(<<>>) = {}
  BY DEF IsSeq, SetOf
<1>7. SplicedFrom(disk, calls, {}, <<>>)
  BY <1>6, NoDomain DEF SplicedFrom, InOrder, OnlyOnce
<1>8. AllIsNeeded(disk, calls, {})
  BY <1>1 DEF AllIsNeeded
<1>9. QED
  BY <1>2, <1>4, <1>5, <1>7, <1>8 DEF Reads, calls

-----------------------------------------------------------------------------
LEMMA ErrorsBecome ==
  ASSUME NEW disk, NEW out
  PROVE  /\ <<>> \in NeedsOf(disk, Main) => Becomes(disk, "not found", out)
         /\ (\E p \in NeedsOf(disk, Main) : p \in NeedsOf(disk, p)) => Becomes(disk, "circular", out)
         /\ (\E p \in NeedsOf(disk, Main) \ {<<>>} : ~Parses(disk, p)) => Becomes(disk, "in module", out)
<1>1. <<>> \in NeedsOf(disk, Main) => Becomes(disk, "not found", out)
  BY DEF Becomes, NeedsOf
<1>2. (\E p \in NeedsOf(disk, Main) : p \in NeedsOf(disk, p)) => Becomes(disk, "circular", out)
  BY DEF Becomes, NeedsOf
<1>3. (\E p \in NeedsOf(disk, Main) \ {<<>>} : ~Parses(disk, p)) => Becomes(disk, "in module", out)
  BY DEF Becomes, NeedsOf
<1>4. QED
  BY <1>1, <1>2, <1>3

LEMMA EndBecomes ==
  ASSUME NEW disk, NEW out,
         <<>> \notin NeedsOf(disk, Main),
         \A p \in NeedsOf(disk, Main) : p \notin NeedsOf(disk, p) /\ Parses(disk, p),
         SetOf(out) = UNION {Own(disk, p) : p \in NeedsOf(disk, Main) \cup {Main}},
         OnlyOnce(out), InOrder(disk, out)
  PROVE  Becomes(disk, "", out)
BY DEF Becomes, NeedsOf, OnlyOnce, InOrder

LEMMA StillReading ==
  ASSUME UseInv, reading' # <<>>, program' # <<>>, raised' = "",
         Reads(program', reading', loaded', spliced')
  PROVE  UseInv'
<1>1. ExpansionIsRight'
  BY DEF ExpansionIsRight
<1>2. QED
  BY <1>1 DEF UseInv

LEMMA ReadsIsReading ==
  ASSUME NEW disk, NEW calls, NEW have, NEW out, Reads(disk, calls, have, out)
  PROVE  calls # <<>> /\ disk \in Projects /\ CallsFit(disk, calls) /\ disk # <<>>
<1>1. calls # <<>> /\ disk \in Projects /\ CallsFit(disk, calls)
  BY DEF Reads, CallsFit
<1>2. 1 \in 1..Len(calls)
  <2>1. Len(calls) \in Nat /\ Len(calls) > 0
    BY <1>1, CallsAre
  <2>2. QED
    BY <2>1
<1>3. calls[1].file \in DOMAIN disk
  BY <1>1, <1>2, CallsAre
<1>4. QED
  BY <1>1, <1>3, NoDomain

LEMMA WhileReading ==
  ASSUME UseInv, reading # <<>>
  PROVE  /\ Reads(program, reading, loaded, spliced) /\ raised = ""
         /\ program \in Projects /\ CallsFit(program, reading) /\ program # <<>>
         /\ Innermost.file \in DOMAIN program
         /\ Innermost.at \in Nat /\ Innermost.at > 0
         /\ Loading = OfCalls(reading)
<1>1. Reads(program, reading, loaded, spliced) /\ raised = ""
  BY DEF UseInv
<1>2. program \in Projects /\ CallsFit(program, reading) /\ program # <<>>
  BY <1>1, ReadsIsReading
<1>3. Len(reading) \in 1..Len(reading)
  <2>1. Len(reading) \in Nat /\ Len(reading) > 0
    BY <1>2, CallsAre
  <2>2. QED
    BY <2>1
<1>4. QED
  BY <1>1, <1>2, <1>3, CallsAre DEF Innermost, Loading, OfCalls

LEMMA AtUseIs ==
  ASSUME UseInv, AtStatement, ~Stays(Statement)
  PROVE  AtUseOf(program, reading, Len(reading), Found)
<1>1. /\ program \in Projects /\ Innermost.file \in DOMAIN program
      /\ Innermost.at \in Nat /\ Innermost.at > 0
  BY WhileReading DEF AtStatement
<1>2. /\ DOMAIN program[Innermost.file].body = 1..Len(program[Innermost.file].body)
      /\ Len(program[Innermost.file].body) \in Nat
  BY <1>1, BodyOf
<1>3. Innermost.at \in DOMAIN program[Innermost.file].body
  BY <1>1, <1>2 DEF AtStatement
<1>4. QED
  BY <1>3 DEF AtUseOf, UsesOf, Found, Statement, Innermost

LEMMA ReadKeeps ==
  ASSUME UseInv, NEW disk \in Projects, ReadProgram(disk)
  PROVE  UseInv'
<1>1. /\ program = <<>> /\ reading = <<>> /\ loaded = {} /\ spliced = <<>> /\ raised = ""
      /\ program' = disk /\ loaded' = {} /\ spliced' = <<>> /\ raised' = ""
  BY DEF UseInv, ReadProgram
<1>2. CASE Parses(disk, Main)
  <2>1. reading' = <<CallOn(Main)>>
    BY <1>2 DEF ReadProgram
  <2>2. Reads(program', reading', loaded', spliced')
    BY <1>1, <1>2, <2>1, ReadingBegins
  <2>3. reading' # <<>> /\ program' # <<>>
    BY <2>2, ReadsIsReading
  <2>4. QED
    BY <1>1, <2>2, <2>3, StillReading
<1>3. CASE ~Parses(disk, Main)
  <2>1. reading' = <<>> /\ ~Parses(program', Main)
    BY <1>1, <1>3 DEF ReadProgram
  <2>2. ExpansionIsRight'
    BY <2>1 DEF ExpansionIsRight
  <2>3. QED
    BY <1>1, <2>1, <2>2 DEF UseInv
<1>4. QED
  BY <1>2, <1>3

LEMMA KeepStatementKeeps ==
  ASSUME UseInv, KeepStatement
  PROVE  UseInv'
<1>1. /\ Reads(program, reading, loaded, spliced) /\ raised = "" /\ program \in Projects
      /\ program # <<>>
  BY WhileReading DEF KeepStatement, AtStatement
<1>2. Reads(program, MovedOn(reading), loaded, Append(spliced, <<Innermost.file, Innermost.at>>))
  BY <1>1, KeepingKeeps DEF KeepStatement, AtStatement, Statement, Innermost
<1>3. /\ program' = program /\ loaded' = loaded /\ raised' = raised
      /\ spliced' = Append(spliced, <<Innermost.file, Innermost.at>>)
      /\ reading' = MovedOn(reading)
  BY DEF KeepStatement, NextOf, MovedOn
<1>4. QED
  BY <1>1, <1>2, <1>3, ReadsIsReading, StillReading

LEMMA SkipUseKeeps ==
  ASSUME UseInv, AtStatement, ~Stays(Statement), SkipUse(Found)
  PROVE  UseInv'
<1>1. /\ Reads(program, reading, loaded, spliced) /\ raised = "" /\ program \in Projects
      /\ program # <<>> /\ Loading = OfCalls(reading)
  BY WhileReading DEF AtStatement
<1>2. Found \in DoneOf(reading, loaded)
  BY <1>1 DEF SkipUse, Skip, DoneOf
<1>3. Reads(program, MovedOn(reading), loaded, spliced)
  BY <1>1, <1>2, AtUseIs, SkippingKeeps
<1>4. /\ program' = program /\ loaded' = loaded /\ raised' = raised /\ spliced' = spliced
      /\ reading' = MovedOn(reading)
  BY DEF SkipUse, NextOf, MovedOn
<1>5. QED
  BY <1>1, <1>3, <1>4, ReadsIsReading, StillReading

LEMMA LoadModuleKeeps ==
  ASSUME UseInv, AtStatement, ~Stays(Statement), LoadModule(Found)
  PROVE  UseInv'
<1>1. /\ Reads(program, reading, loaded, spliced) /\ raised = "" /\ program \in Projects
      /\ program # <<>>
  BY WhileReading DEF AtStatement
<1>2. Reads(program, OneMore(reading, Found), loaded \cup {Found}, spliced)
  BY <1>1, AtUseIs, LoadingKeeps DEF LoadModule
<1>3. /\ program' = program /\ loaded' = loaded \cup {Found} /\ raised' = raised
      /\ spliced' = spliced /\ reading' = OneMore(reading, Found)
  BY DEF LoadModule, OneMore
<1>4. QED
  BY <1>1, <1>2, <1>3, ReadsIsReading, StillReading

LEMMA RaiseErrorKeeps ==
  ASSUME UseInv, AtStatement, ~Stays(Statement), RaiseError(Found)
  PROVE  UseInv'
<1>1. /\ Reads(program, reading, loaded, spliced) /\ program \in Projects
      /\ program # <<>> /\ Loading = OfCalls(reading)
  BY WhileReading DEF AtStatement
<1>2. /\ Found \in NeedsOf(program, Main)
      /\ Found \in OfCalls(reading) => Found \in NeedsOf(program, Found)
  BY <1>1, AtUseIs, ErrorIsRight
<1>3. reading' = <<>> /\ program' = program /\ spliced' = spliced
  BY DEF RaiseError
<1>4. ASSUME Found = <<>> /\ raised' = "not found"
      PROVE  ExpansionIsRight'
  <2>1. Becomes(program, "not found", spliced)
    BY <1>2, <1>4, ErrorsBecome
  <2>2. QED
    BY <1>3, <1>4, <2>1 DEF ExpansionIsRight
<1>5. ASSUME Found \in Loading /\ raised' = "circular"
      PROVE  ExpansionIsRight'
  <2>1. Becomes(program, "circular", spliced)
    BY <1>1, <1>2, <1>5, ErrorsBecome
  <2>2. QED
    BY <1>3, <1>5, <2>1 DEF ExpansionIsRight
<1>6. ASSUME Found \in DOMAIN program \ loaded /\ ~Parses(program, Found) /\ raised' = "in module"
      PROVE  ExpansionIsRight'
  <2>1. Becomes(program, "in module", spliced)
    BY <1>1, <1>2, <1>6, UseAssumption, ErrorsBecome
  <2>2. QED
    BY <1>3, <1>6, <2>1 DEF ExpansionIsRight
<1>7. ExpansionIsRight'
  BY <1>4, <1>5, <1>6 DEF RaiseError
<1>8. QED
  BY <1>1, <1>3, <1>7 DEF UseInv

LEMMA EndOfFileKeeps ==
  ASSUME UseInv, EndOfFile
  PROVE  UseInv'
<1>1. /\ Reads(program, reading, loaded, spliced) /\ program \in Projects
      /\ program # <<>> /\ raised = ""
  BY WhileReading DEF EndOfFile
<1>2. /\ reading[Len(reading)].at > Len(program[reading[Len(reading)].file].body)
      /\ program' = program /\ loaded' = loaded /\ raised' = raised /\ spliced' = spliced
  BY DEF EndOfFile, Innermost
<1>3. CASE Len(reading) = 1
  <2>1. reading' = <<>>
    BY <1>3 DEF EndOfFile
  <2>2. /\ <<>> \notin NeedsOf(program, Main)
        /\ \A p \in NeedsOf(program, Main) : p \notin NeedsOf(program, p) /\ Parses(program, p)
        /\ SetOf(spliced) = UNION {Own(program, p) : p \in NeedsOf(program, Main) \cup {Main}}
        /\ OnlyOnce(spliced) /\ InOrder(program, spliced)
    BY <1>1, <1>2, <1>3, EndIsRight
  <2>3. ExpansionIsRight'
    BY <1>1, <1>2, <2>1, <2>2, EndBecomes DEF ExpansionIsRight
  <2>4. QED
    BY <1>1, <1>2, <2>1, <2>3 DEF UseInv
<1>4. CASE Len(reading) # 1
  <2>1. reading' = MovedOn(OneLess(reading))
    BY <1>4 DEF EndOfFile, NextOf, MovedOn, OneLess
  <2>2. Reads(program, MovedOn(OneLess(reading)), loaded, spliced)
    BY <1>1, <1>2, <1>4, EndingKeeps
  <2>3. QED
    BY <1>1, <1>2, <2>1, <2>2, ReadsIsReading, StillReading
<1>5. QED
  BY <1>3, <1>4

(* Reading keeps to UseInv: for every set of directories, whatever the     *)
(* files in them use and however deep.                                     *)
THEOREM UseInvariance == UseSpec => []UseInv
<1>1. UseInit => UseInv
  <2>1. SUFFICES ASSUME UseInit PROVE UseInv
    OBVIOUS
  <2>2. ~Parses(<<>>, Main)
    <3>1. DOMAIN <<>> = {}
      BY NoDomain
    <3>2. Main \notin DOMAIN <<>>
      BY <3>1
    <3>3. QED
      BY <3>2 DEF Parses
  <2>3. ExpansionIsRight
    BY <2>1, <2>2 DEF UseInit, ExpansionIsRight
  <2>4. QED
    BY <2>1, <2>3 DEF UseInit, UseInv
<1>2. UseInv /\ [UseNext]_useVars => UseInv'
  <2>1. SUFFICES ASSUME UseInv, [UseNext]_useVars PROVE UseInv'
    OBVIOUS
  <2>2. CASE KeepStatement
    BY <2>1, <2>2, KeepStatementKeeps
  <2>3. CASE UseStatement
    BY <2>1, <2>3, SkipUseKeeps, LoadModuleKeeps, RaiseErrorKeeps DEF UseStatement
  <2>4. CASE EndOfFile
    BY <2>1, <2>4, EndOfFileKeeps
  <2>5. CASE \E disk \in Projects : ReadProgram(disk)
    BY <2>1, <2>5, ReadKeeps
  <2>6. CASE UNCHANGED useVars
    BY <2>1, <2>6 DEF useVars, UseInv, ExpansionIsRight
  <2>7. QED
    BY <2>1, <2>2, <2>3, <2>4, <2>5, <2>6 DEF UseNext, expand_uses
<1>3. QED
  BY <1>1, <1>2, PTL DEF UseSpec

(* A program becomes what it means, or is refused for the right reason:    *)
(* for every directory, whatever its modules use.                          *)
THEOREM ExpansionAlwaysRight == UseSpec => []ExpansionIsRight
<1>1. UseInv => ExpansionIsRight
  BY DEF UseInv
<1>2. QED
  BY <1>1, UseInvariance, PTL
=============================================================================
