-------------------------------- MODULE VxLsp -------------------------------
(* The language server vxlsp.py and the editor at the other end of its     *)
(* pipes.  The server is one loop: read a message, handle it, write what   *)
(* there is to answer.  The editor does not wait: it goes on editing and   *)
(* asking while its messages and the answers are under way.                *)
EXTENDS VxNodes, Integers, SequencesExt

CONSTANTS
  Uris,        \* the documents
  Texts,       \* the texts they may have: sequences of lines
  MaxSent,     \* bound: messages of the editor in a session
  Diagnose(_)  \* what check_source says of a text

VARIABLES
  docs,        \* Server.docs: the texts the server knows
  running,     \* Server.running
  inbox,       \* messages to the server
  outbox,      \* messages to the editor
  view,        \* the editor's open documents and their texts
  asked,       \* requests not answered yet, each with the text it was about
  marks,       \* the diagnostics the editor shows
  sent         \* how many messages the editor has sent

lspVars == <<docs, running, inbox, outbox, view, asked, marks, sent>>

LspInit ==
  /\ docs = <<>> /\ running = TRUE /\ inbox = <<>> /\ outbox = <<>>
  /\ view = <<>> /\ asked = <<>> /\ marks = <<>> /\ sent = 0

KEYWORDS == {"print", "if", "elif", "else", "rpt", "for", "in", "func", "return", "ask", "use",
             "and", "or", "not", "true", "false", "null", "break", "continue", "try", "catch",
             "sandbox", "agent", "go"}

Without(f, u) == [x \in DOMAIN f \ {u} |-> f[x]]

(***************************************************************************)
(* What the server reads from a text without parsing it.  _DEF_FUNC finds  *)
(* `func name(...)' at the start of a line, _DEF_VAR `name:' in the first  *)
(* column, be the name a keyword or not.                                   *)
(***************************************************************************)
IsOp(tok, v) == tok.k = "OP" /\ tok.v = v
Closing(line) == {i \in DOMAIN line.lex : IsOp(line.lex[i], ")")}
_DEF_FUNC(line) ==
  /\ Len(line.lex) >= 4 /\ line.lex[1] = Tok("KEYWORD", "func", 0)
  /\ line.lex[2].k = "NAME" /\ IsOp(line.lex[3], "(") /\ Closing(line) # {}


_DEF_VAR(line) ==
  /\ line.ind = 0 /\ Len(line.lex) >= 2
  /\ line.lex[1].k \in {"NAME", "KEYWORD"} /\ IsOp(line.lex[2], ":")

ParamsOf(line) ==
  LET end == CHOOSE i \in Closing(line) : \A j \in Closing(line) : i <= j
  IN  SelectSeq([i \in 1..(end - 4) |-> line.lex[i + 3].v], LAMBDA x : x # ",")
FuncNames(text) ==
  FoldLeft(LAMBDA s, line : IF _DEF_FUNC(line) THEN s \o <<line.lex[2].v>> \o ParamsOf(line)
                            ELSE s, <<>>, text)
VarNames(text) ==
  FoldLeft(LAMBDA s, line : IF _DEF_VAR(line) THEN Append(s, line.lex[1].v) ELSE s, <<>>, text)

\* seen: a name is offered once, and what is a built-in or a keyword has
\* been offered already.
AddUnseen(s, x) ==
  IF x \in BuiltinNames \cup KEYWORDS \cup SetOf(s) THEN s ELSE Append(s, x)
completion(text) == FoldLeft(AddUnseen, <<>>, FuncNames(text) \o VarNames(text))

\* word_at and hover: the position is a lexeme of a line.
word_at(text, pos) ==
  IF pos[1] \in DOMAIN text /\ pos[2] \in DOMAIN text[pos[1]].lex
  THEN text[pos[1]].lex[pos[2]].v ELSE "none"
hover(text, pos) ==
  LET w == word_at(text, pos)
  IN  CASE w \in BuiltinNames -> <<"builtin", w>> [] w \in KEYWORDS \ BuiltinNames -> <<"keyword", w>>
        [] OTHER -> <<"nothing">>

\* A definition begins where its pattern matches, and \s* takes the empty
\* lines above a function along.
StartOf(text, i) ==
  CHOOSE j \in 1..i : /\ \A k \in j..(i - 1) : text[k].lex = <<>>
                      /\ j > 1 => text[j - 1].lex # <<>>
symbols(text) ==
  FoldLeft(LAMBDA s, i : IF _DEF_FUNC(text[i]) THEN Append(s, <<text[i].lex[2].v, StartOf(text, i)>>)
                         ELSE s, <<>>, [i \in DOMAIN text |-> i])
  \o FoldLeft(LAMBDA s, i : IF _DEF_VAR(text[i]) THEN Append(s, <<text[i].lex[1].v, i>>)
                            ELSE s, <<>>, [i \in DOMAIN text |-> i])

Diagnosis == [t \in Texts \cup {<<>>} |-> Diagnose(t)]

(***************************************************************************)
(* The server.                                                             *)
(***************************************************************************)
TextOf(u) == IF u \in DOMAIN docs THEN docs[u] ELSE <<>>
reply(id, result) == [k |-> "reply", id |-> id, result |-> result]
notify(u, text) == [k |-> "diagnostics", uri |-> u, diags |-> Diagnosis[text]]
Write(msg) == outbox' = Append(outbox, msg)

\* Mutant of Opened: the first of the changes is taken for the whole text.
OpenedFirst(msg) ==
  LET texts == IF msg.texts = <<>> THEN docs ELSE With(docs, msg.uri, msg.texts[1])
  IN  /\ docs' = texts
      /\ Write(notify(msg.uri, IF msg.uri \in DOMAIN texts THEN texts[msg.uri] ELSE <<>>))
      /\ UNCHANGED running

\* didOpen, didChange: the last of the changes is the whole text; a change
\* may be empty.  Either way the diagnostics are sent afresh.
Opened(msg) ==
  LET texts == IF msg.texts = <<>> THEN docs ELSE With(docs, msg.uri, msg.texts[Len(msg.texts)])
  IN  /\ docs' = texts
      /\ Write(notify(msg.uri, IF msg.uri \in DOMAIN texts THEN texts[msg.uri] ELSE <<>>))
      /\ UNCHANGED running

Closed(msg) == docs' = Without(docs, msg.uri) /\ UNCHANGED <<running, outbox>>

\* Mutant of Answer: the request that handle failed on gets no answer.
AnswerIfKnown(msg) ==
  /\ CASE msg.k = "completion" -> Write(reply(msg.id, completion(TextOf(msg.uri))))
       [] msg.k = "hover" -> Write(reply(msg.id, hover(TextOf(msg.uri), msg.pos)))
       [] msg.k = "documentSymbol" -> Write(reply(msg.id, symbols(TextOf(msg.uri))))
       [] msg.k = "broken" -> UNCHANGED outbox
       [] OTHER -> Write(reply(msg.id, <<>>))
  /\ UNCHANGED <<docs, running>>

\* Mutant of Answer: what has been answered falls through to the null of
\* unknown requests.
AnswerAndNull(msg) ==
  /\ outbox' = (CASE msg.k = "hover" -> Append(outbox, reply(msg.id, hover(TextOf(msg.uri), msg.pos)))
                  [] OTHER -> outbox) \o <<reply(msg.id, <<>>)>>
  /\ UNCHANGED <<docs, running>>

\* A request without its parameters makes handle raise, and the loop
\* answers with the error; an unknown one is answered with null.
Answer(msg) ==
  /\ CASE msg.k = "completion" -> Write(reply(msg.id, completion(TextOf(msg.uri))))
       [] msg.k = "hover" -> Write(reply(msg.id, hover(TextOf(msg.uri), msg.pos)))
       [] msg.k = "documentSymbol" -> Write(reply(msg.id, symbols(TextOf(msg.uri))))
       [] msg.k = "broken" -> Write(reply(msg.id, <<"error">>))
       [] OTHER -> Write(reply(msg.id, <<>>))   \* initialize, shutdown, unknown
  /\ UNCHANGED <<docs, running>>

Exit == running' = FALSE /\ UNCHANGED <<docs, outbox>>

handle(msg) ==
  CASE msg.k = "exit" -> Exit
    [] msg.k = "change" -> Opened(msg)
    [] msg.k = "close" -> Closed(msg)
    [] OTHER -> Answer(msg)

\* One turn of Server.run.
Serve ==
  /\ running /\ inbox # <<>>
  /\ inbox' = Tail(inbox)
  /\ handle(Head(inbox))
  /\ UNCHANGED <<view, asked, marks, sent>>

(***************************************************************************)
(* The editor.                                                             *)
(***************************************************************************)
Send(msg) ==
  /\ sent < MaxSent
  /\ sent' = sent + 1
  /\ inbox' = Append(inbox, msg)
  /\ UNCHANGED <<docs, running, outbox>>

\* Opening a document and changing an open one.
Edit(u, texts) ==
  /\ u \notin DOMAIN view => texts # <<>>
  /\ Send([k |-> "change", uri |-> u, texts |-> texts])
  /\ view' = IF texts = <<>> THEN view ELSE With(view, u, texts[Len(texts)])
  /\ UNCHANGED <<asked, marks>>
CloseDoc(u) ==
  /\ u \in DOMAIN view
  /\ Send([k |-> "close", uri |-> u])
  /\ view' = Without(view, u)
  /\ UNCHANGED <<asked, marks>>
Ask(k, u, pos) ==
  /\ u \in DOMAIN view
  /\ Send([k |-> k, uri |-> u, pos |-> pos, id |-> sent])
  /\ asked' = With(asked, sent, [k |-> k, text |-> view[u]])
  /\ UNCHANGED <<view, marks>>
SendExit == Send([k |-> "exit"]) /\ UNCHANGED <<view, asked, marks>>

Receive ==
  /\ outbox # <<>>
  /\ outbox' = Tail(outbox)
  /\ LET msg == Head(outbox)
     IN  IF msg.k = "reply" THEN asked' = Without(asked, msg.id) /\ UNCHANGED marks
         ELSE marks' = With(marks, msg.uri, msg.diags) /\ UNCHANGED asked
  /\ UNCHANGED <<docs, running, inbox, view, sent>>

Requests == {"completion", "hover", "documentSymbol", "broken", "unknown"}

LspNext ==
  \/ Serve \/ Receive \/ SendExit
  \/ \E u \in Uris :
       \/ \E t \in {<<>>} \cup {<<x>> : x \in Texts} \cup {p \in Texts \X Texts : p[1] # p[2]} : Edit(u, t)
       \/ CloseDoc(u)
       \/ \E k \in Requests : Ask(k, u, <<1, 1>>)
LspSpec == LspInit /\ [][LspNext]_lspVars
LspFairness == WF_lspVars(Serve) /\ WF_lspVars(Receive)

-----------------------------------------------------------------------------
Questions(id) == {i \in DOMAIN inbox : inbox[i].k \in Requests /\ inbox[i].id = id}
Answers(id) == {i \in DOMAIN outbox : outbox[i].k = "reply" /\ outbox[i].id = id}

\* Every request the editor waits for is either still to be read or has
\* exactly one answer under way, and nothing else is answered: whatever
\* handle does with a request (vxlsp.py:196-250), also when it fails.
OneAnswerEach ==
  \A id \in 0..(MaxSent - 1) :
    Cardinality(Questions(id)) + Cardinality(Answers(id)) = (IF id \in DOMAIN asked THEN 1 ELSE 0)

\* When nothing is under way the editor shows, for every open document,
\* the errors of the text it has: changes are not reordered, dropped or
\* answered with the errors of an older text (vxlsp.py:113-129, 217-226).
MarksAreCurrent ==
  inbox = <<>> /\ outbox = <<>> =>
    \A u \in DOMAIN view : u \in DOMAIN marks /\ marks[u] = Diagnosis[view[u]]

\* The editor is served right: one answer to each of its questions, and the
\* errors it shows are those of the text it has.
EditorIsServed == OneAnswerEach /\ MarksAreCurrent

\* Every request is answered, unless the editor has told the server to end
\* (vxlsp.py:240-250: an error in one message does not end the loop).
EveryRequestIsAnswered ==
  \A id \in 0..(MaxSent - 1) : id \in DOMAIN asked ~> id \notin DOMAIN asked \/ ~running
=============================================================================
