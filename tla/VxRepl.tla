------------------------------- MODULE VxRepl -------------------------------
(* The interactive session of vidyax.py: a prompt that collects lines into *)
(* a block until it is complete, runs it in one interpreter that lives as  *)
(* long as the session, and survives errors and interrupts.                *)
EXTENDS VxParse

CONSTANTS
  Inputs,      \* lines the user may type
  MaxTyped     \* bound: lines typed between two errors

VARIABLES
  pending,     \* lines of the block being typed
  typed,       \* lines typed since the last error, interrupt or cancelled block
  ran,         \* statements the interpreter has executed since then, in order
  open         \* the session has not been left

replVars == <<pending, typed, ran, open>>

Blank == Line(0, <<>>)

ReplInit ==
  /\ pending = <<>> /\ typed = <<>> /\ ran = <<>> /\ open = TRUE

\* What _parse_source and _typecheck make of a text.  Without files next to
\* the program a `use' of anything but a built-in module fails.
Accepted(r) ==
  CASE r.i = 0 -> r
    [] \E n \in SetOf(r.n) : n.t = "Import" /\ n.name \notin {"ai", "web", "database"}
         -> Fail("syntax")
    [] ~type_check(r.n) -> Fail("type")
    [] OTHER -> r
Checked(lines) == Accepted(ParseText(lines))

\* An unfinished text is told by the words of the message.
_repl_incomplete(lines) ==
  \E r \in {Checked(lines)} : r.i = 0 /\ r.n \in {"end of the program", "no catch"}

\* line.rstrip().endswith(":")
EndsWithColon(line) ==
  line.lex # <<>> /\ LET last == line.lex[Len(line.lex)] IN last.k = "OP" /\ last.v = ":"

\* A text that does not parse runs nothing; the statements run up to the
\* first that fails or is interrupted.
_repl_exec(lines, line) ==
  \E r \in {Checked(lines)} :
    \/ r.i # 0 /\ ran' = ran \o r.n /\ typed' = Append(typed, line)
    \/ (r.i # 0 => r.n # <<>>) /\ ran' = <<>> /\ typed' = <<>>

Collects(line) == typed' = Append(typed, line) /\ UNCHANGED ran
Typing == open /\ Len(typed) < MaxTyped /\ UNCHANGED open

\* Mutant of EndBlock: the block is dropped before it is known to be complete.
EndBlockDrops ==
  /\ Typing /\ pending # <<>> /\ pending' = <<>>
  /\ IF _repl_incomplete(pending) THEN Collects(Blank) ELSE _repl_exec(pending, Blank)

\* A blank line ends the block, unless it is known to be unfinished.
EndBlock ==
  /\ Typing /\ pending # <<>>
  /\ IF _repl_incomplete(pending) THEN Collects(Blank) /\ UNCHANGED pending
     ELSE _repl_exec(pending, Blank) /\ pending' = <<>>

MoreOfBlock(line) ==
  /\ Typing /\ pending # <<>> /\ line # Blank
  /\ Collects(line) /\ pending' = Append(pending, line)

NothingTyped == Typing /\ pending = <<>> /\ Collects(Blank) /\ UNCHANGED pending

FirstLine(line) ==
  /\ Typing /\ pending = <<>> /\ line # Blank
  /\ IF EndsWithColon(line) \/ _repl_incomplete(<<line>>)
     THEN pending' = <<line>> /\ Collects(line)
     ELSE _repl_exec(<<line>>, line) /\ UNCHANGED pending

\* ^C at a prompt drops the block, ^D leaves.
Cancel ==
  /\ open /\ pending' = <<>> /\ UNCHANGED open
  /\ IF pending = <<>> THEN UNCHANGED <<typed, ran>> ELSE typed' = <<>> /\ ran' = <<>>
Leave == open /\ open' = FALSE /\ UNCHANGED <<pending, typed, ran>>

ReplNext ==
  \/ EndBlock \/ NothingTyped \/ Cancel \/ Leave
  \/ \E line \in Inputs : MoreOfBlock(line) \/ FirstLine(line)

-----------------------------------------------------------------------------
\* A node without the lines that it and its parts stand on.
RECURSIVE Unlined(_)
Unlined(n) ==
  LET all(b) == [i \in DOMAIN b |-> Unlined(b[i])]
  IN  [f \in DOMAIN n |->
        CASE f = "ln" -> NoLine
          [] f \in {"value", "expr", "cond", "count", "iterable", "model", "system", "prompt", "l",
                    "r", "operand", "callee", "obj", "idx", "call"} -> Unlined(n[f])
          [] f \in {"items", "args", "body", "orelse", "catch"} -> all(n[f])
          [] f = "pairs" -> [i \in DOMAIN n.pairs |-> all(n.pairs[i])]
          [] OTHER -> n[f]]
UnlinedAll(b) == [i \in DOMAIN b |-> Unlined(b[i])]

\* What a session has run since its last error is what the same lines run
\* as a file: cutting the input into blocks loses, repeats and regroups nothing.
\* The reader of a block (repl), the test for an unfinished text
\* (_repl_incomplete) and the parser must agree on where a block ends.
SameAsFile ==
  pending = <<>> =>
    \A r \in {ParseText(typed)} : r.i # 0 /\ UnlinedAll(r.n) = UnlinedAll(ran)
=============================================================================
