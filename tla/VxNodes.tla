------------------------------- MODULE VxNodes -------------------------------
(* The records of the front end of vidyax.py: tokens, lines and the nodes  *)
(* of the syntax tree.  A node is a record whose field t is the class      *)
(* name.  Statements, names, operators, calls, members and indexes have a  *)
(* line, the field ln; literals have none.                                 *)
EXTENDS Naturals, Sequences, FiniteSets

CONSTANT BuiltinNames   \* the names of the built-in functions

Tok(k, v, ln) == [k |-> k, v |-> v, ln |-> ln]

\* A line of a source text: its indentation and its lexemes.
Line(ind, lexemes) == [ind |-> ind, lex |-> lexemes]

Node(t) == [t |-> t]
Number(n) == [t |-> "Number", n |-> n]
Str(s) == [t |-> "Str", s |-> s]
Bool(b) == [t |-> "Bool", b |-> b]
ListLit(items) == [t |-> "ListLit", items |-> items]
DictLit(pairs) == [t |-> "DictLit", pairs |-> pairs]
Var(x, ln) == [t |-> "Var", name |-> x, ln |-> ln]
Input(e) == [t |-> "Input", prompt |-> e]
BinOp(op, l, r, ln) == [t |-> "BinOp", op |-> op, l |-> l, r |-> r, ln |-> ln]
UnaryOp(op, e, ln) == [t |-> "UnaryOp", op |-> op, operand |-> e, ln |-> ln]
Call(f, args, ln) == [t |-> "Call", callee |-> f, args |-> args, ln |-> ln]
Member(o, x, ln) == [t |-> "Member", obj |-> o, name |-> x, ln |-> ln]
Index(o, i, ln) == [t |-> "Index", obj |-> o, idx |-> i, ln |-> ln]
GoTask(c, ln) == [t |-> "GoTask", call |-> c, ln |-> ln]

\* The line of a node that nobody has given one.
NoLine == 0

\* The absent expression of a bare return and of an agent without a model.
None == Node("None")

Assign(x, e, ln) == [t |-> "Assign", name |-> x, value |-> e, ln |-> ln]
PrintS(e, ln) == [t |-> "Print", expr |-> e, ln |-> ln]
ExprStmt(e, ln) == [t |-> "ExprStmt", expr |-> e, ln |-> ln]
If(c, b, o, ln) == [t |-> "If", cond |-> c, body |-> b, orelse |-> o, ln |-> ln]
RepeatN(e, b, ln) == [t |-> "RepeatN", count |-> e, body |-> b, ln |-> ln]
ForEach(x, e, b, ln) ==
  [t |-> "ForEach", var |-> x, iterable |-> e, body |-> b, ln |-> ln]
FuncDef(f, ps, b, ln) ==
  [t |-> "FuncDef", name |-> f, params |-> ps, body |-> b, ln |-> ln]
Return(e, ln) == [t |-> "Return", value |-> e, ln |-> ln]
Break(ln) == [t |-> "Break", ln |-> ln]
Continue(ln) == [t |-> "Continue", ln |-> ln]
\* x = "" when catch names no variable
TryCatch(b, x, c, ln) ==
  [t |-> "TryCatch", body |-> b, err |-> x, catch |-> c, ln |-> ln]
Import(m, ln) == [t |-> "Import", name |-> m, ln |-> ln]
Sandbox(d, b, ln) == [t |-> "Sandbox", denies |-> d, body |-> b, ln |-> ln]
AgentDef(x, m, s, ln) ==
  [t |-> "AgentDef", name |-> x, model |-> m, system |-> s, ln |-> ln]

SetOf(s) == {s[i] : i \in DOMAIN s}

\* A dict of Python is a function: one updated with another, and one with
\* one item set.
Over(new, f) ==
  [x \in DOMAIN new \cup DOMAIN f |-> IF x \in DOMAIN new THEN new[x] ELSE f[x]]
With(f, x, v) == [y \in DOMAIN f \cup {x} |-> IF y = x THEN v ELSE f[y]]
=============================================================================
