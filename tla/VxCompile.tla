----------------------------- MODULE VxCompile ------------------------------
(* The bytecode compiler vxc.py: which names live in slots, what each      *)
(* statement and expression emits, and the folding of constants.  An       *)
(* instruction is [op, arg] and a code offset counts instructions from 0;  *)
(* the widths of operands come back in VxImage.                            *)
EXTENDS VxSyntax, Integers, TLC
LOCAL INSTANCE SequencesExt

(***************************************************************************)
(* Escape analysis: a local that a nested function mentions must live in   *)
(* the heap.  _refs_in looks into nested functions, but not at their names *)
(* and parameters.                                                         *)
(***************************************************************************)
RECURSIVE RefsIn(_)
RefsIn(n) ==
  (CASE n.t \in {"Var", "Assign", "AgentDef", "Import"} -> {n.name}
     [] n.t = "ForEach" -> {n.var}
     [] n.t = "TryCatch" -> {n.err} \ {""}
     [] OTHER -> {})
  \cup UNION {RefsIn(k) : k \in Exprs(n) \cup Inner(n) \cup FuncBody(n)}
_refs_in(body) == UNION {RefsIn(s) : s \in SetOf(body)}

RECURSIVE Caught(_)
Caught(n) ==
  IF n.t = "FuncDef" THEN _refs_in(n.body) ELSE UNION {Caught(k) : k \in Inner(n)}
escaping_names(body) == UNION {Caught(s) : s \in SetOf(body)}

(***************************************************************************)
(* Constant folding.                                                       *)
(***************************************************************************)
PyRem(a, b) == IF b > 0 THEN a % b ELSE -((-a) % (-b))
FoldNumbers(n, a, b) ==
  CASE n.op = "+" -> Number(a + b) [] n.op = "-" -> Number(a - b) [] n.op = "*" -> Number(a * b)
    [] n.op = "/" /\ b # 0 -> Number(IF b > 0 THEN a \div b ELSE (-a) \div (-b))
    [] n.op = "%" /\ b # 0 -> Number(PyRem(a, b))
    [] n.op = "==" -> Bool(a = b) [] n.op = "!=" -> Bool(a # b)
    [] n.op = "<" -> Bool(a < b) [] n.op = "<=" -> Bool(a <= b)
    [] n.op = ">" -> Bool(a > b) [] n.op = ">=" -> Bool(a >= b)
    [] OTHER -> [n EXCEPT !.l = Number(a), !.r = Number(b)]

IsLiteral(n) == n.t \in {"Bool", "Number", "Str", "Null"}
LiteralTruth(n) ==
  CASE n.t = "Bool" -> n.b [] n.t = "Number" -> n.n # 0 [] n.t = "Str" -> n.s # "" [] OTHER -> FALSE

RECURSIVE _fold(_)
_fold(n) ==
  CASE n.t = "BinOp" ->
         LET l == _fold(n.l)
             r == _fold(n.r)
         IN  CASE l.t = "Number" /\ r.t = "Number" -> FoldNumbers(n, l.n, r.n)
               [] l.t = "Str" /\ r.t = "Str" /\ n.op = "+" -> Str(l.s \o r.s)
               [] OTHER -> [n EXCEPT !.l = l, !.r = r]
    [] n.t = "UnaryOp" ->
         LET x == _fold(n.operand)
         IN  CASE n.op = "-" /\ x.t = "Number" -> Number(-x.n)
               [] n.op = "not" /\ IsLiteral(x) -> Bool(~LiteralTruth(x))
               [] OTHER -> [n EXCEPT !.operand = x]
    [] OTHER -> n

(***************************************************************************)
(* c is the compiler: its constants and its functions (protos).  p is the  *)
(* index of the function being compiled.                                   *)
(***************************************************************************)
CNum(x) == [k |-> "num", n |-> x]
CStr(x) == [k |-> "str", s |-> x]
IndexIn(s, x) == CHOOSE i \in DOMAIN s : s[i] = x
Const(c, v) == IF v \in SetOf(c.consts) THEN c ELSE [c EXCEPT !.consts = Append(@, v)]

Proto(name, params, slots, safe, escIx, declared) ==
  [name |-> name, params |-> params, slots |-> slots, safe |-> safe,
   escIx |-> escIx, declared |-> declared, code |-> <<>>, lines |-> <<>>, hid |-> 0]

Code(c, p) == c.protos[p].code
Here(c, p) == Len(c.protos[p].code)
Ins(op, arg) == [op |-> op, arg |-> arg]
Emit1(c, p, op, arg) == [c EXCEPT !.protos[p].code = Append(@, Ins(op, arg))]
Emit(c, p, op) == Emit1(c, p, op, 0)
EmitConst(c, p, op, v) ==
  LET d == Const(c, v) IN Emit1(d, p, op, IndexIn(d.consts, v) - 1)

\* A jump emitted before its target is known has the target -1.
Later == -1
Jump(c, p, op) == Emit1(c, p, op, Later)
Patch(c, p, at) == [c EXCEPT !.protos[p].code[at + 1].arg = Here(c, p)]
\* Mutant of mark_line: only the first line of a function is kept.
mark_first_line(c, p, ln) ==
  IF c.protos[p].lines # <<>> THEN c
  ELSE [c EXCEPT !.protos[p].lines = <<<<Here(c, p), ln>>>>]

\* A node without a line leaves the run before it open.
mark_line(c, p, ln) ==
  LET runs == c.protos[p].lines
  IN  IF ln = NoLine \/ (runs # <<>> /\ runs[Len(runs)][2] = ln) THEN c
      ELSE [c EXCEPT !.protos[p].lines = Append(@, <<Here(c, p), ln>>)]

\* A name is a slot when it is safe, and then its last place in the list.
SlotOf(c, p, x) ==
  LET s == c.protos[p].slots
  IN  CHOOSE i \in DOMAIN s : s[i] = x /\ \A j \in (i + 1)..Len(s) : s[j] # x
InSlot(c, p, x) == x \in c.protos[p].safe
name_store(c, p, x) ==
  IF InSlot(c, p, x) THEN Emit1(c, p, "STORE_SLOT", SlotOf(c, p, x) - 1)
  ELSE EmitConst(c, p, "STORE", CStr(x))
name_load(c, p, x) ==
  IF InSlot(c, p, x) THEN Emit1(c, p, "LOAD_SLOT", SlotOf(c, p, x) - 1)
  ELSE EmitConst(c, p, "LOAD", CStr(x))
hidden(c, p, x) ==
  IF InSlot(c, p, x) THEN c
  ELSE [c EXCEPT !.protos[p].slots = Append(@, x), !.protos[p].safe = @ \cup {x}]

(***************************************************************************)
(* Expressions.                                                            *)
(***************************************************************************)
OpCode == ("+" :> "ADD") @@ ("-" :> "SUB") @@ ("*" :> "MUL") @@ ("/" :> "DIV") @@
          ("%" :> "MOD") @@ ("==" :> "EQ") @@ ("!=" :> "NE") @@ ("<" :> "LT") @@
          ("<=" :> "LE") @@ (">" :> "GT") @@ (">=" :> "GE")

RECURSIVE Expr(_, _, _), ExprAll(_, _, _)
ExprAll(c, p, ns) == IF ns = <<>> THEN c ELSE ExprAll(Expr(c, p, Head(ns)), p, Tail(ns))

\* `and' and `or' leave the left value when it decides.
ShortCircuit(c, p, n, op) ==
  LET l == Expr(c, p, n.l)
      r == Expr(Emit(Jump(l, p, op), p, "POP"), p, n.r)
  IN  Patch(r, p, Here(l, p))

Flatten(pairs) == [i \in 1..(2 * Len(pairs)) |-> pairs[(i + 1) \div 2][IF i % 2 = 1 THEN 1 ELSE 2]]

Expr(c, p, n0) ==
  LET n == _fold(n0)
  IN  CASE n.t = "Number" -> EmitConst(c, p, "CONST", CNum(n.n))
        [] n.t = "Str" -> EmitConst(c, p, "CONST", CStr(n.s))
        [] n.t = "Bool" -> Emit(c, p, IF n.b THEN "TRUE" ELSE "FALSE")
        [] n.t \in {"Null", "None"} -> Emit(c, p, "NULL")
        [] n.t = "Var" -> name_load(c, p, n.name)
        [] n.t = "ListLit" -> Emit1(ExprAll(c, p, n.items), p, "LIST", Len(n.items))
        [] n.t = "DictLit" -> Emit1(ExprAll(c, p, Flatten(n.pairs)), p, "DICT", Len(n.pairs))
        [] n.t = "Input" -> Emit(Expr(c, p, n.prompt), p, "ASK")
        [] n.t = "UnaryOp" ->
             Emit(Expr(c, p, n.operand), p, IF n.op = "not" THEN "NOT" ELSE "NEG")
        [] n.t = "BinOp" /\ n.op = "and" -> ShortCircuit(c, p, n, "JIF_PEEK")
        [] n.t = "BinOp" /\ n.op = "or" -> ShortCircuit(c, p, n, "JIT_PEEK")
        [] n.t = "BinOp" -> Emit(ExprAll(c, p, <<n.l, n.r>>), p, OpCode[n.op])
        [] n.t = "Index" -> Emit(ExprAll(c, p, <<n.obj, n.idx>>), p, "INDEX")
        [] n.t = "Member" -> EmitConst(Expr(c, p, n.obj), p, "GET_MEMBER", CStr(n.name))
        [] n.t = "Call" -> Emit1(ExprAll(c, p, <<n.callee>> \o n.args), p, "CALL", Len(n.args))
        [] n.t = "GoTask" ->
             Emit1(ExprAll(c, p, <<n.call.callee>> \o n.call.args), p, "GO", Len(n.call.args))

(***************************************************************************)
(* Statements.  d counts the tries and sandboxes around the statement, and *)
(* those that were already around its loop (ltry, lsbox), which starts at  *)
(* the offset start.                                                       *)
(***************************************************************************)
Nothing == [try |-> 0, sbox |-> 0, ltry |-> 0, lsbox |-> 0, start |-> 0]

RECURSIVE EmitN(_, _, _, _)
EmitN(c, p, op, k) == IF k = 0 THEN c ELSE EmitN(Emit(c, p, op), p, op, k - 1)
\* Mutant of pop_tries_to_loop: the sandboxes of the block stay.
pop_triesOnly(c, p, d) == EmitN(c, p, "TRY_POP", d.try - d.ltry)

pop_tries_to_loop(c, p, d) ==
  EmitN(EmitN(c, p, "TRY_POP", d.try - d.ltry), p, "SBOX_EXIT", d.sbox - d.lsbox)

RECURSIVE Stmt(_, _, _, _), Stmts(_, _, _, _)
\* A module that the compiler does not know ends it.
Stmts(c, p, body, d) ==
  IF body = <<>> \/ c.bad THEN c ELSE Stmts(Stmt(c, p, Head(body), d), p, Tail(body), d)

\* The breaks of a loop are its jumps that have no target yet.
loop_body(c, p, body, d, start, exit) ==
  LET in == Stmts(c, p, body, [d EXCEPT !.ltry = d.try, !.lsbox = d.sbox, !.start = start])
      back == Emit1(in, p, "JMP", start)
      out == Here(back, p)
  IN  [back EXCEPT !.protos[p].code =
        [i \in DOMAIN @ |-> IF i = exit + 1 \/ (i > exit + 1 /\ @[i] = Ins("JMP", Later))
                            THEN Ins(@[i].op, out) ELSE @[i]]]

\* A hidden counter of its own for each loop of a function.
Counter(c, p, first) ==
  LET no == ToString(c.protos[p].hid)
      d == [c EXCEPT !.protos[p].hid = @ + 1]
  IN  [c |-> hidden(hidden(d, p, first \o no), p, "$i" \o no), src |-> first \o no, i |-> "$i" \o no]
Step1(c, p, i) ==
  name_store(Emit(EmitConst(name_load(c, p, i), p, "CONST", CNum(1)), p, "ADD"), p, i)

RepeatCode(c, p, n, d) ==
  LET h == Counter(c, p, "$n")
      a == name_store(Emit(Expr(h.c, p, n.count), p, "CHECK_RPT"), p, h.src)
      b == name_store(EmitConst(a, p, "CONST", CNum(0)), p, h.i)
      t == Emit(name_load(name_load(b, p, h.i), p, h.src), p, "LT")
  IN  loop_body(Step1(Jump(t, p, "JMP_IF_FALSE"), p, h.i), p, n.body, d, Here(b, p), Here(t, p))

ForEachCode(c, p, n, d) ==
  LET h == Counter(c, p, "$it")
      a == name_store(Emit(Expr(h.c, p, n.iterable), p, "CHECK_ITER"), p, h.src)
      b == name_store(EmitConst(a, p, "CONST", CNum(0)), p, h.i)
      t == Emit(Emit(name_load(name_load(b, p, h.i), p, h.src), p, "LEN"), p, "LT")
      e == name_load(name_load(Jump(t, p, "JMP_IF_FALSE"), p, h.src), p, h.i)
      v == name_store(Emit(e, p, "INDEX"), p, n.var)
  IN  loop_body(Step1(v, p, h.i), p, n.body, d, Here(b, p), Here(t, p))

IfCode(c, p, n, d) ==
  LET cond == _fold(n.cond)
      a == Expr(c, p, cond)
      b == Stmts(Jump(a, p, "JMP_IF_FALSE"), p, n.body, d)
      o == Stmts(Patch(Jump(b, p, "JMP"), p, Here(a, p)), p, n.orelse, d)
  IN  IF IsLiteral(cond) THEN Stmts(c, p, IF LiteralTruth(cond) THEN n.body ELSE n.orelse, d)
      ELSE IF n.orelse = <<>> THEN Patch(b, p, Here(a, p))
      ELSE Patch(o, p, Here(b, p))

\* The parameters own the first slots, the safe ones are read from there.
FuncProto(n) ==
  LET local == assigned_names(n.body) \cup SetOf(n.params)
      esc == local \cap escaping_names(n.body)
  IN  Proto(n.name, n.params, n.params \o SetToSeq((local \ esc) \ SetOf(n.params)), local \ esc,
            SelectSeq([i \in DOMAIN n.params |-> i], LAMBDA i : n.params[i] \in esc),
            SetToSeq(esc \ SetOf(n.params)))
FuncCode(c, p, n) ==
  LET q == Len(c.protos) + 1
      a == Stmts([c EXCEPT !.protos = Append(@, FuncProto(n))], q, n.body, Nothing)
  IN  name_store(Emit1(Emit(Emit(a, q, "NULL"), q, "RET"), p, "MAKE_FUNC", q - 1), p, n.name)

\* Mutant of TryCode: without a name the message stays on the stack.
TryCodeKeepsMessage(c, p, n, d) ==
  LET a == Stmts(Jump(c, p, "TRY_PUSH"), p, n.body, [d EXCEPT !.try = @ + 1])
      b == Emit(a, p, "TRY_POP")
      h == Patch(Jump(b, p, "JMP"), p, Here(c, p))
      v == IF n.err = "" THEN h ELSE name_store(h, p, n.err)
  IN  Patch(Stmts(v, p, n.catch, d), p, Here(b, p))

TryCode(c, p, n, d) ==
  LET a == Stmts(Jump(c, p, "TRY_PUSH"), p, n.body, [d EXCEPT !.try = @ + 1])
      b == Emit(a, p, "TRY_POP")
      h == Patch(Jump(b, p, "JMP"), p, Here(c, p))
      v == IF n.err = "" THEN Emit(h, p, "POP") ELSE name_store(h, p, n.err)
  IN  Patch(Stmts(v, p, n.catch, d), p, Here(b, p))

AgentCode(c, p, n) ==
  name_store(Emit(ExprAll(EmitConst(c, p, "CONST", CStr(n.name)), p, <<n.model, n.system>>),
                  p, "AGENT"), p, n.name)

Stmt(c0, p, n, d) ==
  LET c == mark_line(c0, p, n.ln)
  IN  CASE n.t = "Assign" -> name_store(Expr(c, p, n.value), p, n.name)
        [] n.t = "ExprStmt" -> Emit(Expr(c, p, n.expr), p, "POP")
        [] n.t = "Print" -> Emit(Expr(c, p, n.expr), p, "PRINT")
        [] n.t = "If" -> IfCode(c, p, n, d)
        [] n.t = "RepeatN" -> RepeatCode(c, p, n, d)
        [] n.t = "ForEach" -> ForEachCode(c, p, n, d)
        [] n.t = "FuncDef" -> FuncCode(c, p, n)
        [] n.t = "Sandbox" ->
             Emit(Stmts(Emit1(c, p, "SBOX_ENTER", n.denies), p, n.body,
                        [d EXCEPT !.sbox = @ + 1]), p, "SBOX_EXIT")
        [] n.t = "AgentDef" -> AgentCode(c, p, n)
        [] n.t = "Return" -> Emit(Expr(c, p, n.value), p, "RET")
        [] n.t = "Break" -> Jump(pop_tries_to_loop(c, p, d), p, "JMP")
        [] n.t = "Continue" -> Emit1(pop_tries_to_loop(c, p, d), p, "JMP", d.start)
        [] n.t = "TryCatch" -> TryCode(c, p, n, d)
        [] n.t = "Import" ->
             IF n.name = "ai" THEN name_store(Emit(c, p, "AI_NEW"), p, "ai")
             ELSE [c EXCEPT !.bad = TRUE]

compile_program(prog) ==
  LET local == assigned_names(prog)
      safe == local \ escaping_names(prog)
      main == Proto("<main>", <<>>, SetToSeq(safe), safe, <<>>, <<>>)
      c == [consts |-> <<>>, protos |-> <<main>>, bad |-> FALSE]
  IN  Emit(Stmts(c, 1, prog, Nothing), 1, "HALT")
=============================================================================
