----------------------------- MODULE VxMachine ------------------------------
(* The bytecode machine of vm/vm.c on one thread: frames over one value    *)
(* stack, slots that may be unset, heap environments for what escapes, and *)
(* the handlers an error unwinds to.  A machine state is the engine state  *)
(* of VxValues with stack, frames, handlers and sandboxes added.  Tasks,   *)
(* agents that are called and the limits are the subject of VxTasks,       *)
(* VxAgent and VxUnwind.                                                   *)
EXTENDS VxValues

CONSTANT Log2Steps   \* bound: an execution is cut after 2^Log2Steps instructions

Frame(p, env, base) == [p |-> p, ip |-> 0, env |-> env, base |-> base]
NoEnv == [vars |-> <<>>, up |-> 0, decl |-> {}]

\* Only the built-ins that the program names are set up.
Boot(c, prims) ==
  LET named == {x \in prims : [k |-> "str", s |-> x] \in SetOf(c.consts)}
  IN  [StartState("vm") EXCEPT
        !.envs = <<[NoEnv EXCEPT !.vars = [x \in named |-> Prim(x)]]>>]
      @@ [stack |-> [i \in DOMAIN c.protos[1].slots |-> Unset],
          frames |-> <<Frame(1, 1, 0)>>, handlers |-> <<>>, boxes |-> <<>>, halted |-> FALSE,
          unset |-> FALSE]   \* has a slot without a value been read?

Last(s) == s[Len(s)]
Cut(s, n) == SubSeq(s, 1, Len(s) - n)
Push(m, v) == [m EXCEPT !.stack = Append(@, v)]
PushV(m) == Bind(m, LAMBDA r : Push(r, r.v))
Pop(m, n) == [m EXCEPT !.stack = Cut(@, n)]
TopOf(m, i) == m.stack[Len(m.stack) - i]
Cur(m) == m.frames[Len(m.frames)]
Goto(m, t) == [m EXCEPT !.frames[Len(m.frames)].ip = t]

NameOf(c, arg) == c.consts[arg + 1].s
ConstV(c, arg) ==
  LET k == c.consts[arg + 1] IN IF k.k = "num" THEN Num(k.n) ELSE Text(k.s)

RECURSIVE env_get(_, _, _)
env_get(m, e, x) ==
  CASE e = 0 -> Throw(m, "variable " \o x \o " is not defined")
    [] x \in DOMAIN m.envs[e].vars -> Give(m, m.envs[e].vars[x])
    [] x \in m.envs[e].decl ->
         Throw(m, "variable " \o x \o " is assigned in this function but used before it has a value")
    [] OTHER -> env_get(m, m.envs[e].up, x)
env_set(m, e, x, v) == [m EXCEPT !.envs[e].vars = (x :> v) @@ @]

\* The top level says `not defined' of a slot without a value.
LoadSlot(c, m, ix) ==
  LET v == m.stack[Cur(m).base + ix + 1]
      x == c.protos[Cur(m).p].slots[ix + 1]
  IN  CASE v # Unset -> Push(m, v)
        [] OTHER -> Throw([m EXCEPT !.unset = TRUE],
                          "variable " \o x \o IF Len(m.frames) = 1 THEN " is not defined"
                            ELSE " is assigned in this function but used before it has a value")

\* The arguments slide over the callee and become the first slots; what
\* escapes is copied into a heap environment of the call.
EnterFunc(c, m, fn, argc) ==
  LET pr == c.protos[fn.f]
      args == SubSeq(m.stack, Len(m.stack) - argc + 1, Len(m.stack))
      base == Len(m.stack) - argc - 1
      home == pr.escIx # <<>> \/ pr.declared # <<>>
      esc == {pr.params[i] : i \in SetOf(pr.escIx)}
      value(x) == args[CHOOSE i \in SetOf(pr.escIx) :
                         pr.params[i] = x /\ \A j \in SetOf(pr.escIx) : pr.params[j] = x => j <= i]
      with == [vars |-> [x \in esc |-> value(x)], up |-> fn.env, decl |-> SetOf(pr.declared)]
  IN  IF argc # Len(pr.params) THEN Throw(m, "function " \o pr.name \o " needs other args")
      ELSE [m EXCEPT !.stack = SubSeq(@, 1, base) \o args
                               \o [i \in 1..(Len(pr.slots) - argc) |-> Unset],
                     !.envs = IF home THEN Append(@, with) ELSE @,
                     !.frames = Append(@, Frame(fn.f, IF home THEN Len(m.envs) + 1 ELSE fn.env,
                                                base))]

CallOp(c, m, argc) ==
  LET f == TopOf(m, argc)
      args == SubSeq(m.stack, Len(m.stack) - argc + 1, Len(m.stack))
  IN  CASE f.k = "prim" -> Bind(Builtin(m, f.name, args), LAMBDA r : Push(Pop(r, argc + 1), r.v))
        [] f.k = "func" -> EnterFunc(c, m, f, argc)
        [] OTHER -> Throw(m, "this is not a function")

\* return drops the handlers and sandboxes that its frame opened.
ReturnOp(m) ==
  LET mine == Len(m.frames)
      boxes == {i \in DOMAIN m.boxes : m.boxes[i].frame = mine}
      first == CHOOSE i \in boxes : \A j \in boxes : i <= j
  IN  [m EXCEPT !.handlers = SelectSeq(@, LAMBDA h : h.frame # mine),
                !.perms = IF boxes = {} THEN @ ELSE m.boxes[first].saved,
                !.boxes = SelectSeq(@, LAMBDA b : b.frame # mine),
                !.stack = Append(SubSeq(@, 1, Cur(m).base), TopOf(m, 0)),
                !.frames = Cut(@, 1)]

Binary == ("ADD" :> "+") @@ ("SUB" :> "-") @@ ("MUL" :> "*") @@ ("DIV" :> "/") @@ ("MOD" :> "%") @@
          ("EQ" :> "==") @@ ("NE" :> "!=") @@ ("LT" :> "<") @@ ("LE" :> "<=") @@
          ("GT" :> ">") @@ ("GE" :> ">=")

\* One instruction; ip is already behind it.
Do(c, m, op, arg) ==
  CASE op = "CONST" -> Push(m, ConstV(c, arg))
    [] op = "NULL" -> Push(m, Null)
    [] op \in {"TRUE", "FALSE"} -> Push(m, Truth(op = "TRUE"))
    [] op = "POP" -> Pop(m, 1)
    [] op = "LOAD" -> PushV(env_get(m, Cur(m).env, NameOf(c, arg)))
    [] op = "STORE" -> env_set(Pop(m, 1), Cur(m).env, NameOf(c, arg), TopOf(m, 0))
    [] op = "LOAD_SLOT" -> LoadSlot(c, m, arg)
    [] op = "STORE_SLOT" -> Pop([m EXCEPT !.stack[Cur(m).base + arg + 1] = TopOf(m, 0)], 1)
    [] op \in DOMAIN Binary -> PushV(Operate(Pop(m, 2), Binary[op], TopOf(m, 1), TopOf(m, 0)))
    [] op = "NEG" -> PushV(_neg(Pop(m, 1), TopOf(m, 0)))
    [] op = "NOT" -> Push(Pop(m, 1), Truth(~truthy(m, TopOf(m, 0))))
    [] op = "JMP" -> Goto(m, arg)
    [] op = "JMP_IF_FALSE" -> IF truthy(m, TopOf(m, 0)) THEN Pop(m, 1) ELSE Goto(Pop(m, 1), arg)
    [] op = "JIF_PEEK" -> IF truthy(m, TopOf(m, 0)) THEN m ELSE Goto(m, arg)
    [] op = "JIT_PEEK" -> IF truthy(m, TopOf(m, 0)) THEN Goto(m, arg) ELSE m
    [] op = "LIST" -> PushV(NewList(Pop(m, arg), [i \in 1..arg |-> TopOf(m, arg - i)]))
    [] op = "DICT" ->
         IF \E i \in 1..arg : TopOf(m, 2 * (arg - i) + 1).k # "str" THEN Throw(m, "dict key must be text")
         ELSE PushV(NewDict(Pop(m, 2 * arg), [i \in 1..arg |->
                              <<TopOf(m, 2 * (arg - i) + 1), TopOf(m, 2 * (arg - i))>>]))
    [] op = "INDEX" -> PushV(_index(Pop(m, 2), TopOf(m, 1), TopOf(m, 0)))
    [] op = "CALL" -> CallOp(c, m, arg)
    [] op = "MAKE_FUNC" -> PushV(NewFunc(m, arg + 1, Cur(m).env))
    [] op = "AI_NEW" -> PushV(NewAi(m))
    [] op = "GET_MEMBER" -> PushV(_member(Pop(m, 1), TopOf(m, 0), NameOf(c, arg)))
    [] op = "RET" -> ReturnOp(m)
    [] op = "PRINT" -> [Pop(m, 1) EXCEPT !.out = Append(@, _vstr(m, TopOf(m, 0)))]
    [] op = "ASK" -> PushV(ReadLine(Pop(m, 1), TopOf(m, 0)))
    [] op = "AGENT" -> PushV(NewAgent(Pop(m, 3), TopOf(m, 2).s))
    [] op = "SBOX_ENTER" ->
         [m EXCEPT !.boxes = Append(@, [saved |-> m.perms, frame |-> Len(m.frames)]),
                   !.perms = @ \ arg]
    [] op = "SBOX_EXIT" -> [m EXCEPT !.perms = Last(m.boxes).saved, !.boxes = Cut(@, 1)]
    [] op = "CHECK_RPT" -> _rpt(m, TopOf(m, 0))
    [] op = "CHECK_ITER" -> _iter(m, TopOf(m, 0))
    [] op = "LEN" -> Push(Pop(m, 1), Num(SizeOf(m, TopOf(m, 0))))
    [] op = "TRY_PUSH" ->
         [m EXCEPT !.handlers = Append(@, [frame |-> Len(m.frames), sp |-> Len(m.stack),
                                           boxes |-> Len(m.boxes), catch |-> arg])]
    [] op = "TRY_POP" -> [m EXCEPT !.handlers = Cut(@, 1)]
    [] op = "HALT" -> [m EXCEPT !.halted = TRUE]

\* An error goes to the innermost handler, or ends the program.
Unwind(m) ==
  LET h == Last(m.handlers)
  IN  IF m.handlers = <<>> THEN [m EXCEPT !.halted = TRUE]
      ELSE [m EXCEPT !.sig = "ok", !.why = "", !.handlers = Cut(@, 1),
                     !.perms = IF Len(m.boxes) > h.boxes THEN m.boxes[h.boxes + 1].saved ELSE @,
                     !.boxes = SubSeq(@, 1, h.boxes),
                     !.stack = Append(SubSeq(@, 1, h.sp), Text(m.why)),
                     !.frames = [SubSeq(@, 1, h.frame) EXCEPT ![h.frame].ip = h.catch]]

\* The line the table of the function gives for an offset.
LineAt(proto, off) ==
  LET runs == {i \in DOMAIN proto.lines : proto.lines[i][1] <= off}
  IN  IF runs = {} THEN 0 ELSE proto.lines[CHOOSE i \in runs : \A j \in runs : j <= i][2]

Step(c, m) ==
  LET f == Cur(m)
      ins == c.protos[f.p].code[f.ip + 1]
      n == Do(c, Goto(m, f.ip + 1), ins.op, ins.arg)
  IN  IF n.sig = "err" THEN Unwind([n EXCEPT !.ln = LineAt(c.protos[f.p], f.ip)]) ELSE n

\* 2^k instructions, or fewer when the program ends.
RECURSIVE Steps(_, _, _)
Steps(c, m, k) ==
  IF m.halted THEN m
  ELSE IF k = 0 THEN Step(c, m) ELSE Steps(c, Steps(c, m, k - 1), k - 1)

vx_run_loop(c, prims) ==
  LET m == Steps(c, Boot(c, prims), Log2Steps)
  IN  [out |-> m.out, sig |-> IF m.halted THEN m.sig ELSE "cut", why |-> m.why,
       ln |-> IF m.sig = "err" THEN m.ln ELSE 0, unset |-> m.unset]
=============================================================================
