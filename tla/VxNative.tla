------------------------------ MODULE VxNative ------------------------------
(* The native backend: every function of the bytecode becomes a C function *)
(* whose statements use the runtime of the VM.  What differs is control: a *)
(* call is a C call, a jump a goto, and an error a longjmp to the setjmp   *)
(* of the innermost try, which cuts the C stack.  A C activation is the    *)
(* function it runs and the place it will go on from.                      *)
EXTENDS VxMachine

Activation(p) == [p |-> p, at |-> 0]
Running(m) == m.cstack[Len(m.cstack)]
goto(m, at) == [m EXCEPT !.cstack[Len(m.cstack)].at = at]

\* main: the frame of the top level, then np_0().
np_0(c, prims) == Boot(c, prims) @@ [cstack |-> <<Activation(1)>>]

\* A slot without a value: which message is decided when the C is written.
NativeLoadSlot(c, m, arg) ==
  LET p == Running(m).p
      v == m.stack[Cur(m).base + arg + 1]
      x == c.protos[p].slots[arg + 1]
  IN  IF v # Unset THEN Push(m, v)
      ELSE Throw(m, IF p = 1 THEN "variable " \o x \o " is not defined"
                    ELSE "variable " \o x
                         \o " is assigned in this function but used before it has a value")

\* A Vidyax function is entered through NFN, and left by its own return.
NativeCall(c, m, argc) ==
  LET f == TopOf(m, argc)
      n == CallOp(c, m, argc)
  IN  IF f.k = "func" /\ n.sig = "ok"
      THEN [n EXCEPT !.cstack = Append(@, Activation(f.f))] ELSE n
NativeReturn(m) == [ReturnOp(m) EXCEPT !.cstack = Cut(@, 1)]

\* setjmp remembers the C activation that owns the try.
NativeTry(m, arg) ==
  [m EXCEPT !.handlers = Append(@, [frame |-> Len(m.frames), sp |-> Len(m.stack),
                                    boxes |-> Len(m.boxes), catch |-> arg, c |-> Len(m.cstack)])]
\* Mutant of NativeError: the sandboxes of the failed block stay in force.
NativeErrorKeepsSandboxes(m) ==
  LET h == Last(m.handlers)
  IN  IF m.handlers = <<>> THEN [m EXCEPT !.halted = TRUE]
      ELSE [Unwind(m) EXCEPT !.cstack = [SubSeq(@, 1, h.c) EXCEPT ![h.c].at = h.catch],
                             !.perms = m.perms, !.boxes = m.boxes]

\* vm_error: longjmp, or the end of the program.
NativeError(m) ==
  LET h == Last(m.handlers)
  IN  IF m.handlers = <<>> THEN [m EXCEPT !.halted = TRUE]
      ELSE [Unwind(m) EXCEPT !.cstack = [SubSeq(@, 1, h.c) EXCEPT ![h.c].at = h.catch]]

\* Statements that use the runtime of the VM as its own loop does.
Inline(c, m, op, arg) == Do(c, m, op, arg)

\* The C statement of an instruction.
_gen_proto(c, m, op, arg) ==
  CASE op = "LOAD_SLOT" -> NativeLoadSlot(c, m, arg)
    [] op = "CALL" -> NativeCall(c, m, arg)
    [] op = "RET" -> NativeReturn(m)
    [] op = "TRY_PUSH" -> NativeTry(m, arg)
    [] op = "JMP" -> goto(m, arg)
    [] op = "JMP_IF_FALSE" -> IF truthy(m, TopOf(m, 0)) THEN Pop(m, 1) ELSE goto(Pop(m, 1), arg)
    [] op = "JIF_PEEK" -> IF truthy(m, TopOf(m, 0)) THEN m ELSE goto(m, arg)
    [] op = "JIT_PEEK" -> IF truthy(m, TopOf(m, 0)) THEN goto(m, arg) ELSE m
    [] OTHER -> Inline(c, m, op, arg)

NativeStep(c, m) ==
  LET a == Running(m)
      ins == c.protos[a.p].code[a.at + 1]
      n == _gen_proto(c, goto(m, a.at + 1), ins.op, ins.arg)
  IN  IF n.sig = "err" THEN NativeError(n) ELSE n

RECURSIVE NativeSteps(_, _, _)
NativeSteps(c, m, k) ==
  IF m.halted THEN m
  ELSE IF k = 0 THEN NativeStep(c, m) ELSE NativeSteps(c, NativeSteps(c, m, k - 1), k - 1)

RunNative(c, prims) ==
  LET m == NativeSteps(c, np_0(c, prims), Log2Steps)
  IN  [out |-> m.out, sig |-> IF m.halted THEN m.sig ELSE "cut", why |-> m.why, ln |-> 0,
       unset |-> m.unset]
=============================================================================
