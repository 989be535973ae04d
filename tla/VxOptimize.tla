----------------------------- MODULE VxOptimize -----------------------------
(* The optimizations of the VM pipeline: inlining of small functions in    *)
(* the tree, and on the bytecode the peephole pass and the pass over the   *)
(* control-flow graph (jump threading, removal of unreachable blocks).     *)
EXTENDS VxCompile
LOCAL INSTANCE SequencesExt

(***************************************************************************)
(* Inlining.  A candidate is a top-level function whose body returns an    *)
(* expression of literals, its parameters and built-in calls, in which     *)
(* every parameter occurs and first occurs in the order of declaration.    *)
(***************************************************************************)
RECURSIVE Plain(_, _), Uses(_)
Plain(n, params) ==
  CASE IsLiteral(n) -> TRUE
    [] n.t = "Var" -> n.name \in params
    [] n.t = "BinOp" -> n.op \notin {"and", "or"} /\ Plain(n.l, params) /\ Plain(n.r, params)
    [] n.t = "UnaryOp" -> Plain(n.operand, params)
    [] n.t = "Call" -> /\ n.callee.t = "Var" /\ n.callee.name \in BuiltinNames
                       /\ \A i \in DOMAIN n.args : Plain(n.args[i], params)
    [] OTHER -> FALSE

UsesAll(ns) == FoldLeft(LAMBDA s, n : s \o Uses(n), <<>>, ns)
Uses(n) ==
  CASE n.t = "Var" -> <<n.name>>
    [] n.t = "BinOp" -> Uses(n.l) \o Uses(n.r)
    [] n.t = "UnaryOp" -> Uses(n.operand)
    [] n.t = "Call" -> UsesAll(n.args)
    [] OTHER -> <<>>
FirstUses(s) == FoldLeft(LAMBDA r, x : IF x \in SetOf(r) THEN r ELSE Append(r, x), <<>>, s)

\* What the scan reaches: not the model and system of an agent.
Scanned(n) == IF n.t = "AgentDef" THEN {} ELSE Exprs(n)
RECURSIVE AsValue(_), Reassigned(_)
AsValue(n) ==
  (IF n.t = "Var" THEN {n.name} ELSE {})
  \cup UNION {AsValue(k) : k \in (IF n.t = "Call" /\ n.callee.t = "Var" THEN SetOf(n.args)
                                  ELSE Scanned(n)) \cup Inner(n) \cup FuncBody(n)}
Reassigned(n) ==
  (IF n.t = "Assign" THEN {n.name} ELSE {})
  \cup UNION {Reassigned(k) : k \in Inner(n) \cup FuncBody(n)}

TopFuncs(prog) == {i \in DOMAIN prog : prog[i].t = "FuncDef"}
Banned(prog) ==
  UNION {AsValue(s) \cup Reassigned(s) : s \in SetOf(prog)}
  \cup {prog[i].name : i \in {j \in TopFuncs(prog) :
                                \E k \in TopFuncs(prog) : k # j /\ prog[k].name = prog[j].name}}
_collect_candidates(prog) ==
  {f \in {prog[i] : i \in TopFuncs(prog)} :
     /\ f.name \notin Banned(prog)
     /\ Len(f.body) = 1 /\ f.body[1].t = "Return" /\ f.body[1].value # None
     /\ Plain(f.body[1].value, SetOf(f.params))
     /\ FirstUses(Uses(f.body[1].value)) = f.params}

RECURSIVE _subst(_, _)
_subst(n, mapping) ==
  CASE n.t = "Var" -> mapping[n.name]
    [] n.t = "BinOp" -> [n EXCEPT !.l = _subst(@, mapping), !.r = _subst(@, mapping)]
    [] n.t = "UnaryOp" -> [n EXCEPT !.operand = _subst(@, mapping)]
    [] n.t = "Call" -> [n EXCEPT !.args = [i \in DOMAIN @ |-> _subst(@[i], mapping)]]
    [] OTHER -> n

\* Mutant of _pure_arg: any argument may be moved into the body.
_pure_argAny(n) == TRUE

_pure_arg(n) == IsLiteral(n) \/ n.t = "Var"
Inlined(cand, n) ==
  LET f == CHOOSE g \in cand : g.name = n.callee.name
  IN  _subst(f.body[1].value, [x \in SetOf(f.params) |-> n.args[IndexIn(f.params, x)]])
CanInline(cand, n) ==
  /\ n.callee.t = "Var"
  /\ \E f \in cand : f.name = n.callee.name /\ Len(f.params) = Len(n.args)
  /\ \A i \in DOMAIN n.args : _pure_arg(n.args[i])

RECURSIVE Rw(_, _)
RwAll(cand, ns) == [i \in DOMAIN ns |-> Rw(cand, ns[i])]
\* The call of a `go' stays a call.
Rw(cand, n) ==
  CASE n.t = "BinOp" -> [n EXCEPT !.l = Rw(cand, @), !.r = Rw(cand, @)]
    [] n.t = "UnaryOp" -> [n EXCEPT !.operand = Rw(cand, @)]
    [] n.t = "ListLit" -> ListLit(RwAll(cand, n.items))
    [] n.t = "DictLit" -> DictLit([i \in DOMAIN n.pairs |-> RwAll(cand, n.pairs[i])])
    [] n.t = "Member" -> [n EXCEPT !.obj = Rw(cand, @)]
    [] n.t = "Index" -> [n EXCEPT !.obj = Rw(cand, @), !.idx = Rw(cand, @)]
    [] n.t = "Input" -> Input(Rw(cand, n.prompt))
    [] n.t = "GoTask" -> [n EXCEPT !.call.args = RwAll(cand, @)]
    [] n.t = "Call" ->
         LET m == [n EXCEPT !.callee = IF @.t = "Var" THEN @ ELSE Rw(cand, @),
                            !.args = RwAll(cand, @)]
         IN  IF CanInline(cand, m) THEN Inlined(cand, m) ELSE m
    [] n.t \in {"Assign", "Return"} -> [n EXCEPT !.value = Rw(cand, @)]
    [] n.t \in {"Print", "ExprStmt"} -> [n EXCEPT !.expr = Rw(cand, @)]
    [] n.t = "If" ->
         If(Rw(cand, n.cond), RwAll(cand, n.body), RwAll(cand, n.orelse), n.ln)
    [] n.t = "RepeatN" -> RepeatN(Rw(cand, n.count), RwAll(cand, n.body), n.ln)
    [] n.t = "ForEach" -> ForEach(n.var, Rw(cand, n.iterable), RwAll(cand, n.body), n.ln)
    [] n.t \in {"FuncDef", "Sandbox"} -> [n EXCEPT !.body = RwAll(cand, @)]
    [] n.t = "TryCatch" -> [n EXCEPT !.body = RwAll(cand, @), !.catch = RwAll(cand, @)]
    [] OTHER -> n

_inline_program(prog) == RwAll(_collect_candidates(prog), prog)

(***************************************************************************)
(* The bytecode passes.  Both keep some instructions and move the rest up: *)
(* a target and the start of a line run move with the instructions before. *)
(***************************************************************************)
Branches == {"JMP", "JMP_IF_FALSE", "JIF_PEEK", "JIT_PEEK"}
Leaps == Branches \cup {"TRY_PUSH"}
Offsets(code) == 0..(Len(code) - 1)
InsAt(code, i) == code[i + 1]
Targets(code) == {InsAt(code, i).arg : i \in {j \in Offsets(code) : InsAt(code, j).op \in Leaps}}

Moved(keep, off) == Cardinality({i \in keep : i < off})
\* Runs that fall together: the last one wins; equal lines in a row are one.
AddRun(runs, r) ==
  CASE runs # <<>> /\ runs[Len(runs)][1] = r[1] -> [runs EXCEPT ![Len(runs)] = r]
    [] runs = <<>> \/ runs[Len(runs)][2] # r[2] -> Append(runs, r)
    [] OTHER -> runs
Relink(proto, keep) ==
  LET move(ins) == IF ins.op \in Leaps THEN Ins(ins.op, Moved(keep, ins.arg)) ELSE ins
      ordered == SelectSeq([i \in DOMAIN proto.code |-> i - 1], LAMBDA i : i \in keep)
  IN  [proto EXCEPT
        !.code = [i \in DOMAIN ordered |-> move(InsAt(@, ordered[i]))],
        !.lines = FoldLeft(LAMBDA runs, r : AddRun(runs, <<Moved(keep, r[1]), r[2]>>), <<>>, @)]

\* A value that is pushed and popped at once.
Pure == {"CONST", "LOAD_SLOT", "NULL", "TRUE", "FALSE"}
\* Mutant of _peephole: the read of a heap variable counts as pure.
_peepholeLoads(proto) ==
  LET code == proto.code
      drop == {i \in Offsets(code) : /\ InsAt(code, i).op \in Pure \cup {"LOAD"}
                                     /\ i + 1 \in Offsets(code) /\ InsAt(code, i + 1).op = "POP"
                                     /\ {i, i + 1} \cap Targets(code) = {}}
  IN  Relink(proto, Offsets(code) \ (drop \cup {i + 1 : i \in drop}))

_peephole(proto) ==
  LET code == proto.code
      drop == {i \in Offsets(code) : /\ InsAt(code, i).op \in Pure
                                     /\ i + 1 \in Offsets(code) /\ InsAt(code, i + 1).op = "POP"
                                     /\ {i, i + 1} \cap Targets(code) = {}}
  IN  Relink(proto, Offsets(code) \ (drop \cup {i + 1 : i \in drop}))

MaxHops == 8
RECURSIVE FinalTarget(_, _, _)
FinalTarget(code, off, hops) ==
  IF hops < MaxHops /\ off \in Offsets(code) /\ InsAt(code, off).op = "JMP"
  THEN FinalTarget(code, InsAt(code, off).arg, hops + 1) ELSE off

\* Mutant of Succ: the handler of a try is not a successor.
SuccFallsThrough(code, i) ==
  (IF InsAt(code, i).op \in Branches THEN {InsAt(code, i).arg} ELSE {})
  \cup (IF InsAt(code, i).op \in {"JMP", "RET", "HALT"} THEN {} ELSE {i + 1})

\* Where control may go from an instruction; from a TRY_PUSH also to its handler.
Succ(code, i) ==
  (IF InsAt(code, i).op \in Leaps THEN {InsAt(code, i).arg} ELSE {})
  \cup (IF InsAt(code, i).op \in {"JMP", "RET", "HALT"} THEN {} ELSE {i + 1})
RECURSIVE Reach(_, _)
Reach(code, S) ==
  LET T == S \cup (UNION {Succ(code, i) : i \in S} \cap Offsets(code))
  IN  IF T = S THEN S ELSE Reach(code, T)

\* In place and from the front: a later jump sees the earlier ones threaded.
Thread(code, k) ==
  IF code[k].op \in Leaps THEN [code EXCEPT ![k].arg = FinalTarget(code, @, 0)] ELSE code
Threaded(code) == FoldLeft(Thread, code, [k \in DOMAIN code |-> k])
\* Inside a block each instruction falls to the next: a block survives whole.
_cfg(proto) ==
  LET code == Threaded(proto.code)
  IN  Relink([proto EXCEPT !.code = code], Reach(code, {0}))
=============================================================================
