------------------------------- MODULE VxRun --------------------------------
(* The two Python engines: the tree walker (class Interpreter) and the     *)
(* Python that the transpiler writes, run as Python runs it.  They share   *)
(* the runtime; what differs is how a name finds its value, what is true   *)
(* and how an error is worded.  Tasks are left to PyTasks.                 *)
EXTENDS VxValues

CONSTANT Reserved   \* names that Python keeps: keywords and names with a leading _

(***************************************************************************)
(* Environments.  up = 0 for the outermost; decl are the names assigned in *)
(* a function, which are local to it even before they have a value.  In    *)
(* the Python text the top level is a function too, _main.                 *)
(***************************************************************************)
Env(up, decl) == [vars |-> <<>>, up |-> up, decl |-> decl]

NewEnv(st, up, decl) == [st EXCEPT !.envs = Append(@, Env(up, decl))]
Set(st, e, x, v) == [st EXCEPT !.envs[e].vars = (x :> v) @@ @]

NotDefined(x) == "variable " \o x \o " is not defined"
NoValueYet(x) == "variable " \o x \o " is assigned in this function but used before it has a value"

\* Python tells a local of the running function from one of an enclosing
\* function; the walker and the VM do not.
RECURSIVE Find(_, _, _, _)
Find(st, here, e, x) ==
  CASE e = 0 -> Throw(st, NotDefined(x))
    [] x \in DOMAIN st.envs[e].vars -> Give(st, st.envs[e].vars[x])
    [] x \in st.envs[e].decl ->
         Throw(st, IF st.eng = "fast" /\ (e # here \/ e = 1) THEN NotDefined(x)
                   ELSE NoValueYet(x))
    [] OTHER -> Find(st, here, st.envs[e].up, x)
Get(st, e, x) == Find(st, e, e, x)

\* The name that messages use, which the transpiler keeps.
Shown(n) == IF "shown" \in DOMAIN n THEN n.shown ELSE n.name

\* A Python name that the transpiled text relies on and the program took.
RECURSIVE Binding(_, _, _)
Binding(st, e, x) ==
  e # 0 /\ \/ x \in DOMAIN st.envs[e].vars \cup st.envs[e].decl
           \/ Binding(st, st.envs[e].up, x)
Taken(st, e, x) == st.eng = "fast" /\ Binding(st, e, x)

(***************************************************************************)
(* Expressions, in the order the engines evaluate their parts.  An error   *)
(* of the walker has the line of the node that raised it, whatever the     *)
(* line of its statement; the heads of loops and `use' raise without one.  *)
(***************************************************************************)
Placed(n, st) == IF st.sig = "err" THEN [st EXCEPT !.ln = n.ln] ELSE st
Unplaced(st) == IF st.sig = "err" THEN [st EXCEPT !.ln = NoLine] ELSE st

RECURSIVE Eval(_, _, _), EvalAll(_, _, _), Exec(_, _, _), Block(_, _, _),
          Repeat(_, _, _, _), Each(_, _, _, _, _)

\* The values of several expressions, in st.vs.
EvalAll(ns, e, st) ==
  IF ns = <<>> THEN [st EXCEPT !.vs = <<>>]
  ELSE Bind(Eval(Head(ns), e, st), LAMBDA a :
       Bind(EvalAll(Tail(ns), e, a), LAMBDA b : [b EXCEPT !.vs = <<a.v>> \o @]))

RECURSIVE Flat(_)
Flat(pairs) == IF pairs = <<>> THEN <<>> ELSE Head(pairs) \o Flat(Tail(pairs))

\* call_function; the Python gate _call words a wrong count the same way.
CallFunction(st, fn, args) ==
  LET f == fn.f
      ps == f.params
      in == NewEnv(st, fn.env, assigned_names(f.body) \ SetOf(ps))
      bound == [in EXCEPT !.envs[Len(in.envs)].vars =
                  [x \in SetOf(ps) |-> args[CHOOSE i \in DOMAIN ps :
                       ps[i] = x /\ \A j \in DOMAIN ps : ps[j] = x => j <= i]]]
      done == Block(f.body, Len(in.envs), bound)
  IN  CASE done.sig = "ok" -> Give(done, Null)
        [] done.sig = "return" -> [done EXCEPT !.sig = "ok"]
        [] OTHER -> done

\* The call n, when its function and its arguments have their values.
Apply(st, n, f, args) ==
  CASE f.k = "func" /\ Len(args) = Len(f.f.params) -> CallFunction(st, f, args)
    [] f.k = "func" /\ Len(args) # Len(f.f.params) ->
         Placed(n, Throw(st, "function " \o Shown(f.f) \o " needs other args"))
    [] f.k = "prim" -> Placed(n, Builtin(st, f.name, args))
    [] OTHER -> Placed(n, Throw(st, "this is not a function"))

Eval(n, e, st) ==
  CASE n.t = "Number" -> Give(st, Num(n.n))
    [] n.t = "Str" -> Give(st, Text(n.s))
    [] n.t = "Bool" -> Give(st, Truth(n.b))
    [] n.t \in {"Null", "None"} -> Give(st, Null)
    [] n.t = "Var" -> Placed(n, Get(st, e, n.name))
    [] n.t = "ListLit" -> Bind(EvalAll(n.items, e, st), LAMBDA s : NewList(s, s.vs))
    [] n.t = "DictLit" ->
         Bind(EvalAll(Flat(n.pairs), e, st), LAMBDA s :
              NewDict(s, [i \in DOMAIN n.pairs |-> <<s.vs[2 * i - 1], s.vs[2 * i]>>]))
    [] n.t = "Input" ->
         Bind(Eval(n.prompt, e, st), LAMBDA s :
              IF Taken(s, e, "input") THEN Throw(s, "object is not callable")
              ELSE ReadLine(s, s.v))
    [] n.t = "UnaryOp" ->
         Bind(Eval(n.operand, e, st), LAMBDA s :
              IF n.op = "not" THEN Give(s, Truth(~truthy(s, s.v))) ELSE Placed(n, _neg(s, s.v)))
    [] n.t = "BinOp" /\ n.op = "and" ->
         Bind(Eval(n.l, e, st), LAMBDA s : IF truthy(s, s.v) THEN Eval(n.r, e, s) ELSE s)
    [] n.t = "BinOp" /\ n.op = "or" ->
         Bind(Eval(n.l, e, st), LAMBDA s : IF truthy(s, s.v) THEN s ELSE Eval(n.r, e, s))
    [] n.t = "BinOp" ->
         Bind(EvalAll(<<n.l, n.r>>, e, st), LAMBDA s :
              Placed(n, Operate(s, n.op, s.vs[1], s.vs[2])))
    [] n.t = "Index" ->
         Bind(EvalAll(<<n.obj, n.idx>>, e, st), LAMBDA s :
              Placed(n, _index(s, s.vs[1], s.vs[2])))
    [] n.t = "Member" -> Bind(Eval(n.obj, e, st), LAMBDA s : Placed(n, _member(s, s.v, n.name)))
    [] n.t = "Call" ->
         Bind(EvalAll(<<n.callee>> \o n.args, e, st), LAMBDA s :
              Apply(s, n, Head(s.vs), Tail(s.vs)))

(***************************************************************************)
(* Statements.                                                             *)
(***************************************************************************)
Block(body, e, st) ==
  IF body = <<>> THEN st
  ELSE Bind(Exec(Head(body), e, st), LAMBDA s : Block(Tail(body), e, s))

\* What a loop makes of the end of its body.
Around(st, Again(_)) ==
  CASE st.sig \in {"ok", "continue"} -> Again([st EXCEPT !.sig = "ok"])
    [] st.sig = "break" -> [st EXCEPT !.sig = "ok"]
    [] OTHER -> st
Repeat(n, left, e, st) ==
  IF left <= 0 THEN st
  ELSE Around(Block(n.body, e, st), LAMBDA s : Repeat(n, left - 1, e, s))
\* The list is read afresh in every turn: the body may change it.
Each(n, it, i, e, st) ==
  IF i >= SizeOf(st, it) THEN st
  ELSE LET at == _index(st, it, Num(i))
       IN  Around(Block(n.body, e, Set(at, e, n.var, at.v)),
                  LAMBDA s : Each(n, it, i + 1, e, s))

Catch(n, e, st) ==
  IF st.sig # "err" THEN st
  ELSE LET s == [st EXCEPT !.sig = "ok", !.why = ""]
       IN  IF Taken(s, e, "Exception") THEN Throw(s, "catching classes that are no exceptions")
           ELSE Block(n.catch, e, IF n.err = "" THEN s ELSE Set(s, e, n.err, Text(st.why)))

Exec(n, e, st) ==
  CASE n.t = "Assign" ->
         Bind(Eval(n.value, e, st), LAMBDA s : Set(s, e, n.name, s.v))
    [] n.t = "Print" ->
         Bind(Eval(n.expr, e, st), LAMBDA s : [s EXCEPT !.out = Append(@, _vstr(s, s.v))])
    [] n.t = "ExprStmt" -> Eval(n.expr, e, st)
    [] n.t = "If" ->
         Bind(Eval(n.cond, e, st), LAMBDA s :
              Block(IF truthy(s, s.v) THEN n.body ELSE n.orelse, e, s))
    [] n.t = "RepeatN" ->
         Bind(Eval(n.count, e, st), LAMBDA s :
         Bind(Unplaced(_rpt(s, s.v)), LAMBDA r : Repeat(n, r.v.n, e, r)))
    [] n.t = "ForEach" ->
         Bind(Eval(n.iterable, e, st), LAMBDA s :
         Bind(Unplaced(_iter(s, s.v)), LAMBDA r : Each(n, r.v, 0, e, r)))
    [] n.t = "FuncDef" -> LET s == NewFunc(st, n, e) IN Set(s, e, n.name, s.v)
    [] n.t = "Return" ->
         Bind(Eval(n.value, e, st), LAMBDA s : [s EXCEPT !.sig = "return"])
    [] n.t = "Break" -> [st EXCEPT !.sig = "break"]
    [] n.t = "Continue" -> [st EXCEPT !.sig = "continue"]
    [] n.t = "TryCatch" -> Catch(n, e, Block(n.body, e, st))
    [] n.t = "Import" ->
         IF n.name = "ai" THEN LET s == NewAi(st) IN Set(s, e, "ai", s.v)
         ELSE Unplaced(Throw(st, "unknown module"))
    [] n.t = "Sandbox" ->
         [Block(n.body, e, [st EXCEPT !.perms = @ \ n.denies]) EXCEPT !.perms = st.perms]
    [] n.t = "AgentDef" ->
         Bind(EvalAll(<<n.model, n.system>>, e, st), LAMBDA s :
         Bind(NewAgent(s, Shown(n)), LAMBDA a : Set(a, e, n.name, a.v)))

(***************************************************************************)
(* A program from its start to its end.                                    *)
(***************************************************************************)
Outcome(st) == [out |-> st.out, sig |-> st.sig, why |-> st.why,
                ln |-> IF st.sig = "err" THEN st.ln ELSE 0]

run_text(prog) ==
  LET st == NewEnv(StartState("walk"), 0, {})
  IN  Outcome(Block(prog, 1, [st EXCEPT !.envs[1].vars = [x \in BuiltinNames |-> Prim(x)]]))

(***************************************************************************)
(* The transpiler: the tree of the Python text that it writes.  Names that *)
(* Python would not take are changed, the built-ins become names of the    *)
(* runtime, and a bare return stays bare; the rest is Python's own syntax. *)
(***************************************************************************)
\* Mutant of _pyname: names are used as they are.
_pynameAsIs(x) == x

_pyname(x) == IF x \in Reserved THEN "v_" \o x ELSE x

RECURSIVE PyExpr(_), PyStmt(_)
PyExprs(ns) == [i \in DOMAIN ns |-> PyExpr(ns[i])]
PyBlock(body) == [i \in DOMAIN body |-> PyStmt(body[i])]

PyExpr(n) ==
  CASE n.t = "Var" -> [n EXCEPT !.name = IF @ \in BuiltinNames THEN "_b_" \o @ ELSE _pyname(@)]
    [] n.t = "ListLit" -> ListLit(PyExprs(n.items))
    [] n.t = "DictLit" -> DictLit([i \in DOMAIN n.pairs |-> PyExprs(n.pairs[i])])
    [] n.t = "Input" -> Input(PyExpr(n.prompt))
    [] n.t = "UnaryOp" -> [n EXCEPT !.operand = PyExpr(@)]
    [] n.t = "BinOp" -> [n EXCEPT !.l = PyExpr(@), !.r = PyExpr(@)]
    [] n.t = "Call" -> [n EXCEPT !.callee = PyExpr(@), !.args = PyExprs(@)]
    [] n.t = "Member" -> [n EXCEPT !.obj = PyExpr(@)]
    [] n.t = "Index" -> [n EXCEPT !.obj = PyExpr(@), !.idx = PyExpr(@)]
    [] OTHER -> n

PyStmt(n) ==
  CASE n.t = "Assign" -> Assign(_pyname(n.name), PyExpr(n.value), n.ln)
    [] n.t = "Print" -> PrintS(PyExpr(n.expr), n.ln)
    [] n.t = "ExprStmt" -> ExprStmt(PyExpr(n.expr), n.ln)
    [] n.t = "If" -> If(PyExpr(n.cond), PyBlock(n.body), PyBlock(n.orelse), n.ln)
    [] n.t = "RepeatN" -> RepeatN(PyExpr(n.count), PyBlock(n.body), n.ln)
    [] n.t = "ForEach" -> ForEach(_pyname(n.var), PyExpr(n.iterable), PyBlock(n.body), n.ln)
    [] n.t = "FuncDef" -> FuncDef(_pyname(n.name), [i \in DOMAIN n.params |-> _pyname(n.params[i])],
                                  PyBlock(n.body), n.ln) @@ [shown |-> n.name]
    [] n.t = "Return" -> Return(PyExpr(n.value), n.ln)
    [] n.t = "TryCatch" -> TryCatch(PyBlock(n.body), IF n.err = "" THEN "" ELSE _pyname(n.err),
                                    PyBlock(n.catch), n.ln)
    [] n.t = "Sandbox" -> Sandbox(n.denies, PyBlock(n.body), n.ln)
    [] n.t = "AgentDef" -> AgentDef(_pyname(n.name), PyExpr(n.model), PyExpr(n.system), n.ln)
                             @@ [shown |-> n.name]
    [] OTHER -> n   \* break, continue, use

\* Every name of the text Python will read.
NamesOf(prog) ==
  LET nodes == UNION {Nodes(s) : s \in SetOf(prog)}
  IN  UNION {Binds(n) : n \in nodes} \cup {n.name : n \in {m \in nodes : m.t = "Var"}}
      \cup UNION {SetOf(n.params) : n \in {m \in nodes : m.t = "FuncDef"}}

UnknownModule(prog) ==
  \E n \in UNION {Nodes(s) : s \in SetOf(prog)} : n.t = "Import" /\ n.name # "ai"

\* The built-ins are names of the module around _main.
run_fast_text(prog) ==
  LET py == PyBlock(prog)
      st == NewEnv(StartState("fast"), 2, assigned_names(py))
      runtime == {"_b_" \o x : x \in BuiltinNames}
      all == [NewEnv(st, 0, {}) EXCEPT !.envs[2].vars =
                [y \in runtime |-> Prim(CHOOSE x \in BuiltinNames : "_b_" \o x = y)]]
  IN  CASE NamesOf(py) \cap Reserved # {} -> Outcome(Throw(st, "not Python"))
        [] UnknownModule(prog) -> Outcome(Throw(st, "unknown module"))
        [] OTHER -> Outcome(Block(py, 1, all))
=============================================================================
