----------------------------- MODULE VxSyntax -------------------------------
(* What the front end of vidyax.py computes from the syntax tree before    *)
(* any engine runs: the names a body binds (assigned_names) and the static *)
(* type pass (type_check).                                                 *)
EXTENDS VxNodes

(***************************************************************************)
(* The parts of a node: what _walk visits, and what the generic scans of   *)
(* the compiler descend into.                                              *)
(***************************************************************************)
Exprs(n) ==
  CASE n.t \in {"Assign", "Return"} -> {n.value}
    [] n.t \in {"Print", "ExprStmt"} -> {n.expr}
    [] n.t = "If" -> {n.cond}
    [] n.t = "RepeatN" -> {n.count}
    [] n.t = "ForEach" -> {n.iterable}
    [] n.t = "AgentDef" -> {n.model, n.system}
    [] n.t = "ListLit" -> SetOf(n.items)
    [] n.t = "DictLit" -> UNION {{p[1], p[2]} : p \in SetOf(n.pairs)}
    [] n.t = "Input" -> {n.prompt}
    [] n.t = "BinOp" -> {n.l, n.r}
    [] n.t = "UnaryOp" -> {n.operand}
    [] n.t = "Call" -> {n.callee} \cup SetOf(n.args)
    [] n.t = "Member" -> {n.obj}
    [] n.t = "Index" -> {n.obj, n.idx}
    [] n.t = "GoTask" -> {n.call}
    [] OTHER -> {}

\* The statements directly inside a statement, other than a function's.
Inner(n) ==
  CASE n.t = "If" -> SetOf(n.body) \cup SetOf(n.orelse)
    [] n.t \in {"RepeatN", "ForEach", "Sandbox"} -> SetOf(n.body)
    [] n.t = "TryCatch" -> SetOf(n.body) \cup SetOf(n.catch)
    [] OTHER -> {}

FuncBody(n) == IF n.t = "FuncDef" THEN SetOf(n.body) ELSE {}

\* _walk does not look into DictLit: its pairs are tuples, not nodes.
RECURSIVE Walk(_)
Walk(n) ==
  {n} \cup UNION {Walk(k) : k \in (IF n.t = "DictLit" THEN {} ELSE Exprs(n))
                                  \cup Inner(n) \cup FuncBody(n)}

\* Every node, the inside of dicts included: what an engine may evaluate.
RECURSIVE Nodes(_)
Nodes(n) == {n} \cup UNION {Nodes(k) : k \in Exprs(n) \cup Inner(n) \cup FuncBody(n)}

Binds(n) ==
  CASE n.t \in {"Assign", "FuncDef", "AgentDef", "Import"} -> {n.name}
    [] n.t = "ForEach" -> {n.var}
    [] n.t = "TryCatch" -> {n.err} \ {""}
    [] OTHER -> {}

RECURSIVE AssignedIn(_)
AssignedIn(n) == Binds(n) \cup UNION {AssignedIn(k) : k \in Inner(n)}
assigned_names(body) == UNION {AssignedIn(n) : n \in SetOf(body)}

(***************************************************************************)
(* The static type pass.                                                   *)
(***************************************************************************)
infer_type(n) ==
  CASE n.t = "Number" -> "number" [] n.t = "Str" -> "text"
    [] n.t = "Bool" -> "boolean" [] n.t = "Null" -> "null"
    [] n.t = "ListLit" -> "list" [] n.t = "DictLit" -> "dict"
    [] OTHER -> "unknown"

Arith == {"-", "/", "%"}
Compare == {"<", ">", "<=", ">="}

RejectedOp(n) ==
  LET lt == infer_type(n.l)
      rt == infer_type(n.r)
  IN  \/ n.op \in Arith /\ {lt, rt} \ {"unknown", "number"} # {}
      \/ /\ n.op \in Compare
         /\ \/ {lt, rt} \ {"unknown", "number", "text"} # {}
            \/ "unknown" \notin {lt, rt} /\ lt # rt

type_check(body) ==
  \A n \in UNION {Walk(s) : s \in SetOf(body)} : n.t = "BinOp" => ~RejectedOp(n)
=============================================================================
