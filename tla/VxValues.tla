------------------------------ MODULE VxValues ------------------------------
(* Values and operators, as the runtime shared by the two Python engines    *)
(* defines them and as vm/value.c repeats them.  A list or a dict is a     *)
(* reference into the heap, and functions, agents and ai objects have a    *)
(* place there too: that is who they are.  st is the state of an engine:   *)
(* the value just computed (v), how the last step ended (sig, with why and *)
(* the line ln for an error), the heap, the printed lines, the permissions *)
(* and the lines left on stdin.                                            *)
EXTENDS VxSyntax, Integers, TLC

CONSTANTS
  TextOrder,   \* the texts that programs compare, in order
  Stdin        \* the lines a program can ask for

Num(n) == [k |-> "num", n |-> n]
Text(s) == [k |-> "str", s |-> s]
Truth(b) == [k |-> "bool", b |-> b]
Null == [k |-> "null"]
Ref(k, r) == [k |-> k, r |-> r]
Prim(x) == [k |-> "prim", name |-> x]
Bound(m) == [k |-> "bound", name |-> m]
Unset == [k |-> "unset"]

Give(st, v) == [st EXCEPT !.v = v]
Throw(st, why) == [st EXCEPT !.sig = "err", !.why = why]
Bind(st, Rest(_)) == IF st.sig = "ok" THEN Rest(st) ELSE st

Items(st, v) == st.heap[v.r].items
NewList(st, items) ==
  [st EXCEPT !.heap = Append(@, [items |-> items]), !.v = Ref("list", Len(st.heap) + 1)]
NewObject(st, v) ==
  [st EXCEPT !.heap = Append(@, [items |-> <<>>]), !.v = [r |-> Len(st.heap) + 1] @@ v]
NewFunc(st, f, e) == NewObject(st, [k |-> "func", f |-> f, env |-> e])
NewAgent(st, x) == NewObject(st, [k |-> "agent", name |-> x])
NewAi(st) == NewObject(st, [k |-> "ai"])
\* A later pair with the same key takes the place of the earlier one.
NewDict(st, pairs) ==
  LET key(i) == pairs[i][1]
      first == {i \in DOMAIN pairs : \A j \in 1..(i - 1) : key(j) # key(i)}
      last(i) == CHOOSE j \in DOMAIN pairs :
                   key(j) = key(i) /\ \A l \in (j + 1)..Len(pairs) : key(l) # key(i)
      at(i) == Cardinality({j \in first : j <= i})
      where(i) == CHOOSE j \in first : at(j) = i
      kept == [i \in 1..Cardinality(first) |-> <<key(where(i)), pairs[last(where(i))][2]>>]
  IN  [st EXCEPT !.heap = Append(@, [pairs |-> kept]), !.v = Ref("dict", Len(st.heap) + 1)]

StartState(eng) ==
  [eng |-> eng, sig |-> "ok", v |-> Null, vs |-> <<>>, why |-> "", ln |-> 0, out |-> <<>>,
   heap |-> <<>>, envs |-> <<>>, perms |-> {"net", "fs"}, inp |-> Stdin]

(***************************************************************************)
(* Helpers of every engine.                                                *)
(***************************************************************************)
Numlike(v) == v.k \in {"num", "bool"}
AsNum(v) == IF v.k = "num" THEN v.n ELSE IF v.b THEN 1 ELSE 0

type_name(v) ==
  CASE v.k = "num" -> "number" [] v.k = "str" -> "text" [] v.k \in {"func", "prim", "bound", "ai"} -> "object"
    [] OTHER -> v.k

\* An empty dict is true for the tree walker and for no one else.
truthy(st, v) ==
  CASE v.k = "null" -> FALSE
    [] v.k = "bool" -> v.b
    [] v.k = "num" -> v.n # 0
    [] v.k = "str" -> v.s # ""
    [] v.k = "list" -> Items(st, v) # <<>>
    [] v.k = "dict" -> st.eng = "walk" \/ st.heap[v.r].pairs # <<>>
    [] OTHER -> TRUE

RECURSIVE _vstr(_, _), Joined(_, _)
_vstr(st, v) ==
  CASE v.k = "num" -> ToString(v.n)
    [] v.k = "str" -> v.s
    [] v.k = "bool" -> IF v.b THEN "true" ELSE "false"
    [] v.k = "list" -> "[" \o Joined(st, Items(st, v)) \o "]"
    [] v.k = "dict" -> "{" \o Joined(st, [i \in DOMAIN st.heap[v.r].pairs |->
                                             Text(_vstr(st, st.heap[v.r].pairs[i][1]) \o ": "
                                                  \o _vstr(st, st.heap[v.r].pairs[i][2]))]) \o "}"
    [] v.k = "agent" -> "<agent " \o v.name \o ">"
    [] OTHER -> v.k
Joined(st, vs) ==
  IF vs = <<>> THEN ""
  ELSE _vstr(st, Head(vs)) \o (IF Len(vs) = 1 THEN "" ELSE ", ") \o Joined(st, Tail(vs))

\* Dicts are compared by content on the Python engines, by identity in C;
\* functions and agents everywhere by identity.
RECURSIVE values_eq(_, _, _)
values_eq(st, a, b) ==
  CASE Numlike(a) /\ Numlike(b) -> AsNum(a) = AsNum(b)
    [] a.k # b.k -> FALSE
    [] a.k = "list" ->
         LET x == Items(st, a)
             y == Items(st, b)
         IN  Len(x) = Len(y) /\ \A i \in DOMAIN x : values_eq(st, x[i], y[i])
    [] a.k = "dict" /\ st.eng # "vm" -> SetOf(st.heap[a.r].pairs) = SetOf(st.heap[b.r].pairs)
    [] OTHER -> a = b

Order(x, y) == IF x < y THEN -1 ELSE IF x > y THEN 1 ELSE 0
Rank(s) == CHOOSE i \in DOMAIN TextOrder : TextOrder[i] = s

RECURSIVE _cmp(_, _, _)
_cmp(st, a, b) ==
  CASE Numlike(a) /\ Numlike(b) -> Give(st, Order(AsNum(a), AsNum(b)))
    [] a.k = "str" /\ b.k = "str" -> Give(st, Order(Rank(a.s), Rank(b.s)))
    [] a.k = "list" /\ b.k = "list" ->
         LET x == Items(st, a)
             y == Items(st, b)
             apart == {i \in 1..Len(x) : i <= Len(y) /\ ~values_eq(st, x[i], y[i])}
             first == CHOOSE i \in apart : \A j \in apart : i <= j
         IN  IF apart = {} THEN Give(st, Order(Len(x), Len(y)))
             ELSE _cmp(st, x[first], y[first])
    [] OTHER -> Throw(st, "cannot compare " \o type_name(a) \o " with " \o type_name(b))

_add(st, a, b) ==
  CASE a.k = "str" \/ b.k = "str" -> Give(st, Text(_vstr(st, a) \o _vstr(st, b)))
    [] a.k = "list" /\ b.k = "list" -> NewList(st, Items(st, a) \o Items(st, b))
    [] Numlike(a) /\ Numlike(b) -> Give(st, Num(AsNum(a) + AsNum(b)))
    [] OTHER -> Throw(st, "cannot add " \o type_name(a) \o " and " \o type_name(b))

\* The remainder takes the sign of the divisor; programs divide exactly.
PyMod(x, y) == IF y > 0 THEN x % y ELSE -((-x) % (-y))
PyDiv(x, y) == IF y > 0 THEN x \div y ELSE (-x) \div (-y)
_arith(st, op, a, b) ==
  CASE ~(Numlike(a) /\ Numlike(b)) ->
         Throw(st, "cannot do arithmetic on " \o type_name(a) \o " and " \o type_name(b))
    [] op \in {"/", "%"} /\ AsNum(b) = 0 -> Throw(st, "cannot divide by 0")
    [] op = "-" -> Give(st, Num(AsNum(a) - AsNum(b)))
    [] op = "*" -> Give(st, Num(AsNum(a) * AsNum(b)))
    [] op = "/" -> Give(st, Num(PyDiv(AsNum(a), AsNum(b))))
    [] op = "%" -> Give(st, Num(PyMod(AsNum(a), AsNum(b))))

_neg(st, a) ==
  IF Numlike(a) THEN Give(st, Num(-AsNum(a))) ELSE Throw(st, "cannot negate " \o type_name(a))

Holds(op, c) ==
  CASE op = "<" -> c < 0 [] op = ">" -> c > 0 [] op = "<=" -> c <= 0 [] op = ">=" -> c >= 0

Operate(st, op, a, b) ==
  CASE op = "+" -> _add(st, a, b)
    [] op \in {"-", "*", "/", "%"} -> _arith(st, op, a, b)
    [] op = "==" -> Give(st, Truth(values_eq(st, a, b)))
    [] op = "!=" -> Give(st, Truth(~values_eq(st, a, b)))
    [] op \in Compare -> Bind(_cmp(st, a, b), LAMBDA c : Give(c, Truth(Holds(op, c.v))))

\* A negative place counts from the end.  An index that is a text is not
\* among the inputs: the Python engines read a number from it, C refuses.
_index(st, o, i) ==
  LET size == CASE o.k = "list" -> Len(Items(st, o)) [] o.k = "str" -> Len(o.s) [] OTHER -> 0
      at == IF Numlike(i) THEN IF AsNum(i) < 0 THEN AsNum(i) + size ELSE AsNum(i) ELSE -1
      hit == {j \in DOMAIN st.heap[o.r].pairs : st.heap[o.r].pairs[j][1] = i}
  IN  CASE o.k = "dict" -> IF hit = {} THEN Throw(st, "key " \o _vstr(st, i) \o " not found")
                           ELSE Give(st, st.heap[o.r].pairs[CHOOSE j \in hit : TRUE][2])
        [] at < 0 \/ at >= size -> Throw(st, "index out of range")
        [] o.k = "list" -> Give(st, Items(st, o)[at + 1])
        [] OTHER -> Give(st, Text(SubSeq(o.s, at + 1, at + 1)))

_rpt(st, n) == IF n.k = "num" THEN Give(st, n) ELSE Throw(st, "'rpt' needs a number")
_iter(st, x) ==
  IF x.k \in {"list", "str"} THEN Give(st, x) ELSE Throw(st, "'for ... in' needs a list or text")
SizeOf(st, x) == IF x.k = "list" THEN Len(Items(st, x)) ELSE Len(x.s)

_member(st, o, x) ==
  CASE o.k = "ai" -> IF x \in {"open", "system", "ask"} THEN Give(st, Bound(x))
                     ELSE Throw(st, "'ai' has no member " \o x)
    [] OTHER -> Throw(st, "object has no member " \o x)

\* The built-in functions that programs use.  C refuses the length of a dict.
Builtin(st, f, a) ==
  CASE f = "len" /\ Len(a) = 1 /\ a[1].k \in {"list", "str"} -> Give(st, Num(SizeOf(st, a[1])))
    [] f = "len" /\ Len(a) = 1 /\ a[1].k = "dict" /\ st.eng # "vm" ->
         Give(st, Num(Len(st.heap[a[1].r].pairs)))
    [] f = "len" -> Throw(st, "len() needs a list or text")
    [] f = "push" /\ Len(a) = 2 /\ a[1].k = "list" ->
         Give([st EXCEPT !.heap[a[1].r].items = Append(@, a[2])], a[1])
    [] f = "push" -> Throw(st, "push() needs a list and a value")
    [] f = "readfile" /\ "fs" \in st.perms -> Give(st, Text("data"))
    [] f = "readfile" -> Throw(st, "file access is not allowed here")
    [] f = "type" -> Give(st, Text(type_name(a[1])))

\* Programs leave when the prompt finds no more lines: the walker reads an
\* empty line, the others fail.
ReadLine(st, prompt) ==
  LET asked == [st EXCEPT !.out = Append(@, _vstr(st, prompt))]
  IN  CASE st.inp # <<>> -> Give([asked EXCEPT !.inp = Tail(@)], Text(Head(st.inp)))
        [] st.eng = "walk" -> Give(asked, Text(""))
        [] OTHER -> Throw(asked, "input ended")
=============================================================================
