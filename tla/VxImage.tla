------------------------------ MODULE VxImage -------------------------------
(* The .vxc file: how serialize writes a compiled program, how disassemble *)
(* and the loader read it back, and what the verifier of the VM demands.   *)
(* The file is a sequence of cells, one for each byte of an integer; a     *)
(* text takes a cell for each character, an opcode is one cell.            *)
EXTENDS VxOptimize
LOCAL INSTANCE SequencesExt

Width(op) ==
  CASE op \in {"CONST", "LOAD", "STORE", "LOAD_SLOT", "STORE_SLOT", "GET_MEMBER", "LIST",
               "DICT", "MAKE_FUNC"} -> 2
    [] op \in {"CALL", "GO", "SBOX_ENTER"} -> 1
    [] op \in Leaps -> 4
    [] OTHER -> 0

(***************************************************************************)
(* Writing.                                                                *)
(***************************************************************************)
\* Little-endian.
U(w, v) == [i \in 1..w |-> (v \div 256^(i - 1)) % 256]
F64(x) == <<x>> \o [i \in 1..7 |-> 0]
Chars(s) == [i \in 1..Len(s) |-> SubSeq(s, i, i)]
Concat(s, Cells(_)) == FlattenSeq([i \in DOMAIN s |-> Cells(s[i])])

\* A function's names may be in no instruction: all are interned first, and
\* only then are the constants counted.
NamesOfProto(pr) == <<pr.name>> \o pr.params \o pr.declared \o pr.slots
Interned(c) ==
  FoldLeft(LAMBDA d, x : Const(d, CStr(x)), c,
           FlattenSeq([i \in DOMAIN c.protos |-> NamesOfProto(c.protos[i])]))

\* Jumps hold byte offsets in the file, and so does the line table.
SizeTo(code, k) == FoldLeft(LAMBDA n, ins : n + 1 + Width(ins.op), 0, SubSeq(code, 1, k))
Mask(denies) == (IF "net" \in denies THEN 1 ELSE 0) + (IF "fs" \in denies THEN 2 ELSE 0)
Operand(code, ins) ==
  CASE ins.op \in Leaps -> SizeTo(code, ins.arg)
    [] ins.op = "SBOX_ENTER" -> Mask(ins.arg)
    [] OTHER -> ins.arg
CodeCells(code) ==
  Concat(code, LAMBDA ins : <<ins.op>> \o U(Width(ins.op), Operand(code, ins)))

ConstCells(k) ==
  IF k.k = "num" THEN <<1>> \o F64(k.n) ELSE <<2>> \o U(4, Len(k.s)) \o Chars(k.s)

\* c: the compiler when the constants are counted; names are found in it.
ProtoCells(c, pr) ==
  LET ref(x) == U(4, IndexIn(c.consts, CStr(x)) - 1)
      code == CodeCells(pr.code)
  IN  ref(pr.name) \o U(1, Len(pr.params)) \o Concat(pr.params, ref)
      \o U(2, Len(pr.slots)) \o Concat(pr.slots, ref)
      \o U(1, Len(pr.escIx)) \o Concat(pr.escIx, LAMBDA i : U(1, i - 1))
      \o U(2, Len(pr.declared)) \o Concat(pr.declared, ref)
      \o U(4, Len(code)) \o code
      \o U(4, Len(pr.lines))
      \o Concat(pr.lines, LAMBDA r : U(4, SizeTo(pr.code, r[1])) \o U(4, r[2]))

serialize(c0) ==
  LET c == Interned(c0)
  IN  <<"V", "X", "C", "1">> \o U(1, 3)
      \o U(4, Len(c.consts)) \o Concat(c.consts, ConstCells)
      \o U(4, Len(c.protos)) \o Concat(c.protos, LAMBDA pr : ProtoCells(c, pr))

(***************************************************************************)
(* Reading.  A reader maps a place in the cells to what it read and the    *)
(* place after it; a file that ends too early has the place 0.             *)
(***************************************************************************)
Got(v, i) == [v |-> v, i |-> i]
Short == Got("truncated", 0)
Bad(r) == r.i = 0
From(r, Rest(_, _)) == IF Bad(r) THEN r ELSE Rest(r.v, r.i)

need(data, i, n) == i + n - 1 <= Len(data)
R(data, i, w) ==
  IF need(data, i, w)
  THEN Got(FoldLeft(LAMBDA n, k : n + data[i + k - 1] * 256^(k - 1), 0, [k \in 1..w |-> k]), i + w)
  ELSE Short
\* n things, one after the other.
Many(data, n, i, Read(_, _)) ==
  FoldLeft(LAMBDA r, k : From(r, LAMBDA v, j : From(Read(data, j), LAMBDA x, l : Got(Append(v, x), l))),
           Got(<<>>, i), [k \in 1..n |-> k])
Counted(data, i, w, Read(_, _)) ==
  From(R(data, i, w), LAMBDA n, j : Many(data, n, j, Read))

TextAt(data, i) ==
  From(R(data, i, 4), LAMBDA n, j :
       IF need(data, j, n)
       THEN Got(FoldLeft(LAMBDA s, x : s \o x, "", SubSeq(data, j, j + n - 1)), j + n) ELSE Short)
ConstAt(data, i) ==
  From(R(data, i, 1), LAMBDA tag, j :
       IF tag = 1 THEN IF need(data, j, 8) THEN Got(CNum(data[j]), j + 8) ELSE Short
       ELSE From(TextAt(data, j), LAMBDA s, k : Got(CStr(s), k)))

\* The instructions with their byte offsets, as vxnative decodes them too.
RECURSIVE _decode(_, _, _)
_decode(cells, i, out) ==
  IF i > Len(cells) THEN out
  ELSE LET w == Width(cells[i])
       IN  _decode(cells, i + 1 + w,
                   Append(out, [off |-> i - 1, op |-> cells[i], arg |-> R(cells, i + 1, w).v]))
\* Offsets counted in instructions again.
At(decoded, off) == Cardinality({k \in DOMAIN decoded : decoded[k].off < off})
Decoded(cells) ==
  LET ds == _decode(cells, 1, <<>>)
      arg(d) == CASE d.op \in Leaps -> At(ds, d.arg)
                  [] d.op = "SBOX_ENTER" -> {p \in {"net", "fs"} : (d.arg \div Mask({p})) % 2 = 1}
                  [] OTHER -> d.arg
  IN  [at |-> ds, code |-> [k \in DOMAIN ds |-> Ins(ds[k].op, arg(ds[k]))]]

ProtoAt(data, consts, i) ==
  LET name(d, j) == From(R(d, j, 4), LAMBDA k, l : Got(consts[k + 1].s, l))
      place(d, j) == From(R(d, j, 1), LAMBDA k, l : Got(k + 1, l))
      run(d, j) == From(R(d, j, 4), LAMBDA off, l : From(R(d, l, 4), LAMBDA ln, m :
                        Got(<<off, ln>>, m)))
  IN  From(name(data, i), LAMBDA x, j : From(Counted(data, j, 1, name), LAMBDA ps, k :
      From(Counted(data, k, 2, name), LAMBDA slots, l : From(Counted(data, l, 1, place), LAMBDA esc, m :
      From(Counted(data, m, 2, name), LAMBDA decl, n : From(R(data, n, 4), LAMBDA size, o :
        LET d == Decoded(SubSeq(data, o, o + size - 1))
        IN  IF ~need(data, o, size) THEN Short
            ELSE From(Counted(data, o + size, 4, run), LAMBDA runs, p :
                 Got([name |-> x, params |-> ps, slots |-> slots, escIx |-> esc, declared |-> decl,
                      code |-> d.code,
                      lines |-> [r \in DOMAIN runs |-> <<At(d.at, runs[r][1]), runs[r][2]>>]], p))))))))

disassemble(data) ==
  From(Counted(data, 6, 4, ConstAt), LAMBDA consts, i :
  From(Counted(data, i, 4, LAMBDA d, j : ProtoAt(d, consts, j)), LAMBDA protos, k :
       Got([consts |-> consts, protos |-> protos], k)))

\* What a file keeps of a function.
Kept(pr) == [name |-> pr.name, params |-> pr.params, slots |-> pr.slots, escIx |-> pr.escIx,
             declared |-> pr.declared, code |-> pr.code, lines |-> pr.lines]

(***************************************************************************)
(* load and verify of the VM, on the program as read.                      *)
(***************************************************************************)
verify(c) ==
  \A pr \in SetOf(c.protos) :
    /\ Len(pr.slots) >= Len(pr.params)
    /\ \A i \in SetOf(pr.escIx) : i <= Len(pr.params)
    /\ \A r \in 2..Len(pr.lines) : pr.lines[r - 1][1] <= pr.lines[r][1]
    /\ \A ins \in SetOf(pr.code) :
         CASE ins.op = "CONST" -> ins.arg < Len(c.consts)
           [] ins.op \in {"LOAD", "STORE", "GET_MEMBER"} ->
                ins.arg < Len(c.consts) /\ c.consts[ins.arg + 1].k = "str"
           [] ins.op \in {"LOAD_SLOT", "STORE_SLOT"} -> ins.arg < Len(pr.slots)
           [] ins.op = "MAKE_FUNC" -> ins.arg < Len(c.protos)
           [] ins.op \in Leaps -> ins.arg < Len(pr.code)
           [] OTHER -> TRUE
=============================================================================
