----------------------------- MODULE MCEngines ------------------------------
\* Programs of three parts: something defined, something done with it, and
\* something looked at afterwards.  A part starts at the line b.  An
\* expression is on the line of its statement where OnLine does not put it on a
\* later one.
EXTENDS VxEngines

MCBuiltins == {"len", "push", "readfile", "type"}
MCTexts == <<"", "a", "ab", "b">>
MCStdin == <<"ab", "", "b">>
MCReserved == {"class"}

N(n) == Number(n)
V(x) == Var(x, NoLine)
Bin(op, l, r) == BinOp(op, l, r, NoLine)
Neg(op, e) == UnaryOp(op, e, NoLine)
Do1(f, args) == Call(f, args, NoLine)
At1(o, i) == Index(o, i, NoLine)

\* Every node with the line it has, or else that of the node around it; an
\* elif keeps none.
RECURSIVE OnLine(_, _)
OnLines(ns, ln) == [i \in DOMAIN ns |-> OnLine(ns[i], ln)]
OnLine(n, from) ==
  LET has == "ln" \in DOMAIN n
      ln == IF has /\ n.ln # NoLine THEN n.ln ELSE from
  IN  [f \in DOMAIN n |->
        CASE f = "ln" -> IF n.t = "If" THEN n.ln ELSE ln
          [] f \in {"value", "expr", "cond", "count", "iterable", "model", "system", "prompt",
                    "l", "r", "operand", "callee", "obj", "idx"} -> OnLine(n[f], ln)
          [] f \in {"items", "args", "body", "orelse", "catch"} -> OnLines(n[f], ln)
          [] f = "pairs" -> [i \in DOMAIN n.pairs |-> OnLines(n.pairs[i], ln)]
          [] OTHER -> n[f]]
Print1(e, b) == <<PrintS(e, b)>>
F(ps, body, b) == <<FuncDef("f", ps, body, b)>>
G(body, b) == FuncDef("g", <<>>, body, b)
Try(body, b) == <<TryCatch(body, "e", <<PrintS(V("e"), b + 8)>>, b)>>

Given(b) == {
  <<Assign("a", N(1), b)>>,
  <<Assign("l", ListLit(<<N(1), N(2)>>), b)>>,
  <<Assign("a", Str("ab"), b), Assign("l", V("a"), b + 1)>>,
  <<Assign("d", DictLit(<< <<Str("k"), N(1)>>, <<Str("k"), N(2)>> >>), b)>>,
  <<Import("ai", b), Assign("a", Bool(TRUE), b + 1)>>,
  <<Assign("class", N(5), b), Assign("a", Neg("-", V("class")), b + 1)>>,
  <<Assign("a", Input(Str("q")), b), Assign("l", Input(Str("r")), b + 1)>>,
  <<AgentDef("a", None, Str("s"), b)>>,
  <<ExprStmt(V("a"), b)>>
}

Defined(b) == {
  F(<<"x">>, <<Return(Bin("+", V("x"), V("x")), b + 1)>>, b),
  F(<<"x">>, <<PrintS(V("a"), b + 1), Assign("a", V("x"), b + 2)>>, b),
  F(<<"x">>, <<G(<<Return(V("x"), b + 2)>>, b + 1), Assign("x", N(7), b + 3),
               Return(Do1(V("g"), <<>>), b + 4)>>, b),
  F(<<"x">>, <<G(<<Return(Bin("+", V("a"), V("x")), b + 2)>>, b + 1),
               TryCatch(<<PrintS(Do1(V("g"), <<>>), b + 4)>>, "", <<PrintS(Str("b"), b + 5)>>, b + 3),
               Assign("a", N(4), b + 6), Return(V("g"), b + 7)>>, b),
  F(<<"x">>, <<RepeatN(N(2), <<TryCatch(<<ForEach("y", V("l"), <<If(Bin("==", V("y"), V("x")),
                 <<Return(V("y"), b + 4)>>, <<Continue(b + 5)>>, b + 3)>>, b + 2),
                 Break(b + 6)>>, "z", <<PrintS(V("z"), b + 7)>>, b + 2)>>, b + 1)>>, b),
  F(<<"x">>, <<Sandbox({"fs"}, <<TryCatch(<<Return(Do1(V("readfile"), <<Str("p")>>), b + 3)>>,
               "e", <<Return(V("x"), b + 5)>>, b + 2)>>, b + 1)>>, b),
  <<ExprStmt(V("a"), b)>>,
  <<Assign("f", Bin("and", V("a"), N(0)), b)>>
}

Used(b) == {
  Print1(Do1(V("f"), <<Input(Str("r"))>>), b),
  Try(<<Sandbox({"fs"}, <<PrintS(Do1(V("f"), <<V("a")>>), b + 2)>>, b + 1)>>, b)
    \o Print1(Do1(V("readfile"), <<Str("p")>>), b + 9),
  Try(<<PrintS(Do1(Do1(V("f"), <<N(2)>>), <<>>), b + 1)>>, b),
  <<ForEach("a", V("l"), <<If(Bin("<", V("a"), N(2)), <<Continue(b + 2)>>,
      <<If(Bin("==", V("a"), N(3)), <<Break(b + 4)>>, <<>>, b + 3)>>, b + 1),
      ExprStmt(Do1(V("push"), <<V("l"), N(3)>>), b + 5)>>, b)>>,
  <<RepeatN(N(3), <<Sandbox({"fs", "net"}, <<TryCatch(<<If(V("a"), <<Break(b + 4)>>, <<>>, b + 3),
      PrintS(Do1(V("readfile"), <<Str("p")>>), b + 5)>>, "", <<Continue(b + 6)>>, b + 2)>>, b + 1)>>, b),
    PrintS(Do1(V("readfile"), <<Str("p")>>), b + 7)>>,
  <<If(Neg("not", Bin("-", N(1), N(1))), <<PrintS(Str("t"), b + 1)>>, <<FuncDef("a", <<>>, <<Return(None, b + 3)>>, b + 2)>>, b)>>,
  <<ExprStmt(Bin("and", V("a"), N(1)), b), ExprStmt(Bin("or", V("a"), Node("Null")), b + 1)>>,
  <<If(Bin("==", V("a"), N(2)), <<PrintS(V("a"), b + 1), G(<<Return(None, b + 3)>>, b + 2)>>,
     <<If(OnLine(Bin(">=", V("a"), V("l")), b + 4), <<Assign("a", At1(V("l"), N(-1)), b + 5)>>,
        <<PrintS(Member(V("a"), "ask", NoLine), b + 6)>>, NoLine)>>, b)>>,
  Print1(Bin("!=", OnLine(At1(V("d"), Str("k")), b + 1), Bin("%", N(-7), N(3))), b),
  <<RepeatN(N(2), <<G(<<Return(None, b + 2)>>, b + 1),
      ExprStmt(Do1(V("push"), <<V("l"), V("g")>>), b + 3)>>, b),
    PrintS(Bin("==", At1(V("l"), N(-1)), At1(V("l"), N(-2))), b + 4)>>
}

Seen1(b) == {
  Print1(V("a"), b),
  Print1(V("l"), b),
  Print1(Do1(V("f"), <<OnLine(V("l"), b + 1)>>), b),
  Try(<<ExprStmt(N(1), b + 1), PrintS(Bin("+", V("e"), Node("Null")), b + 2)>>, b)
}

MCPrograms == {OnLines(w \o x \o y \o z, NoLine) : w \in Given(10), x \in Defined(20), y \in Used(30), z \in Seen1(40)}

\* Small functions that the inliner takes: one called too early, one whose
\* name is a parameter elsewhere.
Inc == FuncDef("f", <<"x">>, <<Return(Bin("+", V("x"), N(1)), 21)>>, 20)
MCInlinePrograms == {OnLines(p, NoLine) : p \in {
  Try(<<PrintS(Do1(V("f"), <<N(1)>>), 11)>>, 10) \o <<Inc>>,
  <<Inc, FuncDef("g", <<"f">>, <<Return(Do1(V("f"), <<N(1)>>), 31)>>, 30),
    PrintS(Do1(V("g"), <<V("len")>>), 40)>>
}}
=============================================================================
