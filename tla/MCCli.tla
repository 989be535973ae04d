------------------------------- MODULE MCCli --------------------------------
EXTENDS VxCli

MCBuiltins == {"len"}
Op1(v) == Tok("OP", v, 0)
Word(v) == Tok("KEYWORD", v, 0)
Name1(v) == Tok("NAME", v, 0)
One == Tok("NUMBER", 1, 0)

\* Lines that open blocks, continue them, or only seem to.
MCInputs == {
  Line(0, <<Word("print"), Name1("a")>>),
  Line(2, <<Word("print"), Name1("b")>>),
  Line(0, <<Word("if"), Name1("a"), Op1(":")>>),
  Line(0, <<Word("else"), Op1(":")>>),
  Line(0, <<Word("try"), Op1(":")>>),
  Line(0, <<Word("catch"), Name1("e"), Op1(":")>>),
  Line(0, <<Name1("x"), Op1(":"), Op1("["), One>>),
  Line(0, <<Op1("]")>>)
}

\* A text that is well-formed and one that is being typed.
MCTexts == {
  << Line(0, <<Word("func"), Name1("f"), Op1("("), Name1("a"), Op1(")"), Op1(":")>>),
     Line(2, <<Name1("b"), Op1(":"), Name1("a")>>),
     Line(2, <<Word("return"), Name1("b")>>),
     Line(0, <<Name1("a"), Op1(":"), One>>) >>,
  << Line(0, <<Name1("x"), Op1(":")>>) >>
}

\* Statements that bind a name in each of the ways there are, three in a row.
MCPieces == {
  << Line(0, <<Name1("x"), Op1(":"), Op1("{"), Name1("x"), Op1(":"), One, Op1("}")>>) >>,
  << Line(0, <<Word("func"), Name1("f"), Op1("("), Name1("x"), Op1(","), Name1("y"), Op1(")"), Op1(":")>>),
     Line(2, <<Name1("b"), Op1(":"), Name1("x")>>),
     Line(0, <<>>),
     Line(2, <<Word("func"), Name1("g"), Op1("("), Op1(")"), Op1(":"), Word("return"), Name1("b")>>) >>,
  << Line(0, <<Word("for"), Name1("i"), Word("in"), Name1("x"), Op1(":")>>),
     Line(2, <<Word("func"), Name1("f"), Op1("("), Name1("z"), Op1(")"), Op1(":"), Word("print"), Name1("z")>>) >>,
  << Line(0, <<Word("try"), Op1(":")>>), Line(2, <<Name1("b"), Op1(":"), One>>),
     Line(0, <<Word("catch"), Name1("e"), Op1(":"), Word("print"), Name1("e")>>) >>,
  << Line(0, <<Word("agent"), Name1("h"), Op1(":")>>), Line(2, <<Name1("system"), Name1("x")>>) >>,
  << Line(0, <<Word("if"), Name1("x"), Op1(":"), Name1("b"), Op1(":"), One>>),
     Line(0, <<Word("else"), Op1(":"), Name1("b"), Op1(":"), One>>) >>,
  << Line(0, <<Word("use"), Name1("ai")>>), Line(0, <<Name1("b"), Op1(":"), Name1("ai")>>) >>
}
MCDrafts == MCTexts \cup {p \o q \o r : p, q, r \in MCPieces}

\* check_source
MCDiagnose(text) == {r.n : r \in {x \in {Checked(text)} : x.i = 0}}

\* Two packages that need each other, one of them under another name than
\* its repository's, and an older version of the other, which has no vx.json;
\* a single file, and another user's repository of the same name; and a file
\* inside a repository.
Pkg(kind, repo, name, described, deps) ==
  [kind |-> kind, repo |-> repo, name |-> name, deps |-> deps, json |-> described]
MCHub ==
  ("u/a" :> Pkg("repo", "a", "a", TRUE, <<"u/b_lib", "w/c.vx">>))
  @@ ("u/a@1" :> Pkg("repo", "a", "a", FALSE, <<>>))
  @@ ("u/b_lib" :> Pkg("repo", "b_lib", "b", TRUE, <<"u/a@1">>))
  @@ ("w/c.vx" :> Pkg("url", "c", "c", FALSE, <<>>))
  @@ ("v/c" :> Pkg("repo", "c", "c", FALSE, <<>>))
  @@ ("u/a/lib.vx" :> Pkg("path", "lib", "lib", FALSE, <<>>))

(***************************************************************************)
(* Programs of modules p, q and r that use each other before and after     *)
(* what they do themselves: all next to the program, or q in the home      *)
(* directory, and r both there and as a package of the project, by a main  *)
(* file that its vx.json names.  In some r uses the program itself.        *)
(***************************************************************************)
Uses(most) == UNION {[1..n -> {"p", "q", "r"}] : n \in 0..most}
File(main, body) == [of |-> "", main |-> main, body |-> body]
Source(own, uses) ==
  File("", (IF uses = <<>> THEN <<>> ELSE <<Import(uses[1], 1)>>)
           \o <<PrintS(Str(own), 2)>>
           \o (IF Len(uses) < 2 THEN <<>> ELSE <<Import(uses[2], 3)>>))
Begun == Source("main", <<"p", "q">>)
Beside(x) == Append(Project, x)
Flat(up, uq, ur) ==
  (Beside("main.vx") :> Begun) @@ (Beside("p.vx") :> Source("p", up))
  @@ (Beside("q.vx") :> Source("q", uq)) @@ (Beside("r.vx") :> Source("r", ur))
Spread(up, uq, ur) ==
  (Beside("main.vx") :> Begun) @@ (Beside("p.vx") :> Source("p", up))
  @@ (Append(Home, "q.vx") :> Source("q", uq)) @@ (Append(Home, "r.vx") :> Source("home r", <<>>))
  @@ (Append(DirOf("r"), "vx.json") :> File("lib.vx", <<>>))
  @@ (Append(DirOf("r"), "lib.vx") :> Source("r", ur))
  @@ (Append(DirOf("r"), "main.vx") :> Source("other r", <<>>))
MCProjects ==
  {Flat(up, uq, ur) : up \in Uses(2), uq \in Uses(2), ur \in Uses(1)}
  \cup {Flat(up, uq, <<"main">>) : up \in Uses(1), uq \in Uses(1)}
  \cup {Spread(up, uq, ur) : up \in Uses(2), uq \in Uses(1), ur \in Uses(1)}
  \cup {<<>>, (Beside("main.vx") :> Begun) @@ (Beside("p.vx") :> File("", Broken))}
=============================================================================
