------------------------------ MODULE VxParse -------------------------------
(* The lexer and the recursive-descent parser of vidyax.py.  Characters    *)
(* are abstracted to lexemes: a line is its indentation and a sequence of  *)
(* lexemes, each a token, a comment, an unclosed string or a character     *)
(* that no token starts with.                                              *)
(*                                                                         *)
(* A production maps a place in the tokens to a result: a node and the     *)
(* place after it, or the place 0 and why the parser raised.  Of the       *)
(* reasons only those are kept that a caller tells apart.                  *)
EXTENDS VxSyntax, Integers

(***************************************************************************)
(* lex: one line at a time.  st.ind is the stack of indentations, st.depth *)
(* the open brackets, st.err tells that the lexer raised.                  *)
(***************************************************************************)
Comment == Tok("#", "", 0)
Unclosed == Tok("BAD", "string", 0)

StartLex == [toks |-> <<>>, ind |-> <<0>>, depth |-> 0, err |-> FALSE]

Top(s) == s[Len(s)]

RECURSIVE Dedent(_, _, _)
Dedent(st, ind, ln) ==
  IF ind >= Top(st.ind) THEN st
  ELSE Dedent([st EXCEPT !.ind = SubSeq(@, 1, Len(@) - 1),
                         !.toks = Append(@, Tok("DEDENT", "", ln))], ind, ln)

\* Indentation is looked at only outside brackets; a line may not fall
\* between two levels.
Layout(st, ind, ln) ==
  LET in == IF ind > Top(st.ind)
            THEN [st EXCEPT !.ind = Append(@, ind),
                            !.toks = Append(@, Tok("INDENT", "", ln))]
            ELSE Dedent(st, ind, ln)
  IN  [in EXCEPT !.err = ind # Top(in.ind)]

\* The lexemes before a comment.
Code(lexemes) ==
  LET c == {i \in DOMAIN lexemes : lexemes[i].k = "#"}
  IN  IF c = {} THEN lexemes
      ELSE SubSeq(lexemes, 1, (CHOOSE i \in c : \A j \in c : i <= j) - 1)

Bracket(depth, tok) ==
  CASE tok.k = "OP" /\ tok.v \in {"(", "[", "{"} -> depth + 1
    [] tok.k = "OP" /\ tok.v \in {")", "]", "}"} -> IF depth > 0 THEN depth - 1 ELSE 0
    [] OTHER -> depth

RECURSIVE Scan(_, _, _)
Scan(st, lexemes, ln) ==
  IF lexemes = <<>> \/ st.err THEN st
  ELSE LET tok == [Head(lexemes) EXCEPT !.ln = ln]
       IN  Scan(IF tok.k = "BAD" THEN [st EXCEPT !.err = TRUE]
                ELSE [st EXCEPT !.depth = Bracket(@, tok), !.toks = Append(@, tok)],
                Tail(lexemes), ln)

LexLine(st, line, ln) ==
  LET code == Code(line.lex)
      laid == IF st.depth = 0 THEN Layout(st, line.ind, ln) ELSE st
      done == Scan(laid, code, ln)
  IN  IF st.depth = 0 /\ code = <<>> THEN st
      ELSE IF ~done.err /\ code # <<>> /\ done.depth = 0
      THEN [done EXCEPT !.toks = Append(@, Tok("NEWLINE", "", ln))]
      ELSE done

RECURSIVE LexFrom(_, _, _)
LexFrom(st, lines, ln) ==
  IF st.err \/ ln > Len(lines) THEN st
  ELSE LexFrom(LexLine(st, lines[ln], ln), lines, ln + 1)

\* The blocks still open are closed whether or not a bracket is open.
lex(lines) ==
  LET st == LexFrom(StartLex, lines, 1)
      out == Dedent(st, 0, Len(lines))
  IN  [st EXCEPT !.toks = Append(out.toks, Tok("EOF", "", Len(lines))), !.ind = out.ind]

(***************************************************************************)
(* Results.                                                                *)
(***************************************************************************)
Ok(n, i) == [n |-> n, i |-> i]
Fail(why) == [n |-> why, i |-> 0]
Made(r, Make(_)) == IF r.i = 0 THEN r ELSE Ok(Make(r.n), r.i)

At(s, i, k, v) == s[i].k = k /\ s[i].v = v
Op(s, i, v) == At(s, i, "OP", v)
Kw(s, i, v) == At(s, i, "KEYWORD", v)

\* eat: the message of a failure names the token found, and only the end of
\* the program matters to a caller.  Two commands on a line have a message
\* of their own.
Raise(s, i, k) ==
  Fail(IF s[i].k = "EOF" /\ k # "NEWLINE" THEN "end of the program" ELSE "syntax")
EatKind(s, i, k) == IF s[i].k = k THEN Ok(s[i].v, i + 1) ELSE Raise(s, i, k)
Eat(s, i, k, v) == IF At(s, i, k, v) THEN Ok(v, i + 1) ELSE Raise(s, i, k)

guard_name(s, i) ==
  LET x == EatKind(s, i, "NAME")
  IN  IF x.i # 0 /\ x.n \in BuiltinNames THEN Fail("syntax") ELSE x

RECURSIVE skip_newlines(_, _)
skip_newlines(s, i) == IF s[i].k = "NEWLINE" THEN skip_newlines(s, i + 1) ELSE i

(***************************************************************************)
(* What a production reads in order, as data: one token, any token of a    *)
(* kind, a new name, an expression, a list up to a bracket, the body of a  *)
(* statement.  A list may end with a comma where `extra' is the bracket.   *)
(* d is [loop, func]: how many loops and functions the parser is inside;   *)
(* the code counts up and down around a body.                              *)
(***************************************************************************)
This(k, v) == <<"one", k, v>>
Sign(v) == This("OP", v)
AnyOf(k) == <<"any", k>>
EndLine == AnyOf("NEWLINE")
Naming == <<"name">>
Expr == <<"expression">>
Listing(item, end, extra) == <<"list", item, end, extra>>
BodyOf(d) == <<"body", d>>

RECURSIVE Parts(_, _, _, _), Part(_, _, _), Listed(_, _, _, _, _), Binary(_, _, _),
          BinaryTail(_, _, _), p_unary(_, _), Postfix(_, _), PathTail(_, _, _),
          DeniesTail(_, _, _), AgentLines(_, _), Choice(_, _, _, _), stmt_func(_, _, _),
          _statement(_, _, _), statements_until(_, _, _, _)

\* All of them, one after the other: `nodes' has been read, then `r'.
Parts(s, r, parts, nodes) ==
  IF parts = <<>> \/ r.i = 0 THEN Made(r, LAMBDA n : Append(nodes, n))
  ELSE Parts(s, Part(s, r.i, Head(parts)), Tail(parts), Append(nodes, r.n))
Read(s, i, parts) == Parts(s, Part(s, i, Head(parts)), Tail(parts), <<>>)

(***************************************************************************)
(* Expressions.  Level 1 is `or', level 6 `*'; level 7 is unary.           *)
(***************************************************************************)
Levels == << {"or"}, {"and"}, {"==", "!="}, {"<", ">", "<=", ">="}, {"+", "-"},
             {"*", "/", "%"} >>
AtLevel(s, i, lev) ==
  s[i].k = (IF lev <= 2 THEN "KEYWORD" ELSE "OP") /\ s[i].v \in Levels[lev]

starts_command_arg(s, i) ==
  \/ s[i].k \in {"NUMBER", "STRING", "NAME"}
  \/ s[i].k = "KEYWORD" /\ s[i].v \in {"true", "false", "null"}
  \/ Op(s, i, "(") \/ Op(s, i, "[")

expression(s, i) == Binary(s, i, 1)

Binary(s, i, lev) ==
  IF lev > 6 THEN p_unary(s, i) ELSE BinaryTail(s, Binary(s, i, lev + 1), lev)
BinaryTail(s, left, lev) ==
  IF left.i = 0 \/ ~AtLevel(s, left.i, lev) THEN left
  ELSE BinaryTail(s, Made(Binary(s, left.i + 1, lev + 1),
                          LAMBDA r : BinOp(s[left.i].v, left.n, r, s[left.i].ln)), lev)

\* `items' and then `e' have been read.
Listed(s, e, item, extra, items) ==
  IF e.i = 0 THEN e
  ELSE CASE Op(s, e.i, ",") /\ Op(s, e.i + 1, extra) -> Ok(Append(items, e.n), e.i + 1)
         [] Op(s, e.i, ",") /\ ~Op(s, e.i + 1, extra) ->
              Listed(s, Part(s, e.i + 1, item), item, extra, Append(items, e.n))
         [] OTHER -> Ok(Append(items, e.n), e.i)

p_primary(s, i) ==
  LET tok == s[i]
  IN  CASE tok.k = "NUMBER" -> Ok(Number(tok.v), i + 1)
        [] tok.k = "STRING" -> Ok(Str(tok.v), i + 1)
        [] Kw(s, i, "true") -> Ok(Bool(TRUE), i + 1)
        [] Kw(s, i, "false") -> Ok(Bool(FALSE), i + 1)
        [] Kw(s, i, "null") -> Ok(Node("Null"), i + 1)
        [] Kw(s, i, "ask") -> Made(p_unary(s, i + 1), Input)
        [] tok.k = "NAME" -> Ok(Var(tok.v, tok.ln), i + 1)
        [] Op(s, i, "(") -> Made(Read(s, i + 1, <<Expr, Sign(")")>>), Head)
        [] Op(s, i, "[") -> Made(Read(s, i + 1, <<Listing(Expr, "]", "]"), Sign("]")>>),
                                 LAMBDA p : ListLit(p[1]))
        [] Op(s, i, "{") -> Made(Read(s, i + 1, <<Listing(<<"pair">>, "}", "}"), Sign("}")>>),
                                 LAMBDA p : DictLit(p[1]))
        [] OTHER -> Fail("syntax")

\* Calls, members and indexes, as long as they follow.  A member directly
\* followed by the start of a value is a call with that one argument.  The
\* line is that of the bracket or the dot.
Postfix(s, left) ==
  LET i == left.i
  IN  IF i = 0 THEN left
      ELSE CASE Op(s, i, "(") ->
                  Postfix(s, Made(Read(s, i + 1, <<Listing(Expr, ")", ""), Sign(")")>>),
                                  LAMBDA p : Call(left.n, p[1], s[i].ln)))
             [] Op(s, i, ".") /\ s[i + 1].k \notin {"NAME", "KEYWORD"} -> Fail("syntax")
             [] Op(s, i, ".") /\ s[i + 1].k \in {"NAME", "KEYWORD"} ->
                  LET m == Member(left.n, s[i + 1].v, s[i].ln)
                  IN  Postfix(s, IF starts_command_arg(s, i + 2)
                                 THEN Made(expression(s, i + 2), LAMBDA e : Call(m, <<e>>, s[i].ln))
                                 ELSE Ok(m, i + 2))
             [] Op(s, i, "[") -> Postfix(s, Made(Read(s, i + 1, <<Expr, Sign("]")>>),
                                                 LAMBDA p : Index(left.n, p[1], s[i].ln)))
             [] OTHER -> left
p_postfix(s, i) == Postfix(s, p_primary(s, i))

Spawned(c, ln) ==
  IF c.i # 0 /\ c.n.t # "Call" THEN Fail("syntax") ELSE Made(c, LAMBDA n : GoTask(n, ln))
p_unary(s, i) ==
  CASE Kw(s, i, "not") \/ Op(s, i, "-") ->
         Made(p_unary(s, i + 1), LAMBDA e : UnaryOp(s[i].v, e, s[i].ln))
    [] Kw(s, i, "go") -> Spawned(p_postfix(s, i + 1), s[i].ln)
    [] OTHER -> p_postfix(s, i)

(***************************************************************************)
(* Statements.                                                             *)
(***************************************************************************)
InLoop(d) == [d EXCEPT !.loop = @ + 1]
InFunc(d) == [loop |-> 0, func |-> d.func + 1]

\* `stmts' is the result so far.
statements_until(s, stmts, stop, d) ==
  IF stmts.i = 0 THEN stmts
  ELSE LET j == skip_newlines(s, stmts.i)
       IN  IF s[j].k = stop THEN Ok(stmts.n, j)
           ELSE statements_until(s, Made(_statement(s, j, d), LAMBDA n : Append(stmts.n, n)),
                                 stop, d)

\* A block is one statement on the same line, or an indented body.
block(s, i, d) ==
  LET c == Eat(s, i, "OP", ":")
  IN  IF c.i = 0 THEN c
      ELSE IF s[c.i].k # "NEWLINE" THEN Made(_statement(s, c.i, d), LAMBDA n : <<n>>)
      ELSE Made(Read(s, c.i + 1, <<AnyOf("INDENT"), <<"statements", d>>, AnyOf("DEDENT")>>),
                LAMBDA p : p[2])

Choice(s, i, d, ln) ==
  Made(Read(s, i + 1, <<Expr, BodyOf(d), <<"else", d>>>>), LAMBDA p : If(p[1], p[2], p[3], ln))
stmt_if(s, i, d) == Choice(s, i, d, s[i].ln)
\* An elif is no statement to the parser: statement() does not see it, and
\* its node stays without a line.
_tail_else(s, i, d) ==
  CASE Kw(s, i, "elif") -> Made(Choice(s, i, d, NoLine), LAMBDA n : <<n>>)
    [] Kw(s, i, "else") -> block(s, i + 1, d)
    [] OTHER -> Ok(<<>>, i)

stmt_repeat(s, i, d) ==
  Made(Read(s, i + 1, <<Expr, BodyOf(InLoop(d))>>), LAMBDA p : RepeatN(p[1], p[2], s[i].ln))

stmt_for(s, i, d) ==
  Made(Read(s, i + 1, <<Naming, This("KEYWORD", "in"), Expr, BodyOf(InLoop(d))>>),
       LAMBDA p : ForEach(p[1], p[3], p[4], s[i].ln))

\* A break inside the function cannot mean a loop around it.
stmt_func(s, i, d) ==
  Made(Read(s, i, <<This("KEYWORD", "func"), Naming, Sign("("), Listing(Naming, ")", ""),
                    Sign(")"), BodyOf(InFunc(d))>>),
       LAMBDA p : FuncDef(p[2], p[4], p[6], s[i].ln))

\* @tool(permissions="...") in front of a function: unless the permissions
\* have the word mutate in them, the body may not call what mutates.  The
\* function stands on the line of the @.
Mentions(text, word) ==
  \E i \in 0..(Len(text) - Len(word)) : SubSeq(text, i + 1, i + Len(word)) = word
Mutates(f) ==
  \E n \in UNION {Walk(k) : k \in SetOf(f.body)} :
    n.t = "Call" /\ n.callee.t = "Var" /\ n.callee.name \in {"writefile", "sandbox"}
Tool(r, ln) ==
  IF r.i # 0 /\ Mutates(r.n[8]) /\ ~Mentions(r.n[5], "mutate") THEN Fail("syntax")
  ELSE Made(r, LAMBDA p : [p[8] EXCEPT !.ln = ln])
stmt_decorator(s, i, d) ==
  Tool(Read(s, i + 1, <<This("NAME", "tool"), Sign("("), This("NAME", "permissions"), Sign("="),
                        AnyOf("STRING"), Sign(")"), EndLine, <<"func", d>>>>), s[i].ln)

DeniesTail(s, ds, i) ==
  IF ~(At(s, i, "NAME", "net") \/ At(s, i, "NAME", "fs")) THEN Fail("syntax")
  ELSE IF Op(s, i + 1, ",") THEN DeniesTail(s, ds \cup {s[i].v}, i + 2)
  ELSE Ok(ds \cup {s[i].v}, i + 1)
stmt_sandbox(s, i, d) ==
  IF ~At(s, i + 1, "NAME", "deny") THEN Fail("syntax")
  ELSE Made(Read(s, i + 2, <<<<"denies">>, BodyOf(d)>>), LAMBDA p : Sandbox(p[1], p[2], s[i].ln))

\* `a' is the result so far.
AgentLines(s, a) ==
  IF a.i = 0 THEN a
  ELSE CASE s[a.i].k = "DEDENT" -> Ok(a.n, a.i + 1)
         [] At(s, a.i, "NAME", "model") \/ At(s, a.i, "NAME", "system") ->
              AgentLines(s, Made(Read(s, a.i + 1, <<Expr, EndLine>>),
                                 LAMBDA p : [a.n EXCEPT ![s[a.i].v] = p[1]]))
         [] OTHER -> Fail("syntax")
stmt_agent(s, i) ==
  Made(Read(s, i + 1, <<Naming, Sign(":"), EndLine, AnyOf("INDENT"), <<"settings">>>>),
       LAMBDA p : AgentDef(p[1], p[5].model, p[5].system, s[i].ln))

stmt_return(s, i, d) ==
  IF d.func = 0 THEN Fail("syntax")
  ELSE IF s[i + 1].k = "NEWLINE" THEN Ok(Return(None, s[i].ln), i + 2)
  ELSE Made(Read(s, i + 1, <<Expr, EndLine>>), LAMBDA p : Return(p[1], s[i].ln))

\* `use a/b': the path is kept as its last name.
PathTail(s, m, i) ==
  IF ~Op(s, i, "/") THEN Ok(m, i)
  ELSE LET x == EatKind(s, i + 1, "NAME") IN IF x.i = 0 THEN x ELSE PathTail(s, x.n, x.i)
stmt_import(s, i) ==
  LET m == EatKind(s, i + 1, "NAME")
  IN  IF m.i = 0 THEN m
      ELSE LET path == PathTail(s, m.n, m.i)
           IN  IF path.i = 0 THEN path
               ELSE Made(EatKind(s, path.i, "NEWLINE"), LAMBDA v : Import(path.n, s[i].ln))

stmt_try(s, i, d) ==
  Made(Read(s, i + 1, <<BodyOf(d), <<"catch">>, <<"error">>, BodyOf(d)>>),
       LAMBDA p : TryCatch(p[1], p[3], p[4], s[i].ln))

Part(s, i, part) ==
  LET what == part[1]
  IN  CASE what = "one" -> Eat(s, i, part[2], part[3])
        [] what = "any" -> EatKind(s, i, part[2])
        [] what = "name" -> guard_name(s, i)
        [] what = "expression" -> expression(s, i)
        [] what = "list" -> IF Op(s, i, part[3]) THEN Ok(<<>>, i)
                            ELSE Listed(s, Part(s, i, part[2]), part[2], part[4], <<>>)
        [] what = "pair" -> Made(Read(s, i, <<Expr, Sign(":"), Expr>>), LAMBDA p : <<p[1], p[3]>>)
        [] what = "body" -> block(s, i, part[2])
        [] what = "statements" -> statements_until(s, Ok(<<>>, i), "DEDENT", part[2])
        [] what = "else" -> _tail_else(s, i, part[2])
        [] what = "func" -> stmt_func(s, i, part[2])
        [] what = "denies" -> DeniesTail(s, {}, i)
        [] what = "settings" -> AgentLines(s, Ok([model |-> None, system |-> None], i))
        [] what = "catch" -> LET k == skip_newlines(s, i)
                             IN  IF Kw(s, k, "catch") THEN Ok("catch", k + 1) ELSE Fail("no catch")
        [] what = "error" -> IF s[i].k = "NAME" THEN guard_name(s, i) ELSE Ok("", i)

_statement(s, i, d) ==
  LET ln == s[i].ln
      ended(j, parts, Make(_)) == Made(Read(s, j, Append(parts, EndLine)), LAMBDA p : Make(p[1]))
      inLoop(n) == IF d.loop = 0 THEN Fail("syntax") ELSE Made(EatKind(s, i + 1, "NEWLINE"), LAMBDA v : n)
  IN  CASE Op(s, i, "@") -> stmt_decorator(s, i, d)
        [] Kw(s, i, "print") -> ended(i + 1, <<Expr>>, LAMBDA e : PrintS(e, ln))
        [] Kw(s, i, "if") -> stmt_if(s, i, d)
        [] Kw(s, i, "rpt") -> stmt_repeat(s, i, d)
        [] Kw(s, i, "for") -> stmt_for(s, i, d)
        [] Kw(s, i, "func") -> stmt_func(s, i, d)
        [] Kw(s, i, "return") -> stmt_return(s, i, d)
        [] Kw(s, i, "use") -> stmt_import(s, i)
        [] Kw(s, i, "try") -> stmt_try(s, i, d)
        [] Kw(s, i, "break") -> inLoop(Break(ln))
        [] Kw(s, i, "continue") -> inLoop(Continue(ln))
        [] Kw(s, i, "agent") -> stmt_agent(s, i)
        [] Kw(s, i, "sandbox") -> stmt_sandbox(s, i, d)
        [] s[i].k = "NAME" /\ Op(s, i + 1, ":") ->
             IF s[i].v \in BuiltinNames THEN Fail("syntax")
             ELSE ended(i + 2, <<Expr>>, LAMBDA e : Assign(s[i].v, e, ln))
        [] OTHER -> ended(i, <<Expr>>, LAMBDA e : ExprStmt(e, ln))

parse(toks) == statements_until(toks, Ok(<<>>, 1), "EOF", [loop |-> 0, func |-> 0])

\* Parser(lex(source)).parse(): a failure of either is a syntax error.
ParseText(lines) ==
  LET st == lex(lines) IN IF st.err THEN Fail("syntax") ELSE parse(st.toks)
=============================================================================
