----------------------------- MODULE VxEngines ------------------------------
(* One program through every engine: the tree walker, the transpiled       *)
(* Python and the bytecode machine, the latter with the bytecode as the    *)
(* compiler emits it, after each pass of the optimizer, and after          *)
(* inlining.  The steps are those of a build followed by a run.            *)
EXTENDS VxRun, VxImage, VxNative
LOCAL SeqExt == INSTANCE SequencesExt

CONSTANT Programs   \* the programs considered

VARIABLES
  prog,        \* the program, as the parser left it
  image,       \* what the compiler holds
  stage,       \* the last step taken
  result       \* the results so far, by engine

engVars == <<prog, image, stage, result>>

NoImage == [consts |-> <<>>, protos |-> <<>>, bad |-> FALSE]
Pending == [out |-> <<>>, sig |-> "none", why |-> "", ln |-> 0]
Engines == {"walk", "fast", "raw", "peep", "opt", "native", "inlined"}

\* A program that the static pass refuses runs on no engine.
EngInit ==
  /\ prog \in {p \in Programs : type_check(p)}
  /\ image = NoImage /\ stage = "parsed" /\ result = [e \in Engines |-> Pending]

Report(e, r) == result' = [result EXCEPT ![e] = r]
\* A module the compiler does not know ends the build.
Built(c, Run(_)) ==
  IF c.bad THEN [out |-> <<>>, sig |-> "err", why |-> "unknown module", ln |-> 0, unset |-> FALSE]
  ELSE Run(c)
OnMachine(c) == vx_run_loop(c, BuiltinNames)
Loaded(c) == disassemble(serialize(c)).v
FromFile(c) == vx_run_loop(Loaded(c), BuiltinNames)
AsNative(c) == RunNative(Interned(c), BuiltinNames)

WalkIt ==
  /\ stage = "parsed" /\ stage' = "walked"
  /\ Report("walk", run_text(prog))
  /\ UNCHANGED <<prog, image>>

TranspileIt ==
  /\ stage = "walked" /\ stage' = "transpiled"
  /\ Report("fast", run_fast_text(prog))
  /\ UNCHANGED <<prog, image>>

CompileIt ==
  /\ stage = "transpiled" /\ stage' = "compiled"
  /\ image' = compile_program(prog)
  /\ Report("raw", Built(image', OnMachine))
  /\ UNCHANGED prog

\* serialize runs both passes over every function.
Each1(c, Pass(_)) == [c EXCEPT !.protos = [i \in DOMAIN @ |-> Pass(@[i])]]
PeepholeIt ==
  /\ stage = "compiled" /\ stage' = "cleaned"
  /\ image' = Each1(image, _peephole)
  /\ Report("peep", Built(image', OnMachine))
  /\ UNCHANGED prog

\* The last pass; then the file is written, and the machine loads it.
CfgIt ==
  /\ stage = "cleaned" /\ stage' = "optimized"
  /\ image' = Each1(image, _cfg)
  /\ Report("opt", Built(image', FromFile))
  /\ UNCHANGED prog

\* native_file translates what serialize has left in the compiler.
NativeIt ==
  /\ stage = "optimized" /\ stage' = "native"
  /\ Report("native", Built(image, AsNative))
  /\ UNCHANGED <<prog, image>>

\* compile_source inlines before it compiles.
compile_source(p) == Each1(Each1(compile_program(_inline_program(p)), _peephole), _cfg)
InlineIt ==
  /\ stage = "native" /\ stage' = "done"
  /\ image' = compile_source(prog)
  /\ Report("inlined", Built(image', OnMachine))
  /\ UNCHANGED prog

EngNext ==
  WalkIt \/ TranspileIt \/ CompileIt \/ PeepholeIt \/ CfgIt \/ NativeIt \/ InlineIt
EngSpec == EngInit /\ [][EngNext]_engVars

-----------------------------------------------------------------------------
\* What a user sees of a run: the output and how it ended.
Seen(e) == [out |-> result[e].out, sig |-> result[e].sig, why |-> result[e].why]
Ran(e) == result[e].sig # "none"

\* The Python that the transpiler writes does what the tree walker does:
\* the same lines printed, the same end, the same error, though names are
\* Python's, with Python's own rules for locals and closures (Transpiler).
\* The programs avoid what is known to differ (README, section 3): two names
\* that become one Python name, repeated parameters, `ask' at the end of the
\* input, built-ins called with wrong arguments, unset variables of an
\* enclosing function, and how functions are printed.
FastAgrees == Ran("fast") => Seen("fast") = Seen("walk")

\* So does the bytecode, before any optimization: vxc.py keeps names in
\* slots and unrolls blocks into jumps; the walker keeps environments.  The
\* programs avoid what is known to differ (README, section 3): an empty dict
\* as a condition, dicts that are compared, indexed by a number or asked for
\* their length, a list indexed by a string, the order of a printed dict, and
\* unset variables of an enclosing function.
BytecodeAgrees == Ran("raw") => Seen("raw") = Seen("walk")

\* Where the line table puts what a program evaluates: each pair is the
\* line of an expression and the line of the statement around it.  The line
\* goes through a body from statement to statement; a condition without a
\* line of its own, that of an elif, is put where the code before it is, and
\* a branch that a literal condition cuts off is not there.
RECURSIVE Standing(_, _)
Stood(at, found) == [at |-> at, found |-> found]
Standing(body, from) ==
  LET after(b, p) == LET q == Standing(b, p.at) IN Stood(q.at, p.found \cup q.found)
      one(p, s) ==
        LET at == IF s.ln = NoLine THEN p.at ELSE s.ln
            here == Stood(at, p.found \cup
                      {<<n.ln, at>> : n \in {m \in UNION {Nodes(e) : e \in Exprs(s)} : "ln" \in DOMAIN m}})
        IN  CASE s.t = "If" /\ IsLiteral(_fold(s.cond)) ->
                   after(IF LiteralTruth(_fold(s.cond)) THEN s.body ELSE s.orelse, here)
              [] s.t = "If" /\ ~IsLiteral(_fold(s.cond)) -> after(s.orelse, after(s.body, here))
              [] s.t \in {"RepeatN", "ForEach", "Sandbox"} -> after(s.body, here)
              [] s.t = "TryCatch" -> after(s.catch, after(s.body, here))
              [] s.t = "FuncDef" -> [here EXCEPT !.found = @ \cup Standing(s.body, NoLine).found]
              [] OTHER -> here
  IN  SeqExt!FoldLeft(one, Stood(from, {}), body)

\* An uncaught error stands where the walker says, or, since the line table
\* only knows statements, on the first line of the statement in which the
\* walker says it is; only the condition of an elif is put on the last line
\* before it instead (vidyax.py:420-425 gives the elif no line).  Errors of
\* which the walker gives no line are left out.
LinesAgree ==
  Ran("raw") /\ result["raw"].sig = "err" /\ result["walk"].ln # NoLine =>
    <<result["walk"].ln, result["raw"].ln>> \in Standing(prog, NoLine).found

\* The peephole pass changes nothing but for programs that read a variable
\* without a value and drop it: that error it may hide.
OnlyReadsAreLost ==
  Ran("peep") /\ ~result["raw"].unset =>
    Seen("peep") = Seen("raw") /\ result["peep"].ln = result["raw"].ln

\* What the file says is what the compiler held, and the VM takes it:
\* names are interned before they are counted, offsets survive the widths.
RoundTrip ==
  stage = "optimized" /\ ~image.bad =>
    LET c == Loaded(image)
    IN  /\ c = [consts |-> Interned(image).consts,
                protos |-> [i \in DOMAIN image.protos |-> Kept(image.protos[i])]]
        /\ verify(c)

\* The pass over the control-flow graph, the file and the loader change
\* nothing at all, the line of an error included (_cfg and serialize in
\* vxc.py, vx_load in vm/loader.c).
FileIsFaithful == RoundTrip /\ (Ran("opt") => result["opt"] = result["peep"])

\* The native program does what the machine does with the same bytecode,
\* although an error there is a longjmp across C functions.
NativeAgrees == Ran("native") => Seen("native") = Seen("opt")

\* What an instruction does to the height of the stack.
Effect(ins) ==
  CASE ins.op \in {"CONST", "NULL", "TRUE", "FALSE", "LOAD", "LOAD_SLOT", "MAKE_FUNC", "AI_NEW"} -> 1
    [] ins.op \in {"POP", "STORE", "STORE_SLOT", "PRINT", "JMP_IF_FALSE", "INDEX", "RET"}
                 \cup DOMAIN Binary -> -1
    [] ins.op = "AGENT" -> -2
    [] ins.op = "LIST" -> 1 - ins.arg
    [] ins.op = "DICT" -> 1 - 2 * ins.arg
    [] ins.op \in {"CALL", "GO"} -> -ins.arg
    [] OTHER -> 0
\* A level is a place with the values, tries and sandboxes open there.
Level(at, vals, tries, boxes) == [at |-> at, vals |-> vals, tries |-> tries, boxes |-> boxes]
After(code, l) ==
  LET ins == InsAt(code, l.at)
      to(t) == Level(t, l.vals + Effect(ins),
                     l.tries + (CASE ins.op = "TRY_PUSH" -> 1 [] ins.op = "TRY_POP" -> -1 [] OTHER -> 0),
                     l.boxes + (CASE ins.op = "SBOX_ENTER" -> 1 [] ins.op = "SBOX_EXIT" -> -1 [] OTHER -> 0))
  IN  {to(t) : t \in IF ins.op = "TRY_PUSH" THEN {l.at + 1} ELSE Succ(code, l.at)}
      \cup (IF ins.op = "TRY_PUSH" THEN {[l EXCEPT !.at = ins.arg, !.vals = @ + 1]} ELSE {})
OneEach(S) == \A k, l \in S : k.at = l.at => k = l
RECURSIVE Levels1(_, _, _)
Levels1(code, S, new) ==
  LET more == UNION {After(code, l) : l \in {k \in new : k.at \in Offsets(code)}} \ S
  IN  IF more = {} \/ ~OneEach(S) THEN S ELSE Levels1(code, S \cup more, more)

\* On every path to an instruction the stack is as high and as many tries
\* and sandboxes are open: break, continue, return and catch leave blocks
\* by jumps, after code that has to undo exactly what was entered.
CodeIsLevel ==
  \A i \in DOMAIN image.protos :
    LET code == image.protos[i].code
        first == Level(0, 0, 0, 0)
        all == Levels1(code, {first}, {first})
    IN  /\ OneEach(all)
        /\ \A l \in all : /\ l.at \in Offsets(code) /\ l.vals >= 0
                          /\ InsAt(code, l.at).op = "HALT" => l = Level(l.at, 0, 0, 0)
                          /\ InsAt(code, l.at).op = "RET" => l.vals = 1

\* vxc.py:178 says that `the inlined program still behaves identically'.
InliningIsInvisible == Ran("inlined") => Seen("inlined") = Seen("walk")

\* It does, when the functions that are inlined are defined before any
\* statement that mentions them and no one else binds their names: then no
\* argument is evaluated twice, skipped or moved past another.
Bindings(p, x) ==
  {n \in UNION {Nodes(s) : s \in SetOf(p)} :
     x \in Binds(n) \cup (IF n.t = "FuncDef" THEN SetOf(n.params) ELSE {})}
Tame(p) ==
  \A f \in _collect_candidates(p) :
    /\ Bindings(p, f.name) = {f}
    /\ \A i \in DOMAIN p : (\E j \in i..Len(p) : p[j] = f) =>
         \A n \in Nodes(p[i]) : n.t = "Var" => n.name # f.name
\* (What the peephole pass hides does not count here.)
InliningOfTame == Tame(prog) /\ Ran("raw") /\ ~result["raw"].unset => InliningIsInvisible
=============================================================================
