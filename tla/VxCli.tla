------------------------------- MODULE VxCli --------------------------------
(* main of vidyax.py: one process for each invocation.  `vidyax' is the    *)
(* interactive session, `vidyax lsp' the language server with the editor   *)
(* that has started it, `vidyax install', remove and init work on the      *)
(* project, and a program is run, walked, checked or built.                *)
EXTENDS VxRepl, VxLsp, VxPackages, VxUse

CONSTANTS
  MaxCommands,   \* bound: package commands one after the other on one disk
  Drafts         \* the texts whose completion is compared with the parser

VARIABLES
  process,      \* what has been started, "shell" when nothing is
  outcome,      \* how the process for a program ended
  commands      \* how many package commands have been given

cliVars == <<process, outcome, commands, useVars, replVars, lspVars, pkgVars>>

NoOutcome == [exit |-> 0, errors |-> "", ran |-> <<>>]
CliInit ==
  /\ UseInit /\ ReplInit /\ LspInit /\ PkgInit
  /\ process = "shell" /\ outcome = NoOutcome /\ commands = 0

AtFirst == process = "shell" /\ commands = 0

(***************************************************************************)
(* A program: lexed, parsed, its modules spliced in and checked, whatever  *)
(* is to be done with it then; that is asked when it has been read.        *)
(***************************************************************************)
StartProgram(disk) ==
  /\ AtFirst /\ process' = "program" /\ ReadProgram(disk)
  /\ UNCHANGED <<outcome, commands, replVars, lspVars, pkgVars>>

GoOnReading ==
  /\ process = "program" /\ expand_uses
  /\ UNCHANGED <<process, outcome, commands, replVars, lspVars, pkgVars>>

\* _parse_source and type_check; a body is what the parser gives.
Tree == [b \in DOMAIN spliced |-> program[spliced[b][1]].body[spliced[b][2]]]
_parse_source == IF ~Parses(program, Main) THEN "syntax" ELSE raised
Refused == IF _parse_source = "" /\ ~type_check(Tree) THEN "type" ELSE _parse_source

\* run_file, walk_file, build_file and check_file.  A check ends with 0
\* whatever it finds, and without a file it finds nothing.
Ended(verb) ==
  CASE Main \notin DOMAIN program -> [NoOutcome EXCEPT !.exit = IF verb = "check" THEN 0 ELSE 1]
    [] verb = "check" -> [NoOutcome EXCEPT !.errors = Refused]
    [] Refused # "" -> [NoOutcome EXCEPT !.exit = 1, !.errors = Refused]
    [] verb = "build" -> NoOutcome
    [] OTHER -> [NoOutcome EXCEPT !.ran = Tree]

RunProgram(verb) ==
  /\ process = "program" /\ reading = <<>>
  /\ process' = verb /\ outcome' = Ended(verb)
  /\ UNCHANGED <<commands, useVars, replVars, lspVars, pkgVars>>

(***************************************************************************)
(* The other commands.  The session and the server leave the disk alone,   *)
(* so it is enough to start them before any package command.               *)
(***************************************************************************)
StartProcess ==
  /\ AtFirst /\ process' \in {"repl", "lsp"}
  /\ UNCHANGED <<outcome, commands, useVars, replVars, lspVars, pkgVars>>

Session ==
  /\ process = "repl" /\ ReplNext
  /\ UNCHANGED <<process, outcome, commands, useVars, lspVars, pkgVars>>

Server ==
  /\ process = "lsp" /\ LspNext
  /\ UNCHANGED <<process, outcome, commands, useVars, replVars, pkgVars>>

PackageCommand ==
  /\ process = "shell" /\ commands < MaxCommands
  /\ commands' = commands + 1 /\ Command
  /\ UNCHANGED <<process, outcome, useVars, replVars, lspVars>>

PackageStep ==
  /\ process = "shell" /\ (Step \/ Kill)
  /\ UNCHANGED <<process, outcome, commands, useVars, replVars, lspVars>>

CliNext ==
  \/ StartProcess \/ Session \/ Server \/ PackageCommand \/ PackageStep \/ GoOnReading
  \/ \E disk \in Projects : StartProgram(disk)
  \/ \E verb \in {"run", "walk", "check", "build"} : RunProgram(verb)

\* The interpreter goes on with what it has begun, the editor reads what
\* is sent to it; nobody has to type, ask or install anything.
CliSpec == CliInit /\ [][CliNext]_cliVars /\ LspFairness /\ PkgFairness /\ UseFairness

-----------------------------------------------------------------------------
\* What stands out of a program: its functions, wherever they are, with their
\* parameters, and what its top level assigns.  Names bound in a block or a
\* function, by for, by catch or by agent do not.
Outline(body) ==
  LET funcs == {n \in UNION {Walk(s) : s \in SetOf(body)} : n.t = "FuncDef"}
  IN  UNION {{f.name} \cup SetOf(f.params) : f \in funcs}
      \cup {n.name : n \in {m \in SetOf(body) : m.t = "Assign"}}
Parsed == [t \in Texts \cup Drafts |-> ParseText(t)]
Offers(result, text) ==
  /\ Parsed[text].i # 0 => SetOf(result) = Outline(Parsed[text].n)
  /\ Cardinality(SetOf(result)) = Len(result)
OutlineOfDrafts == \A t \in Drafts : Offers(completion(t), t)


\* After an install that succeeded, every package it has unpacked finds the
\* modules it uses itself, as docs/REFERENCE.md:375 has it.
DependenciesResolve ==
  phase = "idle" =>
    \A p \in DOMAIN files :
      files[p].of \in DOMAIN last /\ last[files[p].of] = "zip" /\ p[Len(p)] = "main.vx" =>
        <<>> \notin UsedBy(files, p)

\* Whoever waits for the interpreter gets an answer: a request of the
\* editor, unless the server was told to end, a package command, and a program
\* that is read, whatever its modules use.
EverythingEnds == EveryRequestIsAnswered /\ CommandsEnd /\ ReadingEnds
=============================================================================
