-------------------------------- MODULE VxUse -------------------------------
(* `use': how expand_uses splices modules into a program before any engine *)
(* sees it.  Its recursion is a stack in the state: each call is about a   *)
(* file and has come to one of its statements.                             *)
EXTENDS VxPaths, VxNodes

CONSTANT Projects   \* the directories a program may be in: each a disk of its own

VARIABLES
  program,   \* the files of the program that is read
  reading,   \* calls of expand_uses, the outermost first
  loaded,    \* _loaded
  spliced,   \* what the program has become: <<p, i>> is statement i of file p
  raised     \* the error that ended it

useVars == <<program, reading, loaded, spliced, raised>>

\* A disk is a function from paths to files; a file that is no source, such
\* as a vx.json, has no statements.
ASSUME UseAssumption ==
  \A disk \in Projects :
    <<>> \notin DOMAIN disk /\ \A p \in DOMAIN disk : disk[p].body \in Seq(SetOf(disk[p].body))

Main == Append(Project, "main.vx")

\* The body of a file that does not parse.
Broken == <<Node("Broken")>>
Parses(disk, p) == p \in DOMAIN disk /\ disk[p].body # Broken

\* What is no `use', and what the engines know themselves.
Stays(s) == s.t = "Import" => s.name \in {"ai", "web", "database"}

UseInit == program = <<>> /\ reading = <<>> /\ loaded = {} /\ spliced = <<>> /\ raised = ""

\* Only a program that is there and parses comes to expand_uses.
CallOn(path) == [file |-> path, at |-> 1]
ReadProgram(disk) ==
  /\ program = <<>> /\ program' = disk
  /\ reading' = IF Parses(disk, Main) THEN <<CallOn(Main)>> ELSE <<>>
  /\ UNCHANGED <<loaded, spliced, raised>>

(***************************************************************************)
(* One turn of the loop over the statements of the innermost call.  What a *)
(* module becomes is appended as soon as it is known: the code appends it  *)
(* to the list of its own call, and that list to the caller's in the end.  *)
(***************************************************************************)
Innermost == reading[Len(reading)]
Loading == {reading[k].file : k \in 2..Len(reading)}
AtStatement == reading # <<>> /\ Innermost.at <= Len(program[Innermost.file].body)
Statement == program[Innermost.file].body[Innermost.at]
Found == Resolve(program, Dirname(Innermost.file), Statement.name)
NextOf(calls) == reading' = [calls EXCEPT ![Len(calls)].at = @ + 1]

KeepStatement ==
  /\ AtStatement /\ Stays(Statement)
  /\ spliced' = Append(spliced, <<Innermost.file, Innermost.at>>)
  /\ NextOf(reading)
  /\ UNCHANGED <<program, loaded, raised>>

\* Mutant of Skip: a module that is being loaded counts as loaded.
SkipLoading(path) == path \in loaded

\* Asked for again: a module is included once.  One that is still being
\* loaded is a circle and not skipped.
Skip(path) == path \in loaded /\ path \notin Loading

SkipUse(path) ==
  /\ Skip(path)
  /\ NextOf(reading)
  /\ UNCHANGED <<program, loaded, spliced, raised>>

LoadModule(path) ==
  /\ path \notin loaded /\ Parses(program, path)
  /\ loaded' = loaded \cup {path}
  /\ reading' = Append(reading, CallOn(path))
  /\ UNCHANGED <<program, spliced, raised>>

RaiseError(path) ==
  /\ \/ path = <<>> /\ raised' = "not found"
     \/ path \in Loading /\ raised' = "circular"
     \/ path \in DOMAIN program \ loaded /\ ~Parses(program, path) /\ raised' = "in module"
  /\ reading' = <<>>
  /\ UNCHANGED <<program, loaded, spliced>>

EndOfFile ==
  /\ reading # <<>> /\ Innermost.at > Len(program[Innermost.file].body)
  /\ IF Len(reading) = 1 THEN reading' = <<>> ELSE NextOf(SubSeq(reading, 1, Len(reading) - 1))
  /\ UNCHANGED <<program, loaded, spliced, raised>>

UseStatement ==
  /\ AtStatement /\ ~Stays(Statement)
  /\ \E path \in {Found} : SkipUse(path) \/ LoadModule(path) \/ RaiseError(path)

expand_uses == KeepStatement \/ UseStatement \/ EndOfFile
UseNext == expand_uses \/ \E disk \in Projects : ReadProgram(disk)
UseSpec == UseInit /\ [][UseNext]_useVars

-----------------------------------------------------------------------------
(***************************************************************************)
(* What a program with modules means, said without following them: the     *)
(* graph of which file uses which.  A file needs the least set that has    *)
(* what it uses, and what each of its members uses.                        *)
(***************************************************************************)
UsesOf(disk, p, i) == Resolve(disk, Dirname(p), disk[p].body[i].name)
UsedBy(disk, p) ==
  {UsesOf(disk, p, i) : i \in {j \in DOMAIN disk[p].body : ~Stays(disk[p].body[j])}}
Graph(disk) ==
  LET places == DOMAIN disk \cup {<<>>}
      uses == UNION {{p} \X UsedBy(disk, p) : p \in DOMAIN disk}
  IN  [places |-> places, uses |-> uses,
       complete |-> {S \in SUBSET places : \A e \in uses : e[1] \in S => e[2] \in S}]
Needs(graph, p) ==
  {q \in graph.places : \A S \in graph.complete :
     (\A e \in graph.uses : e[1] = p => e[2] \in S) => q \in S}

\* The statements of a file, and those that statement i of a file stands
\* for: itself, or all of the module it uses and of what that needs.
Own(disk, p) ==
  {<<p, i>> : i \in {j \in DOMAIN disk[p].body : Stays(disk[p].body[j])}}
StandsFor(disk, graph, p, i) ==
  IF Stays(disk[p].body[i]) THEN {<<p, i>>}
  ELSE UNION {Own(disk, q) : q \in {UsesOf(disk, p, i)} \cup Needs(graph, UsesOf(disk, p, i))}

\* What a program may become: an error for the reason that is given, or
\* every statement of every module it needs, each once, and none before all
\* that the statements above it in its file stand for.
Becomes(disk, error, out) ==
  LET graph == Graph(disk)
      needed == Needs(graph, Main)
      circle == \E p \in needed : p \in Needs(graph, p)
      broken == \E p \in needed \ {<<>>} : ~Parses(disk, p)
  IN  CASE error = "not found" -> <<>> \in needed
        [] error = "circular" -> circle
        [] error = "in module" -> broken
        [] OTHER ->
             /\ <<>> \notin needed /\ ~circle /\ ~broken
             /\ SetOf(out) = UNION {Own(disk, p) : p \in needed \cup {Main}}
             /\ \A a, b \in DOMAIN out : out[a] = out[b] => a = b
             /\ \A b \in DOMAIN out : \A i \in 1..(out[b][2] - 1) :
                  StandsFor(disk, graph, out[b][1], i) \subseteq {out[a] : a \in 1..(b - 1)}

\* A program is refused for the reason that is given, and only if, from its
\* main file, a module can be reached that is not there, does not parse or
\* needs itself; otherwise its modules are included once each, in the order
\* of their uses (expand_uses, vidyax.py:1096-1171).
ExpansionIsRight ==
  reading = <<>> /\ Parses(program, Main) => Becomes(program, raised, spliced)

\* A program is read to its end, whatever modules use each other.
ReadingEnds == reading # <<>> ~> reading = <<>>
UseFairness == WF_useVars(expand_uses)
=============================================================================
