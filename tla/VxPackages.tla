----------------------------- MODULE VxPackages -----------------------------
(* The package commands of vidyax.py: install with its dependencies and    *)
(* the lock file, remove and init.  Downloads fail, archives break off     *)
(* while they are unpacked, and the process may be killed between any two  *)
(* steps: what is on disk then stays there for the next command.           *)
EXTENDS VxPaths, VxNodes, Integers

CONSTANTS
  Hub    \* the packages that exist: specification -> [kind, repo, name, json, deps],
         \* of the kind "repo", "url" or, for a file in a repository, "path"

Names == {Hub[s].name : s \in DOMAIN Hub} \cup {Hub[s].repo : s \in DOMAIN Hub}

\* Two packages may well share a name: the versions of a repository
\* (user/repo@ref), the repositories of two users that are called alike, a
\* package that calls itself like another's repository.  The last conjunct
\* holds of all strings.
ASSUME HubAssumption ==
  /\ \A s \in DOMAIN Hub :
       /\ Hub[s].kind \in {"repo", "url", "path"} /\ Hub[s].json \in BOOLEAN
       /\ Hub[s].deps \in Seq(DOMAIN Hub)
  /\ \A m, n \in Names : m \o ".vx" = n \o ".vx" => m = n

VARIABLES
  files,    \* what is on disk below the project
  lock,     \* vx.lock: name -> specification
  phase,    \* what the command is doing
  stack,    \* the calls of _install_recursive, the outermost first
  got,      \* installed_in_this_run, and how each was got
  data,     \* lock_data
  removing, \* the package a remove is about
  last,     \* what the last command, an install that succeeded, has installed
  torn      \* names a kill has parted from their directories

pkgVars == <<files, lock, phase, stack, got, data, removing, last, torn>>

PkgInit ==
  /\ files = <<>> /\ lock = <<>> /\ phase = "idle" /\ stack = <<>> /\ got = <<>>
  /\ data = <<>> /\ removing = "" /\ last = <<>> /\ torn = {}

Dest == In(Project)
DirOf(name) == Append(Dest, name)
FileOf(name) == Append(Dest, name \o ".vx")
Keep(f, S) == [x \in S |-> f[x]]
rmtree(disk, dir) == Keep(disk, {p \in DOMAIN disk : ~Under(p, dir)})

\* The files of an archive, and the single file of the same repository.  A
\* package uses what it depends on.
Body(spec) ==
  LET deps == Hub[spec].deps
  IN  [i \in 1..(Len(deps) + 1) |-> IF i <= Len(deps) THEN Import(Hub[deps[i]].name, i)
                                    ELSE PrintS(Str(spec), i)]
Archive(spec) ==
  [f \in {"main.vx"} \cup (IF Hub[spec].json THEN {"vx.json"} ELSE {}) |->
     IF f = "main.vx" THEN [of |-> spec, body |-> Body(spec)]
     ELSE [of |-> spec, main |-> "main.vx", name |-> Hub[spec].name, deps |-> Hub[spec].deps]]
Single(spec) == [of |-> spec, body |-> <<PrintS(Str(spec), 1)>>]

\* _download_and_extract_zip writes over what is there; S are the files it
\* gets to.
Unpacked(spec, S) ==
  Over([p \in {Append(DirOf(Hub[spec].repo), f) : f \in S} |-> Archive(spec)[p[Len(p)]]], files)

NewCall(spec) ==
  [spec |-> spec, name |-> Hub[spec].repo, deps |-> <<>>,
   at |-> CASE Hub[spec].kind = "url" -> "single"
            [] Hub[spec].kind = "repo" -> "download"
            [] Hub[spec].kind = "path" -> "refused"]
Frame == stack[Len(stack)]
Doing(place) == phase = "install" /\ stack # <<>> /\ Frame.at = place
Wanted == Frame.spec
GoOn(place) == stack' = [stack EXCEPT ![Len(stack)].at = place]
Returns == stack' = SubSeq(stack, 1, Len(stack) - 1)
Obtained(how) == got' = With(got, Wanted, how)

(***************************************************************************)
(* install                                                                 *)
(***************************************************************************)
Install(spec) ==
  /\ phase = "idle"
  /\ phase' = "install" /\ data' = lock /\ got' = <<>> /\ last' = <<>>
  /\ stack' = <<NewCall(spec)>>
  /\ UNCHANGED <<files, lock, removing, torn>>

\* Already installed in this run.
Known == Wanted \in DOMAIN got

Again ==
  /\ Doing("download") \/ Doing("single")
  /\ Known /\ Returns
  /\ UNCHANGED <<files, lock, phase, got, data, removing, last, torn>>

DownloadZip ==
  /\ Doing("download") /\ ~Known
  /\ files' = Unpacked(Wanted, DOMAIN Archive(Wanted))
  /\ Obtained("zip") /\ GoOn("json")
  /\ UNCHANGED <<lock, phase, data, removing, last, torn>>

\* No archive at any of the addresses: what has been unpacked of one that
\* broke off is left where it is, and the single file is tried.
DownloadBreaks ==
  /\ Doing("download") /\ ~Known
  /\ \E S \in SUBSET DOMAIN Archive(Wanted) :
       S # DOMAIN Archive(Wanted) /\ files' = Unpacked(Wanted, S)
  /\ GoOn("single")
  /\ UNCHANGED <<lock, phase, got, data, removing, last, torn>>

\* The file is parsed before it is saved.  It makes no lock entry.
FetchSingle ==
  /\ Doing("single") /\ ~Known
  /\ files' = With(files, FileOf(Hub[Wanted].repo), Single(Wanted))
  /\ Obtained("single") /\ Returns
  /\ UNCHANGED <<lock, phase, data, removing, last, torn>>

\* The whole command ends; lock_data is lost, the directories stay.
Abort ==
  /\ phase' = "idle" /\ stack' = <<>> /\ data' = <<>> /\ got' = <<>>
  /\ UNCHANGED <<files, lock, removing, last, torn>>
SingleFails == Doing("single") /\ ~Known /\ Abort
Refuse == Doing("refused") /\ Abort

json(name) == Append(DirOf(name), "vx.json")

\* Mutant of ReadJson: the package stays in the directory of its repository.
ReadJsonInPlace ==
  /\ Doing("json")
  /\ LET f == json(Frame.name)
         next == IF f \notin DOMAIN files THEN [Frame EXCEPT !.at = "lock"]
                 ELSE [Frame EXCEPT !.deps = files[f].deps, !.at = "deps"]
     IN  stack' = [stack EXCEPT ![Len(stack)] = next]
  /\ UNCHANGED <<files, lock, phase, got, data, removing, last, torn>>

ReadJson ==
  /\ Doing("json")
  /\ LET frame == Frame
         f == json(frame.name)
         pkg == files[f]
         next == IF f \notin DOMAIN files THEN [frame EXCEPT !.at = "lock"]
                 ELSE [frame EXCEPT !.deps = pkg.deps,
                         !.at = CASE pkg.name = frame.name -> "deps"
                                  [] pkg.name # frame.name /\ IsDir(files, DirOf(pkg.name)) -> "rmtree"
                                  [] OTHER -> "rename"]
     IN  stack' = [stack EXCEPT ![Len(stack)] = next]
  /\ UNCHANGED <<files, lock, phase, got, data, removing, last, torn>>

\* A package of another name than its repository moves into a directory of
\* that name, and what is there goes.
RmTree ==
  /\ Doing("rmtree")
  /\ files' = rmtree(files, DirOf(files[json(Frame.name)].name))
  /\ GoOn("rename")
  /\ UNCHANGED <<lock, phase, got, data, removing, last, torn>>

Moved(disk, from, to) ==
  LET New(p) == IF Under(p, from) THEN to \o SubSeq(p, Len(from) + 1, Len(p)) ELSE p
  IN  [q \in {New(p) : p \in DOMAIN disk} |-> disk[CHOOSE p \in DOMAIN disk : New(p) = q]]
Rename ==
  /\ Doing("rename")
  /\ LET from == Frame.name
         to == files[json(from)].name
     IN  /\ files' = Moved(files, DirOf(from), DirOf(to))
         /\ stack' = [stack EXCEPT ![Len(stack)] = [@ EXCEPT !.name = to, !.at = "deps"]]
         /\ torn' = torn \ {to}
  /\ UNCHANGED <<lock, phase, got, data, removing, last>>

Dependency ==
  /\ Doing("deps")
  /\ LET frame == Frame
     IN  stack' = IF frame.deps = <<>> THEN [stack EXCEPT ![Len(stack)].at = "lock"]
                  ELSE Append([stack EXCEPT ![Len(stack)].deps = Tail(@)], NewCall(Head(frame.deps)))
  /\ UNCHANGED <<files, lock, phase, got, data, removing, last, torn>>

\* Mutant of LockEntry: the entry goes under the name of the repository.
LockByRepo ==
  /\ Doing("lock")
  /\ data' = With(data, Hub[Wanted].repo, Wanted)
  /\ Returns
  /\ UNCHANGED <<files, lock, phase, got, removing, last, torn>>

LockEntry ==
  /\ Doing("lock")
  /\ data' = With(data, Frame.name, Wanted)
  /\ Returns
  /\ UNCHANGED <<files, lock, phase, got, removing, last, torn>>

WriteLock ==
  /\ phase = "install" /\ stack = <<>>
  /\ lock' = data /\ last' = got
  /\ phase' = "idle" /\ data' = <<>> /\ got' = <<>>
  /\ UNCHANGED <<files, stack, removing, torn>>

(***************************************************************************)
(* remove and init                                                         *)
(***************************************************************************)
\* The directory of that name, or else the file.
RemovePackage(name) ==
  /\ phase = "idle" /\ last' = <<>>
  /\ IF IsDir(files, DirOf(name)) THEN files' = rmtree(files, DirOf(name))
     ELSE /\ FileOf(name) \in DOMAIN files
          /\ files' = Keep(files, DOMAIN files \ {FileOf(name)})
  /\ removing' = name /\ phase' = "remove"
  /\ UNCHANGED <<lock, stack, got, data, torn>>

UpdateLock ==
  /\ phase = "remove" /\ phase' = "idle" /\ removing' = ""
  /\ lock' = Keep(lock, DOMAIN lock \ {removing})
  /\ UNCHANGED <<files, stack, got, data, last, torn>>

\* Neither a directory nor a file: the lock file is not looked at.
NotFound(name) ==
  /\ phase = "idle" /\ ~IsDir(files, DirOf(name)) /\ FileOf(name) \notin DOMAIN files
  /\ last' = <<>>
  /\ UNCHANGED <<files, lock, phase, stack, got, data, removing, torn>>

\* init refuses when there is a vx.json, and keeps a main.vx.
InitProject ==
  LET here(f) == Append(Project, f)
      own == [of |-> "", main |-> "main.vx", name |-> "project", deps |-> <<>>]
      main == [of |-> "", body |-> <<PrintS(Str("Hello"), 1)>>]
  IN  /\ phase = "idle" /\ here("vx.json") \notin DOMAIN files
      /\ files' = Over(files, [p \in {here("vx.json"), here("main.vx")} |->
                                 IF p = here("vx.json") THEN own ELSE main])
      /\ last' = <<>>
      /\ UNCHANGED <<lock, phase, stack, got, data, removing, torn>>

\* The process is killed.  A write of the lock file that is cut off leaves
\* an empty one, which is read as no entries.
Kill ==
  /\ phase # "idle"
  /\ phase' = "idle" /\ stack' = <<>> /\ data' = <<>> /\ got' = <<>> /\ removing' = ""
  /\ torn' = torn \cup (IF phase = "remove" THEN {removing}
                        ELSE IF Doing("rename") THEN {files[json(Frame.name)].name} ELSE {})
  /\ lock' \in {lock} \cup (IF phase = "remove" \/ stack = <<>> THEN {<<>>} ELSE {})
  /\ UNCHANGED <<files, last>>

Step ==
  \/ Again \/ DownloadZip \/ DownloadBreaks \/ FetchSingle \/ SingleFails \/ Refuse
  \/ ReadJson \/ RmTree \/ Rename \/ Dependency \/ LockEntry \/ WriteLock \/ UpdateLock

Command ==
  \/ \E s \in DOMAIN Hub : Install(s)
  \/ \E n \in Names : RemovePackage(n) \/ NotFound(n)
  \/ InitProject
PkgNext == Step \/ Kill \/ Command
PkgSpec == PkgInit /\ [][PkgNext]_pkgVars
PkgFairness == WF_pkgVars(Step)

-----------------------------------------------------------------------------
\* What an archive is called in the end, and the names under vx_modules that
\* are its own.
Called(s) == IF Hub[s].json THEN Hub[s].name ELSE Hub[s].repo
Labels(s) == {Hub[s].repo, Called(s)}

\* The packages that are kept in the same place: versions of one repository,
\* and repositories of the same name.  A package is at home if no other one
\* uses one of its names for anything else.
Kin(s) == {t \in DOMAIN Hub : Hub[t].repo = Hub[s].repo /\ Called(t) = Called(s)}
AtHome == {s \in DOMAIN Hub : \A t \in DOMAIN Hub : Labels(t) \cap Labels(s) # {} => t \in Kin(s)}

\* The repositories whose package moves to a directory of another name.
Movers == {Hub[s].repo : s \in {t \in DOMAIN Hub : Called(t) # Hub[t].repo}}

\* Between two commands, every name in the lock file has its directory in
\* vx_modules, with a main.vx, but for names a kill has parted and for those
\* that are also a repository whose package moves away.  After an install
\* that succeeded the lock file has, for every archive it has unpacked, under
\* the name of its directory, that archive or one of its kin that the same
\* install has unpacked (vidyax.py:2534-2637, 2955-2985).
LockTellsTheTruth ==
  phase = "idle" =>
    /\ \A n \in DOMAIN lock \ (torn \cup Movers) : Append(DirOf(n), "main.vx") \in DOMAIN files
    /\ \A s \in AtHome \cap {t \in DOMAIN last : last[t] = "zip"} :
         LET n == Called(s)
         IN  /\ n \in DOMAIN lock /\ lock[n] \in Kin(s) \cap DOMAIN last /\ last[lock[n]] = "zip"
             /\ Append(DirOf(n), "main.vx") \in DOMAIN files

\* What an install that succeeded has installed, whatever was on disk from
\* earlier commands that failed or were killed: a program in the project that
\* uses it by its name gets a file of that package or of one of its kin, if
\* the project has no module of that name itself.  (It may be the kin's: an
\* old directory of another version hides a single file.)
InstalledIsUsable ==
  phase = "idle" =>
    \A s \in AtHome \cap DOMAIN last :
      LET name == IF last[s] = "zip" THEN Called(s) ELSE Hub[s].repo
          path == Resolve(files, Project, name)
      IN  InDir(files, Project, name) = <<>> => path # <<>> /\ files[path].of \in Kin(s)

\* A command ends: a package that needs itself, by whatever way round, is
\* installed once (vidyax.py:2534-2536).
CommandsEnd == phase # "idle" ~> phase = "idle"
=============================================================================
