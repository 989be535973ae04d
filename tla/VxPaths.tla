------------------------------- MODULE VxPaths -------------------------------
(* Where the front end of vidyax.py looks for a module.  A path is the     *)
(* sequence of its names; the files are a function from paths to what is   *)
(* in them.                                                                *)
EXTENDS Naturals, Sequences

Project == <<"project">>
Home == <<"home", ".vidyax", "modules">>
Std == <<"vidyax">>                      \* where vidyax.py itself is
In(dir) == Append(dir, "vx_modules")
_module_paths(base) == <<base, In(base), Home, Std>>

Under(p, dir) == Len(p) > Len(dir) /\ SubSeq(p, 1, Len(dir)) = dir
IsDir(files, dir) == \E p \in DOMAIN files : Under(p, dir)
Dirname(p) == SubSeq(p, 1, Len(p) - 1)

\* Where `use x' finds x in one directory, or <<>>: a package by the main
\* file that its vx.json names, by its main.vx, or a single file.
InDir(files, dir, x) ==
  LET pkg == Append(dir, x)
      json == Append(pkg, "vx.json")
      named == Append(pkg, files[json].main)
      main == Append(pkg, "main.vx")
      file == Append(dir, x \o ".vx")
  IN  IF json \in DOMAIN files /\ named \in DOMAIN files THEN named
      ELSE IF main \in DOMAIN files THEN main
      ELSE IF file \in DOMAIN files THEN file ELSE <<>>

\* The first directory that has it.  (A main file that vx.json names and
\* that is not there is `not found' here, `cannot read' in the code.)
Resolve(files, base, x) ==
  LET dirs == _module_paths(base)
      have == {i \in DOMAIN dirs : InDir(files, dirs[i], x) # <<>>}
  IN  IF have = {} THEN <<>>
      ELSE InDir(files, dirs[CHOOSE i \in have : \A j \in have : i <= j], x)
=============================================================================
