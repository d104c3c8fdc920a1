------------------------------- MODULE ScriptText -------------------------------
(***************************************************************************)
(* Starlark files as the runtime sees them, and what executing one means.  *)
(* A script may load names of one library file, by name or all of them     *)
(* ("*").  A file that cannot be read behaves as one that does not parse.  *)
(***************************************************************************)
CONSTANTS Names,  \* names a library may export
          Star,   \* the "*" of a load statement
          None

ASSUME StarIsNoName == Star \notin Names

\* The text of a file: the names it loads from the library, the names its code
\* uses, the public names it defines, whether it parses, and whether it runs to
\* its end (no failure, and within the step limit).
Text == [loads : SUBSET (Names \cup {Star}), uses : SUBSET Names,
         exports : SUBSET Names, parses : BOOLEAN, halts : BOOLEAN]

\* A star import in a file that parses is rewritten before compilation.
hasStar(t) == t.parses /\ Star \in t.loads

\* The rewritten text: the public names of the library instead of "*".
expand(t, exports) == [t EXCEPT !.loads = (@ \ {Star}) \cup exports]

\* Compilation resolves every name the text uses.
compiles(t) == t.parses /\ t.uses \subseteq t.loads

\* A compiled file; its name is in every position it reports.
Program(t, f) == [text |-> t, file |-> f]

failed == [kind |-> "error", prog |-> None, lib |-> None]
finished(p, l) == [kind |-> "ok", prog |-> p, lib |-> l]

\* The text that is compiled, when the library reads as scan while star imports
\* are expanded, and whether it comes to that and compiles.
expanded(t, scan) == IF hasStar(t) THEN expand(t, scan.exports) ELSE t
ready(t, scan) == /\ hasStar(t) => compiles(scan) /\ scan.halts
                  /\ compiles(expanded(t, scan))

\* The outcome of executing text t under file name f, when the library reads as
\* load once load() runs it.
Evaluate(f, t, scan, load) ==
  LET e == expanded(t, scan) IN
  IF /\ ready(t, scan)
     /\ e.loads # {} => compiles(load) /\ load.halts /\ e.loads \subseteq load.exports
     /\ e.halts
  THEN finished(Program(e, f), IF e.loads = {} THEN None ELSE load)
  ELSE failed
================================================================================
