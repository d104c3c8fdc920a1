----------------------------- MODULE MCProgramCache -----------------------------
(* Two requests; two script files, each holding a star import or a script that
   fails; a library that loses its only name and gets it back, so that the script
   no longer compiles, or its load fails. *)
EXTENDS ProgramCache

CONSTANTS x, f, g, r1, r2

textOf(l, u, e, h) == [loads |-> l, uses |-> u, exports |-> e, parses |-> TRUE, halts |-> h]

MCScripts == {textOf({Star}, {x}, {}, TRUE), textOf({}, {}, {}, FALSE)}

MCLibraries == {textOf({}, {}, {x}, TRUE), textOf({}, {}, {}, TRUE)}
================================================================================
