-------------------------------- MODULE MCScript --------------------------------
(* Instances of ScriptRun: two names, so that every name is called repeatedly. *)
EXTENDS ScriptRun, TLC

CONSTANTS a, b, c, k, m, v1, v2, o1, o2

\* Integers of five bits and seconds of three units: 5 seconds are the most that
\* fit, and 11 and -6 seconds would wrap around.
MCSeconds == {0, 5, 11, -6}

\* Earlier functions have put everything in that can be.
MCPriors == {[desired |-> Names, context |-> CtxKeys, details |-> DetailKeys]}

Symmetric == Permutations(Names) \cup Permutations(Objects) \cup Permutations(APIs)
================================================================================
