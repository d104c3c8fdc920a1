----------------------------- MODULE MCModuleLoader -----------------------------
(* Programs for model checking ModuleLoader. *)
EXTENDS ModuleLoader, TLC

CONSTANTS a, b, c, main

UpTo(k) == UNION {[1 .. j -> LoadStmts] : j \in 0 .. k}

\* The script loads a; a makes up to two loads, b and c up to one each; at most
\* one of the files is not plainly "ok".
MCLoads ==
  {main :> <<[mod |-> a, star |-> s]>> @@ a :> x @@ b :> y @@ c :> z :
     s \in BOOLEAN, x \in UpTo(2), y \in UpTo(1), z \in UpTo(1)}
MCKinds ==
  {[f \in Files |-> IF f = g THEN k ELSE "ok"] : g \in Files, k \in Kinds \ {"missing"}}
    \cup {[f \in Files |-> IF f = g THEN "missing" ELSE "ok"] : g \in Modules}
MCPrograms == [loads : MCLoads, kind : MCKinds]
================================================================================
