----------------------------- MODULE DependencyGraph -----------------------------
(***************************************************************************)
(* What ValidateDependencies (builtins/usage.go) decides about the         *)
(* dependencies of one script.  DependencySearch has its algorithm.        *)
(***************************************************************************)

\* ValidateDependencies: a ResourceRef to something the script did not create.
MissingTarget(deps, resourceNames) ==
  \E d \in deps : d.isRef /\ d.dependency \notin resourceNames

\* A set of names each of which depends on another of them holds a cycle, and
\* every cycle is such a set.
Circular(deps) ==
  \E S \in SUBSET {d.dependent : d \in deps} :
    /\ S # {}
    /\ \A n \in S : \E d \in deps : d.dependent = n /\ d.dependency \in S

ValidateDependencies(deps, resourceNames) ==
  ~MissingTarget(deps, resourceNames) /\ ~Circular(deps)
==================================================================================
