--------------------------------- MODULE Usage ---------------------------------
(***************************************************************************)
(* Usage resources (builtins/usage.go): which pairs of resources have one, *)
(* and in which scope.                                                     *)
(*                                                                         *)
(* A Usage is named after the pair <<dependent, dependency>>: usageName    *)
(* hashes the two names, and a hash that collides is not modelled.  Its    *)
(* body is reduced to its scope, the part that decides which Kubernetes    *)
(* object it is; selectors, labels and type information are left out.      *)
(***************************************************************************)
EXTENDS Sequencer

CONSTANTS Namespace,  \* Namespace[n]: where resource n lives, NoNS if cluster-scoped
          UsageAPI    \* spec.usageAPIVersion

NoNS == "-"

\* ResolveUsageAPIVersion: anything but v1 is v2.
apiVersion == IF UsageAPI = "v1" THEN "v1" ELSE "v2"

Namespaces == {Namespace[n] : n \in Names} \cup {NoNS}
Scopes == [kind : {"Usage", "ClusterUsage"}, namespace : Namespaces,
           ofSelectorNS : Namespaces]
Pairs == Names \X Names

usageKind(namespaced) ==
  IF apiVersion = "v2" /\ ~namespaced THEN "ClusterUsage" ELSE "Usage"

usageNamespace(dependentNS, dependencyNS) ==
  IF dependentNS # NoNS THEN dependentNS ELSE dependencyNS

usagePairReady(d, observed) ==
  /\ isObservedReady(observed, d.dependent)
  /\ isObservedReady(observed, d.dependency)
  /\ d.field => isFieldReady(observed[d.dependency])

\* The scope of a pair whose sides live in these namespaces.
scopeFor(byNS, ofNS) ==
  LET kind == usageKind(byNS # NoNS \/ ofNS # NoNS)
      placed == apiVersion = "v2" /\ kind = "Usage"
      ns == IF placed THEN usageNamespace(byNS, ofNS) ELSE NoNS
  IN [kind |-> kind,
      namespace |-> ns,
      ofSelectorNS |-> IF placed /\ ofNS # NoNS /\ ofNS # ns THEN ofNS ELSE NoNS]

\* The scope derived from the observed bodies: a side that is not observed
\* counts as having no namespace.
liveScope(pr, observed) ==
  LET nsOf(n) == IF observed[n] = None THEN NoNS ELSE Namespace[n]
  IN scopeFor(nsOf(pr[1]), nsOf(pr[2]))

\* Mutant of usageScope: always rebuilt from what is observed.
usageScopeRebuilt(pr, observed, existing) == liveScope(pr, observed)

\* The scope of the Usage to emit: that of the existing one while a side of the
\* pair is missing.
usageScope(pr, observed, existing) ==
  IF existing # None /\ (observed[pr[1]] = None \/ observed[pr[2]] = None)
  THEN existing
  ELSE liveScope(pr, observed)

Pair(d) == <<d.dependent, d.dependency>>

\* Mutant of Wanted: readiness is asked of existing Usages too.
WantedWhileReady(d, observed, existing) == usagePairReady(d, observed)

\* Whether a Usage is emitted for dependency d.
Wanted(d, observed, existing) ==
  usagePairReady(d, observed) \/ existing # None

\* BuildUsageResources: the Usage of each pair, None where there is none.
BuildUsageResources(deps, observed, obsUsages) ==
  [pr \in Pairs |->
     IF \E d \in deps : Pair(d) = pr /\ Wanted(d, observed, obsUsages[pr])
     THEN usageScope(pr, observed, obsUsages[pr])
     ELSE None]
================================================================================
