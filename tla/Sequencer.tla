------------------------------- MODULE Sequencer -------------------------------
(***************************************************************************)
(* Creation sequencing (builtins/sequencer.go): when an observed resource  *)
(* satisfies a dependency, and which resources are deferred.               *)
(*                                                                         *)
(* An observed body is reduced to what the sequencer reads of it:          *)
(*   object  - whether it is a provider-kubernetes Object                  *)
(*   conds   - the status of each of its status.conditions                 *)
(*   nested  - the same for the manifest an Object wraps                   *)
(*   field   - the kind of value found at the dependency's field path      *)
(* Kubernetes keys conditions by type, so the lists are functions from     *)
(* condition types, Absent where the list has no such condition.           *)
(***************************************************************************)
EXTENDS FiniteSets

CONSTANTS Names,  \* composition resource names
          None

Absent == "absent"
ConditionTypes == {"Ready", "Synced", "Available"}
Conditions == [ConditionTypes -> {"True", "False", Absent}]
FieldValues == {"missing", "null", "empty", "zero", "false",
                "string", "number", "true", "struct", "list"}
Bodies == [object : BOOLEAN, conds : Conditions, nested : Conditions,
           field : FieldValues]

\* A dependency as Resource(depends_on=...) records it; field tells whether it
\* carries a field path.
DependencyPair ==
  [dependent : Names, dependency : Names, isRef : BOOLEAN, field : BOOLEAN]

hasCondition(res, condType, condStatus) == res.conds[condType] = condStatus

\* Mutant of isValueTruthy: only booleans count.
isValueTrue(v) == v = "true"

\* The truthiness of the value at a field path; missing also stands for a path
\* that runs through something that is no struct.
isValueTruthy(v) == v \in {"string", "number", "true", "struct", "list"}
isFieldReady(res) == isValueTruthy(res.field)

\* A manifest that reports Ready is judged by Ready and, if reported, Synced;
\* one that does not must have all its conditions True.
nestedReady(conds) ==
  IF conds["Ready"] # Absent
  THEN conds["Ready"] = "True" /\ conds["Synced"] \in {"True", Absent}
  ELSE \A t \in ConditionTypes : conds[t] \in {"True", Absent}

hasNestedConditions(res) ==
  res.object /\ \E t \in ConditionTypes : res.nested[t] # Absent

isReady(res) ==
  IF hasNestedConditions(res)
  THEN nestedReady(res.nested)
  ELSE hasCondition(res, "Ready", "True") /\ hasCondition(res, "Synced", "True")

\* isObservedReady: a missing resource is not ready.
isObservedReady(observed, name) ==
  observed[name] # None /\ isReady(observed[name])

\* Whether Evaluate finds dependency d met.
Met(d, observed) ==
  /\ observed[d.dependency] # None
  /\ IF d.field THEN isFieldReady(observed[d.dependency])
                ELSE isReady(observed[d.dependency])

\* Mutant of Evaluate: resources that exist already are deferred as well.
EvaluateObserved(deps, observed) ==
  {d.dependent : d \in {e \in deps : ~Met(e, observed)}}

\* The resources withheld from desired state: those with an unmet dependency
\* that do not exist yet.
Evaluate(deps, observed) ==
  {n \in {d.dependent : d \in {e \in deps : ~Met(e, observed)}} :
     observed[n] = None}
================================================================================
