------------------------------- MODULE Collector -------------------------------
(***************************************************************************)
(* The collector behind the Resource, skip_resource and                    *)
(* set_composite_ready builtins (builtins/collector.go): what one run of a *)
(* script accumulates, for any sequence of calls the script makes.         *)
(*                                                                         *)
(* Bodies, reasons and messages are left out: a resource is recorded as    *)
(* emitted or preserved, a skip by its name.  A call that raises a         *)
(* Starlark error ends the script and throws the collector away.           *)
(***************************************************************************)
EXTENDS Integers, Sequencer

VARIABLES
  resources,     \* Collector.resources: "emitted", "preserved" or "none"
  skipped,       \* Collector.skipped
  gatingSkips,   \* names in Collector.gatingSkips
  dependencies,  \* Collector.dependencies
  override,      \* Collector.compositeReady
  handed         \* the ResourceRefs and SkippedRefs the script holds

collectorVars == <<resources, skipped, gatingSkips, dependencies, override, handed>>

\* No when=, or When(condition, reason, keep_if_exists, optional).
NoWhen == None
Whens == [condition : BOOLEAN, keepIfExists : BOOLEAN, optional : BOOLEAN]

\* What Resource() returns: a SkippedRef or a ResourceRef.
Refs == [name : Names, skipped : BOOLEAN]

\* An item of depends_on: a ref or a string, alone or with a field path.
Items == [name : Names, via : {"ref", "skippedRef", "string"}, field : BOOLEAN]

\* set_composite_ready: not called, or the ready and whether there is a reason.
NoOverride == None
Overrides == [ready : BOOLEAN, reason : BOOLEAN]

CollectorTypeOK ==
  /\ resources \in [Names -> {"none", "emitted", "preserved"}]
  /\ skipped \subseteq Names
  /\ gatingSkips \subseteq Names
  /\ dependencies \subseteq DependencyPair
  /\ override \in Overrides \cup {NoOverride}
  /\ handed \subseteq Refs

\* NewCollector: each run of a script starts from an empty collector.
NewCollector ==
  /\ resources = [n \in Names |-> "none"]
  /\ skipped = {}
  /\ gatingSkips = {}
  /\ dependencies = {}
  /\ override = NoOverride
  /\ handed = {}

ResetCollector ==
  /\ resources' = [n \in Names |-> "none"]
  /\ skipped' = {}
  /\ gatingSkips' = {}
  /\ dependencies' = {}
  /\ override' = NoOverride
  /\ handed' = {}

resourceNames == {n \in Names : resources[n] # "none"}

ResourceRef(n) == [name |-> n, skipped |-> FALSE]
SkippedRef(n) == [name |-> n, skipped |-> TRUE]

\* The depends_on items a script can write: names, and the refs it holds.
Available(i) ==
  \/ i.via = "string"
  \/ i.via = "ref" /\ ResourceRef(i.name) \in handed
  \/ i.via = "skippedRef" /\ SkippedRef(i.name) \in handed

--------------------------------------------------------------------------------
(* Builtins *)

\* Mutant of recordSkip: a skip takes back what was emitted under the name.
recordSkipWithdraws(n, gate) ==
  /\ skipped' = skipped \cup {n}
  /\ gatingSkips' = IF gate /\ n \notin skipped THEN gatingSkips \cup {n} ELSE gatingSkips
  /\ resources' = [resources EXCEPT ![n] = "none"]

\* Mutant of recordSkip: no skip gates the composite.
recordSkipUngated(n, gate) ==
  /\ skipped' = skipped \cup {n}
  /\ UNCHANGED <<gatingSkips, resources>>

\* A name is only recorded the first time it is skipped.
recordSkip(n, gate) ==
  /\ skipped' = skipped \cup {n}
  /\ gatingSkips' = IF gate /\ n \notin skipped THEN gatingSkips \cup {n} ELSE gatingSkips
  /\ UNCHANGED resources

\* Resource(): the call is skipped and yields a SkippedRef.
Skip(n, gate) ==
  /\ recordSkip(n, gate)
  /\ handed' = handed \cup {SkippedRef(n)}
  /\ UNCHANGED <<dependencies, override>>

\* recordPreserve: the observed body is emitted; depends_on is not looked at.
Preserve(n) ==
  /\ resources' = [resources EXCEPT ![n] = "preserved"]
  /\ handed' = handed \cup {ResourceRef(n)}
  /\ UNCHANGED <<skipped, gatingSkips, dependencies, override>>

\* addDependency, for every item of depends_on.
Declared(n, items) ==
  {[dependent |-> n, dependency |-> i.name, isRef |-> i.via = "ref", field |-> i.field] :
     i \in items}

\* Mutant of Emit: the resource is recorded, its dependencies are not.
EmitAlone(n, items) ==
  /\ resources' = [resources EXCEPT ![n] = "emitted"]
  /\ handed' = handed \cup {ResourceRef(n)}
  /\ UNCHANGED <<dependencies, skipped, gatingSkips, override>>

Emit(n, items) ==
  /\ dependencies' = dependencies \cup Declared(n, items)
  /\ resources' = [resources EXCEPT ![n] = "emitted"]
  /\ handed' = handed \cup {ResourceRef(n)}
  /\ UNCHANGED <<skipped, gatingSkips, override>>

GatedOff(w) == w # NoWhen /\ ~w.condition

\* Resource(n, body, depends_on=items, when=w), where isObserved tells whether
\* lookupObservedBody finds n.
Resource(n, w, hasBody, items, isObserved) ==
  \/ GatedOff(w) /\ ~w.keepIfExists /\ Skip(n, ~w.optional)
  \/ GatedOff(w) /\ w.keepIfExists /\ isObserved /\ Preserve(n)
  \/ GatedOff(w) /\ w.keepIfExists /\ ~isObserved /\ Skip(n, ~w.optional)
  \/ ~GatedOff(w) /\ ~hasBody /\ Skip(n, TRUE)
  \/ /\ ~GatedOff(w) /\ hasBody
     /\ \E i \in items : i.via = "skippedRef"
     /\ Skip(n, TRUE)
  \/ /\ ~GatedOff(w) /\ hasBody
     /\ \A i \in items : i.via # "skippedRef"
     /\ Emit(n, items)

\* skip_resource: an error, and the end of the script, if n was emitted.
SkipResource(n) ==
  /\ resources[n] = "none"
  /\ recordSkip(n, FALSE)
  /\ UNCHANGED <<dependencies, override, handed>>

SetCompositeReady(o) ==
  /\ override' = o
  /\ UNCHANGED <<resources, skipped, gatingSkips, dependencies, handed>>

\* RemoveResources, called by RunFunction with the deferred resources.
RemoveResources(names) == resourceNames \ names
================================================================================
