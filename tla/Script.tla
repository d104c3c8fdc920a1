--------------------------------- MODULE Script ---------------------------------
(***************************************************************************)
(* The calls of an arbitrary script to the collector: any sequence of at   *)
(* most MaxCalls calls of Resource, skip_resource and get_manifest, names  *)
(* repeated or not, with every depends_on the script can write then.       *)
(***************************************************************************)
EXTENDS Collector, DependencyGraph

CONSTANTS MaxCalls,  \* bound on the calls of one script
          MaxItems   \* bound on the length of a depends_on list

ASSUME ScriptBounds == MaxCalls \in Nat /\ MaxItems \in Nat

VARIABLES observed,  \* names of the observed composed resources
          calls,     \* number of calls so far
          body,      \* body[n]: the collected body of n, or None
          manifests, \* Collector.manifests: the body get_manifest has seen, or None
          last,      \* last[n]: outcome of the last call for n, "removed" for
                     \* skip_resource (history)
          excused    \* names skipped as optional or by skip_resource (history)

scriptVars == <<collectorVars, observed, calls, body, manifests, last, excused>>

\* Bodies: what is observed, and two the script makes.
BodyIds == {"observed", "first", "second"}

Outcomes == {"none", "emitted", "preserved", "skipped", "removed"}

ScriptTypeOK ==
  /\ CollectorTypeOK
  /\ observed \subseteq Names
  /\ calls \in 0 .. MaxCalls
  /\ body \in [Names -> BodyIds \cup {None}]
  /\ manifests \in [Names -> BodyIds \cup {None}]
  /\ last \in [Names -> Outcomes]
  /\ excused \subseteq Names

NewScript ==
  /\ NewCollector
  /\ calls = 0
  /\ body = [n \in Names |-> None]
  /\ manifests = [n \in Names |-> None]
  /\ last = [n \in Names |-> "none"]
  /\ excused = {}

ResetScript ==
  /\ ResetCollector
  /\ calls' = 0
  /\ body' = [n \in Names |-> None]
  /\ manifests' = [n \in Names |-> None]
  /\ last' = [n \in Names |-> "none"]
  /\ excused' = {}

\* The depends_on lists available to the next call.
ItemLists ==
  {s \in SUBSET {i \in Items : Available(i) /\ ~i.field} : Cardinality(s) <= MaxItems}

\* How a call with these arguments ends.
Outcome(n, w, hasBody, items) ==
  IF GatedOff(w)
  THEN IF w.keepIfExists /\ n \in observed THEN "preserved" ELSE "skipped"
  ELSE IF hasBody /\ \A i \in items : i.via # "skippedRef" THEN "emitted" ELSE "skipped"

\* Mutant of recordBody: a body seen before is not forgotten.
recordBodyOnly(n, outcome) ==
  /\ body' = CASE outcome = "emitted" ->
                    [body EXCEPT ![n] = IF @ = "first" THEN "second" ELSE "first"]
               [] outcome = "preserved" -> [body EXCEPT ![n] = "observed"]
               [] OTHER -> body
  /\ UNCHANGED manifests

\* What is recorded under a name, another body than before, takes the place of
\* what get_manifest has seen of it.
recordBody(n, outcome) ==
  /\ body' = CASE outcome = "emitted" ->
                    [body EXCEPT ![n] = IF @ = "first" THEN "second" ELSE "first"]
               [] outcome = "preserved" -> [body EXCEPT ![n] = "observed"]
               [] OTHER -> body
  /\ manifests' = IF outcome \in {"emitted", "preserved"}
                  THEN [manifests EXCEPT ![n] = None] ELSE manifests

CallResource(n, w, hasBody, items) ==
  /\ calls < MaxCalls
  /\ calls' = calls + 1
  /\ Resource(n, w, hasBody, items, n \in observed)
  /\ recordBody(n, Outcome(n, w, hasBody, items))
  /\ last' = [last EXCEPT ![n] = Outcome(n, w, hasBody, items)]
  /\ excused' = IF GatedOff(w) /\ w.optional /\ last'[n] = "skipped"
                THEN excused \cup {n} ELSE excused
  /\ UNCHANGED observed

CallSkipResource(n) ==
  /\ calls < MaxCalls
  /\ calls' = calls + 1
  /\ SkipResource(n)
  /\ last' = [last EXCEPT ![n] = "removed"]
  /\ excused' = excused \cup {n}
  /\ UNCHANGED <<observed, body, manifests>>

\* get_manifest: the view of a body is kept for the next call.
GetManifest(n) ==
  /\ calls < MaxCalls
  /\ calls' = calls + 1
  /\ manifests' = [manifests EXCEPT ![n] = IF @ = None THEN body[n] ELSE @]
  /\ UNCHANGED <<collectorVars, observed, body, last, excused>>

\* A call of a builtin that has to do with composed resources.
ResourceCall ==
  \E n \in Names :
    \/ \E w \in Whens \cup {NoWhen}, hasBody \in BOOLEAN, items \in ItemLists :
         CallResource(n, w, hasBody, items)
    \/ CallSkipResource(n)
    \/ GetManifest(n)

--------------------------------------------------------------------------------
(* Properties *)

\* A ResourceRef in depends_on always leads to a resource of the collector,
\* however often names are emitted and skipped again: ValidateDependencies can
\* only ever reject a script that uses refs for a cycle, never for a target.
RefTargetsExist == ~MissingTarget(dependencies, resourceNames)

\* A name the script called Resource() for and that is in no way in the desired
\* state gates the composite's readiness, unless one of its skips was declared
\* optional or made by skip_resource.
MissingGates ==
  \A n \in Names : last[n] # "none" /\ n \notin resourceNames /\ n \notin excused
                     => n \in gatingSkips

\* get_manifest never answers with a body that is not the one to be emitted, however
\* often a name is emitted, preserved and looked at.
ManifestCurrent == \A n \in Names : manifests[n] \in {None, body[n]}
================================================================================
