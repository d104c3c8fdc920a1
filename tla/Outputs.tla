-------------------------------- MODULE Outputs --------------------------------
(***************************************************************************)
(* The collectors behind the builtins that do not compose resources: the   *)
(* desired composite (dxr), the pipeline context, XR connection details,   *)
(* conditions and events, requirements, and the response TTL.              *)
(*                                                                         *)
(* A value is told apart only by where it comes from: "old" was in the     *)
(* request, "new" is the script's, "bad" is the script's and has no        *)
(* protobuf form.  A condition or event is a member of Reports.            *)
(***************************************************************************)
EXTENDS Integers

CONSTANTS NotSet,
          CtxKeys,       \* keys of the pipeline context
          DetailKeys,    \* keys of the XR's connection details
          Reports,       \* conditions and events the script may report
          Objects,       \* what a selector names: kind, namespace and name or labels
          APIs,          \* API versions
          Seconds,       \* arguments of set_response_ttl
          TimeSecond,    \* time.Second in units of time.Duration
          maxDuration    \* the largest time.Duration; the smallest is - maxDuration - 1

ASSUME DurationsOK == /\ TimeSecond \in Nat \ {0} /\ maxDuration \in Nat
                      /\ Seconds \subseteq - maxDuration - 1 .. maxDuration
ASSUME OutputNames == /\ NotSet \notin [api : APIs, object : Objects]
                      /\ NotSet \notin {"old", "new", "bad"}
                      /\ NotSet \notin Int

VARIABLES dxr,           \* the desired composite
          context,       \* context[k]: the value under k, or NotSet
          details,       \* ConnectionCollector.details: the keys set
          reports,       \* what the ConditionCollector holds
          requirements,  \* requirements[n]: the last selector required as n, or NotSet
          handles,       \* the ExtraRefs the script holds, with what they asked for
          ttl,           \* TTLCollector.duration, or NotSet
          asked          \* the seconds last accepted (history)

outputVars == <<dxr, context, details, reports, requirements, handles, ttl, asked>>

Origins == {"old", "new", "bad"}
Selectors == [api : APIs, object : Objects]

\* Requirements are known by a name: the script's, or one derived from the
\* selector.  Scripts may well choose a name that looks like a derived one.
ReqNames == Objects

OutputsTypeOK ==
  /\ dxr \in Origins
  /\ context \in [CtxKeys -> Origins \cup {NotSet}]
  /\ details \subseteq DetailKeys
  /\ reports \subseteq Reports
  /\ requirements \in [ReqNames -> Selectors \cup {NotSet}]
  /\ handles \subseteq [name : ReqNames, asked : Selectors, derived : BOOLEAN]
  /\ ttl \in 0 .. maxDuration \cup {NotSet}
  /\ asked \in Seconds \cup {NotSet}

\* buildContextDict, and new collectors: each run starts from the request.
builtContext(keys) == [k \in CtxKeys |-> IF k \in keys THEN "old" ELSE NotSet]
noRequirements == [n \in ReqNames |-> NotSet]

NewOutputs(keys) ==
  /\ dxr = "old"
  /\ context = builtContext(keys)
  /\ details = {}
  /\ reports = {}
  /\ requirements = noRequirements
  /\ handles = {}
  /\ ttl = NotSet
  /\ asked = NotSet

ResetOutputs(keys) ==
  /\ dxr' = "old"
  /\ context' = builtContext(keys)
  /\ details' = {}
  /\ reports' = {}
  /\ requirements' = noRequirements
  /\ handles' = {}
  /\ ttl' = NotSet
  /\ asked' = NotSet

--------------------------------------------------------------------------------
(* Builtins.  A call that fails ends the script. *)

\* An assignment to dxr, or set_xr_status.
SetDXR(v) ==
  /\ dxr' = v
  /\ UNCHANGED <<context, details, reports, requirements, handles, ttl, asked>>

\* An assignment to the context, or the removal of a key.
SetContext(k, v) ==
  /\ context' = [context EXCEPT ![k] = v]
  /\ UNCHANGED <<dxr, details, reports, requirements, handles, ttl, asked>>

\* set_connection_details: the keys given are added.
setConnectionDetailsFn(keys) ==
  /\ details' = details \cup keys
  /\ UNCHANGED <<dxr, context, reports, requirements, handles, ttl, asked>>

\* set_condition and emit_event.
Report(r) ==
  /\ reports' = reports \cup {r}
  /\ UNCHANGED <<dxr, context, details, requirements, handles, ttl, asked>>

\* Mutant of derivedRequirementName: the name of the object does not go into it.
derivedWithoutName(sel) == CHOOSE o \in Objects : TRUE

\* The name is made of kind, namespace and name or labels, not the API version.
derivedRequirementName(sel) == sel.object

\* require_extra_resource and require_extra_resources, with or without a name.
requireResourceFn(name, sel) ==
  LET n == IF name = NotSet THEN derivedRequirementName(sel) ELSE name
  IN  /\ requirements' = [requirements EXCEPT ![n] = sel]
      /\ handles' = handles \cup {[name |-> n, asked |-> sel, derived |-> name = NotSet]}
      /\ UNCHANGED <<dxr, context, details, reports, ttl, asked>>

\* The product of two time.Durations wraps around.
wrapped(d) == ((d + maxDuration + 1) % (2 * (maxDuration + 1))) - (maxDuration + 1)

\* Mutant of durationOf: no upper bound on the seconds.
durationUnchecked(secs) ==
  LET d == wrapped(secs * TimeSecond) IN IF d < 0 THEN NotSet ELSE d

\* setResponseTTLFn of an integer: the duration, or NotSet for an error.
durationOf(secs) ==
  LET d == wrapped(secs * TimeSecond)
  IN  IF secs > maxDuration \div TimeSecond \/ d < 0 THEN NotSet ELSE d

setResponseTTLFn(secs) ==
  /\ durationOf(secs) # NotSet
  /\ ttl' = durationOf(secs)
  /\ asked' = secs
  /\ UNCHANGED <<dxr, context, details, reports, requirements, handles>>
================================================================================
