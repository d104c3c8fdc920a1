------------------------------- MODULE Reconcile -------------------------------
(***************************************************************************)
(* The reconcile loop of one composite resource (XR): Crossplane observes  *)
(* the composed resources, RunFunction (fn.go) runs the script against     *)
(* that snapshot and answers with desired state, Crossplane applies the    *)
(* answer, while providers and users change the cluster underneath.        *)
(*                                                                         *)
(* The script calls Resource once for each name of Order.  RunFunction     *)
(* only reads its request, so a change of the cluster while it runs cannot *)
(* be told from one right after it: the environment moves in the phases    *)
(* "idle" and "apply" only.  Crossplane reconciles one XR at a time, and   *)
(* the function is the only one of its pipeline that composes resources.   *)
(***************************************************************************)
EXTENDS Collector, DependencyGraph, Usage, Sequences

CONSTANTS
  Order,            \* the script: the names it calls Resource for, in order
  DependsOn,        \* DependsOn[n]: the depends_on items of n's call
  WhenArg,          \* WhenArg[n]: keep_if_exists and optional of its When, or None
  ScriptOverrides,  \* the set_composite_ready calls the script may end with
  UserTTL,          \* set_response_ttl: "unset", "zero" or "positive"
  Fresh, Healthy,   \* bodies: just created, and fully ready
  Sick              \* bodies a resource may degrade to

Called == {Order[i] : i \in 1 .. Len(Order)}
Statuses == {Fresh, Healthy} \cup Sick
DependsItems == [name : Names, ref : BOOLEAN, field : BOOLEAN]
DeclaredPairs == {pr \in Pairs : pr[1] \in Called /\ \E i \in DependsOn[pr[1]] : i.name = pr[2]}

ASSUME ScriptOK ==
  /\ Order \in Seq(Names)
  /\ \A i, j \in 1 .. Len(Order) : Order[i] = Order[j] => i = j
  /\ DependsOn \in [Names -> SUBSET DependsItems]
  /\ WhenArg \in [Names -> [keepIfExists : BOOLEAN, optional : BOOLEAN] \cup {None}]
  /\ ScriptOverrides \subseteq Overrides \cup {NoOverride}
  /\ UserTTL \in {"unset", "zero", "positive"}
  /\ Statuses \subseteq Bodies
  /\ None \notin Bodies /\ None \notin Scopes /\ None \notin Overrides /\ None \notin Whens

VARIABLES
  live,       \* live[n]: body of composed resource n in the cluster, or None
  usages,     \* usages[pr]: scope of the Usage of pair pr in the cluster, or None
  xrReady,    \* whether the XR is Ready
  xrCond,     \* status of the XR's ComposedResourcesReady condition
  gate,       \* gate[n]: what the condition of n's When evaluates to
  calm,       \* mishaps are over
  phase, at,  \* where the reconcile is, and the script's next call
  obs, obsUsages, obsCond,  \* the request: the snapshot of live, usages and xrCond
  rsp         \* the response

clusterVars == <<live, usages, xrReady, xrCond>>
requestVars == <<obs, obsUsages, obsCond>>
vars == <<collectorVars, clusterVars, gate, calm, phase, at, requestVars, rsp>>

CondStatuses == {"none", "True", "False"}
Responses == [desired : SUBSET Names,
              usages : [Pairs -> Scopes \cup {None}],
              ready : {"True", "False", "unspecified"},
              cond : CondStatuses,
              ttl : {"default", "sequencing", "none", "user"}]

NoObs == [n \in Names |-> None]
NoUsages == [pr \in Pairs |-> None]

TypeOK ==
  /\ CollectorTypeOK
  /\ live \in [Names -> Statuses \cup {None}]
  /\ usages \in [Pairs -> Scopes \cup {None}]
  /\ xrReady \in BOOLEAN
  /\ xrCond \in CondStatuses
  /\ gate \in [Names -> BOOLEAN]
  /\ calm \in BOOLEAN
  /\ phase \in {"idle", "script", "decide", "finish", "apply"}
  /\ at \in 1 .. Len(Order) + 1
  /\ obs \in [Names -> Statuses \cup {None}]
  /\ obsUsages \in [Pairs -> Scopes \cup {None}]
  /\ obsCond \in CondStatuses
  /\ rsp \in Responses \cup {None}

Init ==
  /\ NewCollector
  /\ live = NoObs
  /\ usages = NoUsages
  /\ xrReady = FALSE
  /\ xrCond = "none"
  /\ gate \in {g \in [Names -> BOOLEAN] : \A n \in Names : WhenArg[n] = None => g[n]}
  /\ calm = FALSE
  /\ phase = "idle"
  /\ at = 1
  /\ obs = NoObs
  /\ obsUsages = NoUsages
  /\ obsCond = "none"
  /\ rsp = None

--------------------------------------------------------------------------------
(* The request *)

\* Crossplane reads the cluster; its cache may miss objects that exist.
Observe(missed, missedUsages) ==
  /\ phase = "idle"
  /\ calm => missed = {} /\ missedUsages = {}
  /\ phase' = IF Order = <<>> THEN "decide" ELSE "script"
  /\ obs' = [n \in Names |-> IF n \in missed THEN None ELSE live[n]]
  /\ obsUsages' = [pr \in Pairs |-> IF pr \in missedUsages THEN None ELSE usages[pr]]
  /\ obsCond' = xrCond
  /\ UNCHANGED <<collectorVars, clusterVars, gate, calm, at, rsp>>

\* The reconcile is over; RunFunction's collectors go out of scope.
EndReconcile ==
  /\ phase' = "idle"
  /\ at' = 1
  /\ obs' = NoObs
  /\ obsUsages' = NoUsages
  /\ obsCond' = "none"
  /\ rsp' = None
  /\ ResetCollector

--------------------------------------------------------------------------------
(* RunFunction *)

WhenOf(n) ==
  IF WhenArg[n] = None THEN NoWhen
  ELSE [condition |-> gate[n], keepIfExists |-> WhenArg[n].keepIfExists,
        optional |-> WhenArg[n].optional]

\* A ref item is the value the Resource call for its name returned.
ItemsOf(n) ==
  {[name |-> i.name, field |-> i.field,
    via |-> IF ~i.ref THEN "string"
            ELSE IF SkippedRef(i.name) \in handed THEN "skippedRef" ELSE "ref"] :
     i \in DependsOn[n]}

\* The script's next Resource call.
Call ==
  /\ phase = "script"
  /\ LET n == Order[at] IN Resource(n, WhenOf(n), TRUE, ItemsOf(n), obs[n] # None)
  /\ at' = at + 1
  /\ phase' = IF at = Len(Order) THEN "decide" ELSE "script"
  /\ UNCHANGED <<clusterVars, gate, calm, requestVars, rsp>>

\* The script ends, with set_composite_ready or without; a script that holds
\* readiness back has a reason to, which is gone once all is calm.
Decide(o) ==
  /\ phase = "decide"
  /\ calm => o = NoOverride
  /\ IF o = NoOverride THEN UNCHANGED collectorVars ELSE SetCompositeReady(o)
  /\ phase' = "finish"
  /\ UNCHANGED <<clusterVars, gate, calm, at, requestVars, rsp>>

\* A step of RunFunction before, in or after the script fails: a fatal result,
\* which leaves the cluster as it is.
ScriptFails ==
  /\ phase \in {"script", "decide", "finish"}
  /\ ~calm
  /\ EndReconcile
  /\ UNCHANGED <<clusterVars, gate, calm>>

Deferred == Evaluate(dependencies, obs)
Converged == dependencies # {} /\ Deferred = {}

\* rsp.Meta.Ttl: the sequencing TTL, unless the script set one itself.
responseTTL ==
  IF UserTTL = "zero" THEN "none"
  ELSE IF UserTTL = "positive" THEN "user"
  ELSE IF dependencies = {} THEN "default"
  ELSE IF Deferred # {} THEN "sequencing"
  ELSE "none"

\* Mutant of noBlockers: deferred resources are overlooked.
noBlockersButDefers == override = NoOverride /\ gatingSkips = {}

\* ApplyCompositeReady: nothing holds the composite back.
noBlockers == override = NoOverride /\ gatingSkips = {} /\ Deferred = {}

compositeReady ==
  CASE noBlockers -> "unspecified"
    [] override # NoOverride -> IF override.ready THEN "True" ELSE "False"
    [] OTHER -> "False"

\* The ComposedResourcesReady condition of the response.
compositeCond ==
  CASE noBlockers -> IF Converged \/ obsCond # "none" THEN "True" ELSE "none"
    [] override # NoOverride -> IF ~override.reason THEN "none"
                                ELSE IF override.ready THEN "True" ELSE "False"
    [] OTHER -> "False"

\* Mutant of valid: only the targets are checked.
validTargets == ~MissingTarget(dependencies, resourceNames)

\* The dependencies, if any, are valid.
valid == dependencies = {} \/ ValidateDependencies(dependencies, resourceNames)

\* What RunFunction answers after the script: Usages, what sequencing leaves of
\* the resources, readiness and TTL.
Response ==
  [desired |-> RemoveResources(Deferred),
   usages |-> BuildUsageResources(dependencies, obs, obsUsages),
   ready |-> compositeReady,
   cond |-> compositeCond,
   ttl |-> responseTTL]

Finish ==
  /\ phase = "finish"
  /\ valid
  /\ rsp' = Response
  /\ phase' = "apply"
  /\ UNCHANGED <<collectorVars, clusterVars, gate, calm, at, requestVars>>

\* "dependency validation failed": a fatal result.
FinishFails ==
  /\ phase = "finish"
  /\ ~valid
  /\ EndReconcile
  /\ UNCHANGED <<clusterVars, gate, calm>>

--------------------------------------------------------------------------------
(* Crossplane applies the response.  It creates what is desired, deletes   *)
(* what it observed and is not desired any more, unless a Usage protects   *)
(* it, and may fail to create some of it (all but done).                   *)

Protected(n) == \E x \in Names : usages[<<x, n>>] # None

Apply(done, doneUsages) ==
  /\ phase = "apply"
  /\ calm => done = Names /\ doneUsages = Pairs
  /\ live' = [n \in Names |->
       IF n \in rsp.desired
       THEN IF live[n] = None /\ n \in done THEN Fresh ELSE live[n]
       ELSE IF obs[n] # None /\ ~Protected(n) THEN None ELSE live[n]]
  /\ usages' = [pr \in Pairs |->
       IF rsp.usages[pr] # None
       THEN IF pr \in doneUsages THEN rsp.usages[pr] ELSE usages[pr]
       ELSE IF obsUsages[pr] # None THEN None ELSE usages[pr]]
  /\ xrReady' = CASE rsp.ready = "True" -> TRUE
                  [] rsp.ready = "False" -> FALSE
                  [] OTHER -> \A n \in rsp.desired : isObservedReady(obs, n)
  /\ xrCond' = IF rsp.cond = "none" THEN xrCond ELSE rsp.cond
  /\ EndReconcile
  /\ UNCHANGED <<gate, calm>>

\* The response is lost: a timeout, or a restart of Crossplane or the function.
Discard ==
  /\ phase = "apply"
  /\ ~calm
  /\ EndReconcile
  /\ UNCHANGED <<clusterVars, gate, calm>>

--------------------------------------------------------------------------------
(* The cluster *)

envIdle == phase \in {"idle", "apply"}
others == <<collectorVars, xrReady, xrCond, phase, at, requestVars, rsp>>

\* The provider brings a resource up.
Heal(n) ==
  /\ envIdle
  /\ live[n] \notin {None, Healthy}
  /\ live' = [live EXCEPT ![n] = Healthy]
  /\ UNCHANGED <<others, usages, gate, calm>>

\* A resource loses its readiness.
Degrade(n, body) ==
  /\ envIdle
  /\ ~calm
  /\ live[n] # None
  /\ live' = [live EXCEPT ![n] = body]
  /\ UNCHANGED <<others, usages, gate, calm>>

\* Somebody deletes a resource behind Crossplane's back.
Lose(n) ==
  /\ envIdle
  /\ ~calm
  /\ live[n] # None
  /\ live' = [live EXCEPT ![n] = None]
  /\ UNCHANGED <<others, usages, gate, calm>>

\* What n's When depends on changes.
Toggle(n) ==
  /\ phase = "idle"
  /\ ~calm
  /\ WhenArg[n] # None
  /\ gate' = [gate EXCEPT ![n] = ~@]
  /\ UNCHANGED <<others, live, usages, calm>>

\* From here on nothing goes wrong any more.
CalmDown ==
  /\ phase = "idle"
  /\ ~calm
  /\ calm' = TRUE
  /\ UNCHANGED <<others, live, usages, gate>>

Next ==
  \/ \E missed \in SUBSET Called, missedUsages \in SUBSET DeclaredPairs :
       Observe(missed, missedUsages)
  \/ Call
  \/ \E o \in ScriptOverrides : Decide(o)
  \/ ScriptFails
  \/ Finish
  \/ FinishFails
  \/ \E done \in SUBSET Names, doneUsages \in {{}, Pairs} : Apply(done, doneUsages)
  \/ Discard
  \/ \E n \in Names : \/ Heal(n)
                      \/ \E body \in Sick : Degrade(n, body)
                      \/ Lose(n)
                      \/ Toggle(n)
  \/ CalmDown

Spec == Init /\ [][Next]_vars

--------------------------------------------------------------------------------
(* Properties *)

Applied == \E done \in SUBSET Names, doneUsages \in {{}, Pairs} : Apply(done, doneUsages)

\* A resource that the snapshot does not have is only created when every
\* dependency its call declares was observed and ready, or had its field, in
\* the snapshot the decision was taken on: whatever was skipped, deferred, lost
\* or missed by the snapshot before.
CreationOrder ==
  [][\A n \in Names : live[n] = None /\ live'[n] # None /\ obs[n] = None
       => \A i \in DependsOn[n] :
            /\ obs[i.name] # None
            /\ IF i.field THEN isFieldReady(obs[i.name]) ELSE isReady(obs[i.name])]_vars

\* Sequencing never takes an existing resource away: applying a response only
\* deletes a resource that the script skipped, even when its dependencies have
\* become unready or have disappeared.
WithdrawnOnlyIfSkipped ==
  [][\A n \in Called : Applied /\ live[n] # None /\ live'[n] = None => n \in skipped]_vars

\* docs/features.md: "Once the `Usage` or `ClusterUsage` exists, it stays in
\* desired state even if a dependency later becomes unready", as long as the
\* dependent itself stays in desired state.
UsageStays ==
  phase = "apply" =>
    \A pr \in DeclaredPairs :
      obsUsages[pr] # None /\ pr[1] \in rsp.desired => rsp.usages[pr] # None

\* A Usage keeps its kind and namespaces while a side of its pair is gone or
\* unready: it is never replaced by a Usage of another scope.
UsageScopeStable ==
  [][\A pr \in Pairs : usages[pr] # None /\ usages'[pr] # None
       => usages'[pr] = usages[pr]]_vars

\* What the script composes, optional resources that are gated off aside, and
\* the response leaves out.
Excused(n) == WhenArg[n] # None /\ ~gate[n] /\ WhenArg[n].optional
Missing == {n \in Called \ rsp.desired : ~Excused(n)}

\* The XR never becomes Ready while a resource it needs is skipped, transitively
\* skipped or deferred, unless the script itself says so.
NotReadyWhileIncomplete ==
  [][Applied /\ xrReady' /\ override = NoOverride => Missing = {}]_vars

\* Unless the script overrides it, the XR's ComposedResourcesReady condition is
\* False after a reconcile exactly when something is missing: in particular it
\* recovers when the last blocker goes away, whatever set it.
ConditionCurrent ==
  [][Applied /\ override = NoOverride => (xrCond' = "False" <=> Missing # {})]_vars

\* A response whose resources depend on each other in a circle is never applied.
CircularNeverApplied ==
  phase = "apply" =>
    ~\E S \in SUBSET Called :
       /\ S # {}
       /\ \A n \in S : /\ resources[n] = "emitted"
                       /\ \E i \in DependsOn[n] : i.name \in S

\* Once nothing goes wrong any more and every When holds, the XR settles: every
\* resource exists, every pair has its Usage and the XR is Ready.
Settled ==
  /\ \A n \in Called : live[n] = Healthy
  /\ \A pr \in DeclaredPairs : usages[pr] # None
  /\ xrReady
  /\ xrCond # "False"
Converges == (calm /\ \A n \in Names : gate[n]) ~> []Settled

--------------------------------------------------------------------------------
(* Fairness: Crossplane reconciles an XR again and again and RunFunction   *)
(* returns; providers bring up what they are asked for (strongly fair,     *)
(* because the environment pauses while RunFunction runs).                 *)

Fairness ==
  /\ WF_vars(\E missed \in SUBSET Called, missedUsages \in SUBSET DeclaredPairs :
               Observe(missed, missedUsages))
  /\ WF_vars(Call)
  /\ WF_vars(\E o \in ScriptOverrides : Decide(o))
  /\ WF_vars(Finish)
  /\ WF_vars(FinishFails)
  /\ WF_vars(\E done \in SUBSET Names, doneUsages \in {{}, Pairs} : Apply(done, doneUsages))
  /\ \A n \in Names : SF_vars(Heal(n))

FairSpec == Spec /\ Fairness
--------------------------------------------------------------------------------
(* The inductive invariant behind the properties above. *)

\* The calls the script has made.
Made == {Order[j] : j \in 1 .. at - 1}

PhaseInv ==
  /\ phase = "idle" => at = 1
  /\ phase = "script" => at \in 1 .. Len(Order)
  /\ phase \in {"decide", "finish", "apply"} => at = Len(Order) + 1
  /\ phase # "idle" => obsCond = xrCond

\* Every call made has left exactly one trace in the collector, and an emitted
\* resource has left all its dependencies.
ScriptInv ==
  \A n \in Names :
    /\ n \in Made <=> resources[n] # "none" \/ n \in skipped
    /\ n \in skipped => resources[n] = "none"
    /\ n \in gatingSkips <=> n \in skipped /\ ~Excused(n)
    /\ resources[n] = "preserved" => obs[n] # None
    /\ resources[n] = "preserved" => WhenArg[n] # None /\ WhenArg[n].keepIfExists
    /\ resources[n] = "emitted" => ~Excused(n)
    /\ resources[n] = "emitted" =>
         \A i \in DependsOn[n] :
           [dependent |-> n, dependency |-> i.name, isRef |-> i.ref, field |-> i.field]
             \in dependencies
    /\ (\E d \in dependencies : d.dependent = n) => resources[n] = "emitted"

\* The response under way is what RunFunction computes from its request.
ResponseInv == phase = "apply" => valid /\ rsp = Response

\* Every Usage has the scope of a pair whose sides are both observed.
FullScope(pr) == scopeFor(Namespace[pr[1]], Namespace[pr[2]])
ScopeInv ==
  \A pr \in Pairs : /\ usages[pr] \in {None, FullScope(pr)}
                    /\ obsUsages[pr] \in {None, FullScope(pr)}

\* Together: what every reachable state of the reconcile loop satisfies.
IInv == /\ TypeOK
        /\ PhaseInv
        /\ ScriptInv
        /\ ResponseInv
        /\ ScopeInv
================================================================================
