----------------------------- MODULE ReconcileProof -----------------------------
(***************************************************************************)
(* Proofs about Reconcile, for every script (any Order, DependsOn and      *)
(* WhenArg), any number of resources and every history of the cluster.     *)
(***************************************************************************)
EXTENDS Reconcile, TLAPS

\* What the bodies of responses are made of has the right type.
LEMMA ScopeType ==
  ASSUME NEW x \in Namespaces, NEW y \in Namespaces
  PROVE  scopeFor(x, y) \in Scopes
BY DEF scopeFor, Scopes, usageKind, usageNamespace, Namespaces

\* The Usages RunFunction emits have the scope of their pair with both sides
\* observed, whether they are new, rebuilt or retained.
LEMMA UsageBuilt ==
  ASSUME TypeOK, ScopeInv, NEW pr \in Pairs
  PROVE  BuildUsageResources(dependencies, obs, obsUsages)[pr] \in {None, FullScope(pr)}
<1> DEFINE u == BuildUsageResources(dependencies, obs, obsUsages)
<1>1. CASE \E d \in dependencies : Pair(d) = pr /\ Wanted(d, obs, obsUsages[pr])
  <2> PICK d \in dependencies : Pair(d) = pr /\ Wanted(d, obs, obsUsages[pr])
    BY <1>1
  <2>1. u[pr] = usageScope(pr, obs, obsUsages[pr])
    BY <1>1 DEF BuildUsageResources
  <2>2. pr[1] = d.dependent /\ pr[2] = d.dependency
    BY DEF Pair
  <2>3. obsUsages[pr] # None \/ (obs[pr[1]] # None /\ obs[pr[2]] # None)
    BY <2>2 DEF Wanted, usagePairReady, isObservedReady
  <2>4. CASE obsUsages[pr] # None /\ (obs[pr[1]] = None \/ obs[pr[2]] = None)
    BY <2>1, <2>4 DEF usageScope, ScopeInv
  <2>5. CASE obs[pr[1]] # None /\ obs[pr[2]] # None
    BY <2>1, <2>5 DEF usageScope, liveScope, FullScope
  <2> QED BY <2>3, <2>4, <2>5
<1>2. CASE ~\E d \in dependencies : Pair(d) = pr /\ Wanted(d, obs, obsUsages[pr])
  BY <1>2 DEF BuildUsageResources
<1> QED BY <1>1, <1>2

\* The scope of a pair with both sides observed is a scope, so never None.
LEMMA FullScopeType ==
  ASSUME NEW pr \in Pairs
  PROVE  FullScope(pr) \in Scopes
<1>1. pr[1] \in Names /\ pr[2] \in Names
  BY DEF Pairs
<1>2. Namespace[pr[1]] \in Namespaces /\ Namespace[pr[2]] \in Namespaces
  BY <1>1 DEF Namespaces
<1> QED BY <1>2, ScopeType DEF FullScope

\* RunFunction's answer is a well-formed response.
LEMMA ResponseType ==
  ASSUME TypeOK, ScopeInv
  PROVE  Response \in Responses
<1> DEFINE u == BuildUsageResources(dependencies, obs, obsUsages)
<1>1. u \in [Pairs -> Scopes \cup {None}]
  <2>1. \A pr \in Pairs : u[pr] \in Scopes \cup {None}
    BY UsageBuilt, FullScopeType
  <2>2. u = [pr \in Pairs |-> u[pr]]
    BY DEF BuildUsageResources
  <2> QED BY <2>1, <2>2
<1>2. RemoveResources(Deferred) \in SUBSET Names
  BY DEF RemoveResources, resourceNames
<1>3. compositeReady \in {"True", "False", "unspecified"}
  BY DEF compositeReady
<1>4. compositeCond \in CondStatuses
  BY DEF compositeCond, CondStatuses
<1>5. responseTTL \in {"default", "sequencing", "none", "user"}
  BY DEF responseTTL
<1> QED BY <1>1, <1>2, <1>3, <1>4, <1>5 DEF Response, Responses

\* One call of the script does one of three things, and which one is decided by
\* its When, its depends_on and the snapshot.
LEMMA CallCases ==
  ASSUME TypeOK, PhaseInv, Call
  PROVE  LET n == Order[at] IN
         /\ n \in Names
         /\ \/ Skip(n, ~Excused(n))
            \/ /\ Preserve(n)
               /\ obs[n] # None
               /\ WhenArg[n] # None
               /\ WhenArg[n].keepIfExists
            \/ /\ Emit(n, ItemsOf(n))
               /\ ~Excused(n)
               /\ \A i \in ItemsOf(n) : i.via # "skippedRef"
<1> DEFINE n == Order[at]
<1>1. at \in 1 .. Len(Order)
  BY DEF PhaseInv, Call
<1>2. n \in Names
  BY <1>1, ScriptOK
<1>3. Resource(n, WhenOf(n), TRUE, ItemsOf(n), obs[n] # None)
  BY DEF Call
<1>4. CASE WhenArg[n] = None
  <2>1. ~GatedOff(WhenOf(n)) /\ ~Excused(n)
    BY <1>4 DEF WhenOf, GatedOff, NoWhen, Excused
  <2> QED BY <1>2, <1>3, <2>1 DEF Resource
<1>5. CASE WhenArg[n] # None
  <2>1. WhenArg[n] \in [keepIfExists : BOOLEAN, optional : BOOLEAN]
    BY <1>2, <1>5, ScriptOK
  <2>2. WhenOf(n) = [condition |-> gate[n], keepIfExists |-> WhenArg[n].keepIfExists,
                     optional |-> WhenArg[n].optional]
    BY <1>5 DEF WhenOf
  <2>3. WhenOf(n) \in Whens /\ WhenOf(n) # None
    BY <1>2, <2>1, <2>2, ScriptOK DEF Whens, TypeOK
  <2>4. GatedOff(WhenOf(n)) <=> ~gate[n]
    BY <2>2, <2>3 DEF GatedOff, NoWhen
  <2>5. /\ WhenOf(n).keepIfExists = WhenArg[n].keepIfExists
        /\ WhenOf(n).optional = WhenArg[n].optional
    BY <2>2
  <2>6. CASE gate[n]
    <3>1. ~Excused(n)
      BY <2>6 DEF Excused
    <3> QED BY <1>2, <1>3, <2>4, <2>6, <3>1 DEF Resource
  <2>7. CASE ~gate[n]
    <3>1. Excused(n) <=> WhenOf(n).optional
      BY <1>5, <2>5, <2>7 DEF Excused
    <3>2. Skip(n, ~WhenOf(n).optional) =>
            Skip(n, ~Excused(n))
      BY <3>1 DEF Skip, recordSkip
    <3> QED BY <1>2, <1>3, <1>5, <2>4, <2>5, <2>7, <3>2 DEF Resource
  <2> QED BY <2>6, <2>7
<1> QED BY <1>4, <1>5

--------------------------------------------------------------------------------
(* The inductive invariant *)

\* Before the first reconcile nothing exists, so IInv holds.
LEMMA InitIInv == Init => IInv
<1> SUFFICES ASSUME Init PROVE IInv
  OBVIOUS
<1> USE DEF Init, NewCollector
<1>1. TypeOK
  <2>1. CollectorTypeOK
    BY DEF CollectorTypeOK
  <2>2. at \in 1 .. Len(Order) + 1
    BY ScriptOK
  <2>3. live \in [Names -> Statuses \cup {None}] /\ obs \in [Names -> Statuses \cup {None}]
    BY DEF NoObs
  <2>4. usages \in [Pairs -> Scopes \cup {None}] /\ obsUsages \in [Pairs -> Scopes \cup {None}]
    BY DEF NoUsages
  <2> QED BY <2>1, <2>2, <2>3, <2>4 DEF TypeOK, CondStatuses
<1>2. PhaseInv
  BY DEF PhaseInv
<1>3. ScriptInv
  <2>1. Made = {}
    BY DEF Made
  <2> QED BY <2>1 DEF ScriptInv
<1>4. ResponseInv
  BY DEF ResponseInv
<1>5. ScopeInv
  BY DEF ScopeInv, NoUsages
<1> QED BY <1>1, <1>2, <1>3, <1>4, <1>5 DEF IInv

\* A call of the script keeps the collector well typed.
LEMMA CallType ==
  ASSUME TypeOK, PhaseInv, Call
  PROVE  CollectorTypeOK'
<1> DEFINE n == Order[at]
<1>1. n \in Names
  BY CallCases
<1> USE DEF TypeOK, CollectorTypeOK
<1>2. ASSUME NEW g \in BOOLEAN, Skip(n, g)
      PROVE  CollectorTypeOK'
  <2>1. SkippedRef(n) \in Refs
    BY <1>1 DEF SkippedRef, Refs
  <2> QED BY <1>1, <1>2, <2>1 DEF Skip, recordSkip
<1>r. ResourceRef(n) \in Refs
  BY <1>1 DEF ResourceRef, Refs
<1>3. CASE Preserve(n)
  BY <1>1, <1>3, <1>r DEF Preserve
<1>4. CASE Emit(n, ItemsOf(n))
  <2>1. Declared(n, ItemsOf(n)) \subseteq DependencyPair
    <3> SUFFICES ASSUME NEW i \in ItemsOf(n)
                 PROVE  [dependent |-> n, dependency |-> i.name, isRef |-> i.via = "ref",
                         field |-> i.field] \in DependencyPair
      BY DEF Declared
    <3>1. PICK j \in DependsOn[n] : i.name = j.name /\ i.field = j.field
      BY DEF ItemsOf
    <3>2. j \in DependsItems
      BY <1>1, ScriptOK
    <3>3. i.name \in Names /\ i.field \in BOOLEAN
      BY <3>1, <3>2 DEF DependsItems
    <3> QED BY <1>1, <3>3 DEF DependencyPair
  <2> QED BY <1>1, <1>4, <1>r, <2>1 DEF Emit
<1>5. Excused(n) \in BOOLEAN
  BY DEF Excused
<1> QED BY <1>2, <1>3, <1>4, <1>5, CallCases

\* The end of a reconcile leaves a well-typed empty collector and request.
LEMMA EndType ==
  ASSUME EndReconcile
  PROVE  /\ CollectorTypeOK'
         /\ phase' \in {"idle", "script", "decide", "finish", "apply"}
         /\ at' \in 1 .. Len(Order) + 1
         /\ obs' \in [Names -> Statuses \cup {None}]
         /\ obsUsages' \in [Pairs -> Scopes \cup {None}]
         /\ obsCond' \in CondStatuses
         /\ rsp' \in Responses \cup {None}
BY ScriptOK DEF EndReconcile, ResetCollector, CollectorTypeOK, NoObs, NoUsages, CondStatuses

\* Every step keeps the variables in their types.
LEMMA TypeStep ==
  ASSUME IInv, [Next]_vars
  PROVE  TypeOK'
<1> USE DEF IInv
<1>1. ASSUME NEW missed \in SUBSET Called, NEW missedUsages \in SUBSET DeclaredPairs,
             Observe(missed, missedUsages)
      PROVE  TypeOK'
  BY <1>1 DEF Observe, TypeOK, CollectorTypeOK, collectorVars, clusterVars
<1>2. CASE Call
  <2>1. at' \in 1 .. Len(Order) + 1
    BY <1>2, ScriptOK DEF Call, PhaseInv, TypeOK
  <2>2. phase' \in {"script", "decide"}
    BY <1>2 DEF Call
  <2> QED BY <1>2, <2>1, <2>2, CallType DEF Call, TypeOK, clusterVars, requestVars
<1>3. ASSUME NEW o \in ScriptOverrides, Decide(o)
      PROVE  TypeOK'
  BY <1>3, ScriptOK DEF Decide, SetCompositeReady, TypeOK, CollectorTypeOK, collectorVars,
                        clusterVars, requestVars
<1>4. CASE ScriptFails
  BY <1>4, EndType DEF ScriptFails, TypeOK, clusterVars
<1>5. CASE Finish
  <2>1. Response \in Responses
    BY ResponseType
  <2> QED BY <1>5, <2>1 DEF Finish, TypeOK, CollectorTypeOK, collectorVars, clusterVars, requestVars
<1>6. CASE FinishFails
  BY <1>6, EndType DEF FinishFails, TypeOK, clusterVars
<1>7. ASSUME NEW done \in SUBSET Names, NEW doneUsages \in {{}, Pairs},
             Apply(done, doneUsages)
      PROVE  TypeOK'
  <2>1. rsp = Response /\ Response \in Responses
    BY <1>7, ResponseType DEF Apply, ResponseInv
  <2>2. live' \in [Names -> Statuses \cup {None}]
    BY <1>7 DEF Apply, TypeOK, Statuses
  <2>3. rsp.usages \in [Pairs -> Scopes \cup {None}] /\ rsp.cond \in CondStatuses
    BY <2>1 DEF Responses
  <2>4. usages' \in [Pairs -> Scopes \cup {None}]
    BY <1>7, <2>3 DEF Apply, TypeOK
  <2>5. xrReady' \in BOOLEAN
    BY <1>7 DEF Apply
  <2>6. xrCond' \in CondStatuses
    BY <1>7, <2>3 DEF Apply, TypeOK
  <2> QED BY <1>7, <2>2, <2>4, <2>5, <2>6, EndType DEF Apply, TypeOK
<1>8. CASE Discard
  BY <1>8, EndType DEF Discard, TypeOK, clusterVars
<1> USE DEF TypeOK, CollectorTypeOK, collectorVars, requestVars, others
<1>9. ASSUME NEW n \in Names, Heal(n)
      PROVE  TypeOK'
  BY <1>9 DEF Heal, Statuses
<1>10. ASSUME NEW n \in Names, NEW body \in Sick, Degrade(n, body)
       PROVE  TypeOK'
  BY <1>10 DEF Degrade, Statuses
<1>11. ASSUME NEW n \in Names, Lose(n)
       PROVE  TypeOK'
  BY <1>11 DEF Lose
<1>12. ASSUME NEW n \in Names, Toggle(n)
       PROVE  TypeOK'
  BY <1>12 DEF Toggle
<1>13. CASE CalmDown
  BY <1>13 DEF CalmDown
<1>14. CASE UNCHANGED vars
  BY <1>14 DEF vars, clusterVars
<1> QED BY <1>1, <1>2, <1>3, <1>4, <1>5, <1>6, <1>7, <1>8, <1>9, <1>10, <1>11, <1>12,
           <1>13, <1>14 DEF Next

\* The script's position follows the phase, and xrCond only changes at the end
\* of a reconcile.
LEMMA PhaseStep ==
  ASSUME IInv, [Next]_vars
  PROVE  PhaseInv'
<1> USE DEF IInv, TypeOK, PhaseInv, requestVars, clusterVars, others
<1>1. Len(Order) \in Nat
  BY ScriptOK
<1>2. ASSUME NEW missed \in SUBSET Called, NEW missedUsages \in SUBSET DeclaredPairs,
             Observe(missed, missedUsages)
      PROVE  PhaseInv'
  <2>1. Order = <<>> <=> Len(Order) = 0
    BY ScriptOK
  <2> QED BY <1>1, <1>2, <2>1 DEF Observe
<1>3. CASE Call
  BY <1>1, <1>3 DEF Call
<1>4. ASSUME NEW o \in ScriptOverrides, Decide(o)
      PROVE  PhaseInv'
  BY <1>4 DEF Decide
<1>5. CASE EndReconcile
  BY <1>5 DEF EndReconcile
<1>6. CASE Finish
  BY <1>6 DEF Finish
<1>7. ASSUME NEW n \in Names, NEW body \in Sick,
             Degrade(n, body)
      PROVE  PhaseInv'
  BY <1>7 DEF Degrade
<1>8. ASSUME NEW n \in Names, Heal(n) \/ Lose(n) \/ Toggle(n)
      PROVE  PhaseInv'
  BY <1>8 DEF Heal, Lose, Toggle
<1>9. CASE CalmDown
  BY <1>9 DEF CalmDown
<1>10. CASE UNCHANGED vars
  BY <1>10 DEF vars
<1> QED BY <1>2, <1>3, <1>4, <1>5, <1>6, <1>7, <1>8, <1>9, <1>10
        DEF Next, ScriptFails, FinishFails, Apply, Discard

\* The names called before and after one more call.
LEMMA MadeGrows ==
  ASSUME TypeOK, at \in 1 .. Len(Order), at' = at + 1
  PROVE  /\ Made' = Made \cup {Order[at]}
         /\ Order[at] \notin Made
<1>1. Len(Order) \in Nat
  BY ScriptOK
<1>2. \A j \in 1 .. at - 1 : j \in 1 .. Len(Order) /\ j # at
  BY <1>1
<1>3. Order[at] \notin Made
  BY <1>2, ScriptOK DEF Made
<1>4. 1 .. at' - 1 = (1 .. at - 1) \cup {at}
  BY <1>1
<1> QED BY <1>3, <1>4 DEF Made

\* The part of the invariant that only mentions the collector, the snapshot and
\* the gates survives whatever leaves those alone.
LEMMA ScriptStutter ==
  ASSUME ScriptInv,
         UNCHANGED <<resources, skipped, gatingSkips, dependencies, obs, gate, at>>
  PROVE  ScriptInv'
BY DEF ScriptInv, Made, Excused

\* An empty collector has no traces, as no call has been made.
LEMMA ScriptEnds ==
  ASSUME EndReconcile
  PROVE  ScriptInv'
<1>1. Made' = {}
  BY DEF EndReconcile, Made
<1> QED BY <1>1 DEF EndReconcile, ResetCollector, ScriptInv

\* A call leaves one trace, of the name called; nothing else leaves any.
LEMMA ScriptStep ==
  ASSUME IInv, [Next]_vars
  PROVE  ScriptInv'
<1> USE DEF IInv
<1>1. CASE Call
  <2> DEFINE n == Order[at]
  <2>1. n \in Names /\ at \in 1 .. Len(Order)
    BY <1>1, CallCases DEF Call, PhaseInv
  <2>2. Made' = Made \cup {n} /\ n \notin Made
    BY <1>1, <2>1, MadeGrows DEF Call
  <2>3. UNCHANGED <<obs, gate>>
    BY <1>1 DEF Call, requestVars
  <2>4. \A m \in Names : Excused(m)' <=> Excused(m)
    BY <2>3 DEF Excused
  <2>5. resources[n] = "none" /\ n \notin skipped /\ n \notin gatingSkips
    BY <2>1, <2>2 DEF ScriptInv
  <2>6. ~\E d \in dependencies : d.dependent = n
    BY <2>1, <2>5 DEF ScriptInv
  <2>t. resources \in [Names -> {"none", "emitted", "preserved"}]
    BY DEF TypeOK, CollectorTypeOK
  <2>7. CASE Skip(n, ~Excused(n))
    BY <2>1, <2>2, <2>3, <2>4, <2>5, <2>6, <2>7 DEF Skip, recordSkip, ScriptInv
  <2>8. CASE /\ Preserve(n)
             /\ obs[n] # None
             /\ WhenArg[n] # None
             /\ WhenArg[n].keepIfExists
    BY <2>1, <2>2, <2>3, <2>4, <2>5, <2>6, <2>t, <2>8 DEF Preserve, ScriptInv
  <2>9. CASE /\ Emit(n, ItemsOf(n))
             /\ ~Excused(n)
             /\ \A i \in ItemsOf(n) : i.via # "skippedRef"
    <3>1. \A d \in Declared(n, ItemsOf(n)) : d.dependent = n
      BY DEF Declared
    <3>2. ASSUME NEW i \in DependsOn[n]
          PROVE  [dependent |-> n, dependency |-> i.name, isRef |-> i.ref, field |-> i.field]
                   \in dependencies'
      <4>1. i.ref \in BOOLEAN
        BY <2>1, ScriptOK DEF DependsItems
      <4> DEFINE how == IF ~i.ref THEN "string"
                        ELSE IF SkippedRef(i.name) \in handed THEN "skippedRef" ELSE "ref"
                 x == [name |-> i.name, field |-> i.field, via |-> how]
      <4>0. x \in ItemsOf(n)
        BY DEF ItemsOf
      <4>2. x.name = i.name /\ x.field = i.field /\ x.via = how
        OBVIOUS
      <4>3. x.via = "ref" <=> i.ref
        BY <2>9, <4>0, <4>2
      <4>5. (x.via = "ref") = i.ref
        BY <4>1, <4>3, Zenon
      <4>4. [dependent |-> n, dependency |-> x.name, isRef |-> x.via = "ref",
             field |-> x.field] \in Declared(n, ItemsOf(n))
        BY <4>0 DEF Declared
      <4> QED BY <2>9, <4>2, <4>5, <4>4 DEF Emit
    <3> QED BY <2>1, <2>2, <2>3, <2>4, <2>5, <2>6, <2>t, <2>9, <3>1, <3>2 DEF Emit, ScriptInv
  <2> QED BY <1>1, <2>7, <2>8, <2>9, CallCases
<1>2. ASSUME NEW missed \in SUBSET Called, NEW missedUsages \in SUBSET DeclaredPairs,
             Observe(missed, missedUsages)
      PROVE  ScriptInv'
  <2>1. at = 1 /\ at' = 1 /\ UNCHANGED <<collectorVars, gate>>
    BY <1>2 DEF Observe, PhaseInv
  <2>2. Made = {} /\ Made' = {}
    BY <2>1 DEF Made
  <2> QED BY <2>1, <2>2 DEF ScriptInv, collectorVars
<1>3. ASSUME NEW n \in Names, Toggle(n)
      PROVE  ScriptInv'
  <2>1. at = 1 /\ at' = 1 /\ UNCHANGED collectorVars
    BY <1>3 DEF Toggle, PhaseInv, others
  <2>2. Made = {} /\ Made' = {}
    BY <2>1 DEF Made
  <2> QED BY <2>1, <2>2 DEF ScriptInv, collectorVars
<1>4. CASE EndReconcile
  BY <1>4, ScriptEnds
<1>5. CASE UNCHANGED <<resources, skipped, gatingSkips, dependencies, obs, gate, at>>
  BY <1>5, ScriptStutter
<1> QED BY <1>1, <1>2, <1>3, <1>4, <1>5
        DEF Next, ScriptFails, FinishFails, Apply, Discard, Finish, Decide, SetCompositeReady,
            Heal, Degrade, Lose, CalmDown, others, collectorVars, requestVars, vars

\* Until the reconcile ends, the request and the collector stay as they were
\* when the response was computed.
LEMMA ResponseStep ==
  ASSUME IInv, [Next]_vars
  PROVE  ResponseInv'
<1> USE DEF IInv, ResponseInv
<1>1. ASSUME UNCHANGED <<collectorVars, requestVars>>
      PROVE  Response' = Response /\ valid' = valid
  BY <1>1 DEF Response, valid, RemoveResources, resourceNames, Deferred, Evaluate, Met,
              BuildUsageResources, Wanted, usagePairReady, isObservedReady, usageScope, liveScope,
              compositeReady, compositeCond, noBlockers, Converged, responseTTL,
              ValidateDependencies, MissingTarget, Circular, collectorVars, requestVars
<1>2. CASE Finish
  BY <1>1, <1>2 DEF Finish
<1>3. CASE phase' # "apply"
  BY <1>3
<1>4. CASE UNCHANGED <<collectorVars, requestVars, phase, rsp>>
  BY <1>1, <1>4
<1>5. \/ Finish \/ phase' # "apply"
      \/ UNCHANGED <<collectorVars, requestVars, phase, rsp>>
  BY DEF Next, Observe, Call, Decide, ScriptFails, FinishFails, Apply, Discard, EndReconcile,
         Heal, Degrade, Lose, Toggle, CalmDown, others, vars
<1> QED BY <1>2, <1>3, <1>4, <1>5

\* Usages are only written by Apply, with the scopes BuildUsageResources chose.
LEMMA ScopeStep ==
  ASSUME IInv, [Next]_vars
  PROVE  ScopeInv'
<1> USE DEF IInv, ScopeInv
<1>f. \A pr \in Pairs : FullScope(pr)' = FullScope(pr)
  BY DEF FullScope
<1>1. ASSUME NEW missed \in SUBSET Called, NEW missedUsages \in SUBSET DeclaredPairs,
             Observe(missed, missedUsages)
      PROVE  ScopeInv'
  BY <1>1, <1>f DEF Observe, clusterVars
<1>2. ASSUME NEW done \in SUBSET Names, NEW doneUsages \in {{}, Pairs},
             Apply(done, doneUsages)
      PROVE  ScopeInv'
  <2>1. \A pr \in Pairs : rsp.usages[pr] \in {None, FullScope(pr)}
    BY <1>2, UsageBuilt DEF Apply, ResponseInv, Response
  <2>2. \A pr \in Pairs : usages'[pr] \in {None, FullScope(pr)}
    BY <1>2, <2>1 DEF Apply
  <2> QED BY <1>2, <1>f, <2>2 DEF Apply, EndReconcile, NoUsages
<1>3. CASE EndReconcile /\ UNCHANGED usages
  BY <1>3, <1>f DEF EndReconcile, NoUsages
<1>4. CASE UNCHANGED <<usages, obsUsages>>
  BY <1>4, <1>f
<1> QED BY <1>1, <1>2, <1>3, <1>4
        DEF Next, Call, Decide, ScriptFails, Finish, FinishFails, Discard, Heal, Degrade, Lose,
            Toggle, CalmDown, others, clusterVars, requestVars, vars

\* Every reachable state satisfies the inductive invariant: the traces the
\* script leaves in the collector, the response computed from them, and the
\* scope of every Usage.
THEOREM Inductive == Spec => []IInv
<1>1. Init => IInv
  BY InitIInv
<1>2. IInv /\ [Next]_vars => IInv'
  BY TypeStep, PhaseStep, ScriptStep, ResponseStep, ScopeStep DEF IInv
<1> QED BY <1>1, <1>2, PTL DEF Spec

\* Every variable of the reconcile loop keeps its type.
THEOREM TypeCorrect == Spec => []TypeOK
BY Inductive, PTL DEF IInv

--------------------------------------------------------------------------------
(* The properties *)

\* What the response keeps of the collector's resources.
LEMMA DesiredIs ==
  ASSUME IInv, phase = "apply"
  PROVE  /\ valid
         /\ rsp.desired = {n \in Names : resources[n] # "none"} \ Deferred
         /\ rsp.usages = BuildUsageResources(dependencies, obs, obsUsages)
         /\ rsp.ready = compositeReady
         /\ rsp.cond = compositeCond
BY DEF IInv, ResponseInv, Response, RemoveResources, resourceNames

\* At the end of the script every name of it is in the collector.
LEMMA AllCalled ==
  ASSUME IInv, phase = "apply"
  PROVE  \A n \in Called : n \in Names /\ (resources[n] # "none" \/ n \in skipped)
<1>1. at = Len(Order) + 1
  BY DEF IInv, PhaseInv
<1>2. Called \subseteq Made
  BY <1>1, ScriptOK DEF Called, Made
<1>3. Called \subseteq Names
  BY ScriptOK DEF Called
<1> QED BY <1>2, <1>3 DEF IInv, ScriptInv

\* A resource in desired state that does not exist yet has all its dependencies
\* met in the snapshot.
LEMMA EmittedWhenMet ==
  ASSUME IInv, phase = "apply", NEW n \in Names, n \in rsp.desired, obs[n] = None,
         NEW i \in DependsOn[n]
  PROVE  /\ obs[i.name] # None
         /\ IF i.field THEN isFieldReady(obs[i.name]) ELSE isReady(obs[i.name])
<1> DEFINE d == [dependent |-> n, dependency |-> i.name, isRef |-> i.ref, field |-> i.field]
<1>1. n \notin Deferred /\ resources[n] # "none"
  BY DesiredIs
<1>2. resources[n] = "emitted"
  BY <1>1 DEF IInv, ScriptInv, TypeOK, CollectorTypeOK
<1>3. d \in dependencies
  BY <1>2 DEF IInv, ScriptInv
<1>4. Met(d, obs)
  BY <1>1, <1>3 DEF Deferred, Evaluate
<1> QED BY <1>4 DEF Met

\* Resources are created in dependency order, for every script: see
\* CreationOrder.
THEOREM OrderHolds == Spec => CreationOrder
<1> DEFINE A == \A n \in Names : live[n] = None /\ live'[n] # None /\ obs[n] = None
                  => \A i \in DependsOn[n] :
                       /\ obs[i.name] # None
                       /\ IF i.field THEN isFieldReady(obs[i.name]) ELSE isReady(obs[i.name])
<1>1. ASSUME IInv, [Next]_vars
      PROVE  A
  <2> SUFFICES ASSUME NEW n \in Names, live[n] = None, live'[n] # None, obs[n] = None,
                      NEW i \in DependsOn[n]
               PROVE  /\ obs[i.name] # None
                      /\ IF i.field THEN isFieldReady(obs[i.name]) ELSE isReady(obs[i.name])
    OBVIOUS
  <2>1. \E done \in SUBSET Names, doneUsages \in {{}, Pairs} : Apply(done, doneUsages)
    BY <1>1 DEF Next, Observe, Call, Decide, ScriptFails, Finish, FinishFails, Discard, Heal,
                Degrade, Lose, Toggle, CalmDown, clusterVars, vars, IInv, TypeOK
  <2>2. phase = "apply" /\ n \in rsp.desired
    BY <2>1 DEF Apply
  <2> QED BY <1>1, <2>2, EmittedWhenMet
<1>2. IInv /\ [Next]_vars => [A]_vars
  BY <1>1
<1> QED BY <1>2, Inductive, PTL DEF Spec, CreationOrder

\* Sequencing never withdraws an existing resource: see WithdrawnOnlyIfSkipped.
THEOREM NothingWithdrawn == Spec => WithdrawnOnlyIfSkipped
<1> DEFINE A == \A n \in Called : Applied /\ live[n] # None /\ live'[n] = None => n \in skipped
<1>1. ASSUME IInv
      PROVE  A
  <2> SUFFICES ASSUME NEW n \in Called, Applied, live[n] # None, live'[n] = None
               PROVE  n \in skipped
    OBVIOUS
  <2>1. n \in Names /\ phase = "apply" /\ (resources[n] # "none" \/ n \in skipped)
    BY <1>1, AllCalled DEF Applied, Apply
  <2>2. n \notin rsp.desired /\ obs[n] # None
    BY <2>1, ScriptOK DEF Applied, Apply, Statuses
  <2>3. n \notin Deferred
    BY <2>2 DEF Deferred, Evaluate
  <2> QED BY <1>1, <2>1, <2>2, <2>3, DesiredIs
<1>2. IInv /\ [Next]_vars => [A]_vars
  BY <1>1
<1> QED BY <1>2, Inductive, PTL DEF Spec, WithdrawnOnlyIfSkipped

\* Without an override, something is missing from the response exactly when a
\* gating skip or a deferred resource holds the composite back.
LEMMA BlockersAreMissing ==
  ASSUME IInv, phase = "apply", override = NoOverride
  PROVE  Missing = {} <=> noBlockers
<1>1. ASSUME NEW n \in Missing
      PROVE  ~noBlockers
  <2>1. n \in Called /\ n \notin rsp.desired /\ ~Excused(n)
    BY <1>1 DEF Missing
  <2>2. n \in Names /\ (resources[n] # "none" \/ n \in skipped)
    BY <2>1, AllCalled
  <2>3. CASE n \in skipped
    BY <2>1, <2>2, <2>3 DEF IInv, ScriptInv, noBlockers
  <2>4. CASE resources[n] # "none"
    BY <2>1, <2>2, <2>4, DesiredIs DEF noBlockers
  <2> QED BY <2>2, <2>3, <2>4
<1>2. ASSUME NEW n \in gatingSkips
      PROVE  n \in Missing
  <2>1. n \in Names
    BY DEF IInv, TypeOK, CollectorTypeOK
  <2>2. n \in skipped /\ ~Excused(n) /\ resources[n] = "none" /\ n \in Made
    BY <2>1 DEF IInv, ScriptInv
  <2>3. n \in Called
    BY <2>2 DEF IInv, PhaseInv, Made, Called
  <2> QED BY <2>2, <2>3, DesiredIs DEF Missing
<1>3. ASSUME NEW n \in Deferred
      PROVE  n \in Missing
  <2>1. PICK d \in dependencies : d.dependent = n
    BY DEF Deferred, Evaluate
  <2>2. n \in Names
    BY <2>1 DEF IInv, TypeOK, CollectorTypeOK, DependencyPair
  <2>3. resources[n] = "emitted" /\ ~Excused(n) /\ n \in Made
    BY <2>1, <2>2 DEF IInv, ScriptInv
  <2>4. n \in Called
    BY <2>3 DEF IInv, PhaseInv, Made, Called
  <2> QED BY <2>3, <2>4, DesiredIs DEF Missing
<1> QED BY <1>1, <1>2, <1>3 DEF noBlockers

\* The XR never turns Ready over a missing resource: see
\* NotReadyWhileIncomplete.
THEOREM ReadyIsComplete == Spec => NotReadyWhileIncomplete
<1> DEFINE A == Applied /\ xrReady' /\ override = NoOverride => Missing = {}
<1>1. ASSUME IInv
      PROVE  A
  <2> SUFFICES ASSUME Applied, override = NoOverride, ~noBlockers
               PROVE  ~xrReady'
    BY <1>1, BlockersAreMissing DEF Applied, Apply
  <2>1. rsp.ready = "False"
    BY <1>1, DesiredIs DEF Applied, Apply, compositeReady
  <2> QED BY <2>1 DEF Applied, Apply
<1>2. IInv /\ [Next]_vars => [A]_vars
  BY <1>1
<1> QED BY <1>2, Inductive, PTL DEF Spec, NotReadyWhileIncomplete

\* The ComposedResourcesReady condition is never stale: see ConditionCurrent.
THEOREM ConditionHolds == Spec => ConditionCurrent
<1> DEFINE A == Applied /\ override = NoOverride => (xrCond' = "False" <=> Missing # {})
<1>1. ASSUME IInv
      PROVE  A
  <2> SUFFICES ASSUME Applied, override = NoOverride
               PROVE  xrCond' = "False" <=> ~noBlockers
    BY <1>1, BlockersAreMissing DEF Applied, Apply
  <2>1. rsp.cond = compositeCond /\ obsCond = xrCond
    BY <1>1, DesiredIs DEF Applied, Apply, IInv, PhaseInv
  <2>2. xrCond' = IF rsp.cond = "none" THEN xrCond ELSE rsp.cond
    BY DEF Applied, Apply
  <2>3. CASE noBlockers
    BY <2>1, <2>2, <2>3 DEF compositeCond
  <2>4. CASE ~noBlockers
    BY <2>1, <2>2, <2>4 DEF compositeCond
  <2> QED BY <2>3, <2>4
<1>2. IInv /\ [Next]_vars => [A]_vars
  BY <1>1
<1> QED BY <1>2, Inductive, PTL DEF Spec, ConditionCurrent

\* A Usage never changes its scope: see UsageScopeStable.
THEOREM ScopesStable == Spec => UsageScopeStable
<1> DEFINE A == \A pr \in Pairs : usages[pr] # None /\ usages'[pr] # None
                  => usages'[pr] = usages[pr]
<1>1. ASSUME IInv, IInv'
      PROVE  A
  <2>1. \A pr \in Pairs : usages[pr] \in {None, FullScope(pr)}
    BY <1>1 DEF IInv, ScopeInv
  <2>2. \A pr \in Pairs : usages'[pr] \in {None, FullScope(pr)}
    BY <1>1 DEF IInv, ScopeInv, FullScope
  <2> QED BY <2>1, <2>2
<1>2. IInv /\ IInv' /\ [Next]_vars => [A]_vars
  BY <1>1
<1> QED BY <1>2, Inductive, PTL DEF Spec, UsageScopeStable

\* For a script that never uses keep_if_exists, a Usage that exists stays in
\* desired state with its dependent: see UsageStays.
THEOREM UsagesStay ==
  ASSUME \A n \in Names : WhenArg[n] # None => ~WhenArg[n].keepIfExists
  PROVE  Spec => []UsageStays
<1>1. ASSUME IInv
      PROVE  UsageStays
  <2> SUFFICES ASSUME phase = "apply", NEW pr \in DeclaredPairs,
                      obsUsages[pr] # None, pr[1] \in rsp.desired
               PROVE  rsp.usages[pr] # None
    BY DEF UsageStays
  <2>1. pr \in Pairs /\ pr[1] \in Names /\ pr = <<pr[1], pr[2]>>
    BY DEF DeclaredPairs, Pairs
  <2>2. resources[pr[1]] = "emitted"
    BY <1>1, <2>1, DesiredIs DEF IInv, ScriptInv, TypeOK, CollectorTypeOK
  <2>3. PICK i \in DependsOn[pr[1]] : i.name = pr[2]
    BY DEF DeclaredPairs
  <2> DEFINE d == [dependent |-> pr[1], dependency |-> i.name, isRef |-> i.ref,
                   field |-> i.field]
  <2>4. d \in dependencies
    BY <1>1, <2>1, <2>2 DEF IInv, ScriptInv
  <2>5. Pair(d) = pr /\ Wanted(d, obs, obsUsages[pr])
    BY <2>1, <2>3 DEF Pair, Wanted
  <2>6. rsp.usages[pr] = usageScope(pr, obs, obsUsages[pr])
    BY <1>1, <2>1, <2>4, <2>5, DesiredIs DEF BuildUsageResources
  <2>7. FullScope(pr) # None
    BY <2>1, FullScopeType, ScriptOK
  <2>8. obsUsages[pr] = FullScope(pr)
    BY <1>1, <2>1 DEF IInv, ScopeInv
  <2>9. usageScope(pr, obs, obsUsages[pr]) = FullScope(pr)
    BY <2>8 DEF usageScope, liveScope, FullScope
  <2> QED BY <2>6, <2>7, <2>9
<1> QED BY <1>1, Inductive, PTL

\* No circular response is applied: see CircularNeverApplied.
THEOREM CyclesRejected == Spec => []CircularNeverApplied
<1>1. ASSUME IInv
      PROVE  CircularNeverApplied
  <2> SUFFICES ASSUME phase = "apply", NEW S \in SUBSET Called, S # {},
                      \A n \in S : /\ resources[n] = "emitted"
                                   /\ \E i \in DependsOn[n] : i.name \in S
               PROVE  FALSE
    BY DEF CircularNeverApplied
  <2>1. \A n \in S : n \in Names
    BY <1>1, AllCalled
  <2>2. ASSUME NEW n \in S
        PROVE  \E d \in dependencies : d.dependent = n /\ d.dependency \in S
    <3>1. PICK i \in DependsOn[n] : i.name \in S
      OBVIOUS
    <3> DEFINE d == [dependent |-> n, dependency |-> i.name, isRef |-> i.ref,
                     field |-> i.field]
    <3>2. d \in dependencies
      BY <1>1, <2>1 DEF IInv, ScriptInv
    <3>3. d.dependent = n /\ d.dependency \in S
      BY <3>1
    <3> QED BY <3>2, <3>3
  <2>3. S \in SUBSET {d.dependent : d \in dependencies}
    BY <2>2
  <2>4. Circular(dependencies) /\ dependencies # {}
    BY <2>2, <2>3 DEF Circular
  <2> QED BY <1>1, <2>4, DesiredIs DEF valid, ValidateDependencies
<1> QED BY <1>1, Inductive, PTL
================================================================================
