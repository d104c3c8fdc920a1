----------------------------- MODULE ScriptRunProof -----------------------------
(***************************************************************************)
(* Proofs about ScriptRun for every set of names, keys and selectors, any  *)
(* number of calls and rounds, and integers of any width: the inductive    *)
(* invariant IInv, and the safety properties of the collectors and of the  *)
(* response.                                                               *)
(***************************************************************************)
EXTENDS ScriptRun, TLAPS

--------------------------------------------------------------------------------
(* Durations *)

\* What wraps around stays a duration.
LEMMA WrappedType ==
  ASSUME NEW d \in Int
  PROVE  wrapped(d) \in -maxDuration - 1 .. maxDuration
<1> DEFINE W == 2 * (maxDuration + 1)
<1>1. maxDuration \in Nat /\ W \in Nat \ {0} /\ W = 2 * maxDuration + 2
  BY DurationsOK
<1>2. (d + maxDuration + 1) % W \in 0 .. W - 1
  BY <1>1
<1> HIDE DEF W
<1>3. wrapped(d) = ((d + maxDuration + 1) % W) - (maxDuration + 1)
  BY DEF wrapped, W
<1> QED
  BY <1>1, <1>2, <1>3

\* What is a duration already does not wrap.
LEMMA WrappedExact ==
  ASSUME NEW d \in 0 .. maxDuration
  PROVE  wrapped(d) = d
<1> DEFINE W == 2 * (maxDuration + 1)
           x == d + maxDuration + 1
<1>1. maxDuration \in Nat /\ W \in Nat \ {0} /\ W = 2 * maxDuration + 2
  BY DurationsOK
<1>2. x \in 0 .. W - 1
  BY <1>1
<1>3. x % W = x
  <2> HIDE DEF W, x
  <2> QED
    BY <1>1, <1>2
<1> QED
  BY <1>1, <1>3 DEF wrapped

\* The product with the seconds is an integer, and no smaller than the seconds'
\* own multiples allow.
LEMMA SecondsProduct ==
  ASSUME NEW secs \in Nat, secs <= maxDuration \div TimeSecond
  PROVE  secs * TimeSecond \in 0 .. maxDuration
<1> DEFINE q == maxDuration \div TimeSecond
           r == maxDuration % TimeSecond
<1>1. TimeSecond \in Nat \ {0} /\ maxDuration \in Nat
  BY DurationsOK
<1>2. q \in Nat /\ r \in Nat /\ maxDuration = TimeSecond * q + r
  BY <1>1
<1> HIDE DEF q, r
<1>3. PICK k \in Nat : q = secs + k
  <2>1. q - secs \in Nat /\ q = secs + (q - secs)
    BY <1>2 DEF q
  <2> QED
    BY <2>1
<1>4. TimeSecond * (secs + k) = secs * TimeSecond + TimeSecond * k
  BY <1>1, <1>3
<1>5. TimeSecond * k \in Nat /\ secs * TimeSecond \in Nat
  BY <1>1, <1>3
<1>6. maxDuration = secs * TimeSecond + TimeSecond * k + r
  BY <1>2, <1>3, <1>4
<1> QED
  BY <1>1, <1>2, <1>5, <1>6

\* set_response_ttl yields a duration or an error.
LEMMA DurationType ==
  ASSUME NEW secs \in Seconds
  PROVE  durationOf(secs) \in 0 .. maxDuration \cup {NotSet}
<1>1. secs \in Int /\ TimeSecond \in Int /\ secs * TimeSecond \in Int
  BY DurationsOK
<1> DEFINE d == wrapped(secs * TimeSecond)
<1>2. d \in -maxDuration - 1 .. maxDuration
  BY <1>1, WrappedType
<1>3. durationOf(secs) = NotSet \/ (durationOf(secs) = d /\ ~(d < 0))
  BY DEF durationOf
<1> HIDE DEF d
<1> QED
  BY <1>2, <1>3, DurationsOK

\* A number of seconds that is accepted and not negative does not wrap.
LEMMA DurationExact ==
  ASSUME NEW secs \in Seconds, secs >= 0, durationOf(secs) # NotSet
  PROVE  durationOf(secs) = secs * TimeSecond
<1>1. secs \in Nat
  BY DurationsOK
<1>2. ~(secs > maxDuration \div TimeSecond) /\ durationOf(secs) = wrapped(secs * TimeSecond)
  BY DEF durationOf
<1>3. maxDuration \div TimeSecond \in Int
  BY DurationsOK
<1>4. secs * TimeSecond \in 0 .. maxDuration
  BY <1>1, <1>2, <1>3, SecondsProduct
<1> QED
  BY <1>2, <1>4, WrappedExact

--------------------------------------------------------------------------------
(* Calls that compose resources *)

\* A call of Resource() skips, preserves or emits, as Outcome says, and only a
\* skip declared optional does not gate.
LEMMA ResourceCases ==
  ASSUME ScriptTypeOK,
         NEW n \in Names, NEW w \in Whens \cup {NoWhen}, NEW hasBody \in BOOLEAN,
         NEW items \in ItemLists, CallResource(n, w, hasBody, items)
  PROVE  \/ /\ Outcome(n, w, hasBody, items) = "skipped"
            /\ \E gate \in BOOLEAN : /\ Skip(n, gate)
                                     /\ ~gate => n \in excused'
         \/ Outcome(n, w, hasBody, items) = "preserved" /\ Preserve(n)
         \/ Outcome(n, w, hasBody, items) = "emitted" /\ Emit(n, items)
<1> DEFINE o == Outcome(n, w, hasBody, items)
<1>a. /\ Resource(n, w, hasBody, items, n \in observed)
      /\ last' = [last EXCEPT ![n] = o]
      /\ excused' = IF GatedOff(w) /\ w.optional /\ last'[n] = "skipped"
                    THEN excused \cup {n} ELSE excused
  BY DEF CallResource
<1>1. ASSUME GatedOff(w), ~(w.keepIfExists /\ n \in observed)
      PROVE  o = "skipped" /\ \E gate \in BOOLEAN : Skip(n, gate) /\ (~gate => n \in excused')
  <2>1. o = "skipped"
    BY <1>1 DEF Outcome
  <2>2. w \in Whens
    BY <1>1 DEF GatedOff
  <2>3. Skip(n, ~w.optional)
    BY <1>1, <1>a DEF Resource
  <2>4. CASE w.optional
    <3>1. n \in excused'
      <4>1. last'[n] = "skipped"
        BY <1>a, <2>1 DEF ScriptTypeOK
      <4> QED
        BY <1>1, <1>a, <2>4, <4>1
    <3>2. Skip(n, FALSE)
      BY <2>3, <2>4
    <3> QED
      BY <2>1, <3>1, <3>2
  <2>5. CASE ~w.optional
    <3>1. Skip(n, TRUE)
      BY <2>3, <2>5, <2>2 DEF Whens
    <3> QED
      BY <2>1, <3>1
  <2> QED
    BY <2>4, <2>5
<1>2. CASE GatedOff(w) /\ w.keepIfExists /\ n \in observed
  BY <1>2, <1>a DEF Resource, Outcome
<1>3. CASE ~GatedOff(w) /\ ~(hasBody /\ \A i \in items : i.via # "skippedRef")
  <2>1. o = "skipped" /\ Skip(n, TRUE)
    BY <1>3, <1>a DEF Resource, Outcome
  <2> QED
    BY <2>1
<1>4. CASE ~GatedOff(w) /\ hasBody /\ \A i \in items : i.via # "skippedRef"
  BY <1>4, <1>a DEF Resource, Outcome
<1> QED
  BY <1>1, <1>2, <1>3, <1>4

\* A step that skips n, by Resource() or by skip_resource.
Skips(n) ==
  /\ \E gate \in BOOLEAN : recordSkip(n, gate) /\ (~gate => n \in excused')
  /\ handed' \in {handed, handed \cup {SkippedRef(n)}}
  /\ last' \in {[last EXCEPT ![n] = "skipped"], [last EXCEPT ![n] = "removed"]}
  /\ excused \subseteq excused' /\ excused' \subseteq excused \cup {n}
  /\ UNCHANGED <<dependencies, override, body, manifests>>

\* A step that records a body b for n, with dependencies the script may declare.
Records(n, items, b) ==
  /\ resources' \in {[resources EXCEPT ![n] = "emitted"], [resources EXCEPT ![n] = "preserved"]}
  /\ dependencies' \in {dependencies, dependencies \cup Declared(n, items)}
  /\ handed' = handed \cup {ResourceRef(n)}
  /\ last' \in {[last EXCEPT ![n] = "emitted"], [last EXCEPT ![n] = "preserved"]}
  /\ body' = [body EXCEPT ![n] = b]
  /\ manifests' = [manifests EXCEPT ![n] = None]
  /\ UNCHANGED <<skipped, gatingSkips, override, excused>>

\* A step that looks at the body of n.
Looks(n) ==
  /\ manifests' = [manifests EXCEPT ![n] = IF @ = None THEN body[n] ELSE @]
  /\ UNCHANGED <<collectorVars, body, last, excused>>

\* What a call of the script does to the collector.
LEMMA ResourceCallCases ==
  ASSUME ScriptTypeOK, ResourceCall
  PROVE  /\ calls < MaxCalls /\ calls' = calls + 1
         /\ observed' = observed
         /\ \E n \in Names : \/ Skips(n)
                             \/ \E items \in ItemLists, b \in BodyIds : Records(n, items, b)
                             \/ Looks(n)
<1>1. ASSUME NEW n \in Names, NEW w \in Whens \cup {NoWhen}, NEW hasBody \in BOOLEAN,
             NEW items \in ItemLists, CallResource(n, w, hasBody, items)
      PROVE  Skips(n) \/ \E b \in BodyIds : Records(n, items, b)
  <2> DEFINE o == Outcome(n, w, hasBody, items)
  <2>a. /\ last' = [last EXCEPT ![n] = o]
        /\ recordBody(n, o)
        /\ \/ excused' = excused
           \/ excused' = excused \cup {n} /\ last'[n] = "skipped"
        /\ last'[n] = o
    BY <1>1 DEF CallResource, ScriptTypeOK
  <2>1. ASSUME o = "skipped", NEW gate \in BOOLEAN, Skip(n, gate), ~gate => n \in excused'
        PROVE  Skips(n)
    <3>1. UNCHANGED <<body, manifests>>
      BY <2>a, <2>1 DEF recordBody
    <3>2. excused \subseteq excused' /\ excused' \subseteq excused \cup {n}
      BY <2>a
    <3> QED
      BY <2>a, <2>1, <3>1, <3>2 DEF Skip, Skips
  <2>2. CASE o = "preserved" /\ Preserve(n)
    <3>1. excused' = excused
      BY <2>a, <2>2
    <3>2. body' = [body EXCEPT ![n] = "observed"] /\ manifests' = [manifests EXCEPT ![n] = None]
      BY <2>a, <2>2 DEF recordBody
    <3>3. Records(n, items, "observed")
      BY <2>a, <2>2, <3>1, <3>2 DEF Preserve, Records
    <3> QED
      BY <3>3 DEF BodyIds
  <2>3. CASE o = "emitted" /\ Emit(n, items)
    <3> DEFINE b == IF body[n] = "first" THEN "second" ELSE "first"
    <3>1. excused' = excused
      BY <2>a, <2>3
    <3>2. body' = [body EXCEPT ![n] = b] /\ manifests' = [manifests EXCEPT ![n] = None]
      BY <2>a, <2>3 DEF recordBody
    <3>3. Records(n, items, b)
      BY <2>a, <2>3, <3>1, <3>2 DEF Emit, Records
    <3>4. b \in BodyIds
      BY DEF BodyIds
    <3> QED
      BY <3>3, <3>4
  <2> QED
    BY <1>1, <2>1, <2>2, <2>3, ResourceCases
<1>2. ASSUME NEW n \in Names, CallSkipResource(n) PROVE Skips(n)
  <2>1. recordSkip(n, FALSE) /\ n \in excused'
    BY <1>2 DEF CallSkipResource, SkipResource
  <2> QED
    BY <1>2, <2>1 DEF CallSkipResource, SkipResource, Skips
<1>3. ASSUME NEW n \in Names, GetManifest(n) PROVE Looks(n)
  BY <1>3 DEF GetManifest, Looks
<1>4. /\ calls < MaxCalls /\ calls' = calls + 1
      /\ observed' = observed
  BY DEF ResourceCall, CallResource, CallSkipResource, GetManifest
<1> QED
  BY <1>1, <1>2, <1>3, <1>4 DEF ResourceCall

\* The part of IInv that is about the collector.
ComposedInv == ScriptTypeOK /\ RefTargetsExist /\ ManifestCurrent /\ CollectedInv

\* A skip leaves the resources alone, and gates unless it is excused.
LEMMA SkipsKeep ==
  ASSUME ComposedInv, NEW n \in Names, Skips(n),
         observed' = observed, calls' \in 0 .. MaxCalls
  PROVE  ComposedInv'
<1> USE DEF ComposedInv
<1>1. /\ skipped' = skipped \cup {n}
      /\ resources' = resources
      /\ gatingSkips' \subseteq gatingSkips \cup {n}
      /\ gatingSkips \subseteq gatingSkips'
      /\ n \in skipped \/ n \in gatingSkips' \/ n \in excused'
  BY DEF Skips, recordSkip
<1>2. handed' \subseteq handed \cup {SkippedRef(n)} /\ handed \subseteq handed'
  BY DEF Skips
<1>3. CollectorTypeOK'
  <2>1. SkippedRef(n) \in Refs
    BY DEF SkippedRef, Refs
  <2>2. handed' \subseteq Refs
    BY <1>2, <2>1 DEF ScriptTypeOK, CollectorTypeOK
  <2> QED
    BY <1>1, <2>2 DEF ScriptTypeOK, CollectorTypeOK, Skips
<1>4. ScriptTypeOK'
  <2>1. last' \in [Names -> Outcomes] /\ excused' \subseteq Names
    BY DEF ScriptTypeOK, Skips, Outcomes
  <2> QED
    BY <1>3, <2>1 DEF ScriptTypeOK, Skips
<1>5. RefTargetsExist'
  BY <1>1 DEF RefTargetsExist, MissingTarget, Skips, resourceNames
<1>6. ManifestCurrent'
  BY DEF ManifestCurrent, Skips
<1>7. CollectedInv'
  <2>1. \A m \in Names : ResourceRef(m) # SkippedRef(n)
    BY DEF ResourceRef, SkippedRef
  <2>2. \A m \in Names : ResourceRef(m) \in handed' => m \in resourceNames'
    BY <1>1, <1>2, <2>1 DEF CollectedInv, resourceNames
  <2>3. \A m \in Names : last'[m] # "none" => m \in resourceNames' \cup skipped'
    BY <1>1 DEF CollectedInv, resourceNames, Skips, ScriptTypeOK
  <2>4. skipped' \subseteq gatingSkips' \cup excused'
    BY <1>1 DEF CollectedInv, Skips
  <2> QED
    BY <2>2, <2>3, <2>4 DEF CollectedInv
<1> QED
  BY <1>4, <1>5, <1>6, <1>7

\* A resource that is recorded adds to the resources, depends by ref on resources
\* only, and its manifest is forgotten.
LEMMA RecordsKeep ==
  ASSUME ComposedInv, NEW n \in Names, NEW items \in ItemLists, NEW b \in BodyIds,
         Records(n, items, b), observed' = observed, calls' \in 0 .. MaxCalls
  PROVE  ComposedInv'
<1> USE DEF ComposedInv
<1>1. items \subseteq Items /\ \A i \in items : Available(i)
  BY DEF ItemLists
<1>2. resourceNames' = resourceNames \cup {n}
  BY DEF Records, resourceNames, ScriptTypeOK, CollectorTypeOK
<1>3. Declared(n, items) \subseteq DependencyPair
  <2> SUFFICES ASSUME NEW i \in items
               PROVE  [dependent |-> n, dependency |-> i.name, isRef |-> i.via = "ref",
                       field |-> i.field] \in DependencyPair
    BY DEF Declared
  <2>1. i.name \in Names /\ i.field \in BOOLEAN /\ (i.via = "ref") \in BOOLEAN
    BY <1>1 DEF Items
  <2> QED
    BY <2>1 DEF DependencyPair
<1>4. CollectorTypeOK'
  <2>1. resources' \in [Names -> {"none", "emitted", "preserved"}]
    BY DEF Records, ScriptTypeOK, CollectorTypeOK
  <2>2. handed' \subseteq Refs
    <3>1. ResourceRef(n) \in Refs
      BY DEF ResourceRef, Refs
    <3> QED
      BY <3>1 DEF Records, ScriptTypeOK, CollectorTypeOK
  <2>3. dependencies' \subseteq DependencyPair
    BY <1>3 DEF Records, ScriptTypeOK, CollectorTypeOK
  <2> QED
    BY <2>1, <2>2, <2>3 DEF Records, ScriptTypeOK, CollectorTypeOK
<1>5. ScriptTypeOK'
  <2>1. last' \in [Names -> Outcomes]
    BY DEF Records, ScriptTypeOK, Outcomes
  <2>2. /\ body' \in [Names -> BodyIds \cup {None}]
        /\ manifests' \in [Names -> BodyIds \cup {None}]
    BY DEF Records, ScriptTypeOK
  <2> QED
    BY <1>4, <2>1, <2>2 DEF Records, ScriptTypeOK
<1>6. RefTargetsExist'
  <2> SUFFICES ASSUME NEW d \in dependencies', d.isRef PROVE d.dependency \in resourceNames'
    BY DEF RefTargetsExist, MissingTarget
  <2>1. CASE d \in dependencies
    BY <1>2, <2>1 DEF RefTargetsExist, MissingTarget
  <2>2. CASE d \in Declared(n, items)
    <3>1. PICK i \in items : d = [dependent |-> n, dependency |-> i.name,
                                  isRef |-> i.via = "ref", field |-> i.field]
      BY <2>2 DEF Declared
    <3>2. i.via = "ref" /\ i.name \in Names /\ d.dependency = i.name
      BY <1>1, <3>1 DEF Items
    <3>3. ResourceRef(i.name) \in handed
      BY <1>1, <3>2 DEF Available
    <3> QED
      BY <1>2, <3>2, <3>3 DEF CollectedInv
  <2> QED
    BY <2>1, <2>2 DEF Records
<1>7. ManifestCurrent'
  BY DEF ManifestCurrent, Records, ScriptTypeOK
<1>8. CollectedInv'
  <2>1. \A m \in Names : ResourceRef(m) \in handed' => m \in resourceNames'
    BY <1>2 DEF CollectedInv, Records, ResourceRef
  <2>2. \A m \in Names : last'[m] # "none" => m \in resourceNames' \cup skipped'
    BY <1>2 DEF CollectedInv, Records, ScriptTypeOK
  <2> QED
    BY <2>1, <2>2 DEF CollectedInv, Records
<1> QED
  BY <1>5, <1>6, <1>7, <1>8

\* A look at a body changes nothing but the body seen.
LEMMA LooksKeep ==
  ASSUME ComposedInv, NEW n \in Names, Looks(n), observed' = observed, calls' \in 0 .. MaxCalls
  PROVE  ComposedInv'
<1> USE DEF ComposedInv
<1>1. manifests' \in [Names -> BodyIds \cup {None}]
  BY DEF Looks, ScriptTypeOK
<1>2. ScriptTypeOK'
  BY <1>1 DEF Looks, ScriptTypeOK, CollectorTypeOK, collectorVars
<1>3. RefTargetsExist' /\ CollectedInv'
  BY DEF Looks, RefTargetsExist, MissingTarget, CollectedInv, resourceNames, collectorVars
<1>4. ManifestCurrent'
  BY DEF ManifestCurrent, Looks, ScriptTypeOK
<1> QED
  BY <1>2, <1>3, <1>4

\* Whatever the script calls keeps the invariant.
LEMMA ResourceCallKeeps ==
  ASSUME ComposedInv, ResourceCall
  PROVE  ComposedInv'
<1>1. /\ calls < MaxCalls /\ calls' = calls + 1
      /\ observed' = observed
      /\ \E n \in Names : \/ Skips(n)
                          \/ \E items \in ItemLists, b \in BodyIds : Records(n, items, b)
                          \/ Looks(n)
  BY ResourceCallCases DEF ComposedInv
<1>2. calls' \in 0 .. MaxCalls
  BY <1>1, ScriptBounds DEF ComposedInv, ScriptTypeOK
<1> QED
  BY <1>1, <1>2, SkipsKeep, RecordsKeep, LooksKeep

\* A new collector holds nothing.
LEMMA NewScriptInv ==
  ASSUME observed \subseteq Names, NewScript
  PROVE  ComposedInv
<1>1. ScriptTypeOK
  BY ScriptBounds
     DEF ScriptTypeOK, NewScript, NewCollector, CollectorTypeOK, Outcomes, NoOverride
<1>2. RefTargetsExist /\ ManifestCurrent /\ CollectedInv
  BY DEF NewScript, NewCollector, RefTargetsExist, MissingTarget, ManifestCurrent, CollectedInv
<1> QED
  BY <1>1, <1>2 DEF ComposedInv

LEMMA ResetScriptInv ==
  ASSUME ComposedInv, observed' = observed, ResetScript
  PROVE  ComposedInv'
<1>1. ScriptTypeOK'
  BY ScriptBounds
     DEF ComposedInv, ScriptTypeOK, ResetScript, ResetCollector, CollectorTypeOK, Outcomes,
         NoOverride
<1>2. RefTargetsExist' /\ ManifestCurrent' /\ CollectedInv'
  BY DEF ResetScript, ResetCollector, RefTargetsExist, MissingTarget, ManifestCurrent,
         CollectedInv
<1> QED
  BY <1>1, <1>2 DEF ComposedInv

--------------------------------------------------------------------------------
(* Other calls *)

\* The part of IInv that is about the other collectors.
OutputInv == OutputsTypeOK /\ RequirementInv /\ TTLInv

\* A requirement replaces the one of its name, and its handle stands for it.
LEMMA RequireKeeps ==
  ASSUME OutputInv, NEW name \in ReqNames \cup {NotSet}, NEW sel \in Selectors,
         requireResourceFn(name, sel), delivered' = delivered, required' = required
  PROVE  OutputInv'
<1> USE DEF OutputInv
<1> DEFINE n == IF name = NotSet THEN derivedRequirementName(sel) ELSE name
           h == [name |-> n, asked |-> sel, derived |-> name = NotSet]
<1>1. /\ requirements' = [requirements EXCEPT ![n] = sel]
      /\ handles' = handles \cup {h}
      /\ UNCHANGED <<dxr, context, details, reports, ttl, asked>>
  BY DEF requireResourceFn
<1>2. n \in ReqNames /\ (name = NotSet => n = sel.object) /\ sel.object \in ReqNames
  BY DEF derivedRequirementName, Selectors, ReqNames
<1>3. /\ h \in [name : ReqNames, asked : Selectors, derived : BOOLEAN]
      /\ h.name = n /\ h.asked = sel
      /\ h.derived => h.name = h.asked.object
  BY <1>2
<1> HIDE DEF n, h
<1>4. OutputsTypeOK'
  BY <1>1, <1>2, <1>3 DEF OutputsTypeOK
<1>5. /\ requirements'[n] = sel
      /\ \A m \in ReqNames : m # n => requirements'[m] = requirements[m]
  BY <1>1, <1>2 DEF OutputsTypeOK
<1>6. sel # NotSet
  BY OutputNames DEF Selectors
<1>7. \A g \in handles' : requirements'[g.name] # NotSet /\ (g.derived => g.name = g.asked.object)
  <2> SUFFICES ASSUME NEW g \in handles'
               PROVE  requirements'[g.name] # NotSet /\ (g.derived => g.name = g.asked.object)
    OBVIOUS
  <2>1. CASE g = h
    BY <1>3, <1>5, <1>6, <2>1
  <2>2. CASE g \in handles
    <3>1. g.name \in ReqNames
      BY <2>2 DEF OutputsTypeOK
    <3>2. requirements[g.name] # NotSet /\ (g.derived => g.name = g.asked.object)
      BY <2>2 DEF RequirementInv
    <3> QED
      BY <1>5, <1>6, <3>1, <3>2
  <2> QED
    BY <1>1, <2>1, <2>2
<1>8. \A m \in ReqNames : requirements'[m] # NotSet =>
        \E g \in handles' : g.name = m /\ g.asked = requirements'[m]
  <2> SUFFICES ASSUME NEW m \in ReqNames, requirements'[m] # NotSet
               PROVE  \E g \in handles' : g.name = m /\ g.asked = requirements'[m]
    OBVIOUS
  <2>1. CASE m = n
    BY <1>1, <1>3, <1>5, <2>1
  <2>2. CASE m # n
    BY <1>1, <1>5, <2>2 DEF RequirementInv
  <2> QED
    BY <2>1, <2>2
<1>9. RequirementInv'
  BY <1>7, <1>8 DEF RequirementInv
<1>10. TTLInv'
  BY <1>1 DEF TTLInv
<1> QED
  BY <1>4, <1>9, <1>10

\* The seconds accepted last are those of the TTL.
LEMMA SetTTLKeeps ==
  ASSUME OutputInv, NEW secs \in Seconds, setResponseTTLFn(secs),
         delivered' = delivered, required' = required
  PROVE  OutputInv'
<1> USE DEF OutputInv
<1>1. /\ durationOf(secs) # NotSet
      /\ ttl' = durationOf(secs)
      /\ asked' = secs
      /\ UNCHANGED <<dxr, context, details, reports, requirements, handles>>
  BY DEF setResponseTTLFn
<1>2. ttl' \in 0 .. maxDuration
  BY <1>1, DurationType
<1>3. secs # NotSet
  BY DurationsOK, OutputNames
<1>4. OutputsTypeOK'
  BY <1>1, <1>2 DEF OutputsTypeOK
<1>5. RequirementInv'
  BY <1>1 DEF RequirementInv
<1>6. TTLInv'
  BY <1>1, <1>3 DEF TTLInv
<1> QED
  BY <1>4, <1>5, <1>6

\* The other builtins touch neither requirements nor the TTL.
LEMMA OutputCallKeeps ==
  ASSUME OutputInv, OutputCall, delivered' = delivered, required' = required
  PROVE  OutputInv'
<1> USE DEF OutputInv
<1> DEFINE Kept == UNCHANGED <<requirements, handles, ttl, asked>>
<1>1. ASSUME NEW v \in {"new", "bad"}, SetDXR(v) PROVE OutputsTypeOK' /\ Kept
  BY <1>1 DEF SetDXR, OutputsTypeOK, Origins
<1>2. ASSUME NEW k \in CtxKeys, NEW v \in {"new", "bad", NotSet}, SetContext(k, v)
      PROVE  OutputsTypeOK' /\ Kept
  <2>1. context' \in [CtxKeys -> Origins \cup {NotSet}]
    BY <1>2 DEF SetContext, OutputsTypeOK, Origins
  <2> QED
    BY <1>2, <2>1 DEF SetContext, OutputsTypeOK
<1>3. ASSUME NEW keys \in SUBSET DetailKeys, setConnectionDetailsFn(keys)
      PROVE  OutputsTypeOK' /\ Kept
  BY <1>3 DEF setConnectionDetailsFn, OutputsTypeOK
<1>4. ASSUME NEW r \in Reports, Report(r) PROVE OutputsTypeOK' /\ Kept
  BY <1>4 DEF Report, OutputsTypeOK
<1>5. ASSUME OutputsTypeOK', Kept PROVE OutputInv'
  BY <1>5 DEF RequirementInv, TTLInv
<1> QED
  BY <1>1, <1>2, <1>3, <1>4, <1>5, RequireKeeps, SetTTLKeeps DEF OutputCall

\* New collectors ask for nothing.
LEMMA NewOutputsInv ==
  ASSUME NEW keys, NewOutputs(keys),
         \A n \in ReqNames : delivered[n] \in {required[n], NotSet}
  PROVE  OutputInv
<1>1. OutputsTypeOK
  BY DEF NewOutputs, OutputsTypeOK, builtContext, noRequirements, Origins
<1>2. RequirementInv /\ TTLInv
  BY DEF NewOutputs, RequirementInv, TTLInv, noRequirements
<1> QED
  BY <1>1, <1>2 DEF OutputInv

LEMMA ResetOutputsInv ==
  ASSUME NEW keys, ResetOutputs(keys),
         \A n \in ReqNames : delivered'[n] \in {required'[n], NotSet}
  PROVE  OutputInv'
<1>1. OutputsTypeOK'
  BY DEF ResetOutputs, OutputsTypeOK, builtContext, noRequirements, Origins
<1>2. RequirementInv' /\ TTLInv'
  BY DEF ResetOutputs, RequirementInv, TTLInv, noRequirements
<1> QED
  BY <1>1, <1>2 DEF OutputInv

--------------------------------------------------------------------------------
(* Responses *)

\* Durations of responses.
LEMMA TTLType ==
  ASSUME OutputsTypeOK, NEW deferred
  PROVE  /\ TTL("default") \in TTLs /\ TTL("none") \in TTLs /\ TTL("sequencing") \in TTLs
         /\ responseTTL(deferred) \in TTLs
<1>1. TTL("default") \in TTLs /\ TTL("none") \in TTLs /\ TTL("sequencing") \in TTLs
  BY DurationsOK DEF TTL, TTLs
<1>2. ASSUME ttl \notin {0, NotSet} PROVE [by |-> "script", duration |-> ttl] \in TTLs
  BY <1>2 DEF TTLs, OutputsTypeOK
<1>3. \/ ttl \notin {0, NotSet} /\ responseTTL(deferred) = [by |-> "script", duration |-> ttl]
      \/ responseTTL(deferred) \in {TTL("default"), TTL("none"), TTL("sequencing")}
  <2>1. CASE ttl = 0
    BY <2>1, OutputNames DEF responseTTL
  <2>2. CASE ttl \notin {0, NotSet}
    BY <2>2 DEF responseTTL
  <2>3. CASE ttl = NotSet
    BY <2>3, OutputNames DEF responseTTL
  <2> QED
    BY <2>1, <2>2, <2>3
<1> QED
  BY <1>1, <1>2, <1>3

\* The fields of a response before the script has any part in it.
LEMMA ResponseToType ==
  ASSUME prior \in Priors, OutputsTypeOK
  PROVE  responseTo \in Responses
<1>1. /\ old(prior.desired, Names) \in [Names -> {"old", "new", NotSet}]
      /\ old(prior.context, CtxKeys) \in [CtxKeys -> {"old", "new", NotSet}]
      /\ old(prior.details, DetailKeys) \in [DetailKeys -> {"old", "new", NotSet}]
  BY DEF old
<1>2. noRequirements \in [ReqNames -> Selectors \cup {NotSet}]
  BY DEF noRequirements
<1> QED
  BY <1>1, <1>2, TTLType DEF responseTo, Responses

\* What each way to end leaves in each field of the response.
LEMMA PlainFields ==
  /\ errorResponse = [responseTo EXCEPT !.result = "error"]
  /\ fatalResponse = [responseTo EXCEPT !.result = "fatal", !.reports = reports,
                                        !.requirements = requirements]
BY DEF errorResponse, fatalResponse, applyReports, applyRequirements, responseTo

\* A response by its fields.
Fields(result, desired, x, ctx, det, u, reps, reqs, t) ==
  [result |-> result, desired |-> desired, dxr |-> x, context |-> ctx, details |-> det,
   usages |-> u, reports |-> reps, requirements |-> reqs, ttl |-> t]

oldDesired == old(prior.desired, Names)
oldContext == old(prior.context, CtxKeys)
oldDetails == old(prior.details, DetailKeys)
newDesired(deferred) ==
  [n \in Names |-> IF n \in RemoveResources(deferred) THEN "new" ELSE oldDesired[n]]
newContext == [k \in CtxKeys |-> IF context[k] = NotSet THEN oldContext[k] ELSE context[k]]
newDetails == [k \in DetailKeys |-> IF k \in details THEN "new" ELSE oldDetails[k]]
declared == dependencies # {}

\* The five ways in which RunFunction ends after the script.
LEMMA FinishedCases ==
  ASSUME NEW deferred, NEW ttlValid \in BOOLEAN
  PROVE  LET r == finishedResponse(deferred, ttlValid)
             t == responseTTL(deferred)
             none == noRequirements
         IN  \/ r = Fields("error", oldDesired, "old", oldContext, oldDetails, FALSE, {}, none,
                           TTL("default"))
             \/ r = Fields("error", oldDesired, "old", oldContext, oldDetails, declared, {}, none,
                           TTL("default"))
             \/ /\ dxr = "bad"
                /\ r = Fields("error", newDesired(deferred), "old", oldContext, oldDetails,
                              declared, {}, none, t)
             \/ /\ dxr # "bad"
                /\ r = Fields("error", newDesired(deferred), dxr, oldContext, oldDetails,
                              declared, {}, none, t)
             \/ /\ dxr # "bad"
                /\ \A k \in CtxKeys : context[k] # "bad"
                /\ r = Fields("normal", newDesired(deferred), dxr, newContext, newDetails,
                              declared, reports, requirements, t)
<1> DEFINE r == finishedResponse(deferred, ttlValid)
           t == responseTTL(deferred)
           withUsages == [responseTo EXCEPT !.usages = dependencies # {}]
           withTTL == [withUsages EXCEPT !.ttl = responseTTL(deferred)]
           withResources == applyResources(withTTL, deferred)
           withDXR == applyDXR(withResources)
           failed(s) == [s EXCEPT !.result = "error"]
           full == applyRequirements(applyReports(applyDetails(applyContext(withDXR))))
<1>1. responseTo = Fields("normal", oldDesired, "old", oldContext, oldDetails, FALSE, {},
                          noRequirements, TTL("default"))
  BY DEF responseTo, Fields, oldDesired, oldContext, oldDetails
<1>2. withUsages = Fields("normal", oldDesired, "old", oldContext, oldDetails, declared, {},
                          noRequirements, TTL("default"))
  BY <1>1 DEF Fields, declared
<1>3. withTTL = Fields("normal", oldDesired, "old", oldContext, oldDetails, declared, {},
                       noRequirements, t)
  <2> HIDE DEF withUsages
  <2> QED
    BY <1>2 DEF Fields, withTTL
<1>4. withResources = Fields("normal", newDesired(deferred), "old", oldContext, oldDetails,
                             declared, {}, noRequirements, t)
  <2> HIDE DEF withTTL, t
  <2> QED
    BY <1>3 DEF Fields, withResources, applyResources, newDesired
<1>5. withDXR = Fields("normal", newDesired(deferred), dxr, oldContext, oldDetails, declared, {},
                       noRequirements, t)
  <2> HIDE DEF withResources, t
  <2> QED
    BY <1>4 DEF Fields, withDXR, applyDXR
<1>6. full = Fields("normal", newDesired(deferred), dxr, newContext, newDetails, declared,
                    reports, requirements, t)
  <2> HIDE DEF withDXR, t
  <2>1. applyContext(withDXR) = Fields("normal", newDesired(deferred), dxr, newContext,
                                       oldDetails, declared, {}, noRequirements, t)
    BY <1>5 DEF Fields, applyContext, newContext
  <2>2. applyDetails(applyContext(withDXR))
          = Fields("normal", newDesired(deferred), dxr, newContext, newDetails, declared, {},
                   noRequirements, t)
    BY <2>1 DEF Fields, applyDetails, newDetails
  <2>3. applyReports(applyDetails(applyContext(withDXR)))
          = Fields("normal", newDesired(deferred), dxr, newContext, newDetails, declared, reports,
                   noRequirements, t)
    BY <2>2 DEF Fields, applyReports
  <2> QED
    BY <2>3 DEF Fields, applyRequirements, full
<1>7. ASSUME NEW d, NEW x, NEW c, NEW e, NEW u, NEW reps, NEW reqs, NEW tt
      PROVE  failed(Fields("normal", d, x, c, e, u, reps, reqs, tt))
               = Fields("error", d, x, c, e, u, reps, reqs, tt)
  BY DEF Fields
<1>8. r = IF ~validDependencies THEN failed(responseTo)
          ELSE IF dependencies # {} /\ ~ttlValid THEN failed(withUsages)
          ELSE IF dxr = "bad" THEN failed(withResources)
          ELSE IF \E k \in CtxKeys : context[k] = "bad" THEN failed(withDXR)
          ELSE full
  BY DEF finishedResponse
<1>9. /\ failed(responseTo) = Fields("error", oldDesired, "old", oldContext, oldDetails, FALSE, {},
                                     noRequirements, TTL("default"))
      /\ failed(withUsages) = Fields("error", oldDesired, "old", oldContext, oldDetails, declared,
                                     {}, noRequirements, TTL("default"))
      /\ failed(withResources) = Fields("error", newDesired(deferred), "old", oldContext,
                                        oldDetails, declared, {}, noRequirements, t)
      /\ failed(withDXR) = Fields("error", newDesired(deferred), dxr, oldContext, oldDetails,
                                  declared, {}, noRequirements, t)
  <2> HIDE DEF withUsages, withResources, withDXR, failed, t
  <2> QED
    BY <1>1, <1>2, <1>4, <1>5, <1>7
<1> HIDE DEF withUsages, withResources, withDXR, failed, full, r, t
<1>10. CASE ~validDependencies
  BY <1>8, <1>9, <1>10 DEF r, t
<1>11. CASE validDependencies /\ dependencies # {} /\ ~ttlValid
  BY <1>8, <1>9, <1>11 DEF r, t
<1>12. CASE validDependencies /\ ~(dependencies # {} /\ ~ttlValid) /\ dxr = "bad"
  BY <1>8, <1>9, <1>12 DEF r, t
<1>13. CASE /\ validDependencies /\ ~(dependencies # {} /\ ~ttlValid) /\ dxr # "bad"
            /\ \E k \in CtxKeys : context[k] = "bad"
  BY <1>8, <1>9, <1>13 DEF r, t
<1>14. CASE /\ validDependencies /\ ~(dependencies # {} /\ ~ttlValid) /\ dxr # "bad"
            /\ ~\E k \in CtxKeys : context[k] = "bad"
  BY <1>6, <1>8, <1>14 DEF r, t
<1> QED
  BY <1>10, <1>11, <1>12, <1>13, <1>14

\* What an answer may be, by its result: an error has something of both, a fatal
\* response of the script only its reports and requirements, and a normal one
\* everything.
AnswerOf(r, deferred) ==
  /\ r = Fields(r.result, r.desired, r.dxr, r.context, r.details, r.usages, r.reports,
                r.requirements, r.ttl)
  /\ r.result \in {"normal", "error", "fatal"}
  /\ r.desired \in {oldDesired, newDesired(deferred)}
  /\ r.dxr = "old" \/ (r.dxr = dxr /\ dxr # "bad")
  /\ r.context = oldContext \/ (r.context = newContext /\ \A k \in CtxKeys : context[k] # "bad")
  /\ r.details \in {oldDetails, newDetails}
  /\ r.usages \in BOOLEAN
  /\ r.ttl \in {TTL("default"), responseTTL(deferred)}
  /\ r.result = "error" => r.reports = {} /\ r.requirements = noRequirements
  /\ r.result = "fatal" => r = Fields("fatal", oldDesired, "old", oldContext, oldDetails, FALSE,
                                      reports, requirements, TTL("default"))
  /\ r.result = "normal" => r = Fields("normal", newDesired(deferred), dxr, newContext,
                                       newDetails, declared, reports, requirements,
                                       responseTTL(deferred))

\* Every answer is one of these.
LEMMA AnswerCases ==
  ASSUME NEW r,
         \/ r \in {errorResponse, fatalResponse}
         \/ \E deferred \in SUBSET Names, ttlValid \in BOOLEAN :
              deferrable(deferred) /\ r = finishedResponse(deferred, ttlValid)
  PROVE  \E deferred \in SUBSET Names : deferrable(deferred) /\ AnswerOf(r, deferred)
<1>a. declared \in BOOLEAN
  BY DEF declared
<1>1. ASSUME r = errorResponse \/ r = fatalResponse PROVE AnswerOf(r, {})
  <2>1. errorResponse = Fields("error", oldDesired, "old", oldContext, oldDetails, FALSE, {},
                               noRequirements, TTL("default"))
    BY PlainFields DEF responseTo, Fields, oldDesired, oldContext, oldDetails
  <2>2. fatalResponse = Fields("fatal", oldDesired, "old", oldContext, oldDetails, FALSE, reports,
                               requirements, TTL("default"))
    BY PlainFields DEF responseTo, Fields, oldDesired, oldContext, oldDetails
  <2>3. CASE r = errorResponse
    BY <2>1, <2>3 DEF AnswerOf, Fields
  <2>4. CASE r = fatalResponse
    BY <2>2, <2>4 DEF AnswerOf, Fields
  <2> QED
    BY <1>1, <2>3, <2>4
<1>2. deferrable({})
  BY DEF deferrable
<1>3. ASSUME NEW deferred \in SUBSET Names, NEW ttlValid \in BOOLEAN, deferrable(deferred),
             r = finishedResponse(deferred, ttlValid)
      PROVE  AnswerOf(r, deferred)
  <2> DEFINE t == responseTTL(deferred)
  <2>1. CASE r = Fields("error", oldDesired, "old", oldContext, oldDetails, FALSE, {},
                          noRequirements, TTL("default"))
    BY <2>1 DEF AnswerOf, Fields
  <2>2. CASE r = Fields("error", oldDesired, "old", oldContext, oldDetails, declared, {},
                          noRequirements, TTL("default"))
    BY <1>a, <2>2 DEF AnswerOf, Fields
  <2>3. CASE r = Fields("error", newDesired(deferred), "old", oldContext, oldDetails,
                          declared, {}, noRequirements, t)
    BY <1>a, <2>3 DEF AnswerOf, Fields
  <2>4. CASE /\ dxr # "bad"
             /\ r = Fields("error", newDesired(deferred), dxr, oldContext, oldDetails,
                             declared, {}, noRequirements, t)
    BY <1>a, <2>4 DEF AnswerOf, Fields
  <2>5. CASE /\ dxr # "bad"
             /\ \A k \in CtxKeys : context[k] # "bad"
             /\ r = Fields("normal", newDesired(deferred), dxr, newContext, newDetails,
                             declared, reports, requirements, t)
    BY <1>a, <2>5 DEF AnswerOf, Fields
  <2> QED
    BY <1>3, <2>1, <2>2, <2>3, <2>4, <2>5, FinishedCases
<1> QED
  BY <1>1, <1>2, <1>3

\* An answer is a response.
LEMMA AnswerType ==
  ASSUME OutputsTypeOK, prior \in Priors, NEW deferred \in SUBSET Names, NEW r,
         AnswerOf(r, deferred)
  PROVE  r \in Responses
<1>1. /\ oldDesired \in [Names -> {"old", "new", NotSet}]
      /\ oldContext \in [CtxKeys -> {"old", "new", NotSet}]
      /\ oldDetails \in [DetailKeys -> {"old", "new", NotSet}]
  BY DEF old, oldDesired, oldContext, oldDetails
<1>2. newDesired(deferred) \in [Names -> {"old", "new", NotSet}]
  BY <1>1 DEF newDesired
<1>3. newDetails \in [DetailKeys -> {"old", "new", NotSet}]
  BY <1>1 DEF newDetails
<1>4. ASSUME \A k \in CtxKeys : context[k] # "bad"
      PROVE  newContext \in [CtxKeys -> {"old", "new", NotSet}]
  BY <1>1, <1>4 DEF newContext, OutputsTypeOK, Origins
<1>5. /\ r.desired \in [Names -> {"old", "new", NotSet}]
      /\ r.context \in [CtxKeys -> {"old", "new", NotSet}]
      /\ r.details \in [DetailKeys -> {"old", "new", NotSet}]
      /\ r.dxr \in {"old", "new"}
  BY <1>1, <1>2, <1>3, <1>4 DEF AnswerOf, OutputsTypeOK, Origins
<1>6. r.ttl \in TTLs
  BY TTLType DEF AnswerOf
<1>7. /\ r.reports \in SUBSET Reports
      /\ r.requirements \in [ReqNames -> Selectors \cup {NotSet}]
  BY DEF AnswerOf, Fields, OutputsTypeOK, noRequirements
<1>8. r.result \in {"normal", "error", "fatal"} /\ r.usages \in BOOLEAN
  BY DEF AnswerOf
<1>9. r = Fields(r.result, r.desired, r.dxr, r.context, r.details, r.usages, r.reports,
                 r.requirements, r.ttl)
  BY DEF AnswerOf
<1> QED
  BY <1>5, <1>6, <1>7, <1>8, <1>9 DEF Fields, Responses

--------------------------------------------------------------------------------
(* The inductive invariant *)

LEMMA InvParts ==
  /\ TypeOK <=> /\ ScriptTypeOK
                /\ OutputsTypeOK
                /\ prior \in Priors
                /\ delivered \in [ReqNames -> Selectors \cup {NotSet}]
                /\ required \in [ReqNames -> Selectors \cup {NotSet}]
                /\ round \in 1 .. MaxRounds
                /\ rsp \in Responses \cup {NotSet}
  /\ IInv <=> TypeOK /\ ComposedInv /\ OutputInv /\ ResponseInv
BY DEF TypeOK, IInv, ComposedInv, OutputInv

\* Initially the collectors are empty and nothing is delivered.
LEMMA InitIInv == Init => IInv
<1> SUFFICES ASSUME Init PROVE IInv
  OBVIOUS
<1>1. ComposedInv
  BY NewScriptInv DEF Init
<1>2. \A n \in ReqNames : delivered[n] \in {required[n], NotSet}
  BY DEF Init
<1>3. OutputInv
  BY <1>2, NewOutputsInv DEF Init
<1>4. /\ delivered \in [ReqNames -> Selectors \cup {NotSet}]
      /\ required \in [ReqNames -> Selectors \cup {NotSet}]
      /\ round \in 1 .. MaxRounds
  BY RunBounds DEF Init, noRequirements
<1>5. ResponseInv
  BY DEF Init, ResponseInv, answered, running
<1>6. TypeOK
  BY <1>1, <1>3, <1>4 DEF TypeOK, ComposedInv, OutputInv, Init
<1> QED
  BY <1>1, <1>3, <1>5, <1>6, InvParts

\* Answering leaves everything but the response as it was, which is what the
\* response is made of.
LEMMA AnswerKeeps ==
  ASSUME IInv, NEW r, Answer(r),
         \/ r \in {errorResponse, fatalResponse}
         \/ \E deferred \in SUBSET Names, ttlValid \in BOOLEAN :
              deferrable(deferred) /\ r = finishedResponse(deferred, ttlValid)
  PROVE  IInv'
<1> USE DEF IInv
<1>1. /\ UNCHANGED <<resources, skipped, gatingSkips, dependencies, override, handed>>
      /\ UNCHANGED <<observed, calls, body, manifests, last, excused>>
      /\ UNCHANGED outputVars
      /\ UNCHANGED <<prior, delivered, required, round>>
      /\ rsp' = r
  BY DEF Answer, scriptVars, collectorVars
<1>2. ScriptTypeOK' /\ RefTargetsExist' /\ ManifestCurrent' /\ CollectedInv'
  BY <1>1 DEF TypeOK, ScriptTypeOK, CollectorTypeOK, RefTargetsExist, MissingTarget,
              ManifestCurrent, CollectedInv, resourceNames
<1>3. OutputsTypeOK' /\ RequirementInv' /\ TTLInv'
  BY <1>1 DEF TypeOK, OutputsTypeOK, RequirementInv, TTLInv, outputVars
<1>4. responseTo' = responseTo
  BY <1>1 DEF responseTo
<1>5. errorResponse' = errorResponse /\ fatalResponse' = fatalResponse
  BY <1>1, <1>4 DEF errorResponse, fatalResponse, applyReports, applyRequirements, outputVars
<1>6. ASSUME NEW deferred \in SUBSET Names, NEW ttlValid \in BOOLEAN
      PROVE  /\ deferrable(deferred)' <=> deferrable(deferred)
             /\ finishedResponse(deferred, ttlValid)' = finishedResponse(deferred, ttlValid)
  <2>1. deferrable(deferred)' <=> deferrable(deferred)
    BY <1>1 DEF deferrable
  <2>2. responseTTL(deferred)' = responseTTL(deferred)
    BY <1>1 DEF responseTTL, outputVars
  <2>3. validDependencies' <=> validDependencies
    BY <1>1 DEF validDependencies, resourceNames
  <2>4. RemoveResources(deferred)' = RemoveResources(deferred)
    BY <1>1 DEF RemoveResources, resourceNames
  <2>5. finishedResponse(deferred, ttlValid)' = finishedResponse(deferred, ttlValid)
    <3> DEFINE withUsages == [responseTo EXCEPT !.usages = dependencies # {}]
               withTTL == [withUsages EXCEPT !.ttl = responseTTL(deferred)]
               withResources == applyResources(withTTL, deferred)
               withDXR == applyDXR(withResources)
               withContext == applyContext(withDXR)
               withDetails == applyDetails(withContext)
               full == applyRequirements(applyReports(withDetails))
               failed(s) == [s EXCEPT !.result = "error"]
    <3>1. withUsages' = withUsages
      BY <1>1, <1>4
    <3>2. withTTL' = withTTL
      <4> HIDE DEF withUsages
      <4> QED
        BY <2>2, <3>1 DEF withTTL
    <3>3. withResources' = withResources
      <4> HIDE DEF withTTL
      <4> QED
        BY <2>4, <3>2 DEF withResources, applyResources
    <3>4. withDXR' = withDXR
      <4> HIDE DEF withResources
      <4> QED
        BY <1>1, <3>3 DEF withDXR, applyDXR, outputVars
    <3>5. withContext' = withContext
      <4> HIDE DEF withDXR
      <4> QED
        BY <1>1, <3>4 DEF withContext, applyContext, outputVars
    <3>6. withDetails' = withDetails
      <4> HIDE DEF withContext
      <4> QED
        BY <1>1, <3>5 DEF withDetails, applyDetails, outputVars
    <3>7. full' = full
      <4> HIDE DEF withDetails
      <4> QED
        BY <1>1, <3>6 DEF full, applyReports, applyRequirements, outputVars
    <3>8. finishedResponse(deferred, ttlValid)
            = IF ~validDependencies THEN failed(responseTo)
              ELSE IF dependencies # {} /\ ~ttlValid THEN failed(withUsages)
              ELSE IF dxr = "bad" THEN failed(withResources)
              ELSE IF \E k \in CtxKeys : context[k] = "bad" THEN failed(withDXR)
              ELSE full
      BY DEF finishedResponse
    <3>9. finishedResponse(deferred, ttlValid)'
            = IF ~validDependencies' THEN failed(responseTo')
              ELSE IF dependencies' # {} /\ ~ttlValid THEN failed(withUsages')
              ELSE IF dxr' = "bad" THEN failed(withResources')
              ELSE IF \E k \in CtxKeys : context'[k] = "bad" THEN failed(withDXR')
              ELSE full'
      BY DEF finishedResponse
    <3> HIDE DEF withUsages, withTTL, withResources, withDXR, withContext, withDetails, full,
                 failed
    <3>10. dependencies' = dependencies /\ dxr' = dxr /\ context' = context
      BY <1>1 DEF outputVars
    <3> QED
      BY <1>4, <2>3, <3>1, <3>3, <3>4, <3>7, <3>8, <3>9, <3>10
  <2> QED
    BY <2>1, <2>5
<1>7. ResponseInv'
  BY <1>1, <1>5, <1>6 DEF ResponseInv
<1>8. rsp' \in Responses \cup {NotSet}
  BY <1>1, AnswerCases, AnswerType DEF TypeOK
<1>9. TypeOK'
  BY <1>1, <1>2, <1>3, <1>8 DEF TypeOK
<1> QED
  BY <1>2, <1>3, <1>7, <1>9

\* While the script runs there is no response to relate to anything.
LEMMA RunningParts ==
  ASSUME IInv, running, UNCHANGED runVars, ComposedInv', OutputInv'
  PROVE  IInv'
<1>1. UNCHANGED <<prior, delivered, required, round, rsp>> /\ rsp = NotSet
  BY DEF runVars, running
<1>2. TypeOK'
  BY <1>1 DEF IInv, TypeOK, ComposedInv, OutputInv
<1>3. ResponseInv'
  BY <1>1 DEF ResponseInv, answered, running
<1> QED
  BY <1>2, <1>3 DEF IInv, ComposedInv, OutputInv

\* Every step keeps the invariant.
LEMMA NextIInv == IInv /\ [Next]_vars => IInv'
<1> SUFFICES ASSUME IInv, [Next]_vars PROVE IInv'
  OBVIOUS
<1>a. TypeOK /\ ComposedInv /\ OutputInv
  BY InvParts
<1>1. CASE Compose
  <2>1. ComposedInv'
    BY <1>1, <1>a, ResourceCallKeeps DEF Compose
  <2>2. OutputInv'
    BY <1>1, <1>a DEF Compose, OutputInv, OutputsTypeOK, RequirementInv, TTLInv, outputVars, runVars
  <2> QED
    BY <1>1, <2>1, <2>2, RunningParts DEF Compose
<1>2. CASE Output
  <2>1. UNCHANGED <<resources, skipped, gatingSkips, dependencies, override, handed>>
    BY <1>2 DEF Output, collectorVars
  <2>2. calls' \in 0 .. MaxCalls
    BY <1>2, <1>a, ScriptBounds DEF Output, ComposedInv, ScriptTypeOK
  <2>3. ComposedInv'
    BY <1>2, <1>a, <2>1, <2>2
       DEF Output, ComposedInv, ScriptTypeOK, CollectorTypeOK, RefTargetsExist, MissingTarget,
           ManifestCurrent, CollectedInv, resourceNames
  <2>4. OutputInv'
    BY <1>2, <1>a, OutputCallKeeps DEF Output, runVars
  <2> QED
    BY <1>2, <2>3, <2>4, RunningParts DEF Output
<1>3. CASE ScriptFails
  BY <1>3, AnswerKeeps DEF ScriptFails
<1>4. CASE CallsFatal
  BY <1>4, AnswerKeeps DEF CallsFatal
<1>5. ASSUME NEW deferred \in SUBSET Names, NEW ttlValid \in BOOLEAN, Finish(deferred, ttlValid)
      PROVE  IInv'
  BY <1>5, AnswerKeeps DEF Finish
<1>6. ASSUME NEW matching \in SUBSET Selectors, CallAgain(matching) PROVE IInv'
  <2>1. rsp \in Responses /\ rsp.requirements \in [ReqNames -> Selectors \cup {NotSet}]
    BY <1>6, <1>a DEF CallAgain, running, TypeOK, Responses
  <2>2. /\ required' = rsp.requirements
        /\ delivered' = [n \in ReqNames |->
                           IF rsp.requirements[n] \in matching THEN rsp.requirements[n] ELSE NotSet]
    BY <1>6 DEF CallAgain, extraResources
  <2>3. /\ delivered' \in [ReqNames -> Selectors \cup {NotSet}]
        /\ required' \in [ReqNames -> Selectors \cup {NotSet}]
        /\ \A n \in ReqNames : delivered'[n] \in {required'[n], NotSet}
    BY <2>1, <2>2
  <2>4. ComposedInv'
    BY <1>6, <1>a, ResetScriptInv DEF CallAgain
  <2>5. OutputInv'
    BY <1>6, <2>3, ResetOutputsInv DEF CallAgain
  <2>6. round' \in 1 .. MaxRounds
    BY <1>6, <1>a, RunBounds DEF CallAgain, TypeOK
  <2>7. rsp' = NotSet /\ prior' = prior
    BY <1>6 DEF CallAgain
  <2>8. TypeOK'
    BY <1>a, <2>3, <2>4, <2>5, <2>6, <2>7 DEF TypeOK, ComposedInv, OutputInv
  <2>9. ResponseInv'
    BY <2>7 DEF ResponseInv, answered, running
  <2> QED
    BY <2>4, <2>5, <2>8, <2>9 DEF IInv, ComposedInv, OutputInv
<1>7. CASE UNCHANGED vars
  <2>1. CASE answered
    <3>1. Answer(rsp)
      BY <1>7 DEF vars, Answer
    <3> QED
      BY <2>1, <3>1, AnswerKeeps DEF IInv, ResponseInv
  <2>2. CASE running
    <3>1. /\ UNCHANGED <<resources, skipped, gatingSkips, dependencies, override, handed>>
          /\ UNCHANGED <<observed, calls, body, manifests, last, excused>>
          /\ UNCHANGED <<outputVars, runVars>>
      BY <1>7 DEF vars, scriptVars, collectorVars, runVars
    <3>2. ComposedInv'
      BY <1>a, <3>1
         DEF ComposedInv, ScriptTypeOK, CollectorTypeOK, RefTargetsExist, MissingTarget,
             ManifestCurrent, CollectedInv, resourceNames
    <3>3. OutputInv'
      BY <1>a, <3>1 DEF OutputInv, OutputsTypeOK, RequirementInv, TTLInv, outputVars, runVars
    <3> QED
      BY <2>2, <3>1, <3>2, <3>3, RunningParts
  <2> QED
    BY <2>1, <2>2 DEF answered
<1> QED
  BY <1>1, <1>2, <1>3, <1>4, <1>5, <1>6, <1>7 DEF Next

\* The collectors of every script and every response agree, in any run and any
\* round of calls.
THEOREM Inductive == Spec => []IInv
BY InitIInv, NextIInv, PTL DEF Spec

--------------------------------------------------------------------------------
(* The properties *)

\* A ref in depends_on always leads to a resource of the collector.
THEOREM RefsLead == Spec => []RefTargetsExist
<1>1. IInv => RefTargetsExist
  BY DEF IInv
<1> QED
  BY Inductive, <1>1, PTL

\* get_manifest never answers with a body that has been replaced.
THEOREM ManifestsCurrent == Spec => []ManifestCurrent
<1>1. IInv => ManifestCurrent
  BY DEF IInv
<1> QED
  BY Inductive, <1>1, PTL

\* What the script called for and is missing gates the composite's readiness,
\* unless it was skipped as optional: a name called is a resource or was skipped,
\* and the first skip of a name decides.
THEOREM MissingAlwaysGates == Spec => []MissingGates
<1>1. IInv => MissingGates
  BY DEF IInv, CollectedInv, MissingGates
<1> QED
  BY Inductive, <1>1, PTL

\* What earlier functions desire stays in the response, whichever way the run
\* ends, but for resources the script asked to remove.
THEOREM PriorAlwaysKept == Spec => []PriorKept
<1>1. IInv => PriorKept
  <2> SUFFICES ASSUME IInv, answered
               PROVE  /\ \A n \in prior.desired : rsp.desired[n] # NotSet
                      /\ \A k \in prior.context : rsp.context[k] # NotSet
                      /\ \A k \in prior.details : rsp.details[k] # NotSet
    BY DEF PriorKept
  <2>1. PICK deferred \in SUBSET Names : AnswerOf(rsp, deferred)
    BY AnswerCases DEF IInv, ResponseInv
  <2>2. /\ prior.desired \subseteq Names
        /\ prior.context \subseteq CtxKeys
        /\ prior.details \subseteq DetailKeys
    BY PriorsOK DEF IInv, TypeOK
  <2>3. /\ \A n \in prior.desired : oldDesired[n] = "old"
        /\ \A k \in prior.context : oldContext[k] = "old"
        /\ \A k \in prior.details : oldDetails[k] = "old"
    BY <2>2 DEF oldDesired, oldContext, oldDetails, old
  <2>4. \A n \in prior.desired : newDesired(deferred)[n] \in {"old", "new"}
    BY <2>2, <2>3 DEF newDesired
  <2>5. \A k \in prior.details : newDetails[k] \in {"old", "new"}
    BY <2>2, <2>3 DEF newDetails
  <2>6. \A k \in prior.context : newContext[k] # NotSet
    BY <2>2, <2>3, OutputNames DEF newContext
  <2> QED
    BY <2>1, <2>3, <2>4, <2>5, <2>6, OutputNames DEF AnswerOf
<1> QED
  BY Inductive, <1>1, PTL

\* A response without a failure has everything the script collected, and one of
\* fatal() its reports and requirements and nothing else.
THEOREM NothingEverLost == Spec => []NothingLost
<1>1. IInv => NothingLost
  <2> SUFFICES ASSUME IInv, answered PROVE NothingLost
    BY DEF NothingLost
  <2>1. PICK deferred \in SUBSET Names : deferrable(deferred) /\ AnswerOf(rsp, deferred)
    BY AnswerCases DEF IInv, ResponseInv
  <2>2. ASSUME rsp.result # "error"
        PROVE  /\ rsp.reports = reports
               /\ rsp.requirements = requirements
    BY <2>1, <2>2 DEF AnswerOf, Fields
  <2>3. \A h \in handles : requirements[h.name] # NotSet
    BY DEF IInv, RequirementInv
  <2>4. ASSUME rsp.result = "normal"
        PROVE  /\ \A n \in resourceNames :
                    \/ rsp.desired[n] = "new"
                    \/ n \notin observed /\ \E d \in dependencies : d.dependent = n
               /\ \A k \in CtxKeys : context[k] # NotSet => rsp.context[k] = context[k]
               /\ \A k \in details : rsp.details[k] = "new"
               /\ rsp.dxr = dxr
               /\ dependencies # {} => rsp.usages
    <3>1. /\ rsp.desired = newDesired(deferred)
          /\ rsp.context = newContext
          /\ rsp.details = newDetails
          /\ rsp.dxr = dxr
          /\ rsp.usages = declared
      BY <2>1, <2>4 DEF AnswerOf, Fields
    <3>2. ASSUME NEW n \in resourceNames
          PROVE  \/ newDesired(deferred)[n] = "new"
                 \/ n \notin observed /\ \E d \in dependencies : d.dependent = n
      BY <2>1 DEF newDesired, RemoveResources, resourceNames, deferrable
    <3>3. \A k \in CtxKeys : context[k] # NotSet => newContext[k] = context[k]
      BY DEF newContext
    <3>4. \A k \in details : newDetails[k] = "new"
      BY DEF newDetails, IInv, TypeOK, OutputsTypeOK
    <3> QED
      BY <3>1, <3>2, <3>3, <3>4 DEF declared
  <2>5. ASSUME rsp.result = "fatal"
        PROVE  rsp = [responseTo EXCEPT !.result = "fatal", !.reports = rsp.reports,
                                        !.requirements = rsp.requirements]
    <3>1. rsp = Fields("fatal", oldDesired, "old", oldContext, oldDetails, FALSE,
                       reports, requirements, TTL("default"))
      BY <2>1, <2>5 DEF AnswerOf
    <3>2. rsp.reports = reports /\ rsp.requirements = requirements
      BY <3>1 DEF Fields
    <3>3. rsp = fatalResponse
      BY <3>1, PlainFields DEF responseTo, Fields, oldDesired, oldContext, oldDetails
    <3> QED
      BY <3>2, <3>3, PlainFields
  <2> QED
    BY <2>2, <2>3, <2>4, <2>5 DEF NothingLost
<1> QED
  BY Inductive, <1>1, PTL

\* Once the requirements have settled, a handle reads what its call asked for: the
\* selector under its name is that of a handle of the name, of which there are
\* none with another selector.
THEOREM HandlesExact == Spec => []HandleExact
<1>1. IInv => HandleExact
  <2> DEFINE key(h) == IF h.derived THEN h.asked.object ELSE h.name
  <2> SUFFICES ASSUME IInv, answered, rsp.requirements = required, NEW h \in handles,
                      \A g \in handles : key(g) = key(h) => g.asked = h.asked
               PROVE  delivered[h.name] \in {h.asked, NotSet}
    BY DEF HandleExact, getExtraResource
  <2>1. PICK deferred \in SUBSET Names : AnswerOf(rsp, deferred)
    BY AnswerCases DEF IInv, ResponseInv
  <2>2. \A g \in handles : key(g) = g.name
    BY DEF IInv, RequirementInv
  <2>3. h.name \in ReqNames
    BY DEF IInv, TypeOK, OutputsTypeOK
  <2>4. delivered[h.name] \in {required[h.name], NotSet}
    BY <2>3 DEF IInv, RequirementInv
  <2>5. CASE rsp.requirements = noRequirements
    BY <2>3, <2>4, <2>5 DEF noRequirements
  <2>6. CASE rsp.requirements = requirements
    <3>1. PICK g \in handles : g.name = h.name /\ g.asked = requirements[h.name]
      BY <2>3 DEF IInv, RequirementInv
    <3>2. g.asked = h.asked
      BY <2>2, <3>1
    <3> QED
      BY <2>4, <2>6, <3>1, <3>2
  <2> QED
    BY <2>1, <2>5, <2>6 DEF AnswerOf, Fields
<1> QED
  BY Inductive, <1>1, PTL

\* A TTL that was accepted and is not negative is the one of the response,
\* whatever the width of integers.
THEOREM TTLsHonoured == Spec => []TTLHonoured
<1>1. IInv => TTLHonoured
  <2> SUFFICES ASSUME IInv, answered, rsp.result = "normal", asked # NotSet, asked >= 0
               PROVE  rsp.ttl = IF asked = 0 THEN TTL("none")
                                ELSE [by |-> "script", duration |-> asked * TimeSecond]
    BY DEF TTLHonoured
  <2>1. PICK deferred \in SUBSET Names : AnswerOf(rsp, deferred)
    BY AnswerCases DEF IInv, ResponseInv
  <2>2. rsp.ttl = responseTTL(deferred)
    BY <2>1 DEF AnswerOf, Fields
  <2>3. asked \in Seconds /\ ttl = durationOf(asked) /\ ttl # NotSet
    BY DEF IInv, TypeOK, OutputsTypeOK, TTLInv
  <2>4. ttl = asked * TimeSecond
    BY <2>3, DurationExact
  <2>5. asked \in Nat /\ TimeSecond \in Nat \ {0}
    BY <2>3, DurationsOK
  <2>6. ttl = 0 <=> asked = 0
    BY <2>4, <2>5
  <2>7. CASE asked = 0
    <3>1. responseTTL(deferred) = TTL("none")
      BY <2>6, <2>7 DEF responseTTL
    <3> QED
      BY <2>2, <2>7, <3>1
  <2>8. CASE asked # 0
    <3>1. responseTTL(deferred) = [by |-> "script", duration |-> ttl]
      BY <2>3, <2>6, <2>8 DEF responseTTL
    <3> QED
      BY <2>2, <2>4, <2>8, <3>1
  <2> QED
    BY <2>7, <2>8
<1> QED
  BY Inductive, <1>1, PTL
================================================================================
