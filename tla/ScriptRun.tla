------------------------------- MODULE ScriptRun -------------------------------
(***************************************************************************)
(* RunFunction from the request to the response, around an arbitrary       *)
(* script: the script calls builtins in any order, and ends, fails or      *)
(* calls fatal(); the response is assembled from the collectors; and the   *)
(* function is called again with the resources it required.                *)
(*                                                                         *)
(* Reconcile has the cluster's side of this, and which resources are       *)
(* deferred: here any resource that is not observed and has a dependency   *)
(* may be.                                                                 *)
(***************************************************************************)
EXTENDS Script, Outputs

CONSTANTS MaxRounds,  \* bound on the calls of the function
          Priors      \* what earlier functions of the pipeline may desire

ASSUME RunBounds == MaxRounds \in Nat \ {0}
ASSUME PriorsOK == Priors \subseteq [desired : SUBSET Names, context : SUBSET CtxKeys,
                                     details : SUBSET DetailKeys]

VARIABLES prior,      \* what earlier functions of the pipeline desire
          delivered,  \* delivered[n]: whose resources came as n, or NotSet
          required,   \* the requirements those resources answer
          round, rsp  \* the call of the function, and its response (or NotSet)

vars == <<scriptVars, outputVars, prior, delivered, required, round, rsp>>

TTLs == [by : {"default", "sequencing", "none", "script"}, duration : 0 .. maxDuration]

\* The response: composed resources, context and details that are the earlier
\* functions' ("old") or the script's ("new"), and the rest.
Responses ==
  [result : {"normal", "error", "fatal"},
   desired : [Names -> {"old", "new", NotSet}],
   dxr : {"old", "new"},
   context : [CtxKeys -> {"old", "new", NotSet}],
   details : [DetailKeys -> {"old", "new", NotSet}],
   usages : BOOLEAN,
   reports : SUBSET Reports,
   requirements : [ReqNames -> Selectors \cup {NotSet}],
   ttl : TTLs]

TypeOK ==
  /\ ScriptTypeOK
  /\ OutputsTypeOK
  /\ prior \in Priors
  /\ delivered \in [ReqNames -> Selectors \cup {NotSet}]
  /\ required \in [ReqNames -> Selectors \cup {NotSet}]
  /\ round \in 1 .. MaxRounds
  /\ rsp \in Responses \cup {NotSet}

Init ==
  /\ observed \in SUBSET Names
  /\ prior \in Priors
  /\ NewScript
  /\ NewOutputs(prior.context)
  /\ delivered = noRequirements
  /\ required = noRequirements
  /\ round = 1
  /\ rsp = NotSet

--------------------------------------------------------------------------------
(* The script *)

running == rsp = NotSet
runVars == <<prior, delivered, required, round, rsp>>

\* The script calls a builtin of the collector.
Compose ==
  /\ running
  /\ ResourceCall
  /\ UNCHANGED <<outputVars, runVars>>

\* It calls another builtin.
OutputCall ==
  \/ \E v \in {"new", "bad"} : SetDXR(v)
  \/ \E k \in CtxKeys, v \in {"new", "bad", NotSet} : SetContext(k, v)
  \/ \E keys \in SUBSET DetailKeys : setConnectionDetailsFn(keys)
  \/ \E r \in Reports : Report(r)
  \/ \E n \in ReqNames \cup {NotSet}, sel \in Selectors : requireResourceFn(n, sel)
  \/ \E secs \in Seconds : setResponseTTLFn(secs)

Output ==
  /\ running
  /\ calls < MaxCalls
  /\ calls' = calls + 1
  /\ OutputCall
  /\ UNCHANGED <<collectorVars, observed, body, manifests, last, excused, runVars>>

--------------------------------------------------------------------------------
(* The response *)

TTL(by) == [by |-> by, duration |-> 0]
old(keys, S) == [k \in S |-> IF k \in keys THEN "old" ELSE NotSet]

\* response.To: the response starts from what earlier functions desire.
responseTo ==
  [result |-> "normal", dxr |-> "old", usages |-> FALSE, reports |-> {},
   desired |-> old(prior.desired, Names),
   context |-> old(prior.context, CtxKeys),
   details |-> old(prior.details, DetailKeys),
   requirements |-> noRequirements, ttl |-> TTL("default")]

Answer(r) == rsp' = r /\ UNCHANGED <<scriptVars, outputVars, prior, delivered, required, round>>

\* The script, or what comes before it, fails: nothing is applied.
errorResponse == [responseTo EXCEPT !.result = "error"]
ScriptFails == running /\ Answer(errorResponse)

\* ApplyConditions and ApplyEvents; ApplyRequirements.
applyReports(r) == [r EXCEPT !.reports = reports]
applyRequirements(r) == [r EXCEPT !.requirements = requirements]

\* Mutant of fatalResponse: a plain error.
fatalResponsePlain == [responseTo EXCEPT !.result = "fatal"]

\* The script calls fatal(): what it reported and required before is applied.
fatalResponse == applyRequirements(applyReports([responseTo EXCEPT !.result = "fatal"]))
CallsFatal == running /\ Answer(fatalResponse)

\* The TTL of the response: what the script set, or what sequencing asks for.
responseTTL(deferred) ==
  IF ttl = 0 THEN TTL("none")
  ELSE IF ttl # NotSet THEN [by |-> "script", duration |-> ttl]
  ELSE IF dependencies = {} THEN TTL("default")
  ELSE IF deferred # {} THEN TTL("sequencing")
  ELSE TTL("none")

\* ApplyResources, without the deferred ones; ApplyDXR and ApplyContext, which
\* fail on values without a protobuf form; ApplyConnectionDetails.
applyResources(r, deferred) ==
  [r EXCEPT !.desired = [n \in Names |-> IF n \in RemoveResources(deferred) THEN "new" ELSE @[n]]]
applyDXR(r) == [r EXCEPT !.dxr = dxr]

\* Mutant of applyContext: the context is replaced.
applyContextAlone(r) == [r EXCEPT !.context = context]

applyContext(r) ==
  [r EXCEPT !.context = [k \in CtxKeys |-> IF context[k] = NotSet THEN @[k] ELSE context[k]]]
applyDetails(r) ==
  [r EXCEPT !.details = [k \in DetailKeys |-> IF k \in details THEN "new" ELSE @[k]]]

\* Dependencies that are declared are validated.
validDependencies == dependencies = {} \/ ValidateDependencies(dependencies, resourceNames)

\* RunFunction after the script, up to the step that fails, if one does;
\* ttlValid tells whether spec.sequencingTTL can be parsed.
finishedResponse(deferred, ttlValid) ==
  LET withUsages == [responseTo EXCEPT !.usages = dependencies # {}]
      withTTL == [withUsages EXCEPT !.ttl = responseTTL(deferred)]
      withResources == applyResources(withTTL, deferred)
      withDXR == applyDXR(withResources)
      failed(r) == [r EXCEPT !.result = "error"]
  IN  IF ~validDependencies THEN failed(responseTo)
      ELSE IF dependencies # {} /\ ~ttlValid THEN failed(withUsages)
      ELSE IF dxr = "bad" THEN failed(withResources)
      ELSE IF \E k \in CtxKeys : context[k] = "bad" THEN failed(withDXR)
      ELSE applyRequirements(applyReports(applyDetails(applyContext(withDXR))))

\* The sequencer defers dependents that do not exist yet.
deferrable(deferred) == deferred \subseteq {d.dependent : d \in dependencies} \ observed

Finish(deferred, ttlValid) ==
  /\ running
  /\ deferrable(deferred)
  /\ Answer(finishedResponse(deferred, ttlValid))

--------------------------------------------------------------------------------
(* Crossplane *)

\* buildExtraResourcesDict: a selector that matches nothing reads as one that was
\* not required.
extraResources(reqs, matching) ==
  [n \in ReqNames |-> IF reqs[n] \in matching THEN reqs[n] ELSE NotSet]

\* get_extra_resource and get_extra_resources: a handle stands for its name.
getExtraResource(h) == delivered[h.name]

\* The function is called again, with the resources its response required.
CallAgain(matching) ==
  /\ ~running
  /\ round < MaxRounds
  /\ round' = round + 1
  /\ required' = rsp.requirements
  /\ delivered' = extraResources(rsp.requirements, matching)
  /\ rsp' = NotSet
  /\ ResetScript
  /\ ResetOutputs(prior.context)
  /\ UNCHANGED <<observed, prior>>

Next ==
  \/ Compose
  \/ Output
  \/ ScriptFails
  \/ CallsFatal
  \/ \E deferred \in SUBSET Names, ttlValid \in BOOLEAN : Finish(deferred, ttlValid)
  \/ \E matching \in SUBSET Selectors : CallAgain(matching)

Spec == Init /\ [][Next]_vars

--------------------------------------------------------------------------------
(* Properties *)

answered == ~running

\* Whichever way a run ends, even with a context key deleted by the script, what
\* earlier functions of the pipeline desire stays in the response: their
\* resources, context keys and connection details.  A resource the script asked
\* skip_resource to remove may go, unless the run fails (it is documented to go, and
\* does not).
PriorKept ==
  answered => /\ \A n \in prior.desired : \/ rsp.desired[n] # NotSet
                                          \/ last[n] = "removed" /\ rsp.result = "normal"
              /\ \A k \in prior.context : rsp.context[k] # NotSet
              /\ \A k \in prior.details : rsp.details[k] # NotSet

\* All or a failure: a response that reports no failure has everything the script
\* collected, and fatal() loses neither its diagnostics nor its requirements
\* while it applies nothing else.
NothingLost ==
  answered =>
    /\ rsp.result # "error" => /\ rsp.reports = reports
                               /\ \A h \in handles : rsp.requirements[h.name] # NotSet
    /\ rsp.result = "normal" =>
         /\ \A n \in resourceNames : \/ rsp.desired[n] = "new"
                                     \/ n \notin observed /\ \E d \in dependencies : d.dependent = n
         /\ \A k \in CtxKeys : context[k] # NotSet => rsp.context[k] = context[k]
         /\ \A k \in details : rsp.details[k] = "new"
         /\ rsp.dxr = dxr
         /\ dependencies # {} => rsp.usages
    /\ rsp.result = "fatal" => rsp = [responseTo EXCEPT !.result = "fatal", !.reports = rsp.reports,
                                                        !.requirements = rsp.requirements]

\* What the script reads through a handle is what the call that returned it asked
\* for, once the requirements have settled, unless the script uses the same name,
\* or the same selector with another API version, for something else.
HandleExact ==
  answered /\ rsp.requirements = required =>
    \A h \in handles :
      (\A g \in handles : (IF g.derived THEN g.asked.object ELSE g.name) =
                          (IF h.derived THEN h.asked.object ELSE h.name) => g.asked = h.asked)
        => getExtraResource(h) \in {h.asked, NotSet}

\* A response TTL of a non-negative number of seconds that was accepted is the one
\* asked for, and none for zero.  (Negative seconds are left out: some that are
\* beyond the range of durations wrap around and are accepted.)
TTLHonoured ==
  answered /\ rsp.result = "normal" /\ asked # NotSet /\ asked >= 0 =>
    rsp.ttl = IF asked = 0 THEN TTL("none")
              ELSE [by |-> "script", duration |-> asked * TimeSecond]

--------------------------------------------------------------------------------
(* The inductive invariant *)

\* The script holds refs to resources only; a name it called is a resource or was
\* skipped, and what was skipped gates or is excused.
CollectedInv ==
  /\ \A n \in Names : ResourceRef(n) \in handed => n \in resourceNames
  /\ \A n \in Names : last[n] # "none" => n \in resourceNames \cup skipped
  /\ skipped \subseteq gatingSkips \cup excused

\* Every handle has a requirement, every requirement the handle of the call that
\* made it, and what was delivered answers what was required.
RequirementInv ==
  /\ \A h \in handles : /\ requirements[h.name] # NotSet
                        /\ h.derived => h.name = h.asked.object
  /\ \A n \in ReqNames : requirements[n] # NotSet =>
       \E h \in handles : h.name = n /\ h.asked = requirements[n]
  /\ \A n \in ReqNames : delivered[n] \in {required[n], NotSet}

\* The TTL is that of the seconds last accepted.
TTLInv == /\ asked = NotSet <=> ttl = NotSet
          /\ asked # NotSet => ttl = durationOf(asked)

\* A response is what the script's collectors make of it.
ResponseInv ==
  answered => \/ rsp \in {errorResponse, fatalResponse}
              \/ \E deferred \in SUBSET Names, ttlValid \in BOOLEAN :
                   deferrable(deferred) /\ rsp = finishedResponse(deferred, ttlValid)

IInv ==
  /\ TypeOK
  /\ RefTargetsExist
  /\ ManifestCurrent
  /\ CollectedInv
  /\ RequirementInv
  /\ TTLInv
  /\ ResponseInv
================================================================================
