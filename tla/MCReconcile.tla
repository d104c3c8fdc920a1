------------------------------ MODULE MCReconcile ------------------------------
(* Scripts, bodies and namespaces for model checking Reconcile. *)
EXTENDS Reconcile, TLC

CONSTANTS a, b, c, d

NoConds == [t \in ConditionTypes |-> Absent]
Up == [NoConds EXCEPT !["Ready"] = "True", !["Synced"] = "True"]
Unsynced == [NoConds EXCEPT !["Ready"] = "True", !["Synced"] = "False"]

\* Bodies: just created, ready without its field, ready; a wrapped Deployment
\* whose Object is ready before the Deployment is.
MCFresh == [object |-> FALSE, conds |-> Unsynced, nested |-> NoConds, field |-> "missing"]
MCNoField == [MCFresh EXCEPT !.conds = Up, !.field = "empty"]
MCHealthy == [MCFresh EXCEPT !.conds = Up, !.field = "string"]
MCWrapped == [object |-> TRUE, conds |-> Up,
              nested |-> [NoConds EXCEPT !["Available"] = "False"], field |-> "list"]
NoFieldOnly == {MCNoField}
WrappedToo == {MCNoField, MCWrapped}
FreshOnly == {MCFresh}

Item(n, ref, field) == [name |-> n, ref |-> ref, field |-> field]
When(keep, opt) == [keepIfExists |-> keep, optional |-> opt]
NoDeps == [n \in Names |-> {}]
NoWhens == [n \in Names |-> None]
NoCalls == {NoOverride}
AllCalls == Overrides \cup {NoOverride}

\* A chain: b waits for a by name, c for b's field by ref.  d
\* depends on itself: a circle whenever its gate is open.
ChainOrder == <<a, b, c, d>>
ChainDeps == [NoDeps EXCEPT ![b] = {Item(a, FALSE, FALSE)}, ![c] = {Item(b, TRUE, TRUE)},
                            ![d] = {Item(d, FALSE, FALSE)}]
ChainWhens == [NoWhens EXCEPT ![d] = When(FALSE, TRUE)]
ChainNS == a :> "-" @@ b :> "ns1" @@ c :> "ns2" @@ d :> "-"

\* a is gated, b is optional and kept once it exists, and depends on a by ref,
\* plainly and by a field.
SkipOrder == <<a, b>>
SkipDeps == [NoDeps EXCEPT ![b] = {Item(a, TRUE, FALSE), Item(a, TRUE, TRUE)}]
SkipWhens == [NoWhens EXCEPT ![a] = When(FALSE, FALSE), ![b] = When(TRUE, TRUE)]
SkipNS == [n \in Names |-> "-"] @@ b :> "ns1"

\* Only b is gated, with keep_if_exists.
KeepWhens == [NoWhens EXCEPT ![b] = When(TRUE, FALSE)]
================================================================================
