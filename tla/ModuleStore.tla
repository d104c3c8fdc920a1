------------------------------ MODULE ModuleStore ------------------------------
(***************************************************************************)
(* What the OCI module resolver promises to a reconciliation, without its  *)
(* cache: a registry publishes artifacts under references, a request asks  *)
(* for one reference, and the reply is the artifact the reference named at *)
(* some moment of the request ("current"), one it named earlier            *)
(* ("cached"), or an error.  OCICache implements this specification.       *)
(***************************************************************************)
CONSTANTS Procs,    \* concurrent requests
          Refs,     \* OCI references
          Digests,  \* artifacts, named by their manifest digest
          None

VARIABLES registry,   \* registry[r]: the digest r names now
          published,  \* published[r]: every digest r has named
          asked,      \* asked[p]: the reference p is resolving, or None
          window,     \* window[p]: the digests asked[p] named since p asked
          reply       \* reply[p]: p's last reply

storeVars == <<registry, published, asked, window, reply>>

Replies == [kind : {"current", "cached"}, files : Digests]
             \cup [kind : {"none", "error"}, files : {None}]

StoreInit ==
  /\ registry \in [Refs -> Digests]
  /\ published = [r \in Refs |-> {registry[r]}]
  /\ asked = [p \in Procs |-> None]
  /\ window = [p \in Procs |-> {}]
  /\ reply = [p \in Procs |-> [kind |-> "none", files |-> None]]

Publish(r, d) ==
  /\ registry' = [registry EXCEPT ![r] = d]
  /\ published' = [published EXCEPT ![r] = @ \cup {d}]
  /\ window' = [p \in Procs |-> IF asked[p] = r THEN window[p] \cup {d}
                                                ELSE window[p]]
  /\ UNCHANGED <<asked, reply>>

Ask(p, r) ==
  /\ asked[p] = None
  /\ asked' = [asked EXCEPT ![p] = r]
  /\ window' = [window EXCEPT ![p] = {registry[r]}]
  /\ reply' = [reply EXCEPT ![p] = [kind |-> "none", files |-> None]]
  /\ UNCHANGED <<registry, published>>

Reply(p, a) ==
  /\ asked[p] # None
  /\ a.kind = "current" => a.files \in window[p]
  /\ a.kind = "cached" => a.files \in published[asked[p]]
  /\ asked' = [asked EXCEPT ![p] = None]
  /\ window' = [window EXCEPT ![p] = {}]
  /\ reply' = [reply EXCEPT ![p] = a]
  /\ UNCHANGED <<registry, published>>

\* The process serving the requests stops: nobody gets a reply.
Abandon ==
  /\ asked' = [p \in Procs |-> None]
  /\ window' = [p \in Procs |-> {}]
  /\ reply' = [p \in Procs |-> [kind |-> "none", files |-> None]]
  /\ UNCHANGED <<registry, published>>

StoreNext ==
  \/ \E r \in Refs, d \in Digests : Publish(r, d)
  \/ \E p \in Procs, r \in Refs : Ask(p, r)
  \/ \E p \in Procs : \E a \in Replies \ {[kind |-> "none", files |-> None]} : Reply(p, a)
  \/ Abandon

StoreSpec == StoreInit /\ [][StoreNext]_storeVars
================================================================================
