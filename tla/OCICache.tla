-------------------------------- MODULE OCICache --------------------------------
(***************************************************************************)
(* The OCI module cache (runtime/oci/cache.go) and the resolution of one   *)
(* reference through it (Resolver.resolveRef, runtime/oci/resolver.go), by *)
(* any number of concurrent RunFunction requests that share the cache.     *)
(*                                                                         *)
(* Every cache method is atomic under the cache's mutex and is one step;   *)
(* every registry call is one step, at the moment the registry answers.    *)
(* The files of an artifact are named by the digest they were extracted    *)
(* from.  An entry's expiry time is kept as the ticks it has left, -1 once *)
(* it lies in the past, so that time needs no bound.                       *)
(***************************************************************************)
EXTENDS Integers

CONSTANTS Procs,       \* concurrent requests
          Refs,        \* OCI references (registry/repo:tag or @digest)
          Digests,     \* artifacts in the registry
          Pinned,      \* Pinned[r]: the digest in r, or None for a tag
          Bad,         \* artifacts extractStarFiles rejects
          Policy,      \* pull policy given to NewCache
          TTL,         \* cache TTL in ticks
          MaxLatency,  \* longest time one resolution takes, in ticks
          MaxMoves,    \* bound: how often tags are moved in the registry
          None

ASSUME ConstantsOK ==
  /\ None \notin Digests
  /\ None \notin Refs
  /\ Pinned \in [Refs -> Digests \cup {None}]
  /\ TTL \in Nat
  /\ MaxLatency \in Nat
  /\ MaxMoves \in Nat

VARIABLES
  registry,  \* registry[r]: the digest r names now (external)
  moves,     \* number of tag moves so far
  published, \* published[r]: every digest r has named (history)
  gone,      \* gone[r][d]: ticks since r stopped naming d, at most Horizon (history)
  tags,      \* Cache.tags
  contents,  \* Cache.contents
  pc, ref,   \* where each request is in resolveRef, and its refStr
  held,      \* resolveRef's files: the stale content, or None
  digest,    \* digestStr
  got,       \* the image fetched, then the files to return
  age,       \* ticks since the request began
  window,    \* digests ref[p] named since the request began (history)
  reply      \* the request's last result and how it was obtained

cacheVars == <<tags, contents>>
regVars == <<registry, moves, published, gone>>
vars == <<registry, moves, published, gone, tags, contents,
          pc, ref, held, digest, got, age, window, reply>>

Horizon == TTL + MaxLatency + 1
Entry == [digest : Digests, left : (-1) .. TTL]
Steps == {"idle", "getTag", "getDigest", "head", "getHead", "putHead",
          "fetch", "extract", "putContent", "putTag"}
Vias == {"none", "fresh", "pinned", "head", "fetch", "stale", "error"}
Results == [via : Vias, files : Digests \cup {None}]

TypeOK ==
  /\ registry \in [Refs -> Digests]
  /\ moves \in 0 .. MaxMoves
  /\ published \in [Refs -> SUBSET Digests]
  /\ gone \in [Refs -> [Digests -> 0 .. Horizon]]
  /\ tags \in [Refs -> Entry \cup {None}]
  /\ contents \in [Digests -> Digests \cup {None}]
  /\ pc \in [Procs -> Steps]
  /\ ref \in [Procs -> Refs \cup {None}]
  /\ held \in [Procs -> Digests \cup {None}]
  /\ digest \in [Procs -> Digests \cup {None}]
  /\ got \in [Procs -> Digests \cup {None}]
  /\ age \in [Procs -> 0 .. MaxLatency]
  /\ window \in [Procs -> SUBSET Digests]
  /\ reply \in [Procs -> Results]

Result(via, f) == [via |-> via, files |-> f]
NoReply == Result("none", None)

Init ==
  /\ registry \in {f \in [Refs -> Digests] :
                     \A r \in Refs : Pinned[r] # None => f[r] = Pinned[r]}
  /\ moves = 0
  /\ published = [r \in Refs |-> {registry[r]}]
  /\ gone = [r \in Refs |-> [d \in Digests |->
                               IF d = registry[r] THEN 0 ELSE Horizon]]
  /\ tags = [r \in Refs |-> None]
  /\ contents = [d \in Digests |-> None]
  /\ pc = [p \in Procs |-> "idle"]
  /\ ref = [p \in Procs |-> None]
  /\ held = [p \in Procs |-> None]
  /\ digest = [p \in Procs |-> None]
  /\ got = [p \in Procs |-> None]
  /\ age = [p \in Procs |-> 0]
  /\ window = [p \in Procs |-> {}]
  /\ reply = [p \in Procs |-> NoReply]

--------------------------------------------------------------------------------
(* Cache methods *)

\* NewCache: an unrecognised policy is treated as PullIfNotPresent.
IfNotPresent == Policy # "Always"

\* Mutants of IsFresh: expiry is never looked at; the pull policy is ignored.
IsFreshForever(e) == TRUE
IsFreshAnyPolicy(e) == e.left > 0

\* Whether GetByTag reports an entry as fresh.
IsFresh(e) == IfNotPresent \/ ~(TTL > 0 /\ e.left < 0)

\* GetByTag: a cold miss, or a tag whose content is missing, yields no files.
TagHit(r) == tags[r] # None /\ contents[tags[r].digest] # None

\* The entry PutTag stores: it expires TTL after the put.
NewEntry(d) == [digest |-> d, left |-> TTL]

\* Mutant of PutTagIn: entries keyed by the repository, without tag or digest.
PutTagPerRepo(r, d) == tags' = [x \in Refs |-> NewEntry(d)]

PutTagIn(r, d) == tags' = [tags EXCEPT ![r] = NewEntry(d)]

\* PutContent never overwrites.
PutContentIn(d, f) ==
  contents' = IF contents[d] = None THEN [contents EXCEPT ![d] = f] ELSE contents

--------------------------------------------------------------------------------
(* resolveRef *)

\* The request returns: its locals go out of scope.
Return(p, via, f) ==
  /\ reply' = [reply EXCEPT ![p] = Result(via, f)]
  /\ pc' = [pc EXCEPT ![p] = "idle"]
  /\ ref' = [ref EXCEPT ![p] = None]
  /\ held' = [held EXCEPT ![p] = None]
  /\ digest' = [digest EXCEPT ![p] = None]
  /\ got' = [got EXCEPT ![p] = None]
  /\ age' = [age EXCEPT ![p] = 0]
  /\ window' = [window EXCEPT ![p] = {}]
  /\ UNCHANGED regVars

\* The request goes on to step s.
Goto(p, s) ==
  /\ pc' = [pc EXCEPT ![p] = s]
  /\ UNCHANGED <<regVars, ref, age, window, reply>>

Begin(p, r) ==
  /\ pc[p] = "idle"
  /\ pc' = [pc EXCEPT ![p] = "getTag"]
  /\ ref' = [ref EXCEPT ![p] = r]
  /\ window' = [window EXCEPT ![p] = {registry[r]}]
  /\ reply' = [reply EXCEPT ![p] = NoReply]
  /\ UNCHANGED <<regVars, cacheVars, held, digest, got, age>>

\* After the cache lookups: HEAD first when there is stale content.
NetworkStep(h) == IF h # None THEN "head" ELSE "fetch"

GetByTag(p) ==
  /\ pc[p] = "getTag"
  /\ LET r == ref[p] IN
     \/ /\ TagHit(r)
        /\ IsFresh(tags[r])
        /\ Return(p, "fresh", contents[tags[r].digest])
     \/ /\ ~(TagHit(r) /\ IsFresh(tags[r]))
        /\ LET files == IF TagHit(r) THEN contents[tags[r].digest] ELSE None IN
           /\ held' = [held EXCEPT ![p] = files]
           /\ Goto(p, IF Pinned[r] # None THEN "getDigest" ELSE NetworkStep(files))
        /\ UNCHANGED <<digest, got>>
  /\ UNCHANGED cacheVars

\* A digest-pinned reference is looked up by its digest.
GetByDigest(p) ==
  /\ pc[p] = "getDigest"
  /\ LET d == Pinned[ref[p]] IN
     \/ contents[d] # None /\ Return(p, "pinned", contents[d])
     \/ /\ contents[d] = None
        /\ Goto(p, NetworkStep(held[p]))
        /\ UNCHANGED <<held, digest, got>>
  /\ UNCHANGED cacheVars

Head(p) ==
  /\ pc[p] = "head"
  /\ digest' = [digest EXCEPT ![p] = registry[ref[p]]]
  /\ Goto(p, "getHead")
  /\ UNCHANGED <<cacheVars, held, got>>

\* HEAD failed: fall through to the full fetch.
HeadFails(p) ==
  /\ pc[p] = "head"
  /\ Goto(p, "fetch")
  /\ UNCHANGED <<cacheVars, held, digest, got>>

\* GetByDigest of the digest HEAD returned.
GetHeadDigest(p) ==
  /\ pc[p] = "getHead"
  /\ LET f == contents[digest[p]] IN
     /\ got' = [got EXCEPT ![p] = f]
     /\ Goto(p, IF f # None THEN "putHead" ELSE "fetch")
  /\ UNCHANGED <<cacheVars, held, digest>>

PutHeadTag(p) ==
  /\ pc[p] = "putHead"
  /\ PutTagIn(ref[p], digest[p])
  /\ Return(p, "head", got[p])
  /\ UNCHANGED contents

Fetch(p) ==
  /\ pc[p] = "fetch"
  /\ got' = [got EXCEPT ![p] = registry[ref[p]]]
  /\ Goto(p, "extract")
  /\ UNCHANGED <<cacheVars, held, digest>>

\* Mutant of FetchFails: returns whatever files there are, and no error.
FetchFailsSilently(p) ==
  /\ pc[p] = "fetch"
  /\ Return(p, "stale", held[p])
  /\ UNCHANGED cacheVars

\* The registry cannot be reached: stale content is served if there is any.
FetchFails(p) ==
  /\ pc[p] = "fetch"
  /\ IF held[p] # None THEN Return(p, "stale", held[p]) ELSE Return(p, "error", None)
  /\ UNCHANGED cacheVars

\* Mutants of Extract: the digest HEAD returned is kept; PutContent is left out.
ExtractUnderHeadDigest(p) ==
  /\ pc[p] = "extract"
  /\ got[p] \notin Bad
  /\ digest' = [digest EXCEPT ![p] = IF @ = None THEN got[p] ELSE @]
  /\ Goto(p, "putContent")
  /\ UNCHANGED <<cacheVars, held, got>>
ExtractWithoutPut(p) ==
  /\ pc[p] = "extract"
  /\ got[p] \notin Bad
  /\ digest' = [digest EXCEPT ![p] = got[p]]
  /\ Goto(p, "putTag")
  /\ UNCHANGED <<cacheVars, held, got>>

\* extractStarFiles accepts the artifact; its digest is taken from the image.
Extract(p) ==
  /\ pc[p] = "extract"
  /\ got[p] \notin Bad
  /\ digest' = [digest EXCEPT ![p] = got[p]]
  /\ Goto(p, "putContent")
  /\ UNCHANGED <<cacheVars, held, got>>

\* extractStarFiles rejects the artifact: wrong type, no layers, too large...
ExtractRejects(p) ==
  /\ pc[p] = "extract"
  /\ got[p] \in Bad
  /\ Return(p, "error", None)
  /\ UNCHANGED cacheVars

\* The layers are only downloaded now, by layer.Uncompressed: that may fail.
LayerReadFails(p) ==
  /\ pc[p] = "extract"
  /\ Return(p, "error", None)
  /\ UNCHANGED cacheVars

PutContent(p) ==
  /\ pc[p] = "putContent"
  /\ PutContentIn(digest[p], got[p])
  /\ Goto(p, "putTag")
  /\ UNCHANGED <<tags, held, digest, got>>

PutTag(p) ==
  /\ pc[p] = "putTag"
  /\ PutTagIn(ref[p], digest[p])
  /\ Return(p, "fetch", got[p])
  /\ UNCHANGED contents

--------------------------------------------------------------------------------
(* Environment *)

\* Somebody pushes another artifact under a tag.
MoveTag(r, d) ==
  /\ Pinned[r] = None
  /\ d # registry[r]
  /\ moves < MaxMoves
  /\ moves' = moves + 1
  /\ registry' = [registry EXCEPT ![r] = d]
  /\ published' = [published EXCEPT ![r] = @ \cup {d}]
  /\ gone' = [gone EXCEPT ![r][d] = 0]
  /\ window' = [p \in Procs |-> IF ref[p] = r THEN window[p] \cup {d} ELSE window[p]]
  /\ UNCHANGED <<cacheVars, pc, ref, held, digest, got, age, reply>>

\* Time passes, but no resolution takes longer than MaxLatency.
Tick ==
  /\ \A p \in Procs : pc[p] # "idle" => age[p] < MaxLatency
  /\ age' = [p \in Procs |-> IF pc[p] = "idle" THEN 0 ELSE age[p] + 1]
  /\ gone' = [r \in Refs |-> [d \in Digests |->
                IF d # registry[r] /\ gone[r][d] < Horizon THEN gone[r][d] + 1
                                                          ELSE gone[r][d]]]
  /\ tags' = [r \in Refs |-> IF tags[r] # None /\ tags[r].left >= 0
                             THEN [digest |-> tags[r].digest, left |-> tags[r].left - 1]
                             ELSE tags[r]]
  /\ UNCHANGED <<registry, moves, published, contents,
                 pc, ref, held, digest, got, window, reply>>

\* The function pod restarts: main builds a new, empty cache.
Restart ==
  /\ tags' = [r \in Refs |-> None]
  /\ contents' = [d \in Digests |-> None]
  /\ pc' = [p \in Procs |-> "idle"]
  /\ ref' = [p \in Procs |-> None]
  /\ held' = [p \in Procs |-> None]
  /\ digest' = [p \in Procs |-> None]
  /\ got' = [p \in Procs |-> None]
  /\ age' = [p \in Procs |-> 0]
  /\ window' = [p \in Procs |-> {}]
  /\ reply' = [p \in Procs |-> NoReply]
  /\ UNCHANGED regVars

Next ==
  \/ \E p \in Procs : \/ \E r \in Refs : Begin(p, r)
                      \/ GetByTag(p)
                      \/ GetByDigest(p)
                      \/ Head(p)
                      \/ HeadFails(p)
                      \/ GetHeadDigest(p)
                      \/ PutHeadTag(p)
                      \/ Fetch(p)
                      \/ FetchFails(p)
                      \/ Extract(p)
                      \/ ExtractRejects(p)
                      \/ LayerReadFails(p)
                      \/ PutContent(p)
                      \/ PutTag(p)
  \/ \E r \in Refs, d \in Digests : MoveTag(r, d)
  \/ Tick
  \/ Restart

Spec == Init /\ [][Next]_vars

--------------------------------------------------------------------------------
(* Properties *)

\* A cached tag always leads to cached content that was extracted from exactly
\* the artifact the digest names: no interleaving of PutContent and PutTag by
\* concurrent requests, nor a tag moving between HEAD and fetch, leaves a tag
\* without content or files of another artifact under a digest.
CacheCoherent ==
  /\ \A r \in Refs : tags[r] # None => contents[tags[r].digest] # None
  /\ \A d \in Digests : contents[d] \in {None, d}

\* A digest-pinned reference only ever yields the pinned artifact, whichever of
\* the tag cache, the content cache and the registry the files come from.
AnswersPin(p) ==
  \A via \in Vias \ {"none"}, d \in Digests :
    ref[p] # None /\ Pinned[ref[p]] # None /\ reply'[p] = Result(via, d)
      => d = Pinned[ref[p]]
PinnedExact == [][\A p \in Procs : AnswersPin(p)]_vars

\* Under PullAlways an answer taken from the cache as fresh names an artifact
\* that the tag still named at most TTL plus one resolution ago, even though a
\* slow request may write the tag entry long after it read the registry.
FreshIsRecent(p) ==
  \A d \in Digests : pc[p] = "getTag" /\ reply'[p] = Result("fresh", d)
    => IfNotPresent \/ gone[ref[p]][d] <= TTL + MaxLatency
StalenessBound == [][\A p \in Procs : FreshIsRecent(p)]_vars

\* The requests that have looked r up and go on to ask the registry.
Racing(r) == {p \in Procs : ref[p] = r /\ pc[p] \notin {"idle", "getTag"}}

\* Under IfNotPresent every replacement of a cached digest uses up one of the
\* requests that missed before the tag was cached: while it is cached no lookup
\* adds to them, so it changes no more often than there were such requests, and
\* never once they have returned, until the pod restarts.  (That a cached tag never
\* changes, as the policy is documented, is not so: two requests may both miss.)
ReplacedByRacersOnly ==
  [][\A r \in Refs : IfNotPresent /\ tags[r] # None =>
       \/ tags'[r] = None
       \/ /\ Racing(r)' \subseteq Racing(r)
          /\ \/ tags'[r].digest = tags[r].digest
             \/ \E p \in Racing(r) : p \notin Racing(r)' /\ tags'[r].digest = digest[p]]_vars

\* Once the tags have stopped moving, the cache ends up naming what the
\* registry names, late writes of older digests included, and stays there.
CatchesUp ==
  \A r \in Refs : <>[](tags[r] # None => tags[r].digest = registry[r])

--------------------------------------------------------------------------------
(* Fairness: Go runs every goroutine, time passes, Crossplane keeps        *)
(* reconciling every composite, and a registry call that is repeated       *)
(* succeeds now and then.                                                  *)

ProcStep(p) ==
  \/ GetByTag(p) \/ GetByDigest(p) \/ Head(p) \/ HeadFails(p) \/ GetHeadDigest(p)
  \/ PutHeadTag(p) \/ Fetch(p) \/ FetchFails(p) \/ Extract(p) \/ ExtractRejects(p)
  \/ LayerReadFails(p) \/ PutContent(p) \/ PutTag(p)

Fairness ==
  /\ \A p \in Procs : /\ WF_vars(ProcStep(p))
                      /\ SF_vars(Fetch(p))
                      /\ SF_vars(Extract(p))
  /\ \A r \in Refs : SF_vars(\E p \in Procs : Begin(p, r))
  /\ SF_vars(Tick)

FairSpec == Spec /\ Fairness

--------------------------------------------------------------------------------
(* The cache implements ModuleStore. *)

KindOf(via) == CASE via \in {"fresh", "pinned", "stale"} -> "cached"
                 [] via \in {"head", "fetch"} -> "current"
                 [] OTHER -> via

\* Refinement mapping: what a caller of Resolve can see of the cache.
Shown(res) == [kind |-> KindOf(res.via), files |-> res.files]
Store == INSTANCE ModuleStore WITH
           asked <- ref,
           reply <- [p \in Procs |-> Shown(reply[p])]

\* Every answer is the artifact the reference named during the request, one it
\* named before when the answer comes from the cache, or an error; concurrent
\* requests, tag moves and restarts included.
ImplementsStore == Store!StoreSpec
--------------------------------------------------------------------------------
(* The inductive invariant behind the properties above. *)

\* The registry only serves what it published; a pinned reference never moves.
RegistryInv ==
  \A r \in Refs : /\ registry[r] \in published[r]
                  /\ Pinned[r] # None => published[r] = {Pinned[r]}
                  /\ gone[r][registry[r]] = 0

\* What a request holds belongs to its reference: stale files were published,
\* a digest or image just read was current during the request, and what it is
\* about to write agrees with what it will return.
RequestInv ==
  \A p \in Procs :
    /\ (pc[p] = "idle") <=> (ref[p] = None)
    /\ ref[p] = None => held[p] = None
    /\ ref[p] # None => reply[p] = NoReply
    /\ ref[p] # None => registry[ref[p]] \in window[p]
    /\ ref[p] # None => window[p] \subseteq published[ref[p]]
    /\ ref[p] # None /\ held[p] # None => held[p] \in published[ref[p]]
    /\ pc[p] \in {"getHead", "putHead", "putContent", "putTag"} => digest[p] \in window[p]
    /\ pc[p] \in {"extract", "putContent", "putTag"} => got[p] \in window[p]
    /\ pc[p] \in {"putHead", "putContent", "putTag"} => got[p] = digest[p]
    /\ pc[p] \in {"putHead", "putTag"} => contents[digest[p]] # None
    /\ pc[p] = "getDigest" => Pinned[ref[p]] # None

\* What a request read from the registry left the tag after the request began,
\* and an entry loses a tick of life for every tick its digest has been gone.
AgeInv ==
  /\ \A p \in Procs :
       /\ pc[p] \in {"getHead", "putHead", "putContent", "putTag"}
            => gone[ref[p]][digest[p]] <= age[p]
       /\ pc[p] \in {"extract", "putContent", "putTag"}
            => gone[ref[p]][got[p]] <= age[p]
  /\ \A r \in Refs : tags[r] # None
       => gone[r][tags[r].digest] + tags[r].left <= TTL + MaxLatency

\* Every tag entry names a digest its reference has named.
TagsPublished ==
  \A r \in Refs : tags[r] # None => tags[r].digest \in published[r]

\* Together: what every reachable state of the cache and its requests satisfies.
IInv == /\ TypeOK
        /\ CacheCoherent
        /\ RegistryInv
        /\ RequestInv
        /\ TagsPublished
        /\ AgeInv
================================================================================
