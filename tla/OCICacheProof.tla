----------------------------- MODULE OCICacheProof -----------------------------
(***************************************************************************)
(* Proofs about OCICache for every set of requests, references and         *)
(* digests, every policy, TTL and latency: the inductive invariant IInv,   *)
(* the safety properties, and that the cache implements ModuleStore.       *)
(***************************************************************************)
EXTENDS OCICache, TLAPS

\* Results are built from a way of answering and the files answered.
LEMMA ResultType ==
  ASSUME NEW via \in Vias, NEW f \in Digests \cup {None}
  PROVE  Result(via, f) \in Results
BY DEF Result, Results

\* Initially the cache is empty and nobody asks, so IInv holds.
LEMMA InitIInv == Init => IInv
<1> SUFFICES ASSUME Init PROVE IInv
  OBVIOUS
<1> USE ConstantsOK
<1>1. TypeOK
  BY ResultType DEF Init, TypeOK, Horizon, Steps, Vias, NoReply
<1>2. CacheCoherent
  BY DEF Init, CacheCoherent
<1>3. RegistryInv
  BY DEF Init, RegistryInv
<1>4. RequestInv
  BY DEF Init, RequestInv
<1>5. TagsPublished
  BY DEF Init, TagsPublished
<1>6. AgeInv
  BY DEF Init, AgeInv
<1> QED
  BY <1>1, <1>2, <1>3, <1>4, <1>5, <1>6 DEF IInv

\* Returning resets the request's locals and stores a well-formed result.
LEMMA ReturnType ==
  ASSUME TypeOK, NEW p \in Procs, NEW via \in Vias, NEW f \in Digests \cup {None},
         Return(p, via, f), tags' \in [Refs -> Entry \cup {None}],
         contents' \in [Digests -> Digests \cup {None}]
  PROVE  TypeOK'
<1>1. reply' \in [Procs -> Results]
  BY ResultType DEF TypeOK, Return
<1>2. pc' \in [Procs -> Steps]
  BY DEF TypeOK, Return, Steps
<1>3. age' \in [Procs -> 0 .. MaxLatency]
  BY ConstantsOK DEF TypeOK, Return
<1>4. /\ ref' \in [Procs -> Refs \cup {None}]
      /\ held' \in [Procs -> Digests \cup {None}]
      /\ digest' \in [Procs -> Digests \cup {None}]
      /\ got' \in [Procs -> Digests \cup {None}]
  BY DEF TypeOK, Return
<1>5. window' \in [Procs -> SUBSET Digests]
  BY DEF TypeOK, Return
<1> QED
  BY <1>1, <1>2, <1>3, <1>4, <1>5 DEF TypeOK, Return, regVars

\* A request that goes on moves to a step of resolveRef.
LEMMA GotoType ==
  ASSUME TypeOK, NEW p \in Procs, NEW s \in Steps, Goto(p, s),
         tags' \in [Refs -> Entry \cup {None}],
         contents' \in [Digests -> Digests \cup {None}],
         held' \in [Procs -> Digests \cup {None}],
         digest' \in [Procs -> Digests \cup {None}],
         got' \in [Procs -> Digests \cup {None}]
  PROVE  TypeOK'
<1>1. pc' \in [Procs -> Steps]
  BY DEF TypeOK, Goto
<1> QED
  BY <1>1 DEF TypeOK, Goto, regVars

\* Every step keeps the variables in their types.
LEMMA TypeStep == IInv /\ [Next]_vars => TypeOK'
<1> SUFFICES ASSUME IInv, [Next]_vars PROVE TypeOK'
  OBVIOUS
<1> USE DEF IInv
<1>a. \A p \in Procs : pc[p] # "idle" => ref[p] \in Refs
  BY DEF RequestInv, TypeOK
<1>b. \A r \in Refs : TagHit(r) => contents[tags[r].digest] \in Digests
  BY DEF TagHit, Entry, TypeOK
<1>1. ASSUME NEW p \in Procs, NEW r \in Refs, Begin(p, r) PROVE TypeOK'
  <2>1. pc' \in [Procs -> Steps] /\ ref' \in [Procs -> Refs \cup {None}]
    BY <1>1 DEF Begin, TypeOK, Steps
  <2>2. window' \in [Procs -> SUBSET Digests]
    BY <1>1 DEF Begin, TypeOK
  <2>3. reply' \in [Procs -> Results]
    BY <1>1, ResultType DEF Begin, NoReply, Vias, TypeOK
  <2> QED
    BY <1>1, <2>1, <2>2, <2>3 DEF Begin, regVars, cacheVars, TypeOK
<1>2. ASSUME NEW p \in Procs, GetByTag(p) PROVE TypeOK'
  <2> DEFINE r == ref[p]
             files == IF TagHit(r) THEN contents[tags[r].digest] ELSE None
  <2>1. r \in Refs /\ files \in Digests \cup {None}
    BY <1>2, <1>a, <1>b DEF GetByTag
  <2>2. CASE TagHit(r) /\ IsFresh(tags[r])
    BY <1>2, <2>1, <2>2, ReturnType DEF GetByTag, Vias, cacheVars, TypeOK
  <2>3. CASE ~(TagHit(r) /\ IsFresh(tags[r]))
    <3>1. held' \in [Procs -> Digests \cup {None}]
      BY <1>2, <2>1, <2>3 DEF GetByTag, TypeOK
    <3> QED
      BY <1>2, <2>3, <3>1, GotoType DEF GetByTag, NetworkStep, Steps, cacheVars, TypeOK
  <2> QED
    BY <2>2, <2>3
<1>3. ASSUME NEW p \in Procs, GetByDigest(p) PROVE TypeOK'
  <2>1. Pinned[ref[p]] \in Digests
    BY <1>3, <1>a, ConstantsOK DEF GetByDigest, RequestInv
  <2>2. CASE contents[Pinned[ref[p]]] # None
    BY <1>3, <2>1, <2>2, ReturnType DEF GetByDigest, Vias, cacheVars, TypeOK
  <2>3. CASE contents[Pinned[ref[p]]] = None
    BY <1>3, <2>3, GotoType DEF GetByDigest, NetworkStep, Steps, cacheVars, TypeOK
  <2> QED
    BY <2>2, <2>3
<1>4. ASSUME NEW p \in Procs, Head(p) \/ HeadFails(p) \/ Fetch(p) \/ Extract(p)
      PROVE TypeOK'
  <2>1. registry[ref[p]] \in Digests
    BY <1>4, <1>a DEF Head, HeadFails, Fetch, Extract, TypeOK, RequestInv
  <2>2. /\ digest' \in [Procs -> Digests \cup {None}]
        /\ got' \in [Procs -> Digests \cup {None}]
    BY <1>4, <2>1 DEF Head, HeadFails, Fetch, Extract, TypeOK
  <2> QED
    BY <1>4, <2>2, GotoType
       DEF Head, HeadFails, Fetch, Extract, Steps, cacheVars, TypeOK
<1>5. ASSUME NEW p \in Procs, GetHeadDigest(p) PROVE TypeOK'
  <2>1. got' \in [Procs -> Digests \cup {None}]
    BY <1>5 DEF GetHeadDigest, TypeOK, RequestInv
  <2> QED
    BY <1>5, <2>1, GotoType DEF GetHeadDigest, Steps, cacheVars, TypeOK
<1>6. ASSUME NEW p \in Procs, PutHeadTag(p) \/ PutTag(p) PROVE TypeOK'
  <2>1. ref[p] \in Refs /\ digest[p] \in Digests
    BY <1>6, <1>a DEF PutHeadTag, PutTag, RequestInv, TypeOK
  <2>2. tags' \in [Refs -> Entry \cup {None}]
    BY <1>6, <2>1, ConstantsOK DEF PutHeadTag, PutTag, PutTagIn, NewEntry, Entry, TypeOK
  <2> QED
    BY <1>6, <2>1, <2>2, ReturnType DEF PutHeadTag, PutTag, Vias, TypeOK
<1>7. ASSUME NEW p \in Procs, FetchFails(p) \/ ExtractRejects(p) \/ LayerReadFails(p)
      PROVE TypeOK'
  <2>1. \E via \in Vias, f \in Digests \cup {None} : Return(p, via, f)
    BY <1>7 DEF FetchFails, ExtractRejects, LayerReadFails, Vias, TypeOK
  <2> QED
    BY <1>7, <2>1, ReturnType
       DEF FetchFails, ExtractRejects, LayerReadFails, cacheVars, TypeOK
<1>8. ASSUME NEW p \in Procs, PutContent(p) PROVE TypeOK'
  <2>1. contents' \in [Digests -> Digests \cup {None}]
    BY <1>8 DEF PutContent, PutContentIn, TypeOK
  <2> QED
    BY <1>8, <2>1, GotoType DEF PutContent, Steps, TypeOK
<1>9. ASSUME NEW r \in Refs, NEW d \in Digests, MoveTag(r, d) PROVE TypeOK'
  BY <1>9, ConstantsOK DEF MoveTag, cacheVars, TypeOK, Horizon
<1>10. ASSUME Tick PROVE TypeOK'
  <2>1. tags' \in [Refs -> Entry \cup {None}]
    BY <1>10, ConstantsOK DEF Tick, Entry, TypeOK
  <2>2. age' \in [Procs -> 0 .. MaxLatency]
    BY <1>10, ConstantsOK DEF Tick, TypeOK
  <2>3. gone' \in [Refs -> [Digests -> 0 .. Horizon]]
    BY <1>10, ConstantsOK DEF Tick, TypeOK, Horizon
  <2> QED
    BY <1>10, <2>1, <2>2, <2>3 DEF Tick, TypeOK
<1>11. ASSUME Restart PROVE TypeOK'
  BY <1>11, ResultType, ConstantsOK DEF Restart, regVars, NoReply, Vias, Steps, TypeOK
<1>12. ASSUME UNCHANGED vars PROVE TypeOK'
  BY <1>12 DEF vars, TypeOK
<1> QED
  BY <1>1, <1>2, <1>3, <1>4, <1>5, <1>6, <1>7, <1>8, <1>9, <1>10, <1>11, <1>12
     DEF Next

\* Only PutContent, PutTag and Restart touch what coherence is about.
LEMMA CoherentStep == IInv /\ [Next]_vars => CacheCoherent'
<1> SUFFICES ASSUME IInv, [Next]_vars PROVE CacheCoherent'
  OBVIOUS
<1> USE DEF IInv
<1>1. CASE UNCHANGED cacheVars
  BY <1>1 DEF CacheCoherent, cacheVars
<1>2. ASSUME NEW p \in Procs, PutHeadTag(p) \/ PutTag(p) PROVE CacheCoherent'
  <2>1. contents[digest[p]] # None /\ contents' = contents
    BY <1>2 DEF PutHeadTag, PutTag, RequestInv
  <2>2. \A r \in Refs : tags'[r] = tags[r] \/ tags'[r].digest = digest[p]
    BY <1>2 DEF PutHeadTag, PutTag, PutTagIn, NewEntry, TypeOK
  <2> QED
    BY <2>1, <2>2 DEF CacheCoherent
<1>3. ASSUME NEW p \in Procs, PutContent(p) PROVE CacheCoherent'
  BY <1>3 DEF PutContent, PutContentIn, RequestInv, CacheCoherent, TypeOK, Entry
<1>4. CASE Tick
  BY <1>4 DEF Tick, CacheCoherent, TypeOK
<1>5. CASE Restart
  BY <1>5 DEF Restart, CacheCoherent
<1> QED
  BY <1>1, <1>2, <1>3, <1>4, <1>5
     DEF Next, Begin, GetByTag, GetByDigest, Head, HeadFails, GetHeadDigest, Fetch,
         FetchFails, Extract, ExtractRejects, LayerReadFails, MoveTag, vars, cacheVars

\* Only MoveTag changes the registry, and never under a pinned reference.
LEMMA RegistryStep == IInv /\ [Next]_vars => RegistryInv'
<1> SUFFICES ASSUME IInv, [Next]_vars PROVE RegistryInv'
  OBVIOUS
<1> USE DEF IInv
<1>1. CASE UNCHANGED regVars
  BY <1>1 DEF RegistryInv, regVars
<1>2. ASSUME NEW r \in Refs, NEW d \in Digests, MoveTag(r, d) PROVE RegistryInv'
  BY <1>2 DEF MoveTag, RegistryInv, TypeOK
<1>3. CASE Tick
  BY <1>3 DEF Tick, RegistryInv, TypeOK
<1> QED
  BY <1>1, <1>2, <1>3
     DEF Next, Begin, GetByTag, GetByDigest, Head, HeadFails, GetHeadDigest, PutHeadTag,
         Fetch, FetchFails, Extract, ExtractRejects, LayerReadFails, PutContent, PutTag,
         Return, Goto, Restart, vars, regVars

\* A tag entry is written with a digest its reference named in the request.
LEMMA TagsStep == IInv /\ [Next]_vars => TagsPublished'
<1> SUFFICES ASSUME IInv, [Next]_vars PROVE TagsPublished'
  OBVIOUS
<1> USE DEF IInv
<1>1. CASE UNCHANGED <<tags, published>>
  BY <1>1 DEF TagsPublished
<1>2. ASSUME NEW p \in Procs, PutHeadTag(p) \/ PutTag(p) PROVE TagsPublished'
  <2>1. digest[p] \in published[ref[p]] /\ published' = published
    BY <1>2 DEF PutHeadTag, PutTag, Return, regVars, RequestInv
  <2>2. \A r \in Refs : tags'[r] = tags[r] \/ (r = ref[p] /\ tags'[r].digest = digest[p])
    BY <1>2 DEF PutHeadTag, PutTag, PutTagIn, NewEntry, TypeOK
  <2> QED
    BY <2>1, <2>2 DEF TagsPublished
<1>3. ASSUME NEW r \in Refs, NEW d \in Digests, MoveTag(r, d) PROVE TagsPublished'
  BY <1>3 DEF MoveTag, TagsPublished, TypeOK, cacheVars
<1>4. CASE Tick
  BY <1>4 DEF Tick, TagsPublished, TypeOK
<1>5. CASE Restart
  BY <1>5 DEF Restart, TagsPublished
<1> QED
  BY <1>1, <1>2, <1>3, <1>4, <1>5
     DEF Next, Begin, GetByTag, GetByDigest, Head, HeadFails, GetHeadDigest, Fetch,
         FetchFails, Extract, ExtractRejects, LayerReadFails, PutContent,
         Return, Goto, vars, cacheVars, regVars

\* The request that takes the step establishes its own part of RequestInv; the
\* others keep theirs because published and contents only grow.
LEMMA RequestStep == IInv /\ [Next]_vars => RequestInv'
<1> SUFFICES ASSUME IInv, [Next]_vars PROVE RequestInv'
  OBVIOUS
<1> USE ConstantsOK DEF IInv
<1>a. \A p \in Procs : pc[p] # "idle" => ref[p] \in Refs
  BY DEF RequestInv, TypeOK
<1>1. ASSUME NEW p \in Procs, NEW r \in Refs, Begin(p, r) PROVE RequestInv'
  BY <1>1 DEF Begin, regVars, cacheVars, RequestInv, RegistryInv, TypeOK
<1>2. ASSUME NEW p \in Procs, NEW via, NEW f, Return(p, via, f), UNCHANGED contents
      PROVE RequestInv'
  BY <1>2 DEF Return, regVars, RequestInv, TypeOK
<1>3. ASSUME NEW p \in Procs, GetByTag(p) PROVE RequestInv'
  <2> DEFINE r == ref[p]
             files == IF TagHit(r) THEN contents[tags[r].digest] ELSE None
  <2>1. r \in Refs /\ (files # None => files \in published[r])
    BY <1>3, <1>a DEF GetByTag, TagHit, CacheCoherent, TagsPublished, TypeOK, Entry
  <2>2. CASE TagHit(r) /\ IsFresh(tags[r])
    BY <1>2, <1>3, <2>2 DEF GetByTag, cacheVars
  <2>3. CASE ~(TagHit(r) /\ IsFresh(tags[r]))
    BY <1>3, <2>1, <2>3 DEF GetByTag, Goto, NetworkStep, regVars, cacheVars, RequestInv, TypeOK
  <2> QED
    BY <2>2, <2>3
<1>4. ASSUME NEW p \in Procs, GetByDigest(p) PROVE RequestInv'
  <2>1. CASE contents[Pinned[ref[p]]] # None
    BY <1>2, <1>4, <2>1 DEF GetByDigest, cacheVars
  <2>2. CASE contents[Pinned[ref[p]]] = None
    BY <1>4, <2>2 DEF GetByDigest, Goto, NetworkStep, regVars, cacheVars, RequestInv, TypeOK
  <2> QED
    BY <2>1, <2>2
<1>5. ASSUME NEW p \in Procs, Head(p) \/ HeadFails(p) \/ Fetch(p) PROVE RequestInv'
  BY <1>5 DEF Head, HeadFails, Fetch, Goto, regVars, cacheVars, RequestInv, TypeOK
<1>6. ASSUME NEW p \in Procs, GetHeadDigest(p) PROVE RequestInv'
  BY <1>6 DEF GetHeadDigest, Goto, regVars, cacheVars, RequestInv, CacheCoherent, TypeOK
<1>7. ASSUME NEW p \in Procs, Extract(p) PROVE RequestInv'
  BY <1>7 DEF Extract, Goto, regVars, cacheVars, RequestInv, TypeOK
<1>8. ASSUME NEW p \in Procs, PutContent(p) PROVE RequestInv'
  <2>1. digest[p] \in Digests /\ got[p] = digest[p]
    BY <1>8 DEF PutContent, RequestInv, TypeOK
  <2>2. \A d \in Digests : contents[d] # None => contents'[d] # None
    BY <1>8, <2>1 DEF PutContent, PutContentIn, TypeOK
  <2>3. contents'[digest[p]] # None
    BY <1>8, <2>1 DEF PutContent, PutContentIn, TypeOK
  <2> QED
    BY <1>8, <2>2, <2>3 DEF PutContent, Goto, regVars, RequestInv, TypeOK
<1>9. ASSUME NEW r \in Refs, NEW d \in Digests, MoveTag(r, d) PROVE RequestInv'
  BY <1>9 DEF MoveTag, cacheVars, RequestInv, TypeOK
<1>10. CASE Tick
  BY <1>10 DEF Tick, RequestInv, TypeOK
<1>11. CASE Restart
  BY <1>11 DEF Restart, RequestInv
<1>12. CASE UNCHANGED vars
  BY <1>12 DEF vars, RequestInv
<1> QED
  BY <1>1, <1>2, <1>3, <1>4, <1>5, <1>6, <1>7, <1>8, <1>9, <1>10, <1>11, <1>12
     DEF Next, PutHeadTag, PutTag, FetchFails, ExtractRejects, LayerReadFails, cacheVars

\* A digest read from the registry has been gone no longer than the request has
\* run, so an entry is written with at most MaxLatency of its life lost; from
\* then on the entry and the age of its digest advance together.
LEMMA AgeStep == IInv /\ [Next]_vars => AgeInv'
<1> SUFFICES ASSUME IInv, [Next]_vars PROVE AgeInv'
  OBVIOUS
<1> USE ConstantsOK DEF IInv
<1>a. \A p \in Procs : pc[p] # "idle" => ref[p] \in Refs
  BY DEF RequestInv, TypeOK
<1>1. ASSUME NEW p \in Procs, NEW r \in Refs, Begin(p, r) PROVE AgeInv'
  BY <1>1 DEF Begin, regVars, cacheVars, AgeInv, TypeOK
<1>2. ASSUME NEW p \in Procs, NEW via, NEW f, Return(p, via, f), UNCHANGED tags
      PROVE AgeInv'
  BY <1>2 DEF Return, regVars, AgeInv, TypeOK
<1>3. ASSUME NEW p \in Procs, GetByTag(p) PROVE AgeInv'
  <2> DEFINE r == ref[p]
  <2>1. CASE TagHit(r) /\ IsFresh(tags[r])
    BY <1>2, <1>3, <2>1 DEF GetByTag, cacheVars
  <2>2. CASE ~(TagHit(r) /\ IsFresh(tags[r]))
    BY <1>3, <2>2 DEF GetByTag, Goto, NetworkStep, regVars, cacheVars, AgeInv, TypeOK
  <2> QED
    BY <2>1, <2>2
<1>4. ASSUME NEW p \in Procs, GetByDigest(p) PROVE AgeInv'
  <2>1. CASE contents[Pinned[ref[p]]] # None
    BY <1>2, <1>4, <2>1 DEF GetByDigest, cacheVars
  <2>2. CASE contents[Pinned[ref[p]]] = None
    BY <1>4, <2>2 DEF GetByDigest, Goto, NetworkStep, regVars, cacheVars, AgeInv, TypeOK
  <2> QED
    BY <2>1, <2>2
<1>5. ASSUME NEW p \in Procs, Head(p) \/ HeadFails(p) \/ Fetch(p) PROVE AgeInv'
  <2>1. gone[ref[p]][registry[ref[p]]] <= age[p]
    BY <1>5, <1>a DEF Head, HeadFails, Fetch, RegistryInv, TypeOK
  <2> QED
    BY <1>5, <2>1 DEF Head, HeadFails, Fetch, Goto, regVars, cacheVars, AgeInv, TypeOK
<1>6. ASSUME NEW p \in Procs, GetHeadDigest(p) PROVE AgeInv'
  BY <1>6 DEF GetHeadDigest, Goto, regVars, cacheVars, AgeInv, TypeOK
<1>7. ASSUME NEW p \in Procs, Extract(p) PROVE AgeInv'
  BY <1>7 DEF Extract, Goto, regVars, cacheVars, AgeInv, TypeOK
<1>8. ASSUME NEW p \in Procs, PutContent(p) PROVE AgeInv'
  BY <1>8 DEF PutContent, Goto, regVars, AgeInv, TypeOK
<1>9. ASSUME NEW p \in Procs, PutHeadTag(p) \/ PutTag(p) PROVE AgeInv'
  <2>1. /\ ref[p] \in Refs
        /\ digest[p] \in Digests
        /\ gone[ref[p]][digest[p]] <= age[p]
        /\ gone' = gone
    BY <1>9, <1>a DEF PutHeadTag, PutTag, Return, regVars, RequestInv, AgeInv, TypeOK
  <2>2. gone[ref[p]][digest[p]] + TTL <= TTL + MaxLatency
    BY <2>1 DEF TypeOK, Horizon
  <2>3. \A r \in Refs : \/ tags'[r] = tags[r]
                        \/ r = ref[p] /\ tags'[r] = NewEntry(digest[p])
    BY <1>9 DEF PutHeadTag, PutTag, PutTagIn, TypeOK
  <2>4. \A r \in Refs : tags'[r] # None
          => gone'[r][tags'[r].digest] + tags'[r].left <= TTL + MaxLatency
    BY <2>1, <2>2, <2>3 DEF NewEntry, AgeInv
  <2> QED
    BY <1>9, <2>4 DEF PutHeadTag, PutTag, Return, regVars, AgeInv, TypeOK
<1>10. ASSUME NEW r \in Refs, NEW d \in Digests, MoveTag(r, d) PROVE AgeInv'
  <2>1. \A rr \in Refs, dd \in Digests : gone'[rr][dd] <= gone[rr][dd]
    BY <1>10 DEF MoveTag, TypeOK, Horizon
  <2>2. \A rr \in Refs, dd \in Digests : gone[rr][dd] \in Int /\ gone'[rr][dd] \in Int
    BY <1>10 DEF MoveTag, TypeOK, Horizon
  <2>3. \A rr \in Refs : tags[rr] # None => tags[rr].digest \in Digests /\ tags[rr].left \in Int
    BY DEF TypeOK, Entry
  <2>4. \A rr \in Refs : tags'[rr] # None
          => gone'[rr][tags'[rr].digest] + tags'[rr].left <= TTL + MaxLatency
    BY <1>10, <2>1, <2>2, <2>3 DEF MoveTag, cacheVars, AgeInv
  <2>5. \A p \in Procs : age[p] \in Int
    BY DEF TypeOK
  <2> QED
    BY <1>10, <1>a, <2>1, <2>2, <2>4, <2>5
       DEF MoveTag, cacheVars, AgeInv, RequestInv, TypeOK
<1>11. CASE Tick
  <2>1. \A rr \in Refs, dd \in Digests : /\ gone[rr][dd] \in Int
                                         /\ gone'[rr][dd] \in Int
                                         /\ gone'[rr][dd] <= gone[rr][dd] + 1
    BY <1>11 DEF Tick, TypeOK, Horizon
  <2>2. \A p \in Procs : /\ age[p] \in Int
                         /\ pc[p] # "idle" => age'[p] = age[p] + 1
    BY <1>11 DEF Tick, TypeOK
  <2>3. \A rr \in Refs : tags'[rr] # None
          => gone'[rr][tags'[rr].digest] + tags'[rr].left <= TTL + MaxLatency
    <3> SUFFICES ASSUME NEW rr \in Refs, tags'[rr] # None
                 PROVE  gone'[rr][tags'[rr].digest] + tags'[rr].left <= TTL + MaxLatency
      OBVIOUS
    <3>1. tags[rr] # None /\ tags[rr] \in Entry
      BY <1>11 DEF Tick, TypeOK
    <3>2. CASE tags[rr].left >= 0
      BY <1>11, <2>1, <3>1, <3>2 DEF Tick, AgeInv, Entry
    <3>3. CASE ~(tags[rr].left >= 0)
      <4>1. tags'[rr] = tags[rr] /\ tags[rr].left = -1
        BY <1>11, <3>1, <3>3 DEF Tick, Entry
      <4>2. gone'[rr][tags[rr].digest] \in 0 .. Horizon
        BY <1>11, <3>1 DEF Tick, TypeOK, Entry, Horizon
      <4> QED
        BY <4>1, <4>2 DEF Horizon
    <3> QED
      BY <3>2, <3>3
  <2> QED
    BY <1>11, <1>a, <2>1, <2>2, <2>3 DEF Tick, AgeInv, RequestInv, TypeOK
<1>12. CASE Restart
  BY <1>12 DEF Restart, AgeInv
<1>13. CASE UNCHANGED vars
  BY <1>13 DEF vars, AgeInv
<1> QED
  BY <1>1, <1>2, <1>3, <1>4, <1>5, <1>6, <1>7, <1>8, <1>9, <1>10, <1>11, <1>12, <1>13
     DEF Next, FetchFails, ExtractRejects, LayerReadFails, cacheVars

\* IInv is inductive, so it holds in every reachable state of every instance.
THEOREM Inductive == Spec => []IInv
<1>1. IInv /\ [Next]_vars => IInv'
  BY TypeStep, CoherentStep, RegistryStep, TagsStep, RequestStep, AgeStep DEF IInv
<1> QED
  BY InitIInv, <1>1, PTL DEF Spec

\* Type correctness of the cache and of the requests using it.
THEOREM TypeCorrect == Spec => []TypeOK
<1>1. IInv => TypeOK
  BY DEF IInv
<1> QED
  BY Inductive, <1>1, PTL

\* The cache never holds a tag without its content, nor content under a digest
\* it was not extracted from (PutContent before PutTag, resolver.go).
THEOREM Coherence == Spec => []CacheCoherent
<1>1. IInv => CacheCoherent
  BY DEF IInv
<1> QED
  BY Inductive, <1>1, PTL

--------------------------------------------------------------------------------
(* What a step shows to the callers of Resolve. *)

\* An answer a request may return: what the reference names or named, or an error.
GoodAnswer(p, via, f) ==
  /\ via \in Vias \ {"none"}
  /\ f \in published[ref[p]] \cup {None}
  /\ (via = "error") <=> (f = None)
  /\ via \in {"head", "fetch"} => f \in window[p]
  /\ (via = "fresh") <=> (pc[p] = "getTag")
  /\ via = "fresh" => /\ tags[ref[p]] # None
                      /\ IsFresh(tags[ref[p]])
                      /\ f = tags[ref[p]].digest

\* A step starts a request, answers one, moves a tag, restarts the function,
\* or changes nothing a caller sees.
LEMMA VisibleSteps ==
  ASSUME IInv, Next
  PROVE  \/ \E p \in Procs, r \in Refs : Begin(p, r)
         \/ \E p \in Procs : \E via, f : /\ ref[p] \in Refs
                                         /\ GoodAnswer(p, via, f)
                                         /\ Return(p, via, f)
         \/ \E r \in Refs, d \in Digests : MoveTag(r, d)
         \/ Restart
         \/ UNCHANGED <<registry, published, ref, window, reply>>
<1> USE ConstantsOK DEF IInv
<1> DEFINE Answered(p) == \E via, f : /\ ref[p] \in Refs
                                      /\ GoodAnswer(p, via, f)
                                      /\ Return(p, via, f)
           Unseen == UNCHANGED <<registry, published, ref, window, reply>>
<1>a. \A p \in Procs : pc[p] # "idle" => ref[p] \in Refs
  BY DEF RequestInv, TypeOK
<1>1. ASSUME NEW p \in Procs, GetByTag(p) PROVE Answered(p) \/ Unseen
  <2> DEFINE r == ref[p]
  <2>1. r \in Refs
    BY <1>1, <1>a DEF GetByTag
  <2>2. CASE TagHit(r) /\ IsFresh(tags[r])
    <3>1. contents[tags[r].digest] = tags[r].digest /\ tags[r].digest \in published[r]
      BY <2>1, <2>2 DEF TagHit, CacheCoherent, TagsPublished, TypeOK, Entry
    <3>2. published[r] \subseteq Digests
      BY <2>1 DEF TypeOK
    <3>3. GoodAnswer(p, "fresh", tags[r].digest)
      BY <1>1, <2>2, <3>1, <3>2 DEF GoodAnswer, GetByTag, TagHit, Vias
    <3> QED
      BY <1>1, <2>1, <2>2, <3>1, <3>3 DEF GetByTag
  <2>3. CASE ~(TagHit(r) /\ IsFresh(tags[r]))
    BY <1>1, <2>3 DEF GetByTag, Goto, regVars
  <2> QED
    BY <2>2, <2>3
<1>2. ASSUME NEW p \in Procs, GetByDigest(p) PROVE Answered(p) \/ Unseen
  <2> DEFINE d == Pinned[ref[p]]
  <2>1. ref[p] \in Refs /\ d \in Digests /\ d \in published[ref[p]]
    BY <1>2, <1>a DEF GetByDigest, RequestInv, RegistryInv
  <2>2. CASE contents[d] # None
    <3>1. GoodAnswer(p, "pinned", contents[d])
      BY <1>2, <2>1, <2>2 DEF GoodAnswer, GetByDigest, CacheCoherent, Vias
    <3> QED
      BY <1>2, <2>1, <2>2, <3>1 DEF GetByDigest
  <2>3. CASE contents[d] = None
    BY <1>2, <2>3 DEF GetByDigest, Goto, regVars
  <2> QED
    BY <2>2, <2>3
<1>3. ASSUME NEW p \in Procs, PutHeadTag(p) PROVE Answered(p)
  <2>1. /\ ref[p] \in Refs
        /\ got[p] \in window[p]
        /\ window[p] \subseteq published[ref[p]]
        /\ window[p] \subseteq Digests
    BY <1>3, <1>a DEF PutHeadTag, RequestInv, TypeOK
  <2>2. GoodAnswer(p, "head", got[p])
    BY <1>3, <2>1 DEF GoodAnswer, PutHeadTag, Vias
  <2> QED
    BY <1>3, <2>1, <2>2 DEF PutHeadTag
<1>4. ASSUME NEW p \in Procs, PutTag(p) PROVE Answered(p)
  <2>1. /\ ref[p] \in Refs
        /\ got[p] \in window[p]
        /\ window[p] \subseteq published[ref[p]]
        /\ window[p] \subseteq Digests
    BY <1>4, <1>a DEF PutTag, RequestInv, TypeOK
  <2>2. GoodAnswer(p, "fetch", got[p])
    BY <1>4, <2>1 DEF GoodAnswer, PutTag, Vias
  <2> QED
    BY <1>4, <2>1, <2>2 DEF PutTag
<1>5. ASSUME NEW p \in Procs, FetchFails(p) PROVE Answered(p)
  <2>1. ref[p] \in Refs
    BY <1>5, <1>a DEF FetchFails
  <2>2. CASE held[p] # None
    <3>1. GoodAnswer(p, "stale", held[p])
      BY <1>5, <2>1, <2>2 DEF GoodAnswer, FetchFails, RequestInv, Vias
    <3> QED
      BY <1>5, <2>1, <2>2, <3>1 DEF FetchFails
  <2>3. CASE held[p] = None
    <3>1. GoodAnswer(p, "error", None)
      BY <1>5 DEF GoodAnswer, FetchFails, Vias
    <3> QED
      BY <1>5, <2>1, <2>3, <3>1 DEF FetchFails
  <2> QED
    BY <2>2, <2>3
<1>6. ASSUME NEW p \in Procs, ExtractRejects(p) \/ LayerReadFails(p) PROVE Answered(p)
  <2>1. GoodAnswer(p, "error", None)
    BY <1>6 DEF GoodAnswer, ExtractRejects, LayerReadFails, Vias
  <2> QED
    BY <1>6, <1>a, <2>1 DEF ExtractRejects, LayerReadFails
<1>7. ASSUME NEW p \in Procs, \/ Head(p) \/ HeadFails(p) \/ GetHeadDigest(p) \/ Fetch(p)
                              \/ Extract(p) \/ PutContent(p)
      PROVE Unseen
  BY <1>7 DEF Head, HeadFails, GetHeadDigest, Fetch, Extract, PutContent, Goto, regVars
<1>8. CASE Tick
  BY <1>8 DEF Tick
<1> QED
  BY <1>1, <1>2, <1>3, <1>4, <1>5, <1>6, <1>7, <1>8 DEF Next

\* While a request runs, its reply is empty; the step that ends it, if it is
\* not a restart, gives it a good answer.
LEMMA ReplyStep ==
  ASSUME IInv, Next, NEW p \in Procs, ref[p] # None,
         NEW via \in Vias \ {"none"}, NEW f, reply'[p] = Result(via, f)
  PROVE  GoodAnswer(p, via, f)
<1> USE DEF IInv
<1>1. reply[p] = NoReply /\ reply'[p] # NoReply
  <2>1. Result(via, f) # NoReply
    BY DEF Result, NoReply, Vias
  <2> QED
    BY <2>1 DEF RequestInv
<1>2. \A v1, v2, f1, f2 : Result(v1, f1) = Result(v2, f2) => v1 = v2 /\ f1 = f2
  BY DEF Result
<1>3. ASSUME NEW q \in Procs, NEW r \in Refs, Begin(q, r) PROVE FALSE
  BY <1>1, <1>3 DEF Begin, TypeOK
<1>4. ASSUME NEW q \in Procs, NEW v, NEW g, GoodAnswer(q, v, g), Return(q, v, g)
      PROVE GoodAnswer(p, via, f)
  <2>1. q = p
    BY <1>1, <1>4 DEF Return, TypeOK
  <2>2. Result(v, g) = Result(via, f)
    BY <1>4, <2>1 DEF Return, TypeOK
  <2> QED
    BY <1>2, <1>4, <2>1, <2>2
<1>5. ASSUME NEW r \in Refs, NEW d \in Digests, MoveTag(r, d) PROVE FALSE
  BY <1>1, <1>5 DEF MoveTag
<1>6. ASSUME Restart PROVE FALSE
  BY <1>1, <1>6 DEF Restart
<1> QED
  BY <1>1, <1>3, <1>4, <1>5, <1>6, VisibleSteps

\* An answer GetByTag reports fresh under PullAlways names an artifact that
\* left its tag at most TTL plus one resolution ago, provided the TTL is
\* positive: with TTL 0 GetByTag never reports an entry stale.
THEOREM Staleness == ASSUME TTL > 0 PROVE Spec => StalenessBound
<1>1. ASSUME IInv, Next, NEW p \in Procs PROVE FreshIsRecent(p)
  <2> USE <1>1, ConstantsOK DEF IInv
  <2> SUFFICES ASSUME NEW d \in Digests, pc[p] = "getTag", ~IfNotPresent,
                      reply'[p] = Result("fresh", d)
               PROVE  gone[ref[p]][d] <= TTL + MaxLatency
    BY DEF FreshIsRecent
  <2>1. ref[p] \in Refs
    BY DEF RequestInv, TypeOK
  <2>2. GoodAnswer(p, "fresh", d)
    BY <2>1, ReplyStep DEF Vias
  <2>3. /\ tags[ref[p]] # None
        /\ tags[ref[p]] \in Entry
        /\ d = tags[ref[p]].digest
        /\ tags[ref[p]].left >= 0
    BY <2>1, <2>2 DEF GoodAnswer, IsFresh, TypeOK, Entry
  <2>4. gone[ref[p]][d] + tags[ref[p]].left <= TTL + MaxLatency
    BY <2>1, <2>3 DEF AgeInv, Entry
  <2>5. gone[ref[p]][d] \in Int
    BY <2>1 DEF TypeOK, Horizon
  <2> QED
    BY <2>3, <2>4, <2>5 DEF Entry
<1>2. IInv /\ [Next]_vars => [\A p \in Procs : FreshIsRecent(p)]_vars
  BY <1>1
<1> QED
  BY Inductive, <1>2, PTL DEF Spec, StalenessBound

\* A digest-pinned reference yields the pinned artifact or an error.
THEOREM PinsHold == Spec => PinnedExact
<1>1. ASSUME IInv, Next, NEW p \in Procs PROVE AnswersPin(p)
  <2> USE <1>1, ConstantsOK DEF IInv
  <2> SUFFICES ASSUME ref[p] # None, Pinned[ref[p]] # None, NEW via \in Vias \ {"none"},
                      NEW d \in Digests, reply'[p] = Result(via, d)
               PROVE  d = Pinned[ref[p]]
    BY DEF AnswersPin
  <2>1. ref[p] \in Refs
    BY DEF TypeOK
  <2> QED
    BY <2>1, ReplyStep DEF GoodAnswer, RegistryInv
<1>2. IInv /\ [Next]_vars => [\A p \in Procs : AnswersPin(p)]_vars
  BY <1>1
<1> QED
  BY Inductive, <1>2, PTL DEF Spec, PinnedExact

\* Under IfNotPresent nothing cached is ever revalidated: a request that goes on
\* after GetByTag holds no stale content and asks for no HEAD.
NoRevalidation ==
  IfNotPresent => \A p \in Procs : /\ held[p] = None
                                   /\ pc[p] \notin {"head", "getHead", "putHead"}

\* Nobody revalidates at first, and a lookup that finds something ends a request.
LEMMA NeverRevalidates == Spec => []NoRevalidation
<1>1. Init => NoRevalidation
  BY DEF Init, NoRevalidation
<1>2. TypeOK /\ NoRevalidation /\ [Next]_vars => NoRevalidation'
  <2> SUFFICES ASSUME TypeOK, NoRevalidation, [Next]_vars, IfNotPresent, NEW q \in Procs
               PROVE  held'[q] = None /\ pc'[q] \notin {"head", "getHead", "putHead"}
    BY DEF NoRevalidation, IfNotPresent
  <2>a. /\ pc \in [Procs -> Steps]
        /\ held \in [Procs -> Digests \cup {None}]
        /\ held[q] = None
        /\ pc[q] \notin {"head", "getHead", "putHead"}
    BY DEF TypeOK, NoRevalidation
  <2> USE <2>a
  <2>1. ASSUME NEW p \in Procs, NEW r \in Refs, Begin(p, r)
        PROVE  held'[q] = None /\ pc'[q] \notin {"head", "getHead", "putHead"}
    BY <2>1 DEF Begin
  <2>2. ASSUME NEW p \in Procs, GetByTag(p)
        PROVE  held'[q] = None /\ pc'[q] \notin {"head", "getHead", "putHead"}
    <3>1. IsFresh(tags[ref[p]])
      BY DEF IsFresh
    <3>2. CASE TagHit(ref[p])
      BY <2>2, <3>1, <3>2 DEF GetByTag, Return
    <3>3. CASE ~TagHit(ref[p])
      BY <2>2, <3>3 DEF GetByTag, Goto, NetworkStep
    <3> QED
      BY <3>2, <3>3
  <2>3. ASSUME NEW p \in Procs, GetByDigest(p)
        PROVE  held'[q] = None /\ pc'[q] \notin {"head", "getHead", "putHead"}
    <3>1. held[p] = None
      BY DEF NoRevalidation
    <3> QED
      BY <2>3, <3>1 DEF GetByDigest, Return, Goto, NetworkStep
  <2>4. ASSUME NEW p \in Procs, Head(p) \/ HeadFails(p) \/ GetHeadDigest(p) \/ PutHeadTag(p)
        PROVE  FALSE
    BY <2>4 DEF NoRevalidation, Head, HeadFails, GetHeadDigest, PutHeadTag
  <2>5. ASSUME NEW p \in Procs, \/ Fetch(p) \/ FetchFails(p) \/ Extract(p) \/ ExtractRejects(p)
                                \/ LayerReadFails(p) \/ PutContent(p) \/ PutTag(p)
        PROVE  held'[q] = None /\ pc'[q] \notin {"head", "getHead", "putHead"}
    BY <2>5 DEF Fetch, FetchFails, Extract, ExtractRejects, LayerReadFails, PutContent, PutTag,
                Return, Goto
  <2>6. CASE \/ \E r \in Refs, d \in Digests : MoveTag(r, d)
             \/ Tick
             \/ Restart
             \/ UNCHANGED vars
    BY <2>6 DEF MoveTag, Tick, Restart, vars
  <2> QED
    BY <2>1, <2>2, <2>3, <2>4, <2>5, <2>6 DEF Next
<1> QED
  BY TypeCorrect, <1>1, <1>2, PTL DEF Spec

\* Under IfNotPresent a cached tag is replaced only by requests that missed before
\* it was cached, once by each: a lookup of a cached tag never leads to a write.
THEOREM TagsKept == Spec => ReplacedByRacersOnly
<1>1. ASSUME TypeOK, CacheCoherent, NoRevalidation, Next, NEW r \in Refs,
             IfNotPresent, tags[r] # None, tags'[r] # None
      PROVE  /\ Racing(r)' \subseteq Racing(r)
             /\ \/ tags'[r].digest = tags[r].digest
                \/ \E p \in Racing(r) : p \notin Racing(r)' /\ tags'[r].digest = digest[p]
  <2> DEFINE Goal == /\ Racing(r)' \subseteq Racing(r)
                     /\ \/ tags'[r].digest = tags[r].digest
                        \/ \E p \in Racing(r) : p \notin Racing(r)' /\ tags'[r].digest = digest[p]
  <2>a. /\ tags \in [Refs -> Entry \cup {None}]
        /\ pc \in [Procs -> Steps] /\ ref \in [Procs -> Refs \cup {None}]
    BY <1>1 DEF TypeOK
  <2>1. ASSUME NEW p \in Procs, PutHeadTag(p) PROVE FALSE
    BY <1>1, <2>1 DEF NoRevalidation, PutHeadTag
  <2>2. ASSUME NEW p \in Procs, PutTag(p) PROVE Goal
    <3>1. /\ pc[p] = "putTag" /\ pc' = [pc EXCEPT ![p] = "idle"] /\ ref' = [ref EXCEPT ![p] = None]
          /\ tags' = [tags EXCEPT ![ref[p]] = NewEntry(digest[p])]
      BY <2>2 DEF PutTag, PutTagIn, Return
    <3>2. Racing(r)' \subseteq Racing(r) /\ p \notin Racing(r)'
      BY <2>a, <3>1 DEF Racing
    <3>3. CASE ref[p] = r
      <4>1. p \in Racing(r)
        BY <3>1, <3>3 DEF Racing
      <4>2. tags'[r].digest = digest[p]
        BY <2>a, <3>1, <3>3 DEF NewEntry
      <4> QED BY <3>2, <4>1, <4>2
    <3>4. CASE ref[p] # r
      BY <2>a, <3>1, <3>2, <3>4
    <3> QED BY <3>3, <3>4
  <2>3. CASE Tick
    <3>1. tags'[r].digest = tags[r].digest
      BY <1>1, <2>3 DEF Tick
    <3> QED BY <2>3, <3>1 DEF Tick, Racing
  <2>4. CASE Restart
    BY <1>1, <2>4 DEF Restart
  <2>5. ASSUME NEW p \in Procs, GetByTag(p) PROVE Goal
    <3>1. UNCHANGED tags
      BY <2>5 DEF GetByTag, cacheVars
    <3>2. CASE ref[p] = r
      <4>1. TagHit(ref[p]) /\ IsFresh(tags[ref[p]])
        BY <1>1, <3>2 DEF CacheCoherent, TagHit, IsFresh
      <4>2. pc' = [pc EXCEPT ![p] = "idle"] /\ ref' = [ref EXCEPT ![p] = None]
        BY <2>5, <4>1 DEF GetByTag, Return
      <4> QED BY <2>a, <3>1, <4>2 DEF Racing
    <3>3. CASE ref[p] # r
      <4>1. /\ \A q \in Procs \ {p} : pc'[q] = pc[q] /\ ref'[q] = ref[q]
            /\ ref'[p] # r
        BY <1>1, <2>5, <2>a, <3>3, ConstantsOK DEF GetByTag, Return, Goto
      <4>2. Racing(r)' \subseteq Racing(r)
        BY <3>3, <4>1 DEF Racing
      <4> QED BY <3>1, <4>2
    <3> QED BY <3>2, <3>3
  <2>6. ASSUME NEW p \in Procs, \E s \in Refs : Begin(p, s) PROVE Goal
    <3>1. PICK s \in Refs : Begin(p, s)
      BY <2>6
    <3>2. UNCHANGED tags /\ pc'[p] \in {"idle", "getTag"}
      BY <3>1, <2>a DEF Begin, cacheVars
    <3>3. \A q \in Procs \ {p} : pc'[q] = pc[q] /\ ref'[q] = ref[q]
      BY <3>1, <2>a DEF Begin
    <3>4. Racing(r)' \subseteq Racing(r)
      BY <3>2, <3>3 DEF Racing
    <3> QED BY <3>2, <3>4
  <2>7. ASSUME NEW p \in Procs,
               \/ GetByDigest(p) \/ Head(p) \/ HeadFails(p) \/ GetHeadDigest(p)
               \/ Fetch(p) \/ FetchFails(p) \/ Extract(p) \/ ExtractRejects(p)
               \/ LayerReadFails(p) \/ PutContent(p)
        PROVE  Goal
    <3>1. UNCHANGED tags /\ pc[p] \notin {"idle", "getTag"}
      BY <2>7 DEF GetByDigest, Head, HeadFails, GetHeadDigest, Fetch, FetchFails,
                  Extract, ExtractRejects, LayerReadFails, PutContent, cacheVars
    <3>2. /\ \A q \in Procs \ {p} : pc'[q] = pc[q] /\ ref'[q] = ref[q]
          /\ ref'[p] \in {ref[p], None}
      BY <2>7, <2>a DEF GetByDigest, Head, HeadFails, GetHeadDigest, Fetch, FetchFails,
                  Extract, ExtractRejects, LayerReadFails, PutContent, Return, Goto
    <3>3. Racing(r)' \subseteq Racing(r)
      BY <3>1, <3>2, ConstantsOK DEF Racing
    <3> QED BY <3>1, <3>3
  <2>8. ASSUME NEW s \in Refs, NEW d \in Digests, MoveTag(s, d) PROVE Goal
    BY <2>8 DEF MoveTag, cacheVars, Racing
  <2> QED
    BY <1>1, <2>1, <2>2, <2>3, <2>4, <2>5, <2>6, <2>7, <2>8 DEF Next
<1>2. ASSUME TypeOK, CacheCoherent, NoRevalidation, [Next]_vars
      PROVE  [\A r \in Refs : IfNotPresent /\ tags[r] # None =>
                \/ tags'[r] = None
                \/ /\ Racing(r)' \subseteq Racing(r)
                   /\ \/ tags'[r].digest = tags[r].digest
                      \/ \E p \in Racing(r) :
                           p \notin Racing(r)' /\ tags'[r].digest = digest[p]]_vars
  BY <1>1, <1>2
<1> QED
  BY TypeCorrect, Coherence, NeverRevalidates, <1>2, PTL DEF Spec, ReplacedByRacersOnly

\* What a caller sees of a result.
LEMMA ShownResult ==
  ASSUME NEW via \in Vias, NEW f
  PROVE  Shown(Result(via, f)) = [kind |-> KindOf(via), files |-> f]
BY DEF Shown, Result

\* The cache implements ModuleStore: the initial states agree, a step of the
\* cache is a step of the store or leaves what it shows unchanged.
THEOREM Refinement == Spec => ImplementsStore
<1>1. Init => Store!StoreInit
  BY ConstantsOK, ShownResult DEF Init, Store!StoreInit, KindOf, NoReply, Vias
<1>2. IInv /\ [Next]_vars => [Store!StoreNext]_(Store!storeVars)
  <2> SUFFICES ASSUME IInv, [Next]_vars PROVE [Store!StoreNext]_(Store!storeVars)
    OBVIOUS
  <2> USE ConstantsOK DEF IInv
  <2>a. Shown(NoReply) = [kind |-> "none", files |-> None]
    BY ShownResult DEF NoReply, KindOf, Vias
  <2>1. ASSUME NEW p \in Procs, NEW r \in Refs, Begin(p, r) PROVE Store!Ask(p, r)
    <3>1. [q \in Procs |-> Shown(reply'[q])]
            = [[q \in Procs |-> Shown(reply[q])] EXCEPT ![p] = [kind |-> "none", files |-> None]]
      BY <2>1, <2>a DEF Begin, TypeOK
    <3> QED
      BY <2>1, <3>1 DEF Begin, Store!Ask, regVars, RequestInv
  <2>2. ASSUME NEW p \in Procs, NEW via, NEW f, ref[p] \in Refs, GoodAnswer(p, via, f),
               Return(p, via, f)
        PROVE Store!StoreNext
    <3> DEFINE a == [kind |-> KindOf(via), files |-> f]
    <3>1. Shown(Result(via, f)) = a
      BY <2>2, ShownResult DEF GoodAnswer
    <3>2. [q \in Procs |-> Shown(reply'[q])]
            = [[q \in Procs |-> Shown(reply[q])] EXCEPT ![p] = a]
      BY <2>2, <3>1 DEF Return, TypeOK
    <3>3. a.kind = "current" => a.files \in window[p]
      BY <2>2 DEF GoodAnswer, KindOf, Vias
    <3>4. a.kind = "cached" => a.files \in published[ref[p]]
      BY <2>2 DEF GoodAnswer, KindOf, Vias
    <3>5. a \in Store!Replies \ {[kind |-> "none", files |-> None]}
      <4>1. f \in Digests \cup {None}
        BY <2>2 DEF GoodAnswer, TypeOK
      <4>2. CASE via = "error"
        BY <2>2, <4>2 DEF GoodAnswer, KindOf, Store!Replies
      <4>3. CASE via # "error"
        BY <2>2, <4>1, <4>3 DEF GoodAnswer, KindOf, Store!Replies, Vias
      <4> QED
        BY <4>2, <4>3
    <3>6. Store!Reply(p, a)
      BY <2>2, <3>2, <3>3, <3>4 DEF Return, Store!Reply, regVars
    <3> QED
      BY <3>5, <3>6 DEF Store!StoreNext
  <2>3. ASSUME NEW r \in Refs, NEW d \in Digests, MoveTag(r, d) PROVE Store!Publish(r, d)
    BY <2>3 DEF MoveTag, Store!Publish
  <2>4. CASE Restart
    BY <2>4, <2>a DEF Restart, Store!Abandon, Store!StoreNext, regVars
  <2>5. CASE UNCHANGED <<registry, published, ref, window, reply>>
    BY <2>5 DEF Store!storeVars
  <2> QED
    BY <2>1, <2>2, <2>3, <2>4, <2>5, VisibleSteps DEF Store!StoreNext, vars
<1> QED
  BY Inductive, <1>1, <1>2, PTL DEF Spec, ImplementsStore, Store!StoreSpec
================================================================================
