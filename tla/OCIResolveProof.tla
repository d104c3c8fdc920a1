---------------------------- MODULE OCIResolveProof ----------------------------
(***************************************************************************)
(* Proofs about OCIResolve for every set of references, files, artifacts   *)
(* and scripts, and every depth limit: the module map returned is closed   *)
(* under load, and a cycle is reported exactly when there is one.          *)
(***************************************************************************)
EXTENDS OCIResolve, TLAPS

--------------------------------------------------------------------------------
(* Facts about reaches and cycles, for any graph over Refs *)

\* A node that reaches another one reaches it through one of its successors.
LEMMA ReachesStep ==
  ASSUME NEW E \in SUBSET (Refs \X Refs), NEW x \in Refs, NEW to \in Refs,
         x # to, reaches(E, x, to)
  PROVE  \E y \in Refs : <<x, y>> \in E /\ reaches(E, y, to)
<1> SUFFICES ASSUME \A y \in Refs : <<x, y>> \in E => ~reaches(E, y, to)
             PROVE  FALSE
  OBVIOUS
<1> DEFINE Closed(S) == \A e \in E : e[1] \in S => e[2] \in S
           U == {z \in Refs : \E S \in SUBSET Refs :
                   z \in S /\ Closed(S) /\ to \notin S}
           S0 == {x} \cup U
<1>1. S0 \in SUBSET Refs /\ x \in S0
  OBVIOUS
<1>2. to \notin S0
  OBVIOUS
<1>3. ASSUME NEW e \in E, e[1] \in S0 PROVE e[2] \in S0
  <2>1. e[1] \in Refs /\ e[2] \in Refs /\ e = <<e[1], e[2]>>
    OBVIOUS
  <2>2. CASE e[1] = x
    <3>1. ~reaches(E, e[2], to)
      BY <2>1, <2>2
    <3>2. e[2] \in U
      BY <3>1, <2>1 DEF reaches
    <3> QED
      BY <3>2
  <2>3. CASE e[1] \in U
    <3>1. PICK S \in SUBSET Refs : e[1] \in S /\ Closed(S) /\ to \notin S
      BY <2>3
    <3>2. e[2] \in S
      BY <3>1
    <3> QED
      BY <3>1, <3>2, <2>1
  <2> QED
    BY <1>3, <2>2, <2>3
<1> QED
  BY <1>1, <1>2, <1>3 DEF reaches

\* An edge to a node that leads back closes a cycle.
LEMMA EdgeClosesCycle ==
  ASSUME NEW E \in SUBSET (Refs \X Refs), NEW F, NEW r \in Refs, NEW q \in Refs,
         reaches(E, q, r), E \subseteq F, <<r, q>> \in F
  PROVE  hasCycle(F)
<1> DEFINE S == {x \in Refs : reaches(E, x, r)}
<1>1. r \in S
  BY DEF reaches
<1>2. ASSUME NEW x \in S PROVE \E y \in S : <<x, y>> \in F
  <2>1. CASE x = r
    BY <2>1
  <2>2. CASE x # r
    BY <2>2, ReachesStep
  <2> QED
    BY <2>1, <2>2
<1>3. S \in SUBSET Refs /\ S # {}
  BY <1>1
<1> QED
  BY <1>2, <1>3 DEF hasCycle

\* Edges from a node without any, to nodes that do not lead back to it, close
\* no cycle.
LEMMA EdgesKeepAcyclic ==
  ASSUME NEW E \in SUBSET (Refs \X Refs), NEW r \in Refs, NEW Q \in SUBSET Refs,
         ~hasCycle(E), \A x \in Refs : <<r, x>> \notin E,
         \A q \in Q : ~reaches(E, q, r)
  PROVE  ~hasCycle(E \cup {<<r, q>> : q \in Q})
<1> DEFINE F == E \cup {<<r, q>> : q \in Q}
<1> SUFFICES ASSUME NEW S \in SUBSET Refs, S # {},
                    \A x \in S : \E y \in S : <<x, y>> \in F
             PROVE  FALSE
  BY DEF hasCycle
<1>1. \A x, y \in Refs : x # r /\ <<x, y>> \in F => <<x, y>> \in E
  OBVIOUS
<1>2. CASE r \notin S
  <2>1. \A x \in S : \E y \in S : <<x, y>> \in E
    BY <1>1, <1>2
  <2> QED
    BY <2>1 DEF hasCycle
<1>3. CASE r \in S
  <2>1. PICK q \in S : <<r, q>> \in F
    BY <1>3
  <2>2. q \in Q
    BY <2>1
  <2>3. PICK C \in SUBSET Refs : /\ q \in C
                                 /\ \A e \in E : e[1] \in C => e[2] \in C
                                 /\ r \notin C
    BY <2>2 DEF reaches
  <2> DEFINE T == S \cap C
  <2>4. T \in SUBSET Refs /\ T # {}
    BY <2>1, <2>3
  <2>5. ASSUME NEW x \in T PROVE \E y \in T : <<x, y>> \in E
    <3>1. PICK y \in S : <<x, y>> \in F
      OBVIOUS
    <3>2. x # r
      BY <2>3
    <3>3. <<x, y>> \in E
      BY <1>1, <3>1, <3>2
    <3>4. y \in C
      BY <2>3, <3>3
    <3> QED
      BY <3>3, <3>4
  <2> QED
    BY <2>4, <2>5 DEF hasCycle
<1> QED
  BY <1>2, <1>3

--------------------------------------------------------------------------------
(* IInv is inductive *)

\* Nothing is fetched and no load met before the scan.
LEMMA InitCollected == Init => CollectedInv
<1> SUFFICES ASSUME Init PROVE CollectedInv
  OBVIOUS
<1>1. TypeOK
  BY ConstantsOK DEF Init, TypeOK
<1>2. ResultInv
  BY DEF Init, ResultInv, resolved
<1>3. PendingInv
  BY DEF Init, PendingInv
<1>4. depends = {}
  BY DEF Init, depends
<1>5. GraphInv
  BY <1>4 DEF Init, GraphInv, circular, hasCycle
<1> QED
  BY <1>1, <1>2, <1>3, <1>5 DEF CollectedInv

\* The sources of an artifact's files are sources.
LEMMA SourcesOf ==
  ASSUME NEW c \in Artifacts, NEW T \in SUBSET Targets, ~missing(c, T), NEW t \in T
  PROVE  t.file \in DOMAIN c /\ c[t.file] \in Sources /\ c[t.file] # None
BY ConstantsOK DEF missing

\* mapFiles adds the targets of one artifact to the result.
LEMMA MapFiles ==
  ASSUME TypeOK, NEW c \in Artifacts, NEW T \in SUBSET Targets,
         ~missing(c, T), mapFiles(c, T)
  PROVE  /\ result' \in [Targets -> {None} \cup Sources]
         /\ resolved' = resolved \cup T
         /\ \A t \in T : result'[t] = c[t.file]
         /\ \A t \in Targets \ T : result'[t] = result[t]
<1>1. \A t \in T : c[t.file] \in Sources /\ c[t.file] # None
  BY SourcesOf
<1>2. /\ result' \in [Targets -> {None} \cup Sources]
      /\ \A t \in T : result'[t] = c[t.file]
      /\ \A t \in Targets \ T : result'[t] = result[t]
  BY <1>1 DEF TypeOK, mapFiles
<1>3. resolved' = resolved \cup T
  BY <1>1, <1>2 DEF resolved
<1> QED
  BY <1>2, <1>3

\* Fetching an artifact for the first time and scanning all its files.
LEMMA ResolveRefCollected ==
  ASSUME CollectedInv, NEW r \in Refs, NEW c \in Artifacts, ResolveRef(r, c)
  PROVE  CollectedInv'
<1> DEFINE T == requested(r) \cup own(r, c)
           Q == {t.ref : t \in transitive(r, c)}
<1>0. TypeOK /\ ResultInv /\ PendingInv /\ GraphInv
  BY DEF CollectedInv
<1>1. status = "resolve" /\ loaded[r] = None /\ loaded' = [loaded EXCEPT ![r] = c]
      /\ script' = script /\ c # None
  BY ConstantsOK DEF ResolveRef
<1>2. loaded' \in [Refs -> Artifacts \cup {None}]
  BY <1>0, <1>1 DEF TypeOK
<1>3. \A t \in resolved : t.ref # r
  BY <1>0, <1>1 DEF ResultInv
<1>4. T \in SUBSET Targets /\ transitive(r, c) \in SUBSET Targets
      /\ Q \in SUBSET Refs /\ \A t \in T : t.ref = r
  BY <1>0 DEF TypeOK, requested, own, transitive, scanned, Targets
<1>5. scanned(c) = own(r, c) \cup transitive(r, c)
  BY DEF own, transitive
<1>6. CASE Fail("notFound") \/ Fail("cycle")
  <2>1. TypeOK'
    BY <1>0, <1>1, <1>2, <1>6 DEF TypeOK, Fail, Errors
  <2>2. ResultInv'
    <3>1. resolved' = resolved /\ result' = result
      BY <1>6 DEF Fail, resolved
    <3>2. \A t \in resolved : loaded'[t.ref] = loaded[t.ref]
      BY <1>0, <1>1, <1>3 DEF TypeOK, resolved, Targets
    <3> QED
      BY <1>0, <3>1, <3>2 DEF ResultInv
  <2>3. PendingInv' /\ GraphInv'
    BY <1>6 DEF Fail, PendingInv, GraphInv, Active
  <2> QED
    BY <2>1, <2>2, <2>3 DEF CollectedInv
<1>7. CASE /\ ~missing(c, T)
           /\ \A t \in transitive(r, c) : ~reaches(edges, t.ref, r)
           /\ mapFiles(c, T)
           /\ edges' = edges \cup {<<r, t.ref>> : t \in transitive(r, c)}
           /\ next' = next \cup transitive(r, c)
           /\ level' = level \ requested(r)
           /\ status' = status /\ depth' = depth
  <2>1. /\ result' \in [Targets -> {None} \cup Sources]
        /\ resolved' = resolved \cup T
        /\ \A t \in T : result'[t] = c[t.file]
        /\ \A t \in Targets \ T : result'[t] = result[t]
    BY <1>0, <1>4, <1>7, MapFiles
  <2>2. edges' = edges \cup {<<r, q>> : q \in Q}
    BY <1>7
  <2>3. TypeOK'
    BY <1>0, <1>1, <1>2, <1>4, <1>7, <2>1, <2>2 DEF TypeOK
  <2>4. ResultInv'
    <3> SUFFICES ASSUME NEW t \in resolved \cup T
                 PROVE  /\ loaded'[t.ref] # None
                        /\ t.file \in DOMAIN loaded'[t.ref]
                        /\ result'[t] = loaded'[t.ref][t.file]
      BY <2>1 DEF ResultInv
    <3>1. CASE t \in T
      <4>1. loaded'[t.ref] = c
        BY <1>0, <1>1, <1>4, <3>1 DEF TypeOK
      <4>2. t.file \in DOMAIN c
        BY <1>4, <1>7, <3>1, SourcesOf
      <4> QED
        BY <4>1, <4>2, <1>1, <2>1, <3>1
    <3>2. CASE t \notin T
      <4>1. t \in resolved /\ t \in Targets /\ t.ref \in Refs /\ t.ref # r
        BY <1>3, <3>2 DEF resolved, Targets
      <4>2. loaded'[t.ref] = loaded[t.ref] /\ result'[t] = result[t]
        BY <1>0, <1>1, <2>1, <3>2, <4>1 DEF TypeOK
      <4> QED
        BY <1>0, <4>1, <4>2 DEF ResultInv
    <3> QED
      BY <3>1, <3>2
  <2>5. PendingInv'
    <3>1. resolved \cup level \cup next \subseteq resolved' \cup level' \cup next'
      BY <1>7, <2>1
    <3>2. scanned(c) \subseteq resolved' \cup level' \cup next'
      BY <1>5, <1>7, <2>1
    <3>3. ASSUME NEW x \in Refs, loaded'[x] # None
          PROVE  scanned(loaded'[x]) \subseteq resolved' \cup level' \cup next'
      <4>1. CASE x = r
        BY <1>0, <1>1, <3>2, <4>1 DEF TypeOK
      <4>2. CASE x # r
        <5>1. loaded'[x] = loaded[x]
          BY <1>0, <1>1, <4>2 DEF TypeOK
        <5>2. scanned(loaded[x]) \subseteq resolved \cup level \cup next
          BY <1>0, <1>1, <3>3, <5>1 DEF PendingInv, Active
        <5> QED
          BY <3>1, <5>1, <5>2
      <4> QED
        BY <4>1, <4>2
    <3>4. script # Unparsable => script' \subseteq resolved' \cup level' \cup next'
      BY <1>0, <1>1, <3>1 DEF PendingInv
    <3> QED
      BY <1>1, <1>7, <3>3, <3>4 DEF PendingInv
  <2>6. GraphInv'
    <3>1. edges = depends /\ ~hasCycle(edges) /\ edges \in SUBSET (Refs \X Refs)
      BY <1>0, <1>1 DEF GraphInv, Active, circular, TypeOK
    <3>2. \A x \in Refs : <<r, x>> \notin edges
      BY <1>1, <3>1 DEF depends
    <3>3. \A q \in Q : ~reaches(edges, q, r)
      BY <1>7
    <3>4. ~hasCycle(edges')
      BY <1>4, <2>2, <3>1, <3>2, <3>3, EdgesKeepAcyclic
    <3>5. depends' = edges'
      <4>1. ASSUME NEW x \in Refs, NEW y \in Refs
            PROVE  <<x, y>> \in depends' <=> <<x, y>> \in edges'
        <5>1. CASE x = r
          <6>1. loaded'[x] = c
            BY <1>0, <1>1, <5>1 DEF TypeOK
          <6>2. <<x, y>> \in depends' <=> \E t \in transitive(r, c) : t.ref = y
            BY <5>1, <6>1, <1>1 DEF depends
          <6> QED
            BY <2>2, <3>2, <5>1, <6>2
        <5>2. CASE x # r
          <6>1. loaded'[x] = loaded[x]
            BY <1>0, <1>1, <5>2 DEF TypeOK
          <6>2. <<x, y>> \in depends' <=> <<x, y>> \in depends
            BY <6>1 DEF depends
          <6> QED
            BY <2>2, <3>1, <5>2, <6>2
        <5> QED
          BY <5>1, <5>2
      <4>2. depends' \in SUBSET (Refs \X Refs) /\ edges' \in SUBSET (Refs \X Refs)
        BY <2>3 DEF depends, TypeOK
      <4> QED
        BY <4>1, <4>2
    <3> QED
      BY <3>4, <3>5 DEF GraphInv, circular
  <2> QED
    BY <2>3, <2>4, <2>5, <2>6 DEF CollectedInv
<1> QED
  BY <1>6, <1>7 DEF ResolveRef

\* An artifact met before only adds its requested files to the result.
LEMMA ReuseCollected ==
  ASSUME CollectedInv, NEW r \in Refs, Reuse(r)
  PROVE  CollectedInv'
<1>0. TypeOK /\ ResultInv /\ PendingInv /\ GraphInv
  BY DEF CollectedInv
<1>1. status = "resolve" /\ loaded' = loaded /\ script' = script
      /\ loaded[r] # None /\ loaded[r] \in Artifacts
  BY <1>0 DEF Reuse, TypeOK
<1>2. requested(r) \in SUBSET Targets /\ \A t \in requested(r) : t.ref = r
  BY <1>0 DEF TypeOK, requested
<1>3. CASE Fail("notFound")
  <2>1. TypeOK'
    BY <1>0, <1>1, <1>3 DEF TypeOK, Fail, Errors
  <2>2. ResultInv'
    BY <1>0, <1>1, <1>3 DEF ResultInv, Fail, resolved
  <2>3. PendingInv' /\ GraphInv'
    BY <1>3 DEF Fail, PendingInv, GraphInv, Active
  <2> QED
    BY <2>1, <2>2, <2>3 DEF CollectedInv
<1>4. CASE /\ ~missing(loaded[r], requested(r))
           /\ mapFiles(loaded[r], requested(r))
           /\ level' = level \ requested(r)
           /\ UNCHANGED <<status, depth, next, edges>>
  <2>1. /\ result' \in [Targets -> {None} \cup Sources]
        /\ resolved' = resolved \cup requested(r)
        /\ \A t \in requested(r) : result'[t] = loaded[r][t.file]
        /\ \A t \in Targets \ requested(r) : result'[t] = result[t]
    BY <1>0, <1>1, <1>2, <1>4, MapFiles
  <2>2. TypeOK'
    BY <1>0, <1>1, <1>4, <2>1 DEF TypeOK
  <2>3. ResultInv'
    <3> SUFFICES ASSUME NEW t \in resolved \cup requested(r)
                 PROVE  /\ loaded[t.ref] # None
                        /\ t.file \in DOMAIN loaded[t.ref]
                        /\ result'[t] = loaded[t.ref][t.file]
      BY <1>1, <2>1 DEF ResultInv
    <3>1. CASE t \in requested(r)
      BY <1>1, <1>2, <1>4, <2>1, <3>1, SourcesOf
    <3>2. CASE t \notin requested(r)
      BY <1>0, <2>1, <3>2 DEF ResultInv, resolved
    <3> QED
      BY <3>1, <3>2
  <2>4. resolved \cup level \cup next \subseteq resolved' \cup level' \cup next'
    BY <1>4, <2>1
  <2>5. PendingInv'
    BY <1>0, <1>1, <1>4, <2>4 DEF PendingInv, Active
  <2>6. GraphInv'
    BY <1>0, <1>1, <1>4 DEF GraphInv, Active, circular, depends
  <2> QED
    BY <2>2, <2>3, <2>5, <2>6 DEF CollectedInv
<1> QED
  BY <1>3, <1>4 DEF Reuse

\* Steps that fetch nothing and leave the result alone.
LEMMA OtherCollected ==
  ASSUME CollectedInv,
         \/ Scan \/ ScanSkipped \/ ScanFails \/ Deepen \/ Finish \/ UNCHANGED vars
         \/ \E r \in Refs : ResolveRefFails(r)
  PROVE  CollectedInv'
<1>0. TypeOK /\ ResultInv /\ PendingInv /\ GraphInv
  BY DEF CollectedInv
<1>1. loaded' = loaded /\ result' = result /\ edges' = edges /\ script' = script
  BY DEF Scan, ScanSkipped, ScanFails, Deepen, Finish, ResolveRefFails, Fail, vars
<1>2. ResultInv'
  BY <1>0, <1>1 DEF ResultInv, resolved
<1>3. Active' => Active
  BY DEF Active, Scan, ScanSkipped, ScanFails, Deepen, Finish, ResolveRefFails, Fail, vars
<1>4. GraphInv'
  <2>1. depends' = depends
    BY <1>1 DEF depends
  <2> QED
    BY <1>0, <1>1, <1>3, <2>1 DEF GraphInv, circular
<1>5. resolved' = resolved
  BY <1>1 DEF resolved
<1>6. CASE Scan
  <2>1. script \in SUBSET Targets
    BY <1>0, <1>6, ConstantsOK DEF Scan, TypeOK, Sources
  <2>2. TypeOK'
    BY <1>0, <1>1, <1>6, <2>1 DEF Scan, TypeOK
  <2>3. PendingInv'
    BY <1>0, <1>1, <1>5, <1>6 DEF Scan, PendingInv, Active
  <2> QED
    BY <1>2, <1>4, <2>2, <2>3 DEF CollectedInv
<1>7. CASE ScanSkipped \/ ScanFails
  <2>1. TypeOK'
    BY <1>0, <1>1, <1>7 DEF ScanSkipped, ScanFails, TypeOK, Errors
  <2>2. PendingInv'
    BY <1>0, <1>1, <1>5, <1>7 DEF ScanSkipped, ScanFails, PendingInv, Active
  <2> QED
    BY <1>2, <1>4, <2>1, <2>2 DEF CollectedInv
<1>8. CASE Deepen
  <2>1. TypeOK'
    BY <1>0, <1>1, <1>8, ConstantsOK DEF Deepen, Fail, TypeOK, Errors, tooDeep
  <2>2. PendingInv'
    BY <1>0, <1>1, <1>5, <1>8 DEF Deepen, Fail, PendingInv, Active
  <2> QED
    BY <1>2, <1>4, <2>1, <2>2 DEF CollectedInv
<1>9. CASE Finish \/ UNCHANGED vars \/ \E r \in Refs : ResolveRefFails(r)
  <2>1. TypeOK'
    BY <1>0, <1>1, <1>9 DEF Finish, ResolveRefFails, Fail, vars, TypeOK, Errors
  <2>2. PendingInv'
    BY <1>0, <1>1, <1>5, <1>9 DEF Finish, ResolveRefFails, Fail, vars, PendingInv, Active
  <2> QED
    BY <1>2, <1>4, <2>1, <2>2 DEF CollectedInv
<1> QED
  BY <1>6, <1>7, <1>8, <1>9

\* Every step of a resolution preserves CollectedInv.
LEMMA NextCollected == CollectedInv /\ [Next]_vars => CollectedInv'
BY ResolveRefCollected, ReuseCollected, OtherCollected DEF Next

--------------------------------------------------------------------------------
(* Depth *)

\* More edges lead to more ends, and an edge from an end leads on to one of the
\* longer chains.
LEMMA ChainsGrow ==
  ASSUME NEW E, NEW F, E \subseteq F, NEW S, NEW n \in Nat
  PROVE  chainEnds(E, S, n) \subseteq chainEnds(F, S, n)
<1> SUFFICES ASSUME NEW q \in chainEnds(E, S, n) PROVE q \in chainEnds(F, S, n)
  OBVIOUS
<1>1. q \in Refs
  BY DEF chainEnds
<1>2. PICK c \in [0 .. n -> Refs] : /\ \E t \in S : c[0] = t.ref
                                    /\ \A i \in 0 .. n - 1 : <<c[i], c[i + 1]>> \in E
                                    /\ c[n] = q
  BY DEF chainEnds
<1>3. \A i \in 0 .. n - 1 : <<c[i], c[i + 1]>> \in F
  BY <1>2
<1> QED
  BY <1>1, <1>2, <1>3 DEF chainEnds

LEMMA ChainExtends ==
  ASSUME NEW E, NEW S, NEW n \in Nat, NEW r \in chainEnds(E, S, n),
         NEW q \in Refs, <<r, q>> \in E
  PROVE  q \in chainEnds(E, S, n + 1)
<1>1. PICK c \in [0 .. n -> Refs] : /\ \E t \in S : c[0] = t.ref
                                    /\ \A i \in 0 .. n - 1 : <<c[i], c[i + 1]>> \in E
                                    /\ c[n] = r
  BY DEF chainEnds
<1> DEFINE e == [i \in 0 .. n + 1 |-> IF i = n + 1 THEN q ELSE c[i]]
<1>2. \A i \in 0 .. n : i \in 0 .. n + 1 /\ i # n + 1 /\ e[i] = c[i]
  OBVIOUS
<1>3. e[n + 1] = q
  OBVIOUS
<1>4. e \in [0 .. n + 1 -> Refs]
  BY <1>1
<1> HIDE DEF e
<1>5. e[0] = c[0]
  BY <1>2
<1>6. ASSUME NEW i \in 0 .. (n + 1) - 1 PROVE <<e[i], e[i + 1]>> \in E
  <2>1. CASE i = n
    <3>1. e[i] = r /\ e[i + 1] = q
      BY <1>1, <1>2, <1>3, <2>1
    <3> QED
      BY <3>1
  <2>2. CASE i # n
    <3>1. i \in 0 .. n - 1 /\ i \in 0 .. n /\ i + 1 \in 0 .. n
      BY <2>2
    <3>2. e[i] = c[i] /\ e[i + 1] = c[i + 1]
      BY <1>2, <3>1
    <3> QED
      BY <1>1, <3>1, <3>2
  <2> QED
    BY <2>1, <2>2
<1> QED
  BY <1>1, <1>3, <1>4, <1>5, <1>6 DEF chainEnds

\* The references of the targets themselves are the ends of chains without edges.
LEMMA ChainBegins ==
  ASSUME NEW E, NEW S, NEW t \in S, t.ref \in Refs
  PROVE  t.ref \in chainEnds(E, S, 0)
<1> DEFINE c == [i \in 0 .. 0 |-> t.ref]
<1>1. c \in [0 .. 0 -> Refs] /\ c[0] = t.ref
  OBVIOUS
<1>2. \A i \in 0 .. 0 - 1 : <<c[i], c[i + 1]>> \in E
  OBVIOUS
<1> HIDE DEF c
<1> QED
  BY <1>1, <1>2 DEF chainEnds

\* A fetch lengthens no chain to what was known before, and what the artifact
\* loads from others is one step further than the artifact.
LEMMA ResolveRefDepth ==
  ASSUME IInv, NEW r \in Refs, NEW c \in Artifacts, ResolveRef(r, c)
  PROVE  DepthInv'
<1> DEFINE Ends(n) == chainEnds(depends, script, n)
           NewEnds(n) == chainEnds(depends', script, n)
<1>1. /\ TypeOK /\ status = "resolve" /\ requested(r) # {}
      /\ loaded[r] = None /\ loaded' = [loaded EXCEPT ![r] = c] /\ script' = script
  BY DEF IInv, CollectedInv, ResolveRef
<1>2. loaded \in [Refs -> Artifacts \cup {None}] /\ depth \in Nat /\ c # None
  BY <1>1, ConstantsOK DEF TypeOK
<1>3. /\ \A t \in level : t.ref \in Ends(depth)
      /\ \A t \in next : t.ref \in Ends(depth + 1)
      /\ \A q \in Refs : loaded[q] # None => \E n \in 0 .. depth : q \in Ends(n)
  BY <1>1 DEF IInv, DepthInv, chained, Active
<1>4. CASE status' \in Errors \ {"depth"}
  BY <1>4 DEF DepthInv, Active, Errors
<1>5. CASE /\ status' = status /\ depth' = depth
           /\ next' = next \cup transitive(r, c)
           /\ level' = level \ requested(r)
  <2>1. depends \subseteq depends'
    <3> SUFFICES ASSUME NEW x \in Refs, NEW y \in Refs, <<x, y>> \in depends
                 PROVE  <<x, y>> \in depends'
      BY DEF depends
    <3>1. x # r
      BY <1>1 DEF depends
    <3>2. loaded'[x] = loaded[x]
      BY <1>1, <1>2, <3>1
    <3> QED
      BY <3>2 DEF depends
  <2>2. \A n \in Nat : Ends(n) \subseteq NewEnds(n)
    BY <2>1, ChainsGrow
  <2>3. \A t \in transitive(r, c) : t.ref \in Refs /\ <<r, t.ref>> \in depends'
    <3>1. TAKE t \in transitive(r, c)
    <3>2. t.ref \in Refs
      BY DEF transitive, scanned, Targets
    <3> QED
      BY <1>1, <1>2, <3>2 DEF depends
  <2> HIDE DEF Ends, NewEnds
  <2>4. r \in NewEnds(depth)
    BY <1>1, <1>2, <1>3, <2>2 DEF requested
  <2>5. \A t \in transitive(r, c) : t.ref \in NewEnds(depth + 1)
    BY <1>2, <2>3, <2>4, ChainExtends DEF NewEnds
  <2>6. \A t \in level' : t.ref \in NewEnds(depth)
    BY <1>2, <1>3, <1>5, <2>2
  <2>7. \A t \in next' : t.ref \in NewEnds(depth + 1)
    <3>1. depth + 1 \in Nat
      BY <1>2
    <3> QED
      BY <1>3, <1>5, <2>2, <2>5, <3>1
  <2>8. ASSUME NEW q \in Refs, loaded'[q] # None
        PROVE  \E n \in 0 .. depth : q \in NewEnds(n)
    <3>1. CASE q = r
      <4>1. depth \in 0 .. depth
        BY <1>2
      <4> QED
        BY <2>4, <3>1, <4>1
    <3>2. CASE q # r
      <4>1. loaded[q] # None
        BY <1>1, <1>2, <2>8, <3>2
      <4>2. PICK n \in 0 .. depth : q \in Ends(n)
        BY <1>3, <4>1
      <4>3. n \in Nat
        BY <1>2
      <4> QED
        BY <2>2, <4>2, <4>3
    <3> QED
      BY <3>1, <3>2
  <2> QED
    BY <1>1, <1>5, <2>6, <2>7, <2>8 DEF DepthInv, chained, NewEnds
<1> QED
  BY <1>4, <1>5 DEF ResolveRef, Fail, Errors

\* Steps that fetch nothing: the scan begins the chains, a deeper call goes on
\* with what is next, and gives up when the chains to it are too long.
LEMMA OtherDepth ==
  ASSUME IInv,
         \/ Scan \/ ScanSkipped \/ ScanFails \/ Deepen \/ Finish \/ UNCHANGED vars
         \/ \E r \in Refs : ResolveRefFails(r) \/ Reuse(r)
  PROVE  DepthInv'
<1> DEFINE Ends(n) == chainEnds(depends, script, n)
<1>1. TypeOK /\ PendingInv
  BY DEF IInv, CollectedInv
<1>2. loaded' = loaded /\ script' = script
  BY DEF Scan, ScanSkipped, ScanFails, Deepen, Finish, ResolveRefFails, Reuse, Fail, vars
<1>3. depth \in Nat
  BY <1>1, ConstantsOK DEF TypeOK
<1>4. depends' = depends
  BY <1>2 DEF depends
<1>5. /\ status = "scan" => depth = 0
      /\ status = "resolve" => /\ \A t \in level : t.ref \in Ends(depth)
                               /\ \A t \in next : t.ref \in Ends(depth + 1)
      /\ Active => \A r \in Refs : loaded[r] # None => \E n \in 0 .. depth : r \in Ends(n)
      /\ status = "depth" => Ends(maxTransitiveDepth + 1) # {}
  BY DEF IInv, DepthInv, chained
<1>6. SUFFICES
        /\ status' = "scan" => depth' = 0
        /\ status' = "resolve" => /\ \A t \in level' : t.ref \in Ends(depth')
                                  /\ \A t \in next' : t.ref \in Ends(depth' + 1)
        /\ Active' => \A r \in Refs : loaded[r] # None => \E n \in 0 .. depth' : r \in Ends(n)
        /\ status' = "depth" => Ends(maxTransitiveDepth + 1) # {}
  BY <1>2, <1>4 DEF DepthInv, chained
<1> HIDE DEF Ends
<1>7. CASE Scan
  <2>1. script \in SUBSET Targets
    BY <1>1, <1>7, ConstantsOK DEF Scan, TypeOK, Sources
  <2>2. \A t \in script : t.ref \in Ends(0)
    BY <2>1, ChainBegins DEF Targets, Ends
  <2>3. /\ depth = 0 /\ depth' = 0 /\ next' = {} /\ level' = script
        /\ status = "scan" /\ status' \in {"done", "resolve"}
    BY <1>1, <1>5, <1>7 DEF Scan, PendingInv
  <2> QED
    BY <1>5, <2>2, <2>3 DEF Active
<1>8. CASE Deepen
  <2>1. status = "resolve" /\ next # {} /\ \A t \in next : t.ref \in Ends(depth + 1)
    BY <1>5, <1>8 DEF Deepen
  <2>2. CASE tooDeep(depth + 1) /\ Fail("depth")
    <3>1. depth + 1 = maxTransitiveDepth + 1
      BY <1>1, <2>2, ConstantsOK DEF TypeOK, tooDeep
    <3> QED
      BY <2>1, <2>2, <3>1 DEF Fail, Active
  <2>3. CASE depth' = depth + 1 /\ level' = next /\ next' = {} /\ status' = status
    <3>1. \A n \in 0 .. depth : n \in 0 .. depth'
      BY <1>3, <2>3
    <3> QED
      BY <1>5, <2>1, <2>3, <3>1 DEF Active
  <2> QED
    BY <1>8, <2>2, <2>3 DEF Deepen
<1>9. CASE \E r \in Refs : Reuse(r)
  <2>1. /\ depth' = depth /\ next' = next /\ level' \subseteq level
        /\ status = "resolve" /\ status' \in {"resolve", "notFound"}
    BY <1>9 DEF Reuse, Fail
  <2> QED
    BY <1>5, <2>1 DEF Active
<1>10. CASE ScanSkipped \/ ScanFails \/ Finish \/ \E r \in Refs : ResolveRefFails(r)
  <2>1. /\ depth' = depth /\ status \in {"scan", "resolve"}
        /\ status' \in {"done", "fatal", "fetchFailed"}
    BY <1>10 DEF ScanSkipped, ScanFails, Finish, ResolveRefFails, Fail
  <2> QED
    BY <1>5, <2>1 DEF Active
<1>11. CASE UNCHANGED vars
  BY <1>5, <1>11 DEF vars, Active
<1> QED
  BY <1>7, <1>8, <1>9, <1>10, <1>11

--------------------------------------------------------------------------------
(* The theorems *)

LEMMA InitIInv == Init => IInv
<1>1. Init => DepthInv
  BY DEF Init, DepthInv, Active
<1> QED
  BY <1>1, InitCollected DEF IInv

\* Every step of a resolution preserves IInv.
LEMMA NextIInv == IInv /\ [Next]_vars => IInv'
<1> SUFFICES ASSUME IInv, [Next]_vars PROVE IInv'
  OBVIOUS
<1>1. CollectedInv'
  BY NextCollected DEF IInv
<1>2. DepthInv'
  BY ResolveRefDepth, OtherDepth DEF Next
<1> QED
  BY <1>1, <1>2 DEF IInv

\* The inductive invariant of a resolution (Resolve and the scan before it)
\* holds for any number of artifacts, files and loads.
THEOREM Inductive == Spec => []IInv
BY InitIInv, NextIInv, PTL DEF Spec

\* What Resolve returns is closed under load: execution never asks for an OCI
\* module that was not resolved, provided the script itself could be scanned.
THEOREM ResultClosed == Spec => []ClosedResult
<1>1. IInv => ClosedResult
  <2> SUFFICES ASSUME IInv, status = "done", script # Unparsable
               PROVE  /\ script \subseteq resolved
                      /\ \A t \in resolved :
                           /\ loaded[t.ref] # None /\ result[t] = loaded[t.ref][t.file]
                           /\ result[t] # Unparsable => result[t] \subseteq resolved
    BY DEF ClosedResult
  <2>1. level = {} /\ next = {} /\ script \subseteq resolved
    BY DEF IInv, CollectedInv, PendingInv
  <2>2. ASSUME NEW t \in resolved
        PROVE  /\ loaded[t.ref] # None /\ result[t] = loaded[t.ref][t.file]
               /\ result[t] # Unparsable => result[t] \subseteq resolved
    <3>1. t \in Targets /\ t.ref \in Refs
      BY DEF resolved, Targets
    <3>2. /\ loaded[t.ref] # None
          /\ t.file \in DOMAIN loaded[t.ref]
          /\ result[t] = loaded[t.ref][t.file]
      BY DEF IInv, CollectedInv, ResultInv
    <3>3. scanned(loaded[t.ref]) \subseteq resolved
      BY <2>1, <3>1, <3>2 DEF IInv, CollectedInv, PendingInv, Active
    <3>4. ASSUME result[t] # Unparsable PROVE result[t] \subseteq resolved
      <4>1. result[t] \in SUBSET Targets
        BY <3>1, <3>4 DEF IInv, CollectedInv, TypeOK, resolved, Sources
      <4>2. result[t] \subseteq scanned(loaded[t.ref])
        BY <3>2, <3>4, <4>1 DEF scanned
      <4> QED
        BY <3>3, <4>2
    <3> QED
      BY <3>2, <3>4
  <2> QED
    BY <2>1, <2>2
<1> QED
  BY <1>1, Inductive, PTL

\* A step that reports a cycle has just fetched an artifact that closes one.
LEMMA CycleIsReal ==
  ASSUME IInv, NEW r \in Refs, NEW c \in Artifacts, ResolveRef(r, c),
         status' = "cycle"
  PROVE  circular'
<1>1. /\ edges = depends /\ edges \in SUBSET (Refs \X Refs)
      /\ loaded \in [Refs -> Artifacts \cup {None}]
      /\ loaded[r] = None /\ loaded' = [loaded EXCEPT ![r] = c]
  BY DEF IInv, CollectedInv, GraphInv, Active, TypeOK, ResolveRef
<1>2. PICK t \in transitive(r, c) : reaches(edges, t.ref, r)
  BY DEF ResolveRef, Fail
<1>3. t.ref \in Refs /\ c # None /\ loaded'[r] = c
  BY <1>1, ConstantsOK DEF transitive, scanned, Targets
<1>4. edges \subseteq depends'
  <2> SUFFICES ASSUME NEW x \in Refs, NEW y \in Refs, <<x, y>> \in depends
               PROVE  <<x, y>> \in depends'
    BY <1>1
  <2>1. x # r
    BY <1>1 DEF depends
  <2>2. loaded'[x] = loaded[x]
    BY <1>1, <2>1
  <2> QED
    BY <2>2 DEF depends
<1>5. <<r, t.ref>> \in depends'
  BY <1>3 DEF depends
<1> QED
  BY <1>1, <1>2, <1>3, <1>4, <1>5, EdgeClosesCycle DEF circular

\* Resolve reports a dependency cycle exactly when an artifact depends on
\* itself, so that diamonds resolve and no cycle is returned as a success.
THEOREM CyclesExact == Spec => []CycleExact
<1>1. Init => CycleExact
  BY InitIInv DEF Init, CycleExact
<1>2. IInv /\ IInv' /\ CycleExact /\ [Next]_vars => CycleExact'
  <2> SUFFICES ASSUME IInv, IInv', CycleExact, [Next]_vars
               PROVE  CycleExact'
    OBVIOUS
  <2>1. status' = "done" => ~circular'
    BY DEF IInv, CollectedInv, GraphInv, Active
  <2>2. ASSUME status' = "cycle" PROVE circular'
    <3>1. CASE \E r \in Refs, c \in Artifacts : ResolveRef(r, c)
      BY <2>2, <3>1, CycleIsReal
    <3>2. CASE UNCHANGED vars
      <4>1. status = "cycle" /\ loaded' = loaded
        BY <2>2, <3>2 DEF vars
      <4> QED
        BY <4>1 DEF CycleExact, circular, depends
    <3>3. CASE \/ Scan \/ ScanSkipped \/ ScanFails \/ Deepen \/ Finish
               \/ \E r \in Refs : ResolveRefFails(r) \/ Reuse(r)
      BY <2>2, <3>3 DEF Scan, ScanSkipped, ScanFails, Deepen, Finish,
                        ResolveRefFails, Reuse, Fail
    <3> QED
      BY <3>1, <3>2, <3>3 DEF Next
  <2> QED
    BY <2>1, <2>2 DEF CycleExact
<1> QED
  BY <1>1, <1>2, Inductive, PTL DEF Spec

\* The depth error is raised only for a chain that is too long, and what Resolve
\* returns is reached by chains within the limit.
THEOREM DepthsExact == Spec => []DepthExact
<1>1. IInv => DepthExact
  <2> SUFFICES ASSUME IInv PROVE DepthExact
    OBVIOUS
  <2>1. depth \in 0 .. maxTransitiveDepth
    BY DEF IInv, CollectedInv, TypeOK
  <2>2. status = "depth" => chained(maxTransitiveDepth + 1) # {}
    BY DEF IInv, DepthInv
  <2>3. ASSUME status = "done", NEW r \in Refs, loaded[r] # None
        PROVE  \E n \in 0 .. maxTransitiveDepth : r \in chained(n)
    <3>1. PICK n \in 0 .. depth : r \in chained(n)
      BY <2>3 DEF IInv, DepthInv, Active
    <3>2. n \in 0 .. maxTransitiveDepth
      BY <2>1, ConstantsOK
    <3> QED
      BY <3>1, <3>2
  <2> QED
    BY <2>2, <2>3 DEF DepthExact
<1> QED
  BY <1>1, Inductive, PTL
================================================================================
