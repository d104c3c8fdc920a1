------------------------------- MODULE OCIResolve -------------------------------
(***************************************************************************)
(* Transitive resolution of the OCI modules of one request: the scan of    *)
(* the script (fn.go, oci/scanner.go) and Resolver.Resolve, which collects *)
(* every file the script's artifacts load before anything is executed      *)
(* (oci/resolver.go).                                                      *)
(*                                                                         *)
(* A target is a file of an artifact under its one canonical URL; a source *)
(* is the set of targets it loads, or Unparsable when the scan gives up on *)
(* it.  A fetch yields any artifact: what a reference names, and how the   *)
(* cache answers, is the subject of OCICache.                              *)
(***************************************************************************)
EXTENDS Integers

CONSTANTS Refs,               \* OCI references
          Files,              \* file names
          Artifacts,          \* what a fetch may yield: files and their sources
          Scripts,            \* sources of the main script and inline modules
          maxTransitiveDepth,
          Unparsable,         \* a source the scanner cannot parse or expand
          NoRegistry,         \* a script whose short-form load lacks a registry
          None

Targets == [ref : Refs, file : Files]
Sources == {Unparsable} \cup SUBSET Targets

ASSUME ConstantsOK ==
  /\ \A c \in Artifacts : /\ DOMAIN c \subseteq Files
                          /\ \A f \in DOMAIN c : c[f] \in Sources
  /\ Scripts \subseteq {NoRegistry} \cup Sources
  /\ maxTransitiveDepth \in Nat
  /\ None \notin Artifacts
  /\ \A s \in Sources : s # None

VARIABLES
  script,  \* the source of the main script and inline modules
  status,  \* "scan", "resolve", "done" or the error returned
  depth,   \* recursion depth of resolveRecursive
  level,   \* targets of this call not yet resolved
  next,    \* transitiveTargets of this call
  loaded,  \* resolveState.loaded
  edges,   \* resolveState.edges
  result   \* the module map returned: target -> source, or None

vars == <<script, status, depth, level, next, loaded, edges, result>>

Errors == {"fatal", "fetchFailed", "notFound", "cycle", "depth"}

TypeOK ==
  /\ script \in Scripts
  /\ status \in {"scan", "resolve", "done"} \cup Errors
  /\ depth \in 0 .. maxTransitiveDepth
  /\ level \subseteq Targets
  /\ next \subseteq Targets
  /\ loaded \in [Refs -> Artifacts \cup {None}]
  /\ edges \subseteq Refs \X Refs
  /\ result \in [Targets -> {None} \cup Sources]

Init ==
  /\ script \in Scripts
  /\ status = "scan"
  /\ depth = 0
  /\ level = {}
  /\ next = {}
  /\ loaded = [r \in Refs |-> None]
  /\ edges = {}
  /\ result = [t \in Targets |-> None]

--------------------------------------------------------------------------------
(* Scanning *)

\* ScanForOCILoads over the files of one artifact: a file that cannot be
\* scanned is skipped.
scanned(c) == {t \in Targets : \E f \in DOMAIN c : c[f] # Unparsable /\ t \in c[f]}

\* Loads of the artifact itself, package-local ones included, and of others.
own(r, c) == {t \in scanned(c) : t.ref = r}
transitive(r, c) == {t \in scanned(c) : t.ref # r}

missing(c, T) == \E t \in T : t.file \notin DOMAIN c

\* Mutant of reaches: looks one edge ahead.
reachesDirect(E, from, to) == from = to \/ <<from, to>> \in E

\* A set that holds "from" and is closed under the edges holds "to".
reaches(E, from, to) ==
  \A S \in SUBSET Refs :
    from \in S /\ (\A e \in E : e[1] \in S => e[2] \in S) => to \in S

--------------------------------------------------------------------------------
(* RunFunction scans the script; errors but a missing registry are left to    *)
(* the execution, which then finds no OCI module at all.                      *)

Scan ==
  /\ status = "scan"
  /\ script \notin {Unparsable, NoRegistry}
  /\ level' = script
  /\ status' = IF script = {} THEN "done" ELSE "resolve"
  /\ UNCHANGED <<script, depth, next, loaded, edges, result>>

ScanSkipped ==
  /\ status = "scan"
  /\ script = Unparsable
  /\ status' = "done"
  /\ UNCHANGED <<script, depth, level, next, loaded, edges, result>>

ScanFails ==
  /\ status = "scan"
  /\ script = NoRegistry
  /\ status' = "fatal"
  /\ UNCHANGED <<script, depth, level, next, loaded, edges, result>>

--------------------------------------------------------------------------------
(* resolveRecursive: one step per reference of a level, and one per call. *)

requested(r) == {t \in level : t.ref = r}

Fail(e) ==
  /\ status' = e
  /\ UNCHANGED <<depth, level, next, edges, result>>

\* The source of every target of T, all in artifact c, goes into the result.
mapFiles(c, T) ==
  result' = [t \in Targets |-> IF t \in T THEN c[t.file] ELSE result[t]]

\* A reference met for the first time is fetched and all its files scanned.
ResolveRef(r, c) ==
  /\ status = "resolve"
  /\ requested(r) # {}
  /\ loaded[r] = None
  /\ loaded' = [loaded EXCEPT ![r] = c]
  /\ \/ missing(c, requested(r)) /\ Fail("notFound")
     \/ /\ ~missing(c, requested(r))
        /\ missing(c, own(r, c))
        /\ Fail("notFound")
     \/ /\ ~missing(c, requested(r))
        /\ \E t \in transitive(r, c) : reaches(edges, t.ref, r)
        /\ Fail("cycle")
     \/ /\ ~missing(c, requested(r) \cup own(r, c))
        /\ \A t \in transitive(r, c) : ~reaches(edges, t.ref, r)
        /\ mapFiles(c, requested(r) \cup own(r, c))
        /\ edges' = edges \cup {<<r, t.ref>> : t \in transitive(r, c)}
        /\ next' = next \cup transitive(r, c)
        /\ level' = level \ requested(r)
        /\ UNCHANGED <<status, depth>>
  /\ UNCHANGED script

\* resolveRef returns an error.
ResolveRefFails(r) ==
  /\ status = "resolve"
  /\ requested(r) # {}
  /\ loaded[r] = None
  /\ Fail("fetchFailed")
  /\ UNCHANGED <<script, loaded>>

\* Mutant of Reuse: an artifact met before needs nothing more.
ReuseSkips(r) ==
  /\ status = "resolve"
  /\ requested(r) # {}
  /\ loaded[r] # None
  /\ level' = level \ requested(r)
  /\ UNCHANGED <<script, status, depth, next, loaded, edges, result>>

\* An artifact met before is reused and not scanned again.
Reuse(r) ==
  /\ status = "resolve"
  /\ requested(r) # {}
  /\ loaded[r] # None
  /\ \/ missing(loaded[r], requested(r)) /\ Fail("notFound")
     \/ /\ ~missing(loaded[r], requested(r))
        /\ mapFiles(loaded[r], requested(r))
        /\ level' = level \ requested(r)
        /\ UNCHANGED <<status, depth, next, edges>>
  /\ UNCHANGED <<script, loaded>>

\* Mutants of tooDeep: off by one either way.
tooDeepEarly(d) == d >= maxTransitiveDepth
tooDeepLate(d) == d > maxTransitiveDepth + 1

tooDeep(d) == d > maxTransitiveDepth

\* The level is resolved: the call for the transitive targets begins.
Deepen ==
  /\ status = "resolve"
  /\ level = {}
  /\ next # {}
  /\ \/ tooDeep(depth + 1) /\ Fail("depth")
     \/ /\ ~tooDeep(depth + 1)
        /\ depth' = depth + 1
        /\ level' = next
        /\ next' = {}
        /\ UNCHANGED <<status, edges, result>>
  /\ UNCHANGED <<script, loaded>>

Finish ==
  /\ status = "resolve"
  /\ level = {}
  /\ next = {}
  /\ status' = "done"
  /\ UNCHANGED <<script, depth, level, next, loaded, edges, result>>

Next ==
  \/ Scan
  \/ ScanSkipped
  \/ ScanFails
  \/ \E r \in Refs : \/ \E c \in Artifacts : ResolveRef(r, c)
                     \/ ResolveRefFails(r)
                     \/ Reuse(r)
  \/ Deepen
  \/ Finish

Spec == Init /\ [][Next]_vars

--------------------------------------------------------------------------------
(* Properties *)

resolved == {t \in Targets : result[t] # None}

\* What Resolve returns is all that execution will ask for: the loads of the
\* script, and of every resolved file, however the references to an artifact
\* are spread over the traversal; and all files of an artifact come from one
\* fetch of it.
ClosedResult ==
  status = "done" /\ script # Unparsable =>
    /\ script \subseteq resolved
    /\ \A t \in resolved :
         /\ loaded[t.ref] # None /\ result[t] = loaded[t.ref][t.file]
         /\ result[t] # Unparsable => result[t] \subseteq resolved

\* The dependencies between the artifacts fetched so far.
depends == {e \in Refs \X Refs :
              /\ loaded[e[1]] # None
              /\ \E t \in transitive(e[1], loaded[e[1]]) : t.ref = e[2]}

\* A non-empty set, each member of which has an edge to another one of it.
hasCycle(E) == \E S \in SUBSET Refs :
  S # {} /\ \A r \in S : \E q \in S : <<r, q>> \in E
circular == hasCycle(depends)

\* A cycle is reported exactly when an artifact depends on itself: diamonds,
\* which reach an artifact along several paths, are never mistaken for one,
\* and no cycle slips through however the levels are ordered.
CycleExact ==
  /\ status = "cycle" => circular
  /\ status = "done" => ~circular

\* The references that chains of n edges of E lead to from the targets in S, and
\* chains of n dependencies from the script.
chainEnds(E, S, n) ==
  {q \in Refs : \E c \in [0 .. n -> Refs] :
     /\ \E t \in S : c[0] = t.ref
     /\ \A i \in 0 .. n - 1 : <<c[i], c[i + 1]>> \in E
     /\ c[n] = q}
chained(n) == chainEnds(depends, script, n)

\* The depth error is raised only for a chain of more than maxTransitiveDepth
\* dependencies, and no artifact is returned that only longer chains reach.
DepthExact ==
  /\ status = "depth" => chained(maxTransitiveDepth + 1) # {}
  /\ status = "done" /\ script # Unparsable =>
       \A r \in Refs : loaded[r] # None =>
         \E n \in 0 .. maxTransitiveDepth : r \in chained(n)

--------------------------------------------------------------------------------
(* The inductive invariant *)

Active == status \in {"scan", "resolve", "done"}

\* What is in the result was taken from the artifact fetched for its reference.
ResultInv ==
  \A t \in resolved : /\ loaded[t.ref] # None
                      /\ t.file \in DOMAIN loaded[t.ref]
                      /\ result[t] = loaded[t.ref][t.file]

\* A load met so far is in the result or still to be resolved, now or in the
\* next call, and nothing is once Resolve is done.
PendingInv ==
  /\ status \in {"resolve", "done"} /\ script # Unparsable
       => script \subseteq resolved \cup level \cup next
  /\ Active => \A r \in Refs : loaded[r] # None
       => scanned(loaded[r]) \subseteq resolved \cup level \cup next
  /\ status \in {"scan", "done"} => level = {} /\ next = {}

\* The edges are the dependencies of the artifacts fetched, without a cycle.
GraphInv == Active => edges = depends /\ ~circular

\* A level is reached by chains as long as it is deep, what is next by chains one
\* longer, and every artifact fetched by a chain no longer than the depth.
DepthInv ==
  /\ status = "scan" => depth = 0
  /\ status = "resolve" => /\ \A t \in level : t.ref \in chained(depth)
                           /\ \A t \in next : t.ref \in chained(depth + 1)
  /\ Active => \A r \in Refs : loaded[r] # None => \E n \in 0 .. depth : r \in chained(n)
  /\ status = "depth" => chained(maxTransitiveDepth + 1) # {}

\* Together: what every reachable state of a resolution satisfies.
CollectedInv == TypeOK /\ ResultInv /\ PendingInv /\ GraphInv
IInv == CollectedInv /\ DepthInv
================================================================================
