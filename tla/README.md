# Verification of function-starlark

TLA+ models of function-starlark, a Crossplane composition function that runs
Starlark scripts, with TLC runs on small instances and TLAPS proofs. Line
references are to the repository at the commit this directory belongs to;
`PROJECT.json` maps every definition to the lines it models.

## The system

A function pod (`main.go`) builds one bytecode cache and one OCI module cache
and serves `RunFunction` (`fn.go`) over gRPC, many requests at a time. A request
carries what Crossplane observed of a composite resource (XR) and of its
composed resources. `RunFunction` resolves the OCI modules the script loads,
executes the script, which calls builtins that fill *collectors* private to the
request, and turns the collectors into a response: desired resources, Usages
that block deletions, readiness, conditions and a TTL. Crossplane applies the
response and calls again, forever.

| Component | State | Operations | Interacts through | Hard behaviour | What makes it correct |
|---|---|---|---|---|---|
| OCI module cache, `resolveRef` (`runtime/oci/cache.go`, `resolver.go`) | tag entries with expiry, content by digest | GetByTag, GetByDigest, PutTag, PutContent; HEAD, fetch, extract | shared by all requests, under a mutex per call; registry | interleaved requests, moving tags, failing registry calls, restarts, TTL edges | coherent content; exact pins; bounded staleness; the cache catches up |
| OCI artifact graph (`resolveRecursive`) | artifacts loaded, edges | one level of targets at a time | `resolveRef`, scanner | cycles, diamonds, depth limit | the result is closed under load; rejects exactly cycles |
| Module loader (`runtime/loader.go`) | module cache with a nil "loading" mark | load, star imports | runtime, OCI modules | cycles, failed loads, double execution | ends; fails exactly on cycles and broken modules; one `load` execution per module |
| Starlark runtime (`runtime/runtime.go`) | programs by content hash; memo of files without star imports | Execute, getOrCompile | shared by all requests, under a lock per access | check, compile, store race; files that change | a request gets what compiling and running afresh gives |
| Collector (`builtins/collector.go`) | resources, skips, gating skips, dependencies, override | Resource, skip_resource, set_composite_ready, RemoveResources | script; `RunFunction` | any order of calls, repeated names | refs lead to resources; what is missing gates readiness |
| Sequencer (`builtins/sequencer.go`) | none | Evaluate | collector, snapshot | stale snapshots, wrapped manifests, truthiness of fields | creation order; never withdraws |
| Usages (`builtins/usage.go`) | none (re-derived; the cluster holds them) | BuildUsageResources | snapshot | a side of a pair unready or gone | a Usage stays and keeps its scope |
| Dependency validation (`builtins/usage.go`) | DFS colours | ValidateDependencies | collector | cycles through strings and gates | rejects exactly circular scripts |
| RunFunction (`fn.go`, `builtins/builtins.go`) | the response | order of the steps above | all of them, Crossplane | lost or partly applied responses, failures midway | readiness and condition match what is missing; the XR converges |
| Conditions, events, requirements, context, connection details, TTL (`builtins/`) | append-only or last-wins collectors | one builtin each | script, response, Crossplane's next call | failure or `fatal()` midway, names shared by two requirements, integer width | nothing of earlier functions or of a finished script is lost; a fatal response keeps its diagnostics; handles read what they asked for; TTLs are exact |
| Lazy dicts, schemas, mutable structs, dict helpers (`convert/`, `schema/`, `builtins/`) | per-request values | get, set, merge, freeze, convert, compact | script, `Resource` | aliasing, freezing before conversion, failing conversion | frozen data never changes; SchemaDicts conform; a body is emitted as it stands but for None, or is refused |

The hazards this leads to are listed, each at its line, in `PROJECT.json`.

## Modules

- `ModuleStore` – what the module resolver promises to its callers, without a cache.
- `OCICache` – the cache and `resolveRef`, by any number of concurrent requests.
  `tags` and `contents` are the fields of `Cache`; `pc`, `ref`, `held`, `digest`,
  `got` are a request's position and locals in `resolveRef`. Cache methods are
  atomic (each holds the mutex throughout), and a registry call is a step at the
  moment the registry answers; everything else a request does is local. `gone`,
  `published` and `window` are history for the properties. Time is in ticks, an
  entry's expiry is the number of ticks it has left.
- `Sequencer`, `Usage`, `DependencyGraph` – the pure decisions, as operators over
  a snapshot. Bodies are reduced to what the code reads of them.
- `DependencySearch` – the three-colour DFS of `ValidateDependencies`, against
  `DependencyGraph!Circular`. `stack` is the Go call stack of `dfs`, `at` where the
  loop of each call has come to, `path` the slice the walk back along `parent`
  collects; one step is one iteration of a loop, one call or one return.
- `Collector` – the builtins that compose resources, as actions on the collector's
  maps.
- `Script` – any sequence of collector calls and of `get_manifest`, whose cached
  views are `manifests`.
- `Outputs` – the other collectors: the desired XR, context, connection details,
  conditions and events, requirements, and `set_response_ttl` with the width of
  its integers. A value is told apart by where it comes from.
- `ScriptRun` – `RunFunction` around an arbitrary script: the calls of `Script` and
  `Outputs` in any order, the ways a script and the assembly of the response may
  end (`ScriptFails`, `CallsFatal`, `Finish`), the response, and the next call, which
  delivers the required resources (`CallAgain`). Which resources are deferred is
  any choice the sequencer might make; `Reconcile` has the exact one.
- `Reconcile` – the loop: Crossplane's snapshot (`Observe`), the script's calls
  (`Call`, `Decide`), `RunFunction`'s end (`Finish`, `FinishFails`,
  `ScriptFails`), Crossplane's application of the answer (`Apply`, `Discard`),
  and the cluster changing underneath (`Heal`, `Degrade`, `Lose`, `Toggle`).
  The script is a constant: an order of names, the `depends_on` and `When` of
  each. Crossplane is external and modelled by what `fn.go` relies on: it
  reconciles an XR one request at a time, creates what is desired and missing,
  deletes what it observed and is not desired unless a Usage protects it, keeps
  conditions a response does not mention, and drops a fatal response whole.
- `OCIResolve` – the scan for OCI loads in `RunFunction` and the traversal of the
  artifact graph, `Resolver.Resolve`. `level`, `next` and `depth` are the
  arguments of the current call of `resolveRecursive`; `loaded` and `edges` are
  `resolveState`; one step handles one reference of a level. A fetch may yield
  any artifact, which covers whatever `OCICache` answers; the traversal itself is
  private to a request, so nothing interleaves with it.
- `ModuleLoader` – `load`, `ResolveStarImports` and `getModuleExports` as one
  machine over the Go call stack, for one request's script and modules. `cache`
  and `expanding` are the fields of `ModuleLoader`. A file is its load statements
  and whether it is sound, empty, failing, unparsable or missing.
- `ScriptText` – files as the runtime sees them: what they load, use and export.
- `ScriptEvaluation` – what the runtime promises a request, without caches: the
  script it names is expanded, compiled and run afresh, with the library read
  once for each of the two phases.
- `ProgramCache` – `getOrCompile`, `Execute` and the star-import memo, by concurrent
  requests. `programs` and `noStar` are shared; a lock acquisition is a
  step, compilation lies between two of them, and the library file changes at
  any moment.
- `Containers` – dicts, StarlarkDicts, SchemaDicts and mutable_structs as
  containers with entries, a frozen bit, a schema and a state of lazy
  conversion; freezing, validation, conversion and compaction as operators.
- `ScriptValues` – every operation of a script on a heap of containers. A body of the
  request whose conversion fails reads as an empty dict, as in the code; `BadBody` is
  what its protobuf struct really holds, so that what is lost of it can be told.
- `MC...` – instances for TLC.
- `OCICacheProof`, `ReconcileProof`, `OCIResolveProof`, `ModuleLoaderProof`,
  `ProgramCacheProof`, `ScriptValuesProof`, `ScriptRunProof`,
  `DependencySearchProof` – theorems.

These follow a request: what a reference yields (`OCICache`), which references a
script pulls in (`OCIResolve`), how files become programs (`ProgramCache`) and
modules are executed (`ModuleLoader`), what the script does with values
(`ScriptValues`) and collectors (`ScriptRun`), and what the cluster makes of the
response over many requests (`Reconcile`). `ScriptRun` extends `Script` and
`Outputs`; `Script` and `Reconcile` share `Collector` and `DependencyGraph`;
`Reconcile` adds `Sequencer` and `Usage`.

Definitions whose comment says *Mutant of* are plausible bugs of the definition
that follows; each property is known to fail when one of them takes its place.

## Runs

| Run | What it shows | Bounds |
|---|---|---|
| `oci_always` | coherence, staleness bound, refinement of `ModuleStore`; the cache catches up with the registry | 2 requests, 1 tag, 2 artifacts, TTL 1, latency 1, 2 tag moves |
| `oci_ifnotpresent` | exact pins; each change of a cached tag uses up a request that missed before it was cached; the inductive invariant | 2 requests, a tag and a pin, 2 artifacts and 1 rejected, 2 moves; no time, as expiry is not looked at |
| `oci_resolve` | the module map is closed under load; cycle and depth errors are exact; the inductive invariant | 4 references, 2 file names, every artifact whose files make at most one load each, depth limit 2 |
| `module_loader` | execution ends, with success exactly for sound and acyclic programs; one `load` execution per module; the inductive invariant, by which no mark is left behind | a script and 3 modules with up to 2, 1 and 1 loads, plain or star; at most one file not sound |
| `program_cache` | the caches are invisible (refinement of `ScriptEvaluation`); the inductive invariant | 2 requests, 2 file names, a script with a star import and one that fails, a library that loses its name and gets it back |
| `script_calls` | refs never dangle, what is missing gates, `get_manifest` is current; no run loses what others or the script asked for; handles and TTLs of non-negative seconds are exact | every script of up to 3 calls over 2 names, depends_on of at most 1 item, 2 rounds, 2 objects in 2 API versions; integers of 5 bits with 3 units to the second |
| `values` | frozen data never changes, SchemaDicts conform, bodies are emitted as they stand but for None, and unconvertible dicts are lost only next to a None; the inductive invariant | 3 containers, one of them the request's, 2 keys, a string and an integer that has no protobuf form, a schema inside a schema; compaction depth 1 (32 in the code) |
| `dependency_search` | the DFS returns, decides circularity and reports a real cycle | every list of up to 4 dependencies among 4 names, one of them the empty string, which the parent map also answers for a missing entry |
| `reconcile_chain` | creation order, no withdrawal, Usages stay and keep their scope, circular responses are never applied | a -> b -> c by name and by field, three scopes; d depends on itself when its optional gate is open |
| `reconcile_skip` | transitive skips, wrapped manifests, keep_if_exists, overrides, readiness and condition, convergence; the inductive invariant | a gated, b optional, kept once it exists, depending on a twice; every `set_composite_ready` call |

Two requests are enough for the cache's races: every race is one request's write
between two steps of another. One tag move lets two requests hold different
artifacts, a second lets a tag return to an older one. Two names let a script
repeat each of them, with a second to depend on; three make a chain in which the
middle is both dependent and dependency. Four artifacts and a depth limit of two
allow a diamond, cycles of up to three artifacts and a chain that is just too
long; three modules allow a cycle of star and plain imports next to the module
that leads into it. Two texts under two file names let a program of one file
meet the cache entry of the other, and a library that changes twice lets an
expansion that was cached become wrong and right again. Three containers allow
one inside another inside a third, with the request's at either end, and a cycle;
at depth 1 compaction both succeeds and gives up. With 5-bit integers 5 seconds
are the most that fit, 11 and -6 wrap to positive durations, as their
counterparts of 64 bits do. In the reconcile runs nothing but the
script's length is bounded: mishaps may go on for ever.

Two runs show where the code does something other than its documentation says
(`findings` in `PROJECT.json` quotes the lines):

- `oci_zero_ttl`: with TTL 0 `PullAlways` never revalidates.
- `reconcile_keep`: `keep_if_exists` keeps a resource and drops its Usage.

Four more disagreements are behaviour of the models too; a property of a passing run
says how far the code keeps what it promises, and leaves the rest open:

- `cache.go:20` has a tag cached "forever for the process lifetime" under
  `IfNotPresent`, and `docs/oci-module-distribution.md:632` has every later
  reconciliation reuse the copy. Of two requests that both miss a tag, the one that
  writes last (`resolver.go:330`) replaces the digest of the other, an older one
  perhaps. `ReplacedByRacersOnly` says that nothing else does.
- `docs/builtins-reference.md:480` and `docs/features.md:204` have `skip_resource`
  remove a resource an earlier function of the pipeline added. It only records the
  skip (`collector.go:495`), and `ApplyResources` (`builtins.go:443`) only adds, so
  the resource stays. `PriorKept` demands that resources stay of all others.
- `docs/builtins-reference.md:1643-1649` has a negative TTL rejected. `ttl.go:65`
  checks the upper bound only, and seconds so negative that their nanoseconds wrap
  to a positive number are accepted (-6 in the instance of `script_calls` becomes 14
  units). `TTLHonoured` is about seconds that are not negative.
- `convert.go:219-221` has a failed lazy conversion surface instead of the body being
  dropped. `compactDict` reads through `dict.go:83`, to which such a dict is empty; when
  it rebuilds the dict around it, `{}` is emitted and no error raised. `EmittedExact`
  says that this is all that can be lost, and only from a body with a None in it.

Met on the way, and not in the models or not told apart by a property:

- `docs/oci-module-distribution.md:656` has last-known-good content served while
  the registry is down; `resolver.go:316` returns the error when a layer, not the
  manifest, cannot be fetched.
- `convert.go:66-70` has numbers at the bounds of int64 become floats because the
  test for imprecise numbers comes first; it comes second, and they are errors.
- `docs/builtins-reference.md:1337-1338` has the sum of mutable_structs validated;
  `mutable_struct.go:253` copies the left fields as they are, also when only the
  right operand has the schema. `pop` and `clear` (`schema_dict.go:269`) drop
  required fields. `SchemaConforms` is stated for what a SchemaDict holds.
- The derived names of requirements (`refs.go:127`) lack the API version, so two
  versions of one object share a handle's data. `HandleExact` excuses these.
- `docs/builtins-reference.md:364` has every required skip gate; `recordSkip`
  (`collector.go:334`) returns early for a name already skipped as optional.
  `MissingGates` excuses such names.
- A skip after an emission of the same name does not withdraw it,
  although `collector.go:206` has "last-wins semantics" for duplicate names.
- `docs/library-authoring.md:250-251` has module globals cached across
  reconciliations; the loader and its cache are made anew for each one.
- `dedup` (`scanner.go:101`) drops a second spelling of a target, which the
  result, keyed by URL, then lacks. The model gives a target one spelling.
- `docs/features.md:47` has one Warning event per deferred resource,
  `sequencer.go:94-105` emits one for all; `docs/builtins-reference.md:373` has
  Warning events for optional skips, `collector.go:348-350` emits Normal ones.

### Fairness

`OCICache!Fairness`: Go schedules every goroutine (weak fairness of a request's
next step); time passes; Crossplane reconciles every composite again, so each
reference is asked for again and again; and a registry that is called repeatedly
answers sometimes (strong fairness of `Fetch` and `Extract`). `Restart` and tag
moves get none.

`Reconcile!Fairness`: Crossplane reconciles again (it requeues on errors and
polls otherwise), `RunFunction` returns, and a provider that keeps being asked
eventually brings a resource up (strong, since the model pauses the cluster
while the function runs). `Converges` is about the time after `CalmDown`, from
where no response is lost and no resource degrades. From there the script also
calls no `set_composite_ready`, as an override may hold the XR back for as long as
the script wants.

`ModuleLoader!FairSpec`, `DependencySearch!Spec`: the code is sequential and goes on
until it returns.

## Proofs

`OCICacheProof`, from `ConstantsOK`, for any number of requests, references and
artifacts, both policies and any TTL. The invariant `OCICache!IInv` adds to
coherence: `RequestInv` (what a request holds belongs to its reference, was
current during the request, and agrees with what it is about to write),
`TagsPublished`, `RegistryInv`, and `AgeInv`, the arithmetic behind staleness: a
digest read from the registry has been gone no longer than the request has run,
and from its write on an entry loses a tick for every tick its digest is gone,
so `gone + left <= TTL + MaxLatency`. From it: `Coherence`, `Staleness` (TTL
positive; `oci_zero_ttl` is why), `PinsHold`, `TagsKept`, and `Refinement`, which
shows each step to be a step of `ModuleStore` or invisible. `TagsKept` needs one
fact more, `NoRevalidation`: under `IfNotPresent` no request ever holds an entry it
is about to revalidate, so every write of a tag is one by a request that missed. By
coherence a lookup of a cached tag always hits, so while a tag is cached the
requests that may still write it (`Racing`) only become fewer, one by each write.

`ReconcileProof`, from `ScriptOK`, for every script that calls each name at most
once, every set of bodies and namespaces. `Reconcile!IInv` says that each call
made has left exactly one trace in the collector and an emitted resource all its
dependencies (`ScriptInv`), that the pending response is what `RunFunction`
computes from its request (`ResponseInv`), and that every Usage has the scope of
a pair with both sides present (`ScopeInv`, needed because the scope is
re-derived from whatever is observed). From it: `OrderHolds`,
`NothingWithdrawn`, `ReadyIsComplete`, `ConditionHolds`, `ScopesStable`,
`UsagesStay` (scripts without `keep_if_exists`; `reconcile_keep` is why) and
`CyclesRejected`.

`OCIResolveProof`, from `ConstantsOK`, for any references, artifacts, scripts and
depth limit. `OCIResolve!IInv` says that what is in the result was taken from the
artifact fetched for its reference (`ResultInv`), that every load met so far is
resolved or pending (`PendingInv`), that the edges are exactly the
dependencies of the artifacts fetched and form no cycle (`GraphInv`), and that
chains of dependencies as long as the depth lead to the current level
(`DepthInv`). The graph facts need no induction: a cycle is a set each member of
which leads to another member, reachability is membership in every closed set, a
chain is a function on `0 .. n`. Edges added from an
artifact without any, to artifacts that do not lead back, then close no cycle
(`EdgesKeepAcyclic`), and one that leads back does (`EdgeClosesCycle`); a chain
stays one when edges are added, and is one longer with an edge at its end
(`ChainExtends`). From it: `ResultClosed`, `CyclesExact` and `DepthsExact`.

`ModuleLoaderProof`, from `ScriptIsNoModule` and `ProgramsOK`, for any program.
`ModuleLoader!IInv` says that a "loading" mark belongs to a frame of the stack
(`Settled`), that the stack is a path of loads from the script (`StackInv`), that
executions are counted once per cache entry (`CountInv`), that an error has a
cause in the program (`ErrorInv`), and that what has been executed loads only
what has been executed before it (`ProgressInv`). The last is stated with a set of
completed modules, which makes it a witness that a program executed to its end
has no cycle, without induction on the program. From it: `OutcomesExact`,
`ModulesLoadedOnce` and `MarksSettled`.

`ProgramCacheProof`, from `StarIsNoName`, `TextsOK` and `NoneIsNew`, for any
requests, files, scripts and libraries. `ProgramCache!IInv` says that a cached
program is the one of its key (`CacheExact`), that the memo names only texts
without star imports (`MemoExact`), and that what a request holds follows from
its job and what it has read of the library (`RequestInv`). From it: `Refinement`,
by which no request can tell the caches from compiling afresh.

`ScriptValuesProof`, from `KeysOK`, `Distinct`, `SchemasOK` (the schema of a field
has no fields with schemas), `RequestOK` and `DepthOK`, for any heap, keys and
schemas. `ScriptValues!IInv` says that entries lead to allocated containers
and that what cannot be converted is frozen and reads as empty (`Allocated`), that everything below a frozen container is frozen, or will be
when it is converted (`DeepFrozen`), and that what a SchemaDict holds passes its
schema (`SchemaConforms`). From it: `FrozenNeverChanges`. `BodiesExact` is about
three recursive functions: what is found at a path (`found`), which containers
compaction changes at a depth (`compactChanges`), and where the result holds what
it built (`compacted`). Each is described without recursion (a walk along the path,
a chain of containers to one that holds None, a condition on every prefix of the
path), which shows that it exists and satisfies its equation (`FoundEquation`,
`ChangesEquation`, `CompactedEquation`); a least counterexample (`Least`, from the
library's `WFMin`) replaces induction. A None then makes every container on the way
to it change, and a container that changes is rebuilt together with all those above
it (`ChangedRebuilt`): no None stays, and nothing else goes (`BodyExact`, of every
heap that is well typed). For the content of a dict that cannot be converted: the
deepest container compaction changes holds a None (`ChangedByNone`), and a root
that does not change is left alone with all that is in it (`RebuiltOnChange`), so in
a body without None the conversion meets the dict and `Resource` refuses the body.

`ScriptRunProof`, from `ScriptBounds`, `RunBounds`, `PriorsOK`, `OutputNames` and
`DurationsOK`, for scripts of any length over any names and keys, any number of
rounds, and integers of any width. `ScriptRun!IInv` says that the script holds refs
to resources only and that a name it called is a resource, gates, or was excused
(`CollectedInv`), that every handle has a requirement, every requirement the handle
of the call that made it, and every delivery answers what was required
(`RequirementInv`), that the duration stored is the one computed from the seconds
last accepted (`TTLInv`), and that the response, once there
is one, is what one of the three ways to end computes from the collectors
(`ResponseInv`). `RefTargetsExist` and `ManifestCurrent` are part of it as they
stand. From it: `RefsLead`, `ManifestsCurrent`, `MissingAlwaysGates`,
`PriorAlwaysKept`, `NothingEverLost`, `HandlesExact` and `TTLsHonoured`; the last
rests on the lemma that seconds which pass the check of their upper bound and are
not negative do not wrap.

`DependencySearchProof`, from `NodesOK` and `MaxDepsOK`, for any names and any list
of dependencies. `DependencySearch!IInv` says that the gray nodes are the calls on
the stack, each made for the dependency its caller has come to (`StackInv`), that
the neighbours a call has passed are black but for the one it waits for
(`PassedInv`), that black nodes lead to black nodes only and no set of them holds a
cycle (`BlackInv`), that the walk back retraces the stack towards a neighbour still
ahead of it (`WalkInv`), and that without an error all names are black
(`DoneInv`). A node turns black when all it leads to is black, so a set it would
close a cycle in must have had one before: again no induction on paths. From it:
`CyclesFound` and `CyclesReported`.

The inductive invariants of `ScriptRun` and `DependencySearch` were model-checked
on the instances of their runs before they were proved; the runs check what follows
from them.

Every invariant and action property of the runs is stated by a theorem. Only
model-checked: liveness (`CatchesUp`, `Converges`, `Terminates`, `Returns`), which
needs fairness and is out of the prover's reach.

## Not modelled

Wrappers of library functions (encoding, crypto, regex, YAML), metrics, the test
runner, input types and generated code have no behaviour of their own to check.
Parsing of the input, of credentials, of duration strings and of references is
left to its result. Of values: lists, `deep_merge`, `dict.compact` and the path
accessors, insertion order, defaults that are containers (shared by reference,
`schema.go:107`), and the conversion of a desired XR or a context that the script
has made cyclic, which recurses without a limit (`convert.go:218`); bodies go
through compaction, whose limit is modelled. Of resources: labels, external names and connection details. Hash
collisions of Usage names and cache keys are not modelled. Texts of events,
conditions and errors are left out.

## Plan

Done, in order of importance: the shared cache, the reconcile loop with its
collector, sequencer and Usages, the artifact graph, the module loader with its
proof, the runtime's caches and their refinement, the collectors and responses of
an arbitrary script with its requirements, the values scripts work on. Left:

1. Lists, and defaults that are containers, in `Containers`.
2. `deep_merge` and the path accessors against a reference definition over nested
   values of bounded depth.
