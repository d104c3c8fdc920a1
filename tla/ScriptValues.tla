------------------------------ MODULE ScriptValues ------------------------------
(***************************************************************************)
(* A script at work on containers: it builds dicts, SchemaDicts and        *)
(* mutable_structs, puts them into each other, reads lazily converted      *)
(* request data, and passes dicts to Resource() as bodies.  Data is frozen *)
(* when it is the request's, or exported by a module that has been loaded. *)
(* An operation that fails ends the script.                                *)
(***************************************************************************)
EXTENDS Containers

CONSTANTS Requested,      \* the containers of the request (observed bodies)
          Bodies,         \* what the bodies of the request may hold
          BadBody,        \* what a body holds whose conversion fails
          maxMergeDepth   \* the depth limit of compaction and deep_merge

ASSUME RequestOK == /\ Requested \subseteq Objs
                    /\ Bodies \cup {BadBody} \subseteq [Keys -> Atoms \cup {None, Absent}]
ASSUME DepthOK == maxMergeDepth \in Nat

VARIABLES heap,    \* heap[o]: the container o
          status   \* whether the script is still running

vars == <<heap, status>>

TypeOK == /\ heap \in [Objs -> Containers]
          /\ status \in {"running", "failed"}

\* The bodies of the request: converted when first read, and frozen.  When the
\* conversion fails, which it does on a number out of range, BadBody is what the
\* protobuf struct holds, and an empty dict is what a script sees of it.
requestBody(e, l) == [container("star", e, None) EXCEPT !.frozen = TRUE, !.lazy = l]
RequestBodies == {requestBody(e, "pending") : e \in Bodies} \cup {requestBody(noEntries, "bad")}
free == container("free", noEntries, None)

Init ==
  /\ heap \in [Objs -> {free} \cup RequestBodies]
  /\ \A o \in Objs : heap[o] = free <=> o \notin Requested
  /\ status = "running"

\* An operation: the heap it leaves, or the failure of the script.
Do(ok, h) ==
  /\ status = "running"
  /\ IF ok THEN heap' = h /\ UNCHANGED status
     ELSE status' = "failed" /\ UNCHANGED heap

--------------------------------------------------------------------------------
(* Constructors *)

\* A dict literal, filled by assignments.
MakeDict(o) == Do(TRUE, [heap EXCEPT ![o] = container("dict", noEntries, None)])

\* A StarlarkDict of the script's own: the desired XR, the context.
MakeStarlarkDict(o) == Do(TRUE, [heap EXCEPT ![o] = container("star", noEntries, None)])

\* A call of a schema, and of mutable_struct with and without one.
Validated(kind, o, n, s, e) ==
  /\ needsNested(heap, s, e) => n # Absent
  /\ Do(validFields(heap, s, e),
        [withNested(heap, s, e, n) EXCEPT ![o] = container(kind, storedFields(heap, s, e, n), s)])

CallSchema(o, n, s, e) == Validated("schema", o, n, s, e)
MakeMutableStruct(o, n, s, e) == Validated("struct", o, n, s, e)
MakePlainStruct(o, e) == Do(TRUE, [heap EXCEPT ![o] = container("struct", e, None)])

--------------------------------------------------------------------------------
(* Assignments and methods *)

put(h, o, k, v) == [h EXCEPT ![o].entries[k] = v]

\* A frozen dict refuses to be changed.
setsUnfrozen(h, o) == ~h[o].frozen

\* SetKey and SetField of a plain dict or a StarlarkDict, which is converted first.
SetPlain(o, k, v) ==
  /\ heap[o].kind \in {"dict", "star"}
  /\ Do(setsUnfrozen(heap, o), put(ensure(heap, o), o, k, v))

\* The heap after ValidateMutation: a lazy dict it reads is converted, and the
\* new SchemaDict is there.
afterMutation(s, k, v, n) ==
  IF mutationNeedsNested(heap, s, k, v)
  THEN [ensure(heap, v) EXCEPT ![n] = nested(heap, descriptor[s][k], v)]
  ELSE heap

\* SetKey and SetField of a SchemaDict or of a mutable_struct with a schema.  To
\* delete a key of a frozen SchemaDict does nothing; of a struct, it fails.
SetValidated(o, n, k, v) ==
  LET s == heap[o].schema
      w == storedValue(heap, s, k, v, n)
  IN  /\ s # None
      /\ mutationNeedsNested(heap, s, k, v) => n # Absent
      /\ IF validMutation(heap, s, k, v) /\ w = Absent /\ heap[o].kind = "schema" /\ heap[o].frozen
         THEN Do(TRUE, heap)
         ELSE Do(validMutation(heap, s, k, v) /\ setsUnfrozen(heap, o),
                 put(afterMutation(s, k, v, n), o, k, w))

\* SetField of a mutable_struct without a schema.
SetStruct(o, k, v) ==
  /\ heap[o].kind = "struct" /\ heap[o].schema = None
  /\ Do(setsUnfrozen(heap, o), put(heap, o, k, v))

\* pop (with a default) and clear validate nothing; a struct has neither.
Pop(o, k) ==
  /\ heap[o].kind \in dictKinds
  /\ Do(setsUnfrozen(heap, o), put(ensure(heap, o), o, k, Absent))

Clear(o) ==
  /\ heap[o].kind \in dictKinds
  /\ Do(setsUnfrozen(heap, o), [ensure(heap, o) EXCEPT ![o].entries = noEntries])

\* The entries of left, overwritten by those of right.
overwritten(left, right) == [k \in Keys |-> IF right[k] = Absent THEN left[k] ELSE right[k]]

\* update of a StarlarkDict by a dict; the argument's conversion error is not
\* seen.
Update(o, p) ==
  /\ heap[o].kind = "star"
  /\ Do(/\ heap[p].kind \in {"dict", "star"}
        /\ heap[p].entries # noEntries => setsUnfrozen(heap, o),
        [ensure(ensure(heap, p), o) EXCEPT
           ![o].entries = overwritten(heap[o].entries, heap[p].entries)])

\* update of a SchemaDict: every entry is assigned as SetKey assigns it.
UpdateSchema(o, n, p) ==
  LET s == heap[o].schema
      given == heap[p].entries
      assigned(k) == given[k] # Absent
      nests(k) == assigned(k) /\ mutationNeedsNested(heap, s, k, given[k])
      stored(k) == storedValue(heap, s, k, given[k], n)
      k0 == CHOOSE k \in Keys : nests(k)
      h == IF \E k \in Keys : nests(k) THEN afterMutation(s, k0, given[k0], n) ELSE heap
  IN  /\ heap[o].kind = "schema"
      /\ (\E k \in Keys : nests(k)) => n # Absent
      /\ Do(/\ heap[p].kind \in {"dict", "schema"}
            /\ \A k \in Keys : assigned(k) =>
                 /\ validMutation(heap, s, k, given[k])
                 /\ stored(k) # Absent => setsUnfrozen(heap, o),
            IF heap[o].frozen THEN heap
            ELSE [h EXCEPT ![o].entries =
                    [k \in Keys |-> IF assigned(k) THEN stored(k) ELSE entry(heap, o, k)]])

\* set_xr_status with a path of two keys, in the desired XR o: what is not a dict
\* on the way is overwritten with a new StarlarkDict, unless the value is None.
\* With a dict on the way it is an assignment to that dict.
SetXRStatus(o, n, j, k, v) ==
  /\ heap[o].kind = "star"
  /\ n # Absent
  /\ ~(entry(heap, o, j) \in Objs /\ heap[entry(heap, o, j)].kind \in dictKinds)
  /\ Do(v # None => ~unconvertible(heap, o) /\ setsUnfrozen(heap, o),
        IF v = None THEN heap
        ELSE [put(ensure(heap, o), o, j, n) EXCEPT
                ![n] = container("star", [noEntries EXCEPT ![k] = v], None)])

\* setdefault of a key that is there; otherwise it is an assignment.
SetDefaultFound(o, k) ==
  /\ heap[o].kind \in dictKinds
  /\ has(heap, o, k)
  /\ Do(TRUE, ensure(heap, o))

\* Attribute and key access, get, keys, values, items: a lazy dict is converted,
\* and the error surfaces.
Read(o) ==
  /\ heap[o].kind = "star"
  /\ Do(~unconvertible(heap, o), ensure(heap, o))

\* len(), iteration and the dict helpers read it as empty.
ReadQuietly(o) ==
  /\ heap[o].kind = "star"
  /\ Do(TRUE, ensure(heap, o))

\* The globals of a module are frozen once it has been loaded.
Freeze(o) == heap[o].kind # "free" /\ Do(TRUE, freeze(heap, o))

--------------------------------------------------------------------------------
(* New containers from old ones *)

\* The + of two mutable_structs: the left fields are copied as they are, the right
\* ones validated when either struct has a schema.
Plus(o, n, l, r) ==
  LET s == IF heap[l].schema # None THEN heap[l].schema ELSE heap[r].schema
      right == heap[r].entries
      assigned(k) == right[k] # Absent
      nests(k) == s # None /\ assigned(k) /\ mutationNeedsNested(heap, s, k, right[k])
      k0 == CHOOSE k \in Keys : nests(k)
      h == IF \E k \in Keys : nests(k) THEN afterMutation(s, k0, right[k0], n) ELSE heap
      merged == [k \in Keys |->
                   IF ~assigned(k) THEN heap[l].entries[k]
                   ELSE IF s = None THEN right[k] ELSE storedValue(heap, s, k, right[k], n)]
  IN  /\ heap[l].kind = "struct" /\ heap[r].kind = "struct"
      /\ (\E k \in Keys : nests(k)) => n # Absent
      /\ Do(/\ heap[l].schema = None \/ heap[r].schema = None \/ heap[l].schema = heap[r].schema
            /\ s # None => \A k \in Keys : assigned(k) => validMutation(heap, s, k, right[k]),
            [h EXCEPT ![o] = container("struct", merged, s)])

\* dict.merge, dict.pick and dict.omit: a new plain dict that shares its values
\* with the arguments.
DictMerge(o, p, q) ==
  Do(TRUE, [ensure(ensure(heap, p), q) EXCEPT
              ![o] = container("dict", overwritten(heap[p].entries, heap[q].entries), None)])

restrictedTo(e, S) == [k \in Keys |-> IF k \in S THEN e[k] ELSE Absent]

\* dict.pick reads key by key: without keys it does not read at all.
DictPick(o, p, S) ==
  Do(S # {} => ~unconvertible(heap, p),
     [(IF S = {} THEN heap ELSE ensure(heap, p)) EXCEPT
        ![o] = container("dict", restrictedTo(heap[p].entries, S), None)])

DictOmit(o, p, S) ==
  Do(TRUE, [ensure(heap, p) EXCEPT
              ![o] = container("dict", restrictedTo(heap[p].entries, Keys \ S), None)])

--------------------------------------------------------------------------------
(* Bodies: compaction, then conversion to a protobuf struct *)

\* The places in a body, as far down as compaction looks.
Paths == UNION {[1 .. n -> Keys] : n \in 0 .. maxMergeDepth + 1}
front(p) == SubSeq(p, 1, Len(p) - 1)
last(p) == p[Len(p)]

\* What is found in the container root at every path.
found(h, root) ==
  LET at[p \in Paths] ==
        IF p = <<>> THEN root
        ELSE IF at[front(p)] \in Objs THEN entry(h, at[front(p)], last(p)) ELSE Absent
  IN  at

\* Mutant of compactChanges: changes further down go unnoticed.
compactChangesTop(h) ==
  [d \in 0 .. maxMergeDepth + 1 |-> {o \in Objs : \E k \in Keys : entry(h, o, k) = None}]

\* The containers that compactValue changes when it meets them at depth d: an
\* entry is None, or is changed itself.
compactChanges(h) ==
  LET ch[d \in 0 .. maxMergeDepth + 1] ==
        IF d > maxMergeDepth THEN {}
        ELSE LET below == ch[d + 1] IN
             {o \in Objs : \E k \in Keys : entry(h, o, k) \in {None} \cup below}
  IN  ch

\* compactDict builds a new dict from the first entry on that changes (below: the
\* containers that change one level down); the entries before it are the old ones.
rebuiltFrom(h, below, o) ==
  Min({NKeys + 1} \cup {k \in Keys : entry(h, o, k) \in {None} \cup below})

\* At which paths the compacted body holds what compactValue returned, rather
\* than the value of the original body.
compacted(h, root) ==
  LET at == found(h, root)
      ch == compactChanges(h)
      new[p \in Paths] ==
        IF p = <<>> THEN TRUE
        ELSE LET q == front(p) IN /\ new[q]
                                  /\ at[q] \in ch[Len(q)]
                                  /\ last(p) >= rebuiltFrom(h, ch[Len(q) + 1], at[q])
  IN  new

\* Values that have no protobuf form, such as integers beyond 2^53.
Unencodable == {a \in Atoms : typeOf[a] = "huge"}

\* Whether Resource() accepts a body: compaction does not go too deep, and
\* conversion meets no value without a protobuf form and no dict that could not
\* be converted.  compactDict itself reads such a dict as an empty one.
bodyOK(h, root) ==
  LET at == found(h, root)
      new == compacted(h, root)
  IN  \A p \in Paths : /\ Len(p) = maxMergeDepth + 1 => at[p] \in {None, Absent}
                       /\ at[p] \notin Unencodable
                       /\ at[p] \in Objs /\ unconvertible(h, at[p]) => new[p]

\* The struct that results: at every path a dict, a scalar, null (None) or nothing.
body(h, root) ==
  LET at == found(h, root)
      new == compacted(h, root)
      dropped(p) == /\ p # <<>> /\ at[p] = None
                    /\ new[front(p)] /\ at[front(p)] \in compactChanges(h)[Len(p) - 1]
  IN  [p \in Paths |-> IF dropped(p) THEN Absent ELSE IF at[p] \in Objs THEN "dict" ELSE at[p]]

\* Resource(): everything in the body is converted on the way.
bodyKinds == {"dict", "schema", "struct"}
EmitResource(o) ==
  /\ heap[o].kind \in bodyKinds
  /\ Do(bodyOK(heap, o),
        [p \in Objs |-> IF p \in reach(heap, o) THEN materialize(heap[p]) ELSE heap[p]])

--------------------------------------------------------------------------------

\* Arguments of constructors: at most one of them a container.
Usable == Live(heap) \cup Atoms \cup {None}
Arguments == {e \in [Keys -> Usable \cup {Absent}] :
                Cardinality({k \in Keys : e[k] \in Objs}) <= 1}

\* The containers the next operation may create, as far as the heap has room.
fresh(S) == IF S = {} THEN Absent ELSE CHOOSE o \in S : TRUE
new == fresh(Free(heap))
sub == fresh(Free(heap) \ {new})

Assign(o, k, v) == \/ SetPlain(o, k, v) \/ SetStruct(o, k, v) \/ SetValidated(o, new, k, v)
                   \/ \E j \in Keys : SetXRStatus(o, new, j, k, v)
Construct(e, s) == CallSchema(new, sub, s, e) \/ MakeMutableStruct(new, sub, s, e)

Next ==
  \/ \E o \in Live(heap), k \in Keys : \/ \E v \in Usable : Assign(o, k, v)
                                       \/ Pop(o, k) \/ SetDefaultFound(o, k)
  \/ \E o \in Live(heap) : Clear(o) \/ Read(o) \/ ReadQuietly(o) \/ Freeze(o) \/ EmitResource(o)
  \/ \E o, p \in Live(heap) : Update(o, p) \/ UpdateSchema(o, new, p)
  \/ /\ new # Absent
     /\ \/ MakeDict(new) \/ MakeStarlarkDict(new)
        \/ \E e \in Arguments : MakePlainStruct(new, e) \/ \E s \in Schemas : Construct(e, s)
        \/ \E p, q \in Live(heap) : Plus(new, sub, p, q) \/ DictMerge(new, p, q)
        \/ \E p \in Live(heap), S \in SUBSET Keys : DictPick(new, p, S) \/ DictOmit(new, p, S)

Spec == Init /\ [][Next]_vars

--------------------------------------------------------------------------------
(* Properties *)

\* Everything in a frozen container is frozen: no path leads a script from data
\* that other readers share to something it may change.
DeepFrozen == \A o \in Objs, k \in Keys :
                heap[o].frozen /\ entry(heap, o, k) \in Objs => heap[entry(heap, o, k)].frozen

\* The value v may stand in the field k of a SchemaDict of s.
conforms(h, s, k, v) ==
  LET fd == descriptor[s][k] IN
  /\ fd # Absent
  /\ \/ v = fd.default
     \/ fd.schema = None /\ v # None /\ acceptsPlain(h, fd, v)
     \/ fd.schema # None /\ v \in Objs /\ h[v].kind = "schema"

\* What a SchemaDict holds was declared by its schema and accepted for its field,
\* or is the field's default, after any sequence of assignments, updates and pops.
SchemaConforms ==
  \A o \in Objs, k \in Keys : heap[o].kind = "schema" /\ has(heap, o, k) =>
    conforms(heap, heap[o].schema, k, entry(heap, o, k))

\* Entries lead to containers in use, unused ones are not frozen, a SchemaDict has a
\* schema, and what cannot be converted is a frozen, empty dict of the request.
Allocated ==
  \A o \in Objs : /\ \A k \in Keys : entry(heap, o, k) \in Objs =>
                       heap[entry(heap, o, k)].kind # "free"
                  /\ heap[o].kind = "free" => ~heap[o].frozen
                  /\ heap[o].kind = "schema" => heap[o].schema # None
                  /\ unconvertible(heap, o) => /\ heap[o].kind = "star" /\ heap[o].frozen
                                               /\ heap[o].entries = noEntries

\* The inductive invariant.
IInv == TypeOK /\ Allocated /\ DeepFrozen /\ SchemaConforms

\* What a frozen container reads as never changes, whether it has been converted
\* yet or not, and it stays frozen.
FrozenForever ==
  [][\A o \in Objs : heap[o].frozen => /\ heap'[o].frozen
                                       /\ heap'[o].entries = heap[o].entries]_vars

\* What stands in a body at every path: in a dict that cannot be converted, what
\* its protobuf struct holds.
inBadDict(h, root, p) ==
  p # <<>> /\ LET o == found(h, root)[front(p)] IN o \in Objs /\ unconvertible(h, o)
stands(h, root, p) == IF inBadDict(h, root, p) THEN BadBody[last(p)] ELSE found(h, root)[p]

\* How a value of a body is to appear in the struct: None does not.
emitted(v) == IF v = None THEN Absent ELSE IF v \in Objs THEN "dict" ELSE v

\* A body that Resource() accepts is emitted as it stands, but for its None entries:
\* compaction, which copies only what it changes, loses nothing else.  The one
\* exception is a dict of the request that cannot be converted, in a body with a
\* None somewhere: its content may be lost.  In a body without None it never is.
EmittedExact ==
  \A o \in Objs : heap[o].kind \in bodyKinds /\ bodyOK(heap, o) =>
    \A p \in Paths :
      \/ body(heap, o)[p] = emitted(stands(heap, o, p))
      \/ /\ inBadDict(heap, o, p) /\ body(heap, o)[p] = Absent
         /\ \E q \in Paths : found(heap, o)[q] = None
================================================================================
