--------------------------- MODULE ScriptValuesProof ---------------------------
(***************************************************************************)
(* Frozen data never changes, SchemaDicts conform to their schemas and     *)
(* bodies are emitted as they stand but for None, for every set of         *)
(* containers, keys, scalars and schemas and every depth limit.  Every     *)
(* operation is a few elementary steps on the heap (a container is         *)
(* allocated, the entries of an unfrozen one are replaced, a lazy one is   *)
(* converted, or everything in one is frozen), each of which is Good.      *)
(***************************************************************************)
EXTENDS ScriptValues, NaturalsInduction, WellFoundedInduction, TLAPS

\* The parts of the inductive invariant, of a heap h.
Typed(h) == h \in [Objs -> Containers]
AllocatedIn(h) ==
  \A o \in Objs : /\ \A k \in Keys : h[o].entries[k] \in Objs => h[h[o].entries[k]].kind # "free"
                  /\ h[o].kind = "free" => ~h[o].frozen
                  /\ h[o].kind = "schema" => h[o].schema # None
                  /\ unconvertible(h, o) => /\ h[o].kind = "star" /\ h[o].frozen
                                            /\ h[o].entries = noEntries
FrozenIn(h) == \A o \in Objs, k \in Keys :
                 h[o].frozen /\ h[o].entries[k] \in Objs => h[h[o].entries[k]].frozen
ConformsIn(h) == \A o \in Objs, k \in Keys :
                   h[o].kind = "schema" /\ h[o].entries[k] # Absent =>
                     conforms(h, h[o].schema, k, h[o].entries[k])
HeapInv(h) == Typed(h) /\ AllocatedIn(h) /\ FrozenIn(h) /\ ConformsIn(h)

\* What a step does not do to a heap: no frozen container changes, and a container
\* in use stays what it is.
Keeps(h, g) ==
  /\ \A o \in Objs : h[o].frozen => g[o].frozen /\ g[o].entries = h[o].entries
  /\ \A o \in Objs : h[o].kind # "free" => g[o].kind = h[o].kind /\ g[o].schema = h[o].schema
Good(h, g) == HeapInv(g) /\ Keeps(h, g)

\* Entries that may be put into a container of the heap h.
Storable(h, e) == /\ e \in Entries
                  /\ \A k \in Keys : e[k] \in Objs => h[e[k]].kind # "free"
Fitting(h, s, e) == \A k \in Keys : e[k] # Absent => conforms(h, s, k, e[k])

USE DEF entry, has

\* The parts make up the invariant of the specification.
LEMMA Parts == IInv <=> HeapInv(heap) /\ status \in {"running", "failed"}
  BY DEF IInv, HeapInv, TypeOK, Typed, Allocated, AllocatedIn, DeepFrozen, FrozenIn,
         SchemaConforms, ConformsIn

\* A heap is Good for itself, and Good steps compose.
LEMMA GoodRefl == ASSUME NEW h, HeapInv(h) PROVE Good(h, h)
  BY DEF Good, Keeps

LEMMA GoodTrans ==
  ASSUME NEW h, NEW g, NEW f, Keeps(h, g), Good(g, f)
  PROVE  Good(h, f)
  BY DEF Good, Keeps

\* The fields of a container.
LEMMA ContainerFields ==
  ASSUME NEW h, Typed(h), NEW o \in Objs
  PROVE  /\ h[o].kind \in {"free", "dict", "star", "schema", "struct"}
         /\ h[o].entries \in Entries
         /\ h[o].frozen \in BOOLEAN
         /\ h[o].schema \in Schemas \cup {None}
         /\ h[o].lazy \in {"built", "pending", "bad", "failed"}
  BY DEF Typed, Containers

\* What fits a field still does when containers are added.
LEMMA ConformsKept ==
  ASSUME NEW h, NEW g, NEW s, NEW k, NEW v, conforms(h, s, k, v),
         \A o \in Objs : h[o].kind # "free" => g[o].kind = h[o].kind
  PROVE  conforms(g, s, k, v)
  BY DEF conforms, acceptsPlain, CheckType, dictKinds

\* A new container, with entries that are in use and fit.
LEMMA Allocate ==
  ASSUME NEW h, HeapInv(h), NEW o \in Free(h), NEW kind \in {"dict", "star", "schema", "struct"},
         NEW e, Storable(h, e), NEW s \in Schemas \cup {None},
         kind = "schema" => s # None /\ Fitting(h, s, e)
  PROVE  Good(h, [h EXCEPT ![o] = container(kind, e, s)])
<1> DEFINE c == container(kind, e, s)
           g == [h EXCEPT ![o] = c]
<1>1. /\ o \in Objs /\ h[o].kind = "free"
      /\ c.kind = kind /\ c.entries = e /\ c.frozen = FALSE /\ c.schema = s /\ c.lazy = "built"
      /\ c \in Containers
  BY DEF Free, container, Containers, Storable
<1>2. /\ Typed(g) /\ g[o] = c /\ \A p \in Objs : p # o => g[p] = h[p]
  BY <1>1 DEF HeapInv, Typed
<1> HIDE DEF c, g
<1>3. \A p \in Objs : h[p].kind # "free" => p # o /\ g[p] = h[p]
  BY <1>1, <1>2
<1>4. Keeps(h, g)
  BY <1>1, <1>2, <1>3 DEF HeapInv, AllocatedIn, Keeps
<1>5. AllocatedIn(g)
  BY <1>1, <1>2, <1>3 DEF HeapInv, AllocatedIn, Storable, unconvertible
<1>6. FrozenIn(g)
  BY <1>1, <1>2, <1>3 DEF HeapInv, AllocatedIn, FrozenIn
<1>7. ConformsIn(g)
  <2> SUFFICES ASSUME NEW p \in Objs, NEW k \in Keys, g[p].kind = "schema", g[p].entries[k] # Absent
               PROVE  conforms(h, g[p].schema, k, g[p].entries[k])
    BY <1>3, ConformsKept DEF ConformsIn
  <2>1. CASE p = o
    BY <2>1, <1>1, <1>2 DEF Fitting
  <2>2. CASE p # o
    BY <2>2, <1>2 DEF HeapInv, ConformsIn
  <2> QED BY <2>1, <2>2
<1> QED BY <1>2, <1>4, <1>5, <1>6, <1>7 DEF Good, HeapInv, g, c

\* The entries of an unfrozen container are replaced by others that fit.
LEMMA Write ==
  ASSUME NEW h, HeapInv(h), NEW o \in Objs, h[o].kind # "free", ~h[o].frozen,
         NEW e, Storable(h, e), h[o].kind = "schema" => Fitting(h, h[o].schema, e)
  PROVE  Good(h, [h EXCEPT ![o].entries = e])
<1> DEFINE g == [h EXCEPT ![o].entries = e]
<1>0. Typed(h)
  BY DEF HeapInv
<1>1. /\ Typed(g) /\ \A p \in Objs : p # o => g[p] = h[p]
      /\ g[o].kind = h[o].kind /\ g[o].entries = e /\ g[o].frozen = h[o].frozen
      /\ g[o].schema = h[o].schema /\ g[o].lazy = h[o].lazy
  BY <1>0 DEF Typed, Containers, Storable
<1> HIDE DEF g
<1>2. \A p \in Objs : g[p].kind = h[p].kind /\ g[p].schema = h[p].schema /\ g[p].frozen = h[p].frozen
  BY <1>1
<1>4. Keeps(h, g)
  BY <1>1, <1>2 DEF Keeps
<1>5. AllocatedIn(g)
  BY <1>1, <1>2 DEF HeapInv, AllocatedIn, Storable, unconvertible
<1>6. FrozenIn(g)
  BY <1>1, <1>2 DEF HeapInv, FrozenIn
<1>7. ConformsIn(g)
  <2> SUFFICES ASSUME NEW p \in Objs, NEW k \in Keys, g[p].kind = "schema", g[p].entries[k] # Absent
               PROVE  conforms(h, g[p].schema, k, g[p].entries[k])
    BY <1>2, ConformsKept DEF ConformsIn
  <2>1. CASE p = o
    BY <2>1, <1>1, <1>2 DEF Fitting
  <2>2. CASE p # o
    BY <2>2, <1>1 DEF HeapInv, ConformsIn
  <2> QED BY <2>1, <2>2
<1> QED BY <1>1, <1>4, <1>5, <1>6, <1>7 DEF Good, HeapInv, g

\* Conversion changes no entry.
LEMMA Convert ==
  ASSUME NEW h, HeapInv(h), NEW S
  PROVE  LET g == [p \in Objs |-> IF p \in S THEN materialize(h[p]) ELSE h[p]]
         IN  /\ Good(h, g)
             /\ \A p \in Objs : /\ g[p].kind = h[p].kind /\ g[p].entries = h[p].entries
                                /\ g[p].frozen = h[p].frozen /\ g[p].schema = h[p].schema
<1> DEFINE g == [p \in Objs |-> IF p \in S THEN materialize(h[p]) ELSE h[p]]
<1>0. Typed(h)
  BY DEF HeapInv
<1>1. \A p \in Objs : /\ materialize(h[p]) \in Containers
                      /\ materialize(h[p]).kind = h[p].kind
                      /\ materialize(h[p]).entries = h[p].entries
                      /\ materialize(h[p]).frozen = h[p].frozen
                      /\ materialize(h[p]).schema = h[p].schema
                      /\ materialize(h[p]).lazy \in {"bad", "failed"} => h[p].lazy \in {"bad", "failed"}
  BY <1>0 DEF Typed, Containers, materialize
<1>2. /\ Typed(g)
      /\ \A p \in Objs : /\ g[p].kind = h[p].kind /\ g[p].entries = h[p].entries
                         /\ g[p].frozen = h[p].frozen /\ g[p].schema = h[p].schema
                         /\ unconvertible(g, p) => unconvertible(h, p)
  BY <1>0, <1>1 DEF Typed, unconvertible
<1> HIDE DEF g
<1>3. Keeps(h, g) /\ AllocatedIn(g) /\ FrozenIn(g)
  BY <1>2, <1>0, ContainerFields DEF HeapInv, Keeps, AllocatedIn, FrozenIn
<1>4. ConformsIn(g)
  <2> SUFFICES ASSUME NEW p \in Objs, NEW k \in Keys, g[p].kind = "schema", g[p].entries[k] # Absent
               PROVE  conforms(h, g[p].schema, k, g[p].entries[k])
    BY <1>2, ConformsKept DEF ConformsIn
  <2> QED BY <1>2 DEF HeapInv, ConformsIn
<1> QED BY <1>2, <1>3, <1>4 DEF Good, HeapInv, g

\* The conversion of one container.
LEMMA Ensure ==
  ASSUME NEW h, HeapInv(h), NEW o \in Objs
  PROVE  /\ Good(h, ensure(h, o))
         /\ \A p \in Objs : /\ ensure(h, o)[p].kind = h[p].kind
                            /\ ensure(h, o)[p].entries = h[p].entries
                            /\ ensure(h, o)[p].frozen = h[p].frozen
                            /\ ensure(h, o)[p].schema = h[p].schema
<1> DEFINE g == [p \in Objs |-> IF p \in {o} THEN materialize(h[p]) ELSE h[p]]
<1>1. ensure(h, o) = g
  BY DEF ensure, HeapInv, Typed
<1>2. /\ Good(h, g)
      /\ \A p \in Objs : /\ g[p].kind = h[p].kind /\ g[p].entries = h[p].entries
                         /\ g[p].frozen = h[p].frozen /\ g[p].schema = h[p].schema
  BY Convert
<1> QED BY <1>1, <1>2

\* Everything in a container is frozen with it.
LEMMA ReachClosed ==
  ASSUME NEW h, NEW o \in Objs
  PROVE  /\ o \in reach(h, o) /\ reach(h, o) \subseteq Objs
         /\ \A p \in reach(h, o), k \in Keys : h[p].entries[k] \in Objs => h[p].entries[k] \in reach(h, o)
  BY DEF reach, closed
\* Freezing a container in use.
LEMMA FreezeGood ==
  ASSUME NEW h, HeapInv(h), NEW o \in Objs, h[o].kind # "free"
  PROVE  Good(h, freeze(h, o))
<1> DEFINE g == freeze(h, o)
           R == reach(h, o)
<1>0. Typed(h)
  BY DEF HeapInv
<1>1. /\ Typed(g)
      /\ \A p \in Objs : /\ g[p].kind = h[p].kind /\ g[p].entries = h[p].entries
                         /\ g[p].schema = h[p].schema
                         /\ (g[p].frozen <=> h[p].frozen \/ p \in R)
                         /\ g[p].lazy = h[p].lazy
  BY <1>0 DEF Typed, Containers, freeze
<1>2. \A p \in R : p \in Objs /\ h[p].kind # "free"
  <2>1. closed(h, Live(h)) /\ o \in Live(h) /\ Live(h) \in SUBSET Objs
    BY DEF closed, Live, HeapInv, AllocatedIn
  <2> QED BY <2>1 DEF reach, Live
<1>3. \A p \in R, k \in Keys : h[p].entries[k] \in Objs => h[p].entries[k] \in R
  BY ReachClosed
<1> HIDE DEF g, R
<1>4. Keeps(h, g)
  BY <1>1 DEF Keeps
<1>5. AllocatedIn(g)
  BY <1>1, <1>2 DEF HeapInv, AllocatedIn, unconvertible
<1>6. FrozenIn(g)
  BY <1>1, <1>3 DEF HeapInv, FrozenIn
<1>7. ConformsIn(g)
  <2> SUFFICES ASSUME NEW p \in Objs, NEW k \in Keys, g[p].kind = "schema", g[p].entries[k] # Absent
               PROVE  conforms(h, g[p].schema, k, g[p].entries[k])
    BY <1>1, ConformsKept DEF ConformsIn
  <2> QED BY <1>1 DEF HeapInv, ConformsIn
<1> QED BY <1>1, <1>4, <1>5, <1>6, <1>7 DEF Good, HeapInv, g

--------------------------------------------------------------------------------
(* Validation *)

\* A field descriptor.
LEMMA Descriptor ==
  ASSUME NEW s \in Schemas, NEW k \in Keys, descriptor[s][k] # Absent
  PROVE  /\ descriptor[s][k].default \in Atoms \cup {None}
         /\ descriptor[s][k].schema \in Schemas \cup {None}
         /\ descriptor[s][k].schema # None =>
              \A j \in Keys : descriptor[descriptor[s][k].schema][j] # Absent =>
                descriptor[descriptor[s][k].schema][j].schema = None
  BY SchemasOK

\* The SchemaDict made of a dict for a field with a schema.
LEMMA Nested ==
  ASSUME NEW h, HeapInv(h), NEW s \in Schemas, NEW k \in Keys, descriptor[s][k] # Absent,
         descriptor[s][k].schema # None, NEW v \in Objs, h[v].kind # "free",
         flatOK(h, descriptor[s][k].schema, h[v].entries)
  PROVE  LET t == descriptor[s][k].schema
             e == flatEntries(t, h[v].entries)
         IN  t \in Schemas /\ Storable(h, e) /\ Fitting(h, t, e)
<1> DEFINE t == descriptor[s][k].schema
           e == flatEntries(t, h[v].entries)
<1>1. t \in Schemas /\ h[v].entries \in Entries
  BY Descriptor, ContainerFields DEF HeapInv
<1>2. \A j \in Keys : descriptor[t][j] # Absent =>
        descriptor[t][j].default \in Atoms \cup {None} /\ descriptor[t][j].schema = None
  BY <1>1, Descriptor
<1>3. \A j \in Keys : e[j] \in {Absent, h[v].entries[j]} \/
        /\ descriptor[t][j] # Absent
        /\ e[j] = descriptor[t][j].default /\ e[j] \in Atoms
  BY <1>2 DEF flatEntries, defaultOf
<1>4. Storable(h, e)
  BY <1>1, <1>3, Distinct DEF Storable, Entries, Values, HeapInv, AllocatedIn, flatEntries
<1>5. Fitting(h, t, e)
  BY <1>1, <1>2, <1>3 DEF Fitting, conforms, flatOK, flatEntries, defaultOf, omitted
<1> QED BY <1>1, <1>4, <1>5

\* What ValidateMutation stores fits its field, in any heap with the new SchemaDict.
LEMMA StoredFits ==
  ASSUME NEW s \in Schemas, NEW k \in Keys, NEW v \in Usable, NEW n, NEW g,
         validMutation(heap, s, k, v),
         mutationNeedsNested(heap, s, k, v) => n \in Objs /\ g[n].kind = "schema",
         \A p \in Objs : heap[p].kind # "free" => g[p].kind = heap[p].kind
  PROVE  LET w == storedValue(heap, s, k, v, n)
         IN  /\ w \in Values \cup {Absent}
             /\ w \in Objs => g[w].kind # "free"
             /\ w # Absent => conforms(g, s, k, w)
<1> DEFINE fd == descriptor[s][k]
           w == storedValue(heap, s, k, v, n)
<1>1. /\ fd # Absent /\ fd.default \in Atoms \cup {None} /\ fd.schema \in Schemas \cup {None}
  BY Descriptor DEF validMutation
<1>2. v \in Values /\ (v \in Objs => heap[v].kind # "free")
  BY Distinct DEF Usable, Live, Values
<1>3. CASE v = None
  <2>1. w \in {Absent, fd.default} /\ w \in Atoms \cup {Absent}
    BY <1>1, <1>3 DEF storedValue, defaultOf
  <2>2. w # Absent => conforms(g, s, k, w)
    BY <1>1, <2>1 DEF conforms
  <2> QED BY <2>1, <2>2, Distinct DEF Values
<1>4. CASE v # None /\ ~mutationNeedsNested(heap, s, k, v)
  <2>1. w = v /\ conforms(heap, s, k, v)
    BY <1>1, <1>4 DEF validMutation, mutationNeedsNested, storedValue, converted, conforms,
       acceptsValue
  <2> QED BY <1>2, <2>1, ConformsKept
<1>5. CASE v # None /\ mutationNeedsNested(heap, s, k, v)
  <2>1. w = n /\ fd.schema # None
    BY <1>5 DEF mutationNeedsNested, storedValue, converted
  <2>2. conforms(g, s, k, w)
    BY <1>1, <1>5, <2>1 DEF conforms
  <2> QED BY <1>5, <2>1, <2>2 DEF Values
<1> QED BY <1>3, <1>4, <1>5

\* The heap with the new SchemaDict: nothing else that is in use is touched.
LEMMA Mutation ==
  ASSUME HeapInv(heap), NEW s \in Schemas, NEW k \in Keys,
         NEW v \in Usable, NEW n, validMutation(heap, s, k, v),
         mutationNeedsNested(heap, s, k, v) => n \in Free(heap)
  PROVE  /\ Good(heap, afterMutation(s, k, v, n))
         /\ \A p \in Objs : heap[p].kind # "free" =>
              /\ afterMutation(s, k, v, n)[p].entries = heap[p].entries
              /\ afterMutation(s, k, v, n)[p].frozen = heap[p].frozen
              /\ afterMutation(s, k, v, n)[p].kind = heap[p].kind
         /\ \A p \in Free(heap) : p # n => afterMutation(s, k, v, n)[p].kind = "free"
         /\ mutationNeedsNested(heap, s, k, v) =>
              n \in Objs /\ afterMutation(s, k, v, n)[n].kind = "schema"
<1> DEFINE fd == descriptor[s][k]
           g == afterMutation(s, k, v, n)
<1>1. /\ fd # Absent /\ fd.schema \in Schemas \cup {None}
  BY Descriptor DEF validMutation
<1>2. v \in Objs => heap[v].kind # "free"
  BY Distinct DEF Usable, Live
<1>3. CASE ~mutationNeedsNested(heap, s, k, v)
  BY <1>3, GoodRefl DEF afterMutation, Free
<1>4. CASE mutationNeedsNested(heap, s, k, v)
  <2>1. /\ fd.schema # None /\ v \in Objs /\ v # None /\ n \in Free(heap) /\ n \in Objs
        /\ fd.schema \in Schemas
        /\ flatOK(heap, fd.schema, heap[v].entries)
    BY <1>1, <1>4, Distinct DEF mutationNeedsNested, converted, validMutation, acceptsValue, Free
  <2> DEFINE h1 == ensure(heap, v)
             e == flatEntries(fd.schema, heap[v].entries)
             t == fd.schema
  <2>2. /\ Good(heap, h1)
        /\ \A p \in Objs : /\ h1[p].kind = heap[p].kind /\ h1[p].entries = heap[p].entries
                           /\ h1[p].frozen = heap[p].frozen /\ h1[p].schema = heap[p].schema
    BY <2>1, Ensure
  <2>3. Storable(heap, e) /\ Fitting(heap, t, e) /\ t \in Schemas
    BY <1>1, <1>2, <2>1, Nested
  <2>4. g = [h1 EXCEPT ![n] = container("schema", e, t)]
    BY <1>4 DEF afterMutation, nested
  <2> HIDE DEF e, h1, t
  <2>5. Storable(h1, e) /\ Fitting(h1, t, e)
    BY <2>2, <2>3, ConformsKept DEF Storable, Fitting, Good, HeapInv, Entries, Values
  <2>6. n \in Free(h1) /\ HeapInv(h1)
    BY <2>1, <2>2 DEF Free, Good
  <2>7. Good(h1, [h1 EXCEPT ![n] = container("schema", e, t)])
    BY <2>3, <2>5, <2>6, Allocate, Distinct
  <2>8. Good(heap, g)
    BY <2>2, <2>4, <2>7, GoodTrans DEF Good
  <2>9. g[n].kind = "schema" /\ \A p \in Objs : p # n => g[p] = h1[p]
    BY <2>1, <2>4, <2>6 DEF container, HeapInv, Typed
  <2> QED BY <2>1, <2>2, <2>8, <2>9 DEF Free
<1> QED BY <1>3, <1>4

\* validateFields: the heap with the new SchemaDict, and what is stored.
LEMMA Validation ==
  ASSUME HeapInv(heap), NEW s \in Schemas, NEW e, Storable(heap, e), NEW n,
         validFields(heap, s, e), needsNested(heap, s, e) => n \in Free(heap)
  PROVE  /\ Good(heap, withNested(heap, s, e, n))
         /\ \A p \in Objs : p # n => withNested(heap, s, e, n)[p] = heap[p]
         /\ Storable(withNested(heap, s, e, n), storedFields(heap, s, e, n))
         /\ Fitting(withNested(heap, s, e, n), s, storedFields(heap, s, e, n))
<1> DEFINE g == withNested(heap, s, e, n)
           w == storedFields(heap, s, e, n)
           nests(k) == descriptor[s][k] # Absent /\ converted(heap, descriptor[s][k], e[k])
<1>0. \A k \in Keys : e[k] \in Values \cup {Absent}
  BY DEF Storable, Entries
<1>1. /\ Good(heap, g)
      /\ \A p \in Objs : p # n => g[p] = heap[p]
      /\ \A k \in Keys : nests(k) => n \in Objs /\ g[n].kind = "schema"
  <2>1. CASE ~needsNested(heap, s, e)
    BY <2>1, GoodRefl DEF withNested, needsNested
  <2>2. CASE needsNested(heap, s, e)
    <3> DEFINE k0 == CHOOSE j \in Keys : nests(j)
               t == descriptor[s][k0].schema
               f == flatEntries(t, heap[e[k0]].entries)
    <3>1. k0 \in Keys /\ nests(k0)
      BY <2>2 DEF needsNested
    <3> HIDE DEF k0
    <3>2. /\ e[k0] \in Objs /\ heap[e[k0]].kind # "free" /\ t # None
          /\ flatOK(heap, t, heap[e[k0]].entries)
      BY <3>1, Distinct DEF converted, validFields, acceptsValue, omitted, Storable
    <3>3. t \in Schemas /\ Storable(heap, f) /\ Fitting(heap, t, f)
      BY <3>1, <3>2, Nested
    <3>4. g = [heap EXCEPT ![n] = container("schema", f, t)]
      BY <2>2 DEF withNested, nested, k0
    <3> HIDE DEF t, f
    <3>5. Good(heap, [heap EXCEPT ![n] = container("schema", f, t)])
      BY <2>2, <3>3, Allocate, Distinct
    <3>6. n \in Objs /\ g[n].kind = "schema" /\ \A p \in Objs : p # n => g[p] = heap[p]
      BY <2>2, <3>4 DEF HeapInv, Typed, Free, container
    <3> QED BY <3>4, <3>5, <3>6
  <2> QED BY <2>1, <2>2
<1>2. \A p \in Objs : heap[p].kind # "free" => g[p].kind = heap[p].kind
  BY <1>1 DEF Good, Keeps
<1>3. ASSUME NEW k \in Keys
      PROVE  /\ w[k] \in Values \cup {Absent}
             /\ w[k] \in Objs => g[w[k]].kind # "free"
             /\ w[k] # Absent => conforms(g, s, k, w[k])
  <2> DEFINE fd == descriptor[s][k]
  <2>1. CASE fd = Absent
    BY <2>1, Distinct DEF storedFields
  <2>2. CASE fd # Absent /\ omitted(e[k])
    <3>1. fd.default \in Atoms \cup {None} /\ w[k] = defaultOf(fd)
      BY <2>2, Descriptor DEF storedFields
    <3>2. w[k] = Absent \/ (w[k] = fd.default /\ w[k] \in Atoms)
      BY <3>1 DEF defaultOf
    <3> QED BY <2>2, <3>2, Distinct DEF conforms, Values
  <2>3. CASE fd # Absent /\ ~omitted(e[k]) /\ converted(heap, fd, e[k])
    <3>1. w[k] = n /\ fd.schema # None /\ n \in Objs /\ g[n].kind = "schema"
      BY <2>3, <1>1 DEF storedFields, converted
    <3> QED BY <2>3, <3>1 DEF conforms, Values
  <2>4. CASE fd # Absent /\ ~omitted(e[k]) /\ ~converted(heap, fd, e[k])
    <3>1. w[k] = e[k] /\ acceptsValue(heap, fd, e[k], {"dict"}) /\ e[k] \notin {None, Absent}
      BY <2>4 DEF storedFields, validFields, omitted
    <3>2. conforms(heap, s, k, e[k])
      BY <2>4, <3>1 DEF conforms, acceptsValue, converted
    <3> QED BY <1>0, <1>2, <3>1, <3>2, ConformsKept DEF Storable
  <2> QED BY <2>1, <2>2, <2>3, <2>4
<1>4. w \in Entries
  BY <1>3 DEF storedFields, Entries
<1> QED BY <1>1, <1>3, <1>4 DEF Storable, Fitting

--------------------------------------------------------------------------------
(* The operations *)

\* What every operation does.
Stepped == Good(heap, heap') /\ status' \in {"running", "failed"}

\* An operation leaves the heap it computes, or the old one.
LEMMA DoGood ==
  ASSUME HeapInv(heap), NEW ok, NEW h, Do(ok, h), ok => Good(heap, h)
  PROVE  Stepped
  BY GoodRefl DEF Do, Stepped

\* One entry of an unfrozen container is replaced.
LEMMA Put ==
  ASSUME NEW h, HeapInv(h), NEW o \in Objs, h[o].kind # "free", ~h[o].frozen,
         NEW k \in Keys, NEW v \in Values \cup {Absent}, v \in Objs => h[v].kind # "free",
         h[o].kind = "schema" => v = Absent \/ conforms(h, h[o].schema, k, v)
  PROVE  Good(h, put(h, o, k, v))
<1> DEFINE e == [h[o].entries EXCEPT ![k] = v]
<1>1. h[o].entries \in Entries
  BY ContainerFields DEF HeapInv
<1>2. e \in Entries /\ \A j \in Keys : e[j] = IF j = k THEN v ELSE h[o].entries[j]
  BY <1>1 DEF Entries
<1> HIDE DEF e
<1>3. Storable(h, e)
  BY <1>2 DEF Storable, HeapInv, AllocatedIn
<1>4. h[o].kind = "schema" => Fitting(h, h[o].schema, e)
  BY <1>2 DEF Fitting, HeapInv, ConformsIn
<1>5. put(h, o, k, v) = [h EXCEPT ![o].entries = e]
  BY DEF put, e, HeapInv, Typed, Containers
<1>6. Good(h, [h EXCEPT ![o].entries = e])
  BY <1>3, <1>4, Write
<1> QED BY <1>5, <1>6

\* A new dict.
LEMMA MakeGood ==
  ASSUME HeapInv(heap), NEW o \in Free(heap), MakeDict(o) \/ MakeStarlarkDict(o)
  PROVE  Stepped
<1>1. Storable(heap, noEntries)
  BY Distinct DEF Storable, noEntries, Entries
<1>2. /\ Good(heap, [heap EXCEPT ![o] = container("dict", noEntries, None)])
      /\ Good(heap, [heap EXCEPT ![o] = container("star", noEntries, None)])
  BY <1>1, Allocate
<1> QED BY <1>2, DoGood DEF MakeDict, MakeStarlarkDict

\* A call of a schema or of mutable_struct with one.
LEMMA ValidatedGood ==
  ASSUME HeapInv(heap), NEW o \in Free(heap), NEW n, n = Absent \/ n \in Free(heap) \ {o},
         NEW s \in Schemas, NEW e, Storable(heap, e), NEW kind \in {"schema", "struct"},
         Validated(kind, o, n, s, e)
  PROVE  Stepped
<1> DEFINE g == withNested(heap, s, e, n)
           w == storedFields(heap, s, e, n)
           f == [g EXCEPT ![o] = container(kind, w, s)]
<1>1. ASSUME validFields(heap, s, e)
      PROVE  Good(heap, f)
  <2>1. needsNested(heap, s, e) => n \in Free(heap)
    BY DEF Validated
  <2>2. /\ Good(heap, g) /\ \A p \in Objs : p # n => g[p] = heap[p]
        /\ Storable(g, w) /\ Fitting(g, s, w)
    BY <1>1, <2>1, Validation
  <2> HIDE DEF g, w
  <2>3. o \in Free(g) /\ HeapInv(g)
    BY <2>2, Distinct DEF Free, Good
  <2>4. Good(g, f)
    BY <2>2, <2>3, Allocate, Distinct
  <2> QED BY <2>2, <2>4, GoodTrans DEF Good
<1>2. Do(validFields(heap, s, e), f)
  BY DEF Validated
<1> HIDE DEF f
<1> QED BY <1>1, <1>2, DoGood

\* A call of mutable_struct without a schema.
LEMMA PlainStructGood ==
  ASSUME HeapInv(heap), NEW o \in Free(heap), NEW e, Storable(heap, e), MakePlainStruct(o, e)
  PROVE  Stepped
<1>1. Good(heap, [heap EXCEPT ![o] = container("struct", e, None)])
  BY Allocate
<1> QED BY <1>1, DoGood DEF MakePlainStruct

\* An assignment that validates nothing.
LEMMA PlainSetGood ==
  ASSUME HeapInv(heap), NEW o \in Live(heap), NEW k \in Keys, NEW v \in Usable,
         SetPlain(o, k, v) \/ SetStruct(o, k, v)
  PROVE  Stepped
<1>1. /\ o \in Objs /\ heap[o].kind # "free" /\ v \in Values /\ (v \in Objs => heap[v].kind # "free")
  BY Distinct DEF Live, Usable, Values
<1>2. CASE SetPlain(o, k, v)
  <2> DEFINE h == ensure(heap, o)
  <2>1. /\ Good(heap, h) /\ HeapInv(h)
        /\ \A p \in Objs : h[p].kind = heap[p].kind /\ h[p].frozen = heap[p].frozen
    BY <1>1, Ensure DEF Good
  <2>2. heap[o].kind \in {"dict", "star"} /\ Do(setsUnfrozen(heap, o), put(h, o, k, v))
    BY <1>2 DEF SetPlain
  <2> HIDE DEF h
  <2>3. setsUnfrozen(heap, o) => Good(h, put(h, o, k, v))
    BY <1>1, <2>1, <2>2, Put DEF setsUnfrozen
  <2> QED BY <2>1, <2>2, <2>3, DoGood, GoodTrans DEF Good
<1>3. CASE SetStruct(o, k, v)
  <2>1. setsUnfrozen(heap, o) => Good(heap, put(heap, o, k, v))
    BY <1>1, <1>3, Put DEF setsUnfrozen, SetStruct
  <2> QED BY <1>3, <2>1, DoGood DEF SetStruct
<1> QED BY <1>2, <1>3

\* An assignment to a container with a schema.
LEMMA SetValidatedGood ==
  ASSUME HeapInv(heap), NEW o \in Live(heap), NEW k \in Keys, NEW v \in Usable,
         NEW n, n = Absent \/ n \in Free(heap), SetValidated(o, n, k, v)
  PROVE  Stepped
<1> DEFINE s == heap[o].schema
           g == afterMutation(s, k, v, n)
           w == storedValue(heap, s, k, v, n)
<1>1. /\ o \in Objs /\ heap[o].kind # "free" /\ s \in Schemas
  BY ContainerFields DEF Live, SetValidated, HeapInv
<1>2. ASSUME validMutation(heap, s, k, v), setsUnfrozen(heap, o)
      PROVE  Good(heap, put(g, o, k, w))
  <2>1. /\ Good(heap, g)
        /\ g[o].frozen = heap[o].frozen /\ g[o].kind = heap[o].kind
        /\ w \in Values \cup {Absent}
        /\ w \in Objs => g[w].kind # "free"
        /\ w # Absent => conforms(g, s, k, w)
    <3>1. mutationNeedsNested(heap, s, k, v) => n \in Free(heap)
      BY DEF SetValidated
    <3>2. /\ Good(heap, g)
          /\ \A p \in Objs : heap[p].kind # "free" =>
               g[p].frozen = heap[p].frozen /\ g[p].kind = heap[p].kind
          /\ mutationNeedsNested(heap, s, k, v) => n \in Objs /\ g[n].kind = "schema"
      BY <1>1, <1>2, <3>1, Mutation
    <3> HIDE DEF g, s
    <3>3. /\ w \in Values \cup {Absent}
          /\ w \in Objs => g[w].kind # "free"
          /\ w # Absent => conforms(g, s, k, w)
      BY <1>1, <1>2, <3>2, StoredFits
    <3> QED BY <1>1, <3>2, <3>3
  <2>2. HeapInv(g) /\ g[o].kind = heap[o].kind /\ g[o].schema = s
    BY <1>1, <2>1 DEF Good, Keeps
  <2> HIDE DEF g, w, s
  <2>3. Good(g, put(g, o, k, w))
    BY <1>1, <1>2, <2>1, <2>2, Put DEF setsUnfrozen
  <2> QED BY <2>1, <2>3, GoodTrans DEF Good
<1>3. Do(TRUE, heap) \/ Do(validMutation(heap, s, k, v) /\ setsUnfrozen(heap, o), put(g, o, k, w))
  BY DEF SetValidated
<1> HIDE DEF g, w, s
<1> QED BY <1>2, <1>3, DoGood, GoodRefl

\* pop and clear.
LEMMA RemoveGood ==
  ASSUME HeapInv(heap), NEW o \in Live(heap), NEW k, (k \in Keys /\ Pop(o, k)) \/ Clear(o)
  PROVE  Stepped
<1> DEFINE h == ensure(heap, o)
<1>1. /\ o \in Objs /\ heap[o].kind # "free"
  BY DEF Live
<1>2. /\ Good(heap, h) /\ HeapInv(h)
      /\ \A p \in Objs : h[p].kind = heap[p].kind /\ h[p].frozen = heap[p].frozen
  BY <1>1, Ensure DEF Good
<1>3. \/ k \in Keys /\ Do(setsUnfrozen(heap, o), put(h, o, k, Absent))
      \/ Do(setsUnfrozen(heap, o), [h EXCEPT ![o].entries = noEntries])
  BY DEF Pop, Clear
<1> HIDE DEF h
<1>4. k \in Keys /\ setsUnfrozen(heap, o) => Good(h, put(h, o, k, Absent))
  BY <1>1, <1>2, Put, Distinct DEF setsUnfrozen
<1>5. Storable(h, noEntries) /\ \A s : Fitting(h, s, noEntries)
  BY Distinct DEF Storable, Fitting, noEntries, Entries
<1>6. setsUnfrozen(heap, o) => Good(h, [h EXCEPT ![o].entries = noEntries])
  BY <1>1, <1>2, <1>5, Write DEF setsUnfrozen
<1> QED BY <1>2, <1>3, <1>4, <1>6, DoGood, GoodTrans DEF Good

\* update of a StarlarkDict.
LEMMA UpdateGood ==
  ASSUME HeapInv(heap), NEW o \in Live(heap), NEW p \in Live(heap), Update(o, p)
  PROVE  Stepped
<1> DEFINE h1 == ensure(heap, p)
           h2 == ensure(h1, o)
           e == overwritten(heap[o].entries, heap[p].entries)
           f == [h2 EXCEPT ![o].entries = e]
           ok == /\ heap[p].kind \in {"dict", "star"}
                 /\ heap[p].entries # noEntries => setsUnfrozen(heap, o)
<1>1. /\ o \in Objs /\ heap[o].kind # "free" /\ p \in Objs
      /\ heap[o].kind = "star" /\ Do(ok, f)
  BY DEF Live, Update
<1>2. /\ Good(heap, h1) /\ HeapInv(h1)
      /\ \A q \in Objs : /\ h1[q].kind = heap[q].kind /\ h1[q].frozen = heap[q].frozen
                         /\ h1[q].entries = heap[q].entries
  BY <1>1, Ensure DEF Good
<1> HIDE DEF h1
<1>3. /\ Good(h1, h2) /\ HeapInv(h2)
      /\ \A q \in Objs : /\ h2[q].kind = h1[q].kind /\ h2[q].frozen = h1[q].frozen
                         /\ h2[q].entries = h1[q].entries
  BY <1>1, <1>2, Ensure DEF Good
<1> HIDE DEF h2
<1>4. heap[o].entries \in Entries /\ heap[p].entries \in Entries
  BY <1>1, ContainerFields DEF HeapInv
<1>5. ASSUME ok PROVE Good(h2, f)
  <2>1. CASE heap[p].entries = noEntries
    <3>1. e = heap[o].entries
      BY <1>4, <2>1 DEF overwritten, noEntries, Entries
    <3>2. f = h2
      BY <1>1, <1>2, <1>3, <3>1 DEF HeapInv, Typed, Containers
    <3> QED BY <1>3, <3>2, GoodRefl
  <2>2. CASE heap[p].entries # noEntries
    <3>1. Storable(h2, e)
      BY <1>1, <1>2, <1>3, <1>4 DEF Storable, overwritten, Entries, HeapInv, AllocatedIn
    <3> HIDE DEF e
    <3>2. h2[o].kind = "star" /\ ~h2[o].frozen
      BY <1>1, <1>2, <1>3, <1>5, <2>2 DEF setsUnfrozen
    <3> QED BY <1>1, <1>3, <3>1, <3>2, Write
  <2> QED BY <2>1, <2>2
<1> HIDE DEF f, ok
<1>6. ok => Good(heap, f)
  BY <1>2, <1>3, <1>5, GoodTrans DEF Good
<1> QED BY <1>1, <1>6, DoGood

\* update of a SchemaDict.
LEMMA UpdateSchemaGood ==
  ASSUME HeapInv(heap), NEW o \in Live(heap), NEW p \in Live(heap),
         NEW n, n = Absent \/ n \in Free(heap), UpdateSchema(o, n, p)
  PROVE  Stepped
<1> DEFINE s == heap[o].schema
           given == heap[p].entries
           assigned(k) == given[k] # Absent
           nests(k) == assigned(k) /\ mutationNeedsNested(heap, s, k, given[k])
           stored(k) == storedValue(heap, s, k, given[k], n)
           k0 == CHOOSE k \in Keys : nests(k)
           h == IF \E k \in Keys : nests(k) THEN afterMutation(s, k0, given[k0], n) ELSE heap
           e == [k \in Keys |-> IF assigned(k) THEN stored(k) ELSE heap[o].entries[k]]
           ok == /\ heap[p].kind \in {"dict", "schema"}
                 /\ \A k \in Keys : assigned(k) =>
                      /\ validMutation(heap, s, k, given[k])
                      /\ stored(k) # Absent => setsUnfrozen(heap, o)
           f == IF heap[o].frozen THEN heap ELSE [h EXCEPT ![o].entries = e]
<1>1. /\ o \in Objs /\ heap[o].kind = "schema" /\ p \in Objs /\ s \in Schemas
      /\ heap[o].entries \in Entries /\ given \in Entries
  BY ContainerFields DEF Live, UpdateSchema, HeapInv, AllocatedIn
<1>2. /\ (\E k \in Keys : nests(k)) => n # Absent
      /\ Do(ok, f)
  BY DEF UpdateSchema
<1>3. \A k \in Keys : assigned(k) => given[k] \in Usable
  BY <1>1 DEF Usable, Live, Entries, Values, HeapInv, AllocatedIn
<1>4. ASSUME ok, ~heap[o].frozen PROVE Good(heap, [h EXCEPT ![o].entries = e])
  <2>1. /\ Good(heap, h)
        /\ \A q \in Objs : heap[q].kind # "free" =>
             /\ h[q].frozen = heap[q].frozen /\ h[q].entries = heap[q].entries
             /\ h[q].kind = heap[q].kind
        /\ (\E k \in Keys : nests(k)) => n \in Objs /\ h[n].kind = "schema"
    <3>1. CASE \E k \in Keys : nests(k)
      <4>1. k0 \in Keys /\ nests(k0)
        BY <3>1
      <4>2. h = afterMutation(s, k0, given[k0], n)
        BY <3>1
      <4> HIDE DEF k0, h
      <4>3. /\ given[k0] \in Usable /\ validMutation(heap, s, k0, given[k0])
            /\ mutationNeedsNested(heap, s, k0, given[k0]) /\ n \in Free(heap)
        BY <1>2, <1>3, <1>4, <3>1, <4>1
      <4> HIDE DEF s
      <4> DEFINE v == given[k0]
      <4> HIDE DEF v
      <4>4. /\ Good(heap, afterMutation(s, k0, v, n))
            /\ \A q \in Objs : heap[q].kind # "free" =>
                 /\ afterMutation(s, k0, v, n)[q].frozen = heap[q].frozen
                 /\ afterMutation(s, k0, v, n)[q].entries = heap[q].entries
                 /\ afterMutation(s, k0, v, n)[q].kind = heap[q].kind
            /\ n \in Objs /\ afterMutation(s, k0, v, n)[n].kind = "schema"
        BY <1>1, <4>1, <4>3, Mutation DEF v
      <4> QED BY <4>2, <4>4 DEF v
    <3>2. CASE ~\E k \in Keys : nests(k)
      BY <3>2, GoodRefl
    <3> QED BY <3>1, <3>2
  <2> HIDE DEF h
  <2>2. HeapInv(h) /\ h[o].schema = s /\ h[o].kind = "schema" /\ h[o].frozen = heap[o].frozen
    BY <1>1, <2>1 DEF Good, Keeps
  <2>3. ASSUME NEW k \in Keys
        PROVE  /\ e[k] \in Values \cup {Absent}
               /\ e[k] \in Objs => h[e[k]].kind # "free"
               /\ e[k] # Absent => conforms(h, s, k, e[k])
    <3>1. CASE assigned(k)
      <4>1. /\ given[k] \in Usable /\ validMutation(heap, s, k, given[k])
            /\ mutationNeedsNested(heap, s, k, given[k]) => n \in Objs /\ h[n].kind = "schema"
        BY <1>3, <1>4, <2>1, <3>1
      <4> DEFINE v == given[k]
                 w == storedValue(heap, s, k, v, n)
      <4> HIDE DEF v, s
      <4>2. /\ w \in Values \cup {Absent}
            /\ w \in Objs => h[w].kind # "free"
            /\ w # Absent => conforms(h, s, k, w)
        BY <1>1, <2>1, <4>1, StoredFits DEF v
      <4>3. e[k] = w
        BY <3>1 DEF v, s
      <4> QED BY <4>2, <4>3
    <3>2. CASE ~assigned(k)
      <4>1. e[k] = heap[o].entries[k]
        BY <3>2
      <4>2. heap[o].entries[k] # Absent => conforms(heap, s, k, heap[o].entries[k])
        BY <1>1 DEF HeapInv, ConformsIn
      <4>3. /\ heap[o].entries[k] \in Values \cup {Absent}
            /\ heap[o].entries[k] \in Objs => heap[heap[o].entries[k]].kind # "free"
        BY <1>1 DEF Entries, HeapInv, AllocatedIn
      <4> QED BY <2>1, <4>1, <4>2, <4>3, ConformsKept
    <3> QED BY <3>1, <3>2
  <2>4. e \in Entries
    BY <2>3 DEF Entries
  <2>5. Storable(h, e) /\ Fitting(h, s, e)
    BY <2>3, <2>4 DEF Storable, Fitting
  <2> HIDE DEF e, s
  <2>6. Good(h, [h EXCEPT ![o].entries = e])
    BY <1>1, <1>4, <2>2, <2>5, Write
  <2> QED BY <2>1, <2>6, GoodTrans DEF Good
<1>5. ok => Good(heap, f)
  BY <1>4, GoodRefl
<1> HIDE DEF ok, f
<1> QED BY <1>2, <1>5, DoGood

\* set_xr_status.
LEMMA SetXRStatusGood ==
  ASSUME HeapInv(heap), NEW o \in Live(heap), NEW n, n = Absent \/ n \in Free(heap),
         NEW j \in Keys, NEW k \in Keys, NEW v \in Usable, SetXRStatus(o, n, j, k, v)
  PROVE  Stepped
<1> DEFINE h1 == ensure(heap, o)
           e == [noEntries EXCEPT ![k] = v]
           h2 == [h1 EXCEPT ![n] = container("star", e, None)]
           f == [put(h1, o, j, n) EXCEPT ![n] = container("star", e, None)]
           ok == v # None => ~unconvertible(heap, o) /\ setsUnfrozen(heap, o)
<1>1. /\ o \in Objs /\ heap[o].kind = "star" /\ n \in Objs /\ heap[n].kind = "free" /\ o # n
      /\ v \in Values /\ (v \in Objs => heap[v].kind # "free")
  BY Distinct DEF Live, Free, SetXRStatus, Usable, Values
<1>2. Do(ok, IF v = None THEN heap ELSE f)
  BY DEF SetXRStatus
<1>3. /\ Good(heap, h1) /\ HeapInv(h1)
      /\ \A q \in Objs : h1[q].kind = heap[q].kind /\ h1[q].frozen = heap[q].frozen
  BY <1>1, Ensure DEF Good
<1> HIDE DEF h1
<1>4. Storable(h1, e)
  BY <1>1, <1>3, Distinct DEF Storable, noEntries, Entries, Values
<1> HIDE DEF e
<1>5. Good(h1, h2)
  BY <1>1, <1>3, <1>4, Allocate DEF Free
<1>6. h2[n].kind = "star" /\ h2[o] = h1[o] /\ HeapInv(h2)
  BY <1>1, <1>3, <1>5 DEF container, Good, HeapInv, Typed
<1>7. f = put(h2, o, j, n)
  BY <1>1, <1>3 DEF put, HeapInv, Typed
<1> HIDE DEF h2, f
<1>8. ASSUME ok, v # None PROVE Good(heap, f)
  <2>1. Good(h2, put(h2, o, j, n))
    BY <1>1, <1>3, <1>6, <1>8, Put DEF setsUnfrozen, Values
  <2>2. Good(h1, f)
    BY <1>5, <1>7, <2>1, GoodTrans DEF Good
  <2> QED BY <1>3, <2>2, GoodTrans DEF Good
<1> HIDE DEF ok
<1>9. ok => Good(heap, IF v = None THEN heap ELSE f)
  BY <1>8, GoodRefl
<1> QED BY <1>2, <1>9, DoGood

\* Operations that read, freeze or convert.
LEMMA ReadGood ==
  ASSUME HeapInv(heap), NEW o \in Live(heap), NEW k,
         SetDefaultFound(o, k) \/ Read(o) \/ ReadQuietly(o) \/ Freeze(o) \/ EmitResource(o)
  PROVE  Stepped
<1> DEFINE f == [p \in Objs |-> IF p \in reach(heap, o) THEN materialize(heap[p]) ELSE heap[p]]
<1>1. o \in Objs /\ heap[o].kind # "free"
  BY DEF Live
<1>2. Good(heap, ensure(heap, o))
  BY <1>1, Ensure
<1>3. Good(heap, f)
  BY Convert
<1>4. Good(heap, freeze(heap, o))
  BY <1>1, FreezeGood
<1>5. \/ Do(TRUE, ensure(heap, o)) \/ Do(~unconvertible(heap, o), ensure(heap, o))
      \/ Do(TRUE, freeze(heap, o)) \/ Do(bodyOK(heap, o), f)
  BY DEF SetDefaultFound, Read, ReadQuietly, Freeze, EmitResource
<1> HIDE DEF f
<1> QED BY <1>2, <1>3, <1>4, <1>5, DoGood

\* The + of two mutable_structs.
LEMMA PlusGood ==
  ASSUME HeapInv(heap), NEW o \in Free(heap), NEW n, n = Absent \/ n \in Free(heap) \ {o},
         NEW l \in Live(heap), NEW r \in Live(heap), Plus(o, n, l, r)
  PROVE  Stepped
<1> DEFINE s == IF heap[l].schema # None THEN heap[l].schema ELSE heap[r].schema
           right == heap[r].entries
           assigned(k) == right[k] # Absent
           nests(k) == s # None /\ assigned(k) /\ mutationNeedsNested(heap, s, k, right[k])
           k0 == CHOOSE k \in Keys : nests(k)
           h == IF \E k \in Keys : nests(k) THEN afterMutation(s, k0, right[k0], n) ELSE heap
           merged == [k \in Keys |->
                        IF ~assigned(k) THEN heap[l].entries[k]
                        ELSE IF s = None THEN right[k] ELSE storedValue(heap, s, k, right[k], n)]
           ok == /\ heap[l].schema = None \/ heap[r].schema = None
                      \/ heap[l].schema = heap[r].schema
                 /\ s # None => \A k \in Keys : assigned(k) => validMutation(heap, s, k, right[k])
           f == [h EXCEPT ![o] = container("struct", merged, s)]
<1>1. /\ o \in Objs /\ l \in Objs /\ r \in Objs /\ s \in Schemas \cup {None}
      /\ heap[l].entries \in Entries /\ right \in Entries
      /\ o # l /\ o # r /\ heap[o].kind = "free" /\ heap[l].kind # "free" /\ heap[r].kind # "free"
  BY ContainerFields DEF Live, Free, HeapInv
<1>2. /\ (\E k \in Keys : nests(k)) => n # Absent
      /\ Do(ok, f)
  BY DEF Plus
<1>3. \A k \in Keys : assigned(k) => right[k] \in Usable
  BY <1>1 DEF Usable, Live, Entries, Values, HeapInv, AllocatedIn
<1>4. ASSUME ok PROVE Good(heap, f)
  <2>1. /\ Good(heap, h)
        /\ \A q \in Objs : heap[q].kind # "free" => h[q].kind = heap[q].kind
        /\ h[o].kind = "free"
        /\ (\E k \in Keys : nests(k)) => n \in Objs /\ h[n].kind = "schema"
    <3>1. CASE \E k \in Keys : nests(k)
      <4>1. k0 \in Keys /\ nests(k0)
        BY <3>1
      <4>2. h = afterMutation(s, k0, right[k0], n)
        BY <3>1
      <4> HIDE DEF k0, h
      <4>3. /\ right[k0] \in Usable /\ validMutation(heap, s, k0, right[k0])
            /\ mutationNeedsNested(heap, s, k0, right[k0]) /\ n \in Free(heap) \ {o}
            /\ s \in Schemas
        BY <1>1, <1>2, <1>3, <1>4, <3>1, <4>1
      <4> DEFINE v == right[k0]
      <4> HIDE DEF s, v
      <4>4. /\ Good(heap, afterMutation(s, k0, v, n))
            /\ \A q \in Objs : heap[q].kind # "free" => afterMutation(s, k0, v, n)[q].kind = heap[q].kind
            /\ \A q \in Free(heap) : q # n => afterMutation(s, k0, v, n)[q].kind = "free"
            /\ n \in Objs /\ afterMutation(s, k0, v, n)[n].kind = "schema"
        BY <4>1, <4>3, Mutation DEF v
      <4> QED BY <4>2, <4>3, <4>4 DEF v
    <3>2. CASE ~\E k \in Keys : nests(k)
      BY <1>1, <3>2, GoodRefl
    <3> QED BY <3>1, <3>2
  <2> HIDE DEF h
  <2>2. ASSUME NEW k \in Keys
        PROVE  /\ merged[k] \in Values \cup {Absent}
               /\ merged[k] \in Objs => h[merged[k]].kind # "free"
    <3>1. CASE assigned(k) /\ s # None
      <4>1. /\ right[k] \in Usable /\ validMutation(heap, s, k, right[k]) /\ s \in Schemas
            /\ mutationNeedsNested(heap, s, k, right[k]) => n \in Objs /\ h[n].kind = "schema"
        BY <1>1, <1>3, <1>4, <2>1, <3>1
      <4> DEFINE v == right[k]
                 w == storedValue(heap, s, k, v, n)
      <4> HIDE DEF v, s
      <4>2. /\ w \in Values \cup {Absent}
            /\ w \in Objs => h[w].kind # "free"
        BY <2>1, <4>1, StoredFits DEF v
      <4>3. merged[k] = w
        BY <3>1 DEF v, s
      <4> QED BY <4>2, <4>3
    <3>2. CASE ~(assigned(k) /\ s # None)
      <4>1. merged[k] \in {heap[l].entries[k], right[k]}
        BY <3>2
      <4> QED BY <1>1, <2>1, <4>1 DEF Entries, HeapInv, AllocatedIn
    <3> QED BY <3>1, <3>2
  <2>3. Storable(h, merged)
    BY <2>2 DEF Storable, Entries
  <2> HIDE DEF merged, s
  <2>4. o \in Free(h) /\ HeapInv(h)
    BY <1>1, <2>1 DEF Free, Good
  <2>5. Good(h, f)
    BY <1>1, <2>3, <2>4, Allocate
  <2> QED BY <2>1, <2>5, GoodTrans DEF Good
<1> HIDE DEF ok, f
<1> QED BY <1>2, <1>4, DoGood

\* dict.merge.
LEMMA DictMergeGood ==
  ASSUME HeapInv(heap), NEW o \in Free(heap), NEW p \in Live(heap), NEW q \in Live(heap),
         DictMerge(o, p, q)
  PROVE  Stepped
<1> DEFINE h1 == ensure(heap, p)
           h2 == ensure(h1, q)
           e == overwritten(heap[p].entries, heap[q].entries)
           f == [h2 EXCEPT ![o] = container("dict", e, None)]
<1>1. /\ o \in Objs /\ heap[o].kind = "free" /\ p \in Objs /\ q \in Objs /\ Do(TRUE, f)
      /\ heap[p].entries \in Entries /\ heap[q].entries \in Entries
  BY ContainerFields DEF Live, Free, DictMerge, HeapInv
<1>2. /\ Good(heap, h1) /\ HeapInv(h1)
      /\ \A x \in Objs : h1[x].kind = heap[x].kind
  BY <1>1, Ensure DEF Good
<1> HIDE DEF h1
<1>3. /\ Good(h1, h2) /\ HeapInv(h2)
      /\ \A x \in Objs : h2[x].kind = h1[x].kind
  BY <1>1, <1>2, Ensure DEF Good
<1> HIDE DEF h2
<1>4. Storable(h2, e)
  BY <1>1, <1>2, <1>3 DEF Storable, overwritten, Entries, HeapInv, AllocatedIn
<1> HIDE DEF e
<1>5. Good(h2, f)
  BY <1>1, <1>2, <1>3, <1>4, Allocate DEF Free
<1> HIDE DEF f
<1>6. Good(heap, f)
  BY <1>2, <1>3, <1>5, GoodTrans DEF Good
<1> QED BY <1>1, <1>6, DoGood

\* dict.pick and dict.omit.
LEMMA DictPickGood ==
  ASSUME HeapInv(heap), NEW o \in Free(heap), NEW p \in Live(heap), NEW S,
         DictPick(o, p, S) \/ DictOmit(o, p, S)
  PROVE  Stepped
<1> DEFINE e(T) == restrictedTo(heap[p].entries, T)
           f(h, T) == [h EXCEPT ![o] = container("dict", e(T), None)]
<1>1. /\ o \in Objs /\ heap[o].kind = "free" /\ p \in Objs /\ heap[p].entries \in Entries
      /\ \/ S = {} /\ Do(TRUE, f(heap, S))
         \/ S # {} /\ Do(~unconvertible(heap, p), f(ensure(heap, p), S))
         \/ Do(TRUE, f(ensure(heap, p), Keys \ S))
  <2>1. /\ o \in Objs /\ heap[o].kind = "free" /\ p \in Objs /\ heap[p].entries \in Entries
    BY ContainerFields DEF Live, Free, HeapInv
  <2>2. CASE DictOmit(o, p, S)
    BY <2>1, <2>2 DEF DictOmit
  <2>3. CASE DictPick(o, p, S) /\ S = {}
    BY <2>1, <2>3 DEF DictPick, Do
  <2>4. CASE DictPick(o, p, S) /\ S # {}
    BY <2>1, <2>4 DEF DictPick, Do
  <2> QED BY <2>2, <2>3, <2>4
<1>2. ASSUME NEW h \in {heap, ensure(heap, p)}
      PROVE  /\ Good(heap, h) /\ HeapInv(h)
             /\ \A x \in Objs : h[x].kind = heap[x].kind
  BY <1>1, <1>2, Ensure, GoodRefl DEF Good
<1>3. ASSUME NEW h \in {heap, ensure(heap, p)}, NEW T PROVE Good(heap, f(h, T))
  <2>0. /\ Good(heap, h) /\ HeapInv(h)
        /\ \A x \in Objs : h[x].kind = heap[x].kind
    BY <1>2
  <2>1. Storable(h, e(T))
    BY <1>1, <2>0, Distinct DEF Storable, restrictedTo, Entries, HeapInv, AllocatedIn
  <2> DEFINE x == e(T)
  <2> HIDE DEF x
  <2>2. Good(h, [h EXCEPT ![o] = container("dict", x, None)])
    BY <1>1, <2>0, <2>1, Allocate DEF Free, x
  <2> QED BY <2>0, <2>2, GoodTrans DEF Good, x
<1>4. /\ Good(heap, f(heap, S)) /\ Good(heap, f(ensure(heap, p), S))
      /\ Good(heap, f(ensure(heap, p), Keys \ S))
  BY <1>3
<1> HIDE DEF f
<1> QED BY <1>1, <1>4, DoGood

--------------------------------------------------------------------------------
(* The theorems *)

\* The containers an operation may create are unused, and differ.
LEMMA FreshOnes ==
  /\ new = Absent \/ new \in Free(heap)
  /\ sub = Absent \/ sub \in Free(heap) \ {new}
  BY DEF new, sub, fresh

\* Every operation of the script is Good.
LEMMA NextGood == ASSUME HeapInv(heap), Next PROVE Stepped
<1>1. new \in Objs => new \in Free(heap) /\ (sub = Absent \/ sub \in Free(heap) \ {new})
  BY FreshOnes, Distinct DEF Free
<1>2. ASSUME NEW e \in Arguments PROVE Storable(heap, e)
  BY <1>2, Distinct DEF Arguments, Usable, Live, Storable, Entries, Values
<1>3. ASSUME NEW o \in Live(heap), NEW k \in Keys, NEW v \in Usable, Assign(o, k, v)
      PROVE  Stepped
  BY <1>3, PlainSetGood, SetValidatedGood, SetXRStatusGood, FreshOnes DEF Assign
<1>4. ASSUME NEW o \in Live(heap), NEW k \in Keys, Pop(o, k) \/ SetDefaultFound(o, k)
      PROVE  Stepped
  BY <1>4, RemoveGood, ReadGood
<1>5. ASSUME NEW o \in Live(heap),
             Clear(o) \/ Read(o) \/ ReadQuietly(o) \/ Freeze(o) \/ EmitResource(o)
      PROVE  Stepped
  BY <1>5, RemoveGood, ReadGood
<1>6. ASSUME NEW o \in Live(heap), NEW p \in Live(heap), Update(o, p) \/ UpdateSchema(o, new, p)
      PROVE  Stepped
  BY <1>6, UpdateGood, UpdateSchemaGood, FreshOnes
<1>7. ASSUME new # Absent, MakeDict(new) \/ MakeStarlarkDict(new)
      PROVE  Stepped
  BY <1>7, MakeGood, FreshOnes
<1>8. ASSUME new # Absent, NEW e \in Arguments,
             MakePlainStruct(new, e) \/ \E s \in Schemas : Construct(e, s)
      PROVE  Stepped
  <2>1. Storable(heap, e) /\ new \in Free(heap)
    BY <1>2, <1>8, FreshOnes
  <2>2. ASSUME NEW s \in Schemas, Construct(e, s) PROVE Stepped
    <3>1. \E kind \in {"schema", "struct"} : Validated(kind, new, sub, s, e)
      BY <2>2 DEF Construct, CallSchema, MakeMutableStruct
    <3> QED BY <2>1, <3>1, ValidatedGood, FreshOnes
  <2> QED BY <1>8, <2>1, <2>2, PlainStructGood
<1>9. ASSUME new # Absent, NEW p \in Live(heap), NEW q \in Live(heap),
             Plus(new, sub, p, q) \/ DictMerge(new, p, q)
      PROVE  Stepped
  BY <1>9, PlusGood, DictMergeGood, FreshOnes
<1>10. ASSUME new # Absent, NEW p \in Live(heap), NEW S,
              DictPick(new, p, S) \/ DictOmit(new, p, S)
       PROVE  Stepped
  BY <1>10, DictPickGood, FreshOnes
<1> QED BY <1>3, <1>4, <1>5, <1>6, <1>7, <1>8, <1>9, <1>10 DEF Next

\* The invariant is inductive: no operation of any script lets data that is
\* shared and frozen lead to something that may be changed, and no assignment,
\* update, pop or merge puts into a SchemaDict what its schema does not allow.
THEOREM Inductive == Spec => []IInv
<1>1. Init => IInv
  <2> SUFFICES ASSUME Init PROVE HeapInv(heap) /\ status \in {"running", "failed"}
    BY Parts
  <2>1. \A o \in Objs : heap[o] \in {free} \cup RequestBodies
    BY DEF Init
  <2>2. noEntries \in Entries
    BY DEF noEntries, Entries
  <2>3. /\ free \in Containers /\ free.kind = "free" /\ free.entries = noEntries /\ free.frozen = FALSE
        /\ free.lazy = "built"
    BY <2>2 DEF free, container, Containers
  <2>4. \A e \in Bodies \cup {noEntries}, l \in {"pending", "bad"} :
          LET b == requestBody(e, l)
          IN  b \in Containers /\ b.kind = "star" /\ b.entries = e /\ b.frozen = TRUE /\ b.lazy = l
    BY <2>2, RequestOK DEF requestBody, container, Containers, Entries, Values
  <2>5. \A b \in RequestBodies :
          /\ b \in Containers /\ b.kind = "star" /\ b.frozen = TRUE
          /\ b.entries \in Bodies \cup {noEntries}
          /\ b.lazy = "pending" \/ (b.lazy = "bad" /\ b.entries = noEntries)
    BY <2>4 DEF RequestBodies
  <2>6. \A o \in Objs, k \in Keys : heap[o].entries[k] \in Atoms \cup {None, Absent}
    BY <2>1, <2>3, <2>5, RequestOK DEF noEntries
  <2>7. \A o \in Objs : /\ heap[o] \in Containers /\ heap[o].kind \in {"free", "star"}
                        /\ heap[o].kind = "free" => ~heap[o].frozen
                        /\ unconvertible(heap, o) => /\ heap[o].kind = "star" /\ heap[o].frozen
                                                     /\ heap[o].entries = noEntries
    BY <2>1, <2>3, <2>5 DEF unconvertible
  <2>8. Typed(heap) /\ status = "running"
    BY <2>7 DEF Typed, Init
  <2> QED BY <2>6, <2>7, <2>8, Distinct DEF HeapInv, AllocatedIn, FrozenIn, ConformsIn
<1>2. IInv /\ [Next]_vars => IInv'
  <2> SUFFICES ASSUME IInv, [Next]_vars PROVE IInv'
    OBVIOUS
  <2>1. HeapInv(heap) /\ status \in {"running", "failed"}
    BY Parts
  <2>2. HeapInv(heap') /\ status' \in {"running", "failed"}
    BY <2>1, NextGood DEF vars, Stepped, Good
  <2> QED BY <2>2 DEF IInv, HeapInv, TypeOK, Typed, Allocated, AllocatedIn, DeepFrozen,
         FrozenIn, SchemaConforms, ConformsIn, conforms, acceptsPlain, CheckType
<1> QED BY <1>1, <1>2, PTL DEF Spec

\* Frozen data reads the same for ever, whatever the script does with what it has:
\* modules share their exports, and the observed bodies are shared by all handles.
THEOREM FrozenNeverChanges == Spec => FrozenForever
<1>1. IInv /\ [Next]_vars =>
        [\A o \in Objs : heap[o].frozen => /\ heap'[o].frozen
                                           /\ heap'[o].entries = heap[o].entries]_vars
  <2> SUFFICES ASSUME IInv, Next
               PROVE  \A o \in Objs : heap[o].frozen => /\ heap'[o].frozen
                                                        /\ heap'[o].entries = heap[o].entries
    OBVIOUS
  <2> QED BY Parts, NextGood DEF Stepped, Good, Keeps
<1> QED BY <1>1, Inductive, PTL DEF Spec, FrozenForever

--------------------------------------------------------------------------------
(***************************************************************************)
(* Bodies.  What is found at a path, which containers compaction changes   *)
(* and where it leaves what it built are recursive functions: each is      *)
(* first shown to exist, from a description without recursion, and so to   *)
(* satisfy its equation.                                                   *)
(***************************************************************************)

\* A set of naturals has a least element.
LEMMA Least ==
  ASSUME NEW T \in SUBSET Nat, T # {}
  PROVE  \E n \in T : \A m \in T : n <= m
<1>1. PICK n \in T : \A m \in T : ~(<<m, n>> \in OpToRel(<, Nat))
  BY NatLessThanWellFounded, WFMin, Zenon
<1>2. ASSUME NEW m \in T PROVE n <= m
  <2>1. <<m, n>> \notin OpToRel(<, Nat)
    BY <1>1, Zenon
  <2>2. m \in Nat /\ n \in Nat
    OBVIOUS
  <2>3. m < n => <<m, n>> \in OpToRel(<, Nat)
    BY <2>2 DEF OpToRel
  <2>4. ~(m < n)
    BY <2>1, <2>3, Zenon
  <2> QED BY <2>2, <2>4
<1> QED BY <1>2

\* A path without its last key is a path.
LEMMA PathParts ==
  ASSUME NEW p \in Paths
  PROVE  /\ p \in Seq(Keys) /\ Len(p) \in 0 .. maxMergeDepth + 1
         /\ p = <<>> <=> Len(p) = 0
         /\ \A i \in 1 .. Len(p) : p[i] \in Keys
         /\ p # <<>> => /\ front(p) \in Paths /\ Len(front(p)) = Len(p) - 1
                        /\ last(p) \in Keys
                        /\ \A i \in 1 .. Len(p) - 1 : front(p)[i] = p[i]
<1>1. PICK n \in 0 .. maxMergeDepth + 1 : p \in [1 .. n -> Keys]
  BY DEF Paths
<1>2. n \in Nat
  BY DepthOK
<1>3. p \in Seq(Keys) /\ Len(p) = n
  BY <1>1, <1>2
<1>4. ASSUME p # <<>> PROVE /\ front(p) \in [1 .. n - 1 -> Keys]
                            /\ Len(front(p)) = n - 1 /\ n > 0
                            /\ \A i \in 1 .. n - 1 : front(p)[i] = p[i]
  <2>1. n > 0
    BY <1>2, <1>3, <1>4
  <2>2. /\ front(p) = [i \in 1 .. n - 1 |-> p[i]]
    BY <1>1, <1>2, <1>3, <2>1 DEF front
  <2> QED BY <1>1, <1>2, <2>1, <2>2
<1>5. p # <<>> => n - 1 \in 0 .. maxMergeDepth + 1
  BY <1>2, <1>4, DepthOK
<1>6. p # <<>> => front(p) \in Paths
  BY <1>4, <1>5 DEF Paths
<1> QED BY <1>1, <1>2, <1>3, <1>4, <1>6 DEF last

\* The value one key further.
next(h, v, k) == IF v \in Objs THEN entry(h, v, k) ELSE Absent

\* The values met on the path p from root.
Walk(h, root, p, w) ==
  /\ w \in [0 .. Len(p) -> Values \cup {Absent}]
  /\ w[0] = root
  /\ \A i \in 1 .. Len(p) : w[i] = next(h, w[i - 1], p[i])

\* Two walks along one path meet the same values.
LEMMA WalkUnique ==
  ASSUME NEW h, NEW root, NEW p, Len(p) \in Nat, NEW v, NEW w,
         Walk(h, root, p, v), Walk(h, root, p, w)
  PROVE  \A i \in 0 .. Len(p) : v[i] = w[i]
<1> DEFINE T == {i \in 0 .. Len(p) : v[i] # w[i]}
<1> SUFFICES ASSUME T # {} PROVE FALSE
  OBVIOUS
<1>0. T \in SUBSET Nat /\ T \subseteq 0 .. Len(p) /\ \A i \in 0 .. Len(p) : i \in T <=> v[i] # w[i]
  OBVIOUS
<1> HIDE DEF T
<1>1. PICK i \in T : \A j \in T : i <= j
  BY <1>0, Least
<1>2. i # 0
  BY <1>1, <1>0 DEF Walk
<1>3. i - 1 \in 0 .. Len(p) /\ i \in 1 .. Len(p)
  BY <1>1, <1>2, <1>0
<1>4. v[i - 1] = w[i - 1]
  BY <1>1, <1>3, <1>0
<1> QED BY <1>1, <1>3, <1>4, <1>0 DEF Walk

\* A walk goes on by one key.
LEMMA WalkOn ==
  ASSUME NEW h, Typed(h), NEW root \in Objs, NEW p \in Paths, p # <<>>,
         NEW v, Walk(h, root, front(p), v)
  PROVE  Walk(h, root, p, [i \in 0 .. Len(p) |->
                             IF i = Len(p) THEN next(h, v[Len(p) - 1], last(p)) ELSE v[i]])
<1> DEFINE w == [i \in 0 .. Len(p) |->
                   IF i = Len(p) THEN next(h, v[Len(p) - 1], last(p)) ELSE v[i]]
<1>1. /\ Len(p) \in Nat /\ Len(p) > 0 /\ Len(front(p)) = Len(p) - 1 /\ last(p) \in Keys
      /\ \A i \in 1 .. Len(p) - 1 : front(p)[i] = p[i]
  BY PathParts, DepthOK
<1>2. \A o \in Objs, k \in Keys : entry(h, o, k) \in Values \cup {Absent}
  BY DEF Typed, Containers, Entries
<1>3. w \in [0 .. Len(p) -> Values \cup {Absent}]
  BY <1>1, <1>2 DEF Walk, next
<1>4. w[0] = root
  BY <1>1 DEF Walk
<1>5. ASSUME NEW i \in 1 .. Len(p) PROVE w[i] = next(h, w[i - 1], p[i])
  <2>1. i - 1 \in 0 .. Len(p) /\ i - 1 # Len(p) /\ i \in 0 .. Len(p)
    BY <1>1
  <2>2. w[i - 1] = v[i - 1]
    BY <2>1
  <2>3. CASE i = Len(p)
    BY <2>1, <2>2, <2>3 DEF last
  <2>4. CASE i # Len(p)
    <3>1. w[i] = v[i] /\ i \in 1 .. Len(p) - 1
      BY <1>1, <2>1, <2>4
    <3>2. v[i] = next(h, v[i - 1], front(p)[i])
      BY <1>1, <3>1 DEF Walk
    <3> QED BY <1>1, <2>2, <3>1, <3>2
  <2> QED BY <2>3, <2>4
<1> HIDE DEF w
<1>6. Walk(h, root, p, w)
  BY <1>3, <1>4, <1>5 DEF Walk
<1> QED BY <1>6 DEF w

\* There is a walk along every path.
LEMMA WalkExists ==
  ASSUME NEW h, Typed(h), NEW root \in Objs
  PROVE  \A p \in Paths : \E w : Walk(h, root, p, w)
<1> DEFINE T == {n \in Nat : \E p \in Paths : Len(p) = n /\ ~ \E w : Walk(h, root, p, w)}
<1> SUFFICES ASSUME T # {} PROVE FALSE
  BY PathParts, DepthOK
<1>1. PICK n \in T : \A m \in T : n <= m
  BY Least
<1>2. PICK p \in Paths : Len(p) = n /\ ~ \E w : Walk(h, root, p, w)
  BY <1>1
<1>3. CASE p = <<>>
  <2>1. Len(p) = 0
    BY <1>3
  <2>2. Walk(h, root, p, [i \in 0 .. 0 |-> root])
    BY <2>1 DEF Walk, Values
  <2> QED BY <1>2, <2>2
<1>4. CASE p # <<>>
  <2>1. front(p) \in Paths /\ Len(front(p)) = n - 1 /\ n > 0
    BY <1>2, <1>4, PathParts, DepthOK
  <2>2. n - 1 \notin T /\ n - 1 \in Nat
    BY <1>1, <2>1
  <2>3. PICK v : Walk(h, root, front(p), v)
    BY <2>1, <2>2
  <2> QED BY <1>2, <1>4, <2>3, WalkOn
<1> QED BY <1>3, <1>4

\* What found() computes: the root at the empty path, and one key further what
\* that key holds.
LEMMA FoundEquation ==
  ASSUME NEW h, Typed(h), NEW root \in Objs
  PROVE  /\ found(h, root)[<<>>] = root
         /\ \A p \in Paths : p # <<>> =>
              found(h, root)[p] = next(h, found(h, root)[front(p)], last(p))
<1> DEFINE Eq(at) ==
      at = [p \in Paths |->
              IF p = <<>> THEN root
              ELSE IF at[front(p)] \in Objs THEN entry(h, at[front(p)], last(p)) ELSE Absent]
    walk(p) == CHOOSE w : Walk(h, root, p, w)
    f == [p \in Paths |-> walk(p)[Len(p)]]
<1>1. \A p \in Paths : Walk(h, root, p, walk(p))
  BY WalkExists
<1> HIDE DEF walk
<1>2. ASSUME NEW p \in Paths, p = <<>> PROVE f[p] = root
  BY <1>1, <1>2 DEF Walk
<1>3. ASSUME NEW p \in Paths, p # <<>>
      PROVE  f[p] = IF f[front(p)] \in Objs THEN entry(h, f[front(p)], last(p)) ELSE Absent
  <2>1. /\ front(p) \in Paths /\ Len(p) \in Nat /\ Len(p) > 0 /\ Len(front(p)) = Len(p) - 1
    BY <1>3, PathParts, DepthOK
  <2> DEFINE w == [i \in 0 .. Len(p) |-> IF i = Len(p)
                     THEN next(h, walk(front(p))[Len(p) - 1], last(p)) ELSE walk(front(p))[i]]
  <2>2. Walk(h, root, p, w)
    BY <1>1, <1>3, <2>1, WalkOn
  <2>3. walk(p)[Len(p)] = w[Len(p)]
    BY <1>1, <2>1, <2>2, WalkUnique
  <2>4. f[p] = next(h, walk(front(p))[Len(p) - 1], last(p))
    BY <2>1, <2>3
  <2>5. f[front(p)] = walk(front(p))[Len(p) - 1]
    BY <2>1
  <2> QED BY <2>4, <2>5 DEF next
<1> HIDE DEF f
<1>4. f = [p \in Paths |-> f[p]]
  BY DEF f
<1>5. Eq(f)
  BY <1>2, <1>3, <1>4
<1>6. found(h, root) = CHOOSE at : Eq(at)
  BY DEF found
<1> HIDE DEF Eq
<1>7. Eq(found(h, root))
  BY <1>5, <1>6
<1>8. <<>> \in Paths
  <2>1. <<>> \in [1 .. 0 -> Keys] /\ 0 \in 0 .. maxMergeDepth + 1
    BY DepthOK
  <2> QED BY <2>1 DEF Paths
<1> QED BY <1>7, <1>8 DEF Eq, next

\* Containers, each held by the one before, of which the last holds None.
Chain(h, n, c) ==
  /\ c \in [0 .. n -> Objs]
  /\ \A i \in 1 .. n : \E k \in Keys : entry(h, c[i - 1], k) = c[i]
  /\ \E k \in Keys : entry(h, c[n], k) = None

\* What compactChanges() computes: above the depth limit, a container with an
\* entry that is None or that changes one level down.
LEMMA ChangesEquation ==
  ASSUME NEW h, Typed(h)
  PROVE  /\ \A d \in 0 .. maxMergeDepth : compactChanges(h)[d] =
              {o \in Objs : \E k \in Keys : entry(h, o, k) \in {None} \cup compactChanges(h)[d + 1]}
         /\ compactChanges(h)[maxMergeDepth + 1] = {}
<1> DEFINE Eq(ch) ==
      ch = [d \in 0 .. maxMergeDepth + 1 |->
              IF d > maxMergeDepth THEN {}
              ELSE {o \in Objs : \E k \in Keys : entry(h, o, k) \in {None} \cup ch[d + 1]}]
    f == [d \in 0 .. maxMergeDepth + 1 |->
            {o \in Objs : \E n \in 0 .. maxMergeDepth - d : \E c : Chain(h, n, c) /\ c[0] = o}]
<1>1. \A d \in 0 .. maxMergeDepth + 1 : \A o : o \in f[d] <=>
        o \in Objs /\ \E n \in 0 .. maxMergeDepth - d : \E c : Chain(h, n, c) /\ c[0] = o
  OBVIOUS
<1>2. f = [d \in 0 .. maxMergeDepth + 1 |-> f[d]]
  OBVIOUS
<1> HIDE DEF f
<1>3. ASSUME NEW d \in 0 .. maxMergeDepth + 1, d > maxMergeDepth PROVE f[d] = {}
  <2>1. 0 .. maxMergeDepth - d = {}
    BY <1>3, DepthOK
  <2> QED BY <1>1, <2>1
<1>4. ASSUME NEW d \in 0 .. maxMergeDepth
      PROVE  f[d] = {o \in Objs : \E k \in Keys : entry(h, o, k) \in {None} \cup f[d + 1]}
  <2>1. d \in 0 .. maxMergeDepth + 1 /\ d + 1 \in 0 .. maxMergeDepth + 1 /\ maxMergeDepth - d \in Nat
    BY DepthOK
  <2>2. ASSUME NEW o \in f[d] PROVE \E k \in Keys : entry(h, o, k) \in {None} \cup f[d + 1]
    <3>0. PICK n \in 0 .. maxMergeDepth - d : \E c : Chain(h, n, c) /\ c[0] = o
      BY <1>1, <2>1, <2>2
    <3>1. PICK c : Chain(h, n, c) /\ c[0] = o
      BY <3>0
    <3>2. CASE n = 0
      BY <3>1, <3>2 DEF Chain
    <3>3. CASE n # 0
      <4>1. n - 1 \in 0 .. maxMergeDepth - (d + 1) /\ n \in Nat /\ n - 1 \in Nat
        BY <2>1, <3>3, DepthOK
      <4> DEFINE b == [i \in 0 .. n - 1 |-> c[i + 1]]
      <4>2. b \in [0 .. n - 1 -> Objs]
        BY <3>1, <4>1 DEF Chain
      <4>3. ASSUME NEW i \in 1 .. n - 1 PROVE \E k \in Keys : entry(h, b[i - 1], k) = b[i]
        <5>1. i + 1 \in 1 .. n /\ b[i - 1] = c[i] /\ b[i] = c[i + 1] /\ (i + 1) - 1 = i
          BY <4>1
        <5>2. \E k \in Keys : entry(h, c[(i + 1) - 1], k) = c[i + 1]
          BY <3>1, <5>1 DEF Chain
        <5> HIDE DEF b
        <5> QED BY <5>1, <5>2
      <4>4. b[n - 1] = c[n] /\ b[0] = c[1]
        BY <4>1
      <4>5. Chain(h, n - 1, b)
        BY <3>1, <4>2, <4>3, <4>4 DEF Chain
      <4>6. b[0] \in Objs
        BY <4>1, <4>2
      <4> HIDE DEF b
      <4>7. b[0] \in f[d + 1]
        BY <1>1, <2>1, <4>1, <4>5, <4>6
      <4>8. \E k \in Keys : entry(h, c[0], k) = c[1]
        <5>1. 1 \in 1 .. n /\ 1 - 1 = 0
          BY <4>1
        <5> QED BY <3>1, <5>1 DEF Chain
      <4> QED BY <3>1, <4>4, <4>7, <4>8
    <3> QED BY <3>2, <3>3
  <2>3. ASSUME NEW o \in Objs, NEW k \in Keys, entry(h, o, k) = None PROVE o \in f[d]
    <3> DEFINE c == [i \in 0 .. 0 |-> o]
    <3>1. Chain(h, 0, c) /\ c[0] = o
      BY <2>3 DEF Chain
    <3>2. 0 \in 0 .. maxMergeDepth - d
      BY <2>1
    <3> HIDE DEF c
    <3> QED BY <1>1, <2>1, <3>1, <3>2
  <2>4. ASSUME NEW o \in Objs, NEW k \in Keys, entry(h, o, k) \in f[d + 1] PROVE o \in f[d]
    <3>0. PICK n \in 0 .. maxMergeDepth - (d + 1) : \E b : Chain(h, n, b) /\ b[0] = entry(h, o, k)
      BY <1>1, <2>1, <2>4
    <3>1. PICK b : Chain(h, n, b) /\ b[0] = entry(h, o, k)
      BY <3>0
    <3>2. n \in Nat /\ n + 1 \in 0 .. maxMergeDepth - d
      BY <2>1, DepthOK
    <3> DEFINE c == [i \in 0 .. n + 1 |-> IF i = 0 THEN o ELSE b[i - 1]]
    <3>3. c \in [0 .. n + 1 -> Objs] /\ c[0] = o /\ c[n + 1] = b[n]
      BY <3>1, <3>2 DEF Chain
    <3>4. ASSUME NEW i \in 1 .. n + 1 PROVE \E j \in Keys : entry(h, c[i - 1], j) = c[i]
      <4>1. CASE i = 1
        <5>1. c[i - 1] = o /\ c[i] = b[0]
          BY <3>2, <4>1
        <5> QED BY <3>1, <5>1
      <4>2. CASE i # 1
        <5>1. i - 1 \in 1 .. n /\ c[i - 1] = b[(i - 1) - 1] /\ c[i] = b[i - 1]
          BY <3>2, <4>2
        <5> QED BY <3>1, <5>1 DEF Chain
      <4> QED BY <4>1, <4>2
    <3> HIDE DEF c
    <3>5. Chain(h, n + 1, c)
      BY <3>1, <3>3, <3>4 DEF Chain
    <3> QED BY <1>1, <2>1, <3>2, <3>3, <3>5
  <2>5. f[d] \subseteq Objs
    BY <1>1, <2>1
  <2> QED BY <2>2, <2>3, <2>4, <2>5
<1>5. Eq(f)
  <2>1. \A d \in 0 .. maxMergeDepth + 1 : ~(d > maxMergeDepth) => d \in 0 .. maxMergeDepth
    BY DepthOK
  <2> QED BY <1>2, <1>3, <1>4, <2>1
<1>6. compactChanges(h) = CHOOSE ch : Eq(ch)
  BY DEF compactChanges
<1> HIDE DEF Eq
<1>7. Eq(compactChanges(h))
  BY <1>5, <1>6
<1>8. /\ \A d \in 0 .. maxMergeDepth : d \in 0 .. maxMergeDepth + 1 /\ ~(d > maxMergeDepth)
      /\ maxMergeDepth + 1 \in 0 .. maxMergeDepth + 1 /\ maxMergeDepth + 1 > maxMergeDepth
  BY DepthOK
<1> QED BY <1>7, <1>8 DEF Eq

\* The values of compacted() are those of its equation: the root is rebuilt, and an
\* entry of a container that is rebuilt and changes, from the first one that does.
LEMMA CompactedEquation ==
  ASSUME NEW h, NEW root
  PROVE  LET at == found(h, root)
             ch == compactChanges(h)
             rebuilt == compacted(h, root)
         IN  \A p \in Paths :
               /\ p = <<>> => rebuilt[p]
               /\ p # <<>> =>
                    (rebuilt[p] <=> /\ rebuilt[front(p)]
                                 /\ at[front(p)] \in ch[Len(front(p))]
                                 /\ last(p) >= rebuiltFrom(h, ch[Len(front(p)) + 1], at[front(p)]))
<1> DEFINE at == found(h, root)
           ch == compactChanges(h)
           here(p) == /\ at[front(p)] \in ch[Len(front(p))]
                      /\ last(p) >= rebuiltFrom(h, ch[Len(front(p)) + 1], at[front(p)])
           Eq(g) == g = [p \in Paths |-> IF p = <<>> THEN TRUE ELSE g[front(p)] /\ here(p)]
           upTo(p, i) == [j \in 1 .. i |-> p[j]]
           f == [p \in Paths |-> \A i \in 1 .. Len(p) : here(upTo(p, i))]
<1>1. compacted(h, root) = CHOOSE g : Eq(g)
  BY DEF compacted
<1> HIDE DEF here
<1>2. ASSUME NEW p \in Paths, p = <<>> PROVE f[p] = TRUE
  BY <1>2
<1>3. ASSUME NEW p \in Paths, p # <<>> PROVE f[p] = (f[front(p)] /\ here(p))
  <2>1. /\ front(p) \in Paths /\ Len(p) \in Nat /\ Len(p) > 0 /\ Len(front(p)) = Len(p) - 1
        /\ \A i \in 1 .. Len(p) - 1 : front(p)[i] = p[i]
        /\ p \in Seq(Keys)
    BY <1>3, PathParts, DepthOK
  <2>2. \A i \in 1 .. Len(p) - 1 : upTo(front(p), i) = upTo(p, i)
    BY <2>1
  <2>3. upTo(p, Len(p)) = p
    BY <2>1
  <2> HIDE DEF upTo
  <2>4. (\A i \in 1 .. Len(p) : here(upTo(p, i))) <=>
          (\A i \in 1 .. Len(p) - 1 : here(upTo(p, i))) /\ here(upTo(p, Len(p)))
    BY <2>1
  <2>5. (\A i \in 1 .. Len(p) - 1 : here(upTo(p, i))) <=>
          (\A i \in 1 .. Len(front(p)) : here(upTo(front(p), i)))
    BY <2>1, <2>2
  <2>6. /\ f[p] = (\A i \in 1 .. Len(p) : here(upTo(p, i)))
        /\ f[front(p)] = (\A i \in 1 .. Len(front(p)) : here(upTo(front(p), i)))
    BY <2>1, Zenon
  <2> HIDE DEF f
  <2> QED BY <2>3, <2>4, <2>5, <2>6, Zenon
<1> HIDE DEF upTo
<1>4. f = [p \in Paths |-> f[p]]
  OBVIOUS
<1> HIDE DEF f
<1>5. Eq(f)
  <2>1. \A p \in Paths : f[p] = IF p = <<>> THEN TRUE ELSE f[front(p)] /\ here(p)
    BY <1>2, <1>3, Zenon
  <2> QED BY <1>4, <2>1, Zenon
<1> HIDE DEF Eq
<1>6. Eq(compacted(h, root))
  BY <1>1, <1>5, Zenon
<1>7. \A p \in Paths : compacted(h, root)[p] =
         IF p = <<>> THEN TRUE ELSE compacted(h, root)[front(p)] /\ here(p)
  BY <1>6, Zenon DEF Eq
<1> HIDE DEF at, ch
<1>8. ASSUME NEW p \in Paths
      PROVE  /\ p = <<>> => compacted(h, root)[p]
             /\ p # <<>> => (compacted(h, root)[p] <=> compacted(h, root)[front(p)] /\ here(p))
  BY <1>7, Zenon
<1> QED BY <1>8, Zenon DEF here, at, ch

\* A container found above the depth limit that compaction changes is rebuilt: so
\* are all those on the way to it, and its entry is not before the first one that
\* changes.
LEMMA ChangedRebuilt ==
  ASSUME NEW h, Typed(h), NEW root \in Objs
  PROVE  \A p \in Paths : /\ Len(p) <= maxMergeDepth
                          /\ found(h, root)[p] \in compactChanges(h)[Len(p)]
                          => compacted(h, root)[p]
<1> DEFINE at == found(h, root)
           ch == compactChanges(h)
           bad(p) == Len(p) <= maxMergeDepth /\ at[p] \in ch[Len(p)] /\ ~compacted(h, root)[p]
           T == {n \in Nat : \E p \in Paths : Len(p) = n /\ bad(p)}
<1> SUFFICES ASSUME T # {} PROVE FALSE
  BY PathParts, DepthOK
<1>1. PICK n \in T : \A m \in T : n <= m
  BY Least
<1>2. PICK p \in Paths : Len(p) = n /\ bad(p)
  BY <1>1
<1>3. p # <<>>
  BY <1>2, CompactedEquation
<1>4. /\ front(p) \in Paths /\ Len(front(p)) = n - 1 /\ n > 0 /\ n \in Nat /\ last(p) \in Keys
  BY <1>2, <1>3, PathParts, DepthOK
<1>5. n - 1 \in 0 .. maxMergeDepth /\ n \in 0 .. maxMergeDepth
  BY <1>2, <1>4, DepthOK
<1>6. ch[n] \subseteq Objs
  BY <1>5, ChangesEquation
<1>7. at[front(p)] \in Objs /\ entry(h, at[front(p)], last(p)) = at[p]
  BY <1>2, <1>3, <1>6, FoundEquation, Distinct DEF next
<1>8. at[front(p)] \in ch[n - 1]
  <2>1. (n - 1) + 1 = n
    BY <1>4
  <2>2. ch[n - 1] = {o \in Objs : \E k \in Keys : entry(h, o, k) \in {None} \cup ch[n]}
    BY <1>5, <2>1, ChangesEquation
  <2> HIDE DEF at, ch
  <2> QED BY <1>2, <1>4, <1>7, <2>2
<1>9. compacted(h, root)[front(p)]
  <2>1. n - 1 \notin T /\ n - 1 \in Nat
    BY <1>1, <1>4
  <2> HIDE DEF at, ch
  <2> QED BY <1>4, <1>5, <1>8, <2>1
<1>10. last(p) >= rebuiltFrom(h, ch[n], at[front(p)])
  <2> DEFINE S == {NKeys + 1} \cup {k \in Keys : entry(h, at[front(p)], k) \in {None} \cup ch[n]}
  <2>1. S \in SUBSET Nat /\ S # {} /\ last(p) \in S
    BY <1>2, <1>4, <1>7, KeysOK DEF Keys
  <2>2. rebuiltFrom(h, ch[n], at[front(p)]) = Min(S)
    BY DEF rebuiltFrom
  <2> HIDE DEF S
  <2>3. Min(S) \in S /\ \A m \in S : Min(S) <= m
    BY <2>1, Least DEF Min
  <2> QED BY <2>1, <2>2, <2>3
<1> QED BY <1>2, <1>3, <1>4, <1>8, <1>9, <1>10, CompactedEquation

\* A body loses its None entries and nothing else, in whatever heap it is: a None
\* makes every container on the way to it change, and compaction, which keeps the
\* entries before the first that changes, rebuilds them all.
LEMMA BodyExact ==
  ASSUME NEW h, Typed(h), NEW root \in Objs, NEW p \in Paths
  PROVE  body(h, root)[p] =
           IF found(h, root)[p] = None THEN Absent
           ELSE IF found(h, root)[p] \in Objs THEN "dict" ELSE found(h, root)[p]
<1> DEFINE at == found(h, root)
           ch == compactChanges(h)
           dropped == /\ p # <<>> /\ at[p] = None
                      /\ compacted(h, root)[front(p)] /\ at[front(p)] \in ch[Len(p) - 1]
<1>1. body(h, root)[p] = IF dropped THEN Absent ELSE IF at[p] \in Objs THEN "dict" ELSE at[p]
  BY Zenon DEF body
<1>2. ASSUME at[p] = None PROVE dropped
  <2>1. p # <<>>
    BY <1>2, FoundEquation, Distinct
  <2>2. /\ front(p) \in Paths /\ Len(front(p)) = Len(p) - 1 /\ Len(p) - 1 \in 0 .. maxMergeDepth
        /\ last(p) \in Keys
    BY <2>1, PathParts, DepthOK
  <2>3. at[front(p)] \in Objs /\ entry(h, at[front(p)], last(p)) = None
    BY <1>2, <2>1, FoundEquation, Distinct DEF next
  <2>4. at[front(p)] \in ch[Len(p) - 1]
    BY <2>2, <2>3, ChangesEquation
  <2>5. compacted(h, root)[front(p)]
    BY <2>2, <2>4, ChangedRebuilt
  <2> QED BY <1>2, <2>1, <2>4, <2>5
<1>3. dropped => at[p] = None
  OBVIOUS
<1> HIDE DEF at, dropped
<1>4. CASE at[p] = None
  BY <1>1, <1>2, <1>4, Zenon DEF at
<1>5. CASE at[p] # None
  BY <1>1, <1>3, <1>5, Zenon DEF at
<1> QED BY <1>4, <1>5

\* A path and one key more.
LEMMA PathOn ==
  ASSUME NEW p \in Paths, Len(p) <= maxMergeDepth, NEW k \in Keys
  PROVE  /\ Append(p, k) \in Paths /\ Append(p, k) # <<>>
         /\ front(Append(p, k)) = p /\ last(Append(p, k)) = k /\ Len(Append(p, k)) = Len(p) + 1
<1>1. p \in Seq(Keys) /\ Len(p) \in 0 .. maxMergeDepth + 1
  BY PathParts
<1>2. /\ Append(p, k) \in [1 .. Len(p) + 1 -> Keys] /\ Len(Append(p, k)) = Len(p) + 1
      /\ Append(p, k)[Len(p) + 1] = k
      /\ \A i \in 1 .. Len(p) : Append(p, k)[i] = p[i]
  <2>1. /\ Append(p, k) \in Seq(Keys) /\ Len(Append(p, k)) = Len(p) + 1
        /\ Append(p, k)[Len(p) + 1] = k
        /\ \A i \in 1 .. Len(p) : Append(p, k)[i] = p[i]
    BY <1>1
  <2>2. \A q \in Seq(Keys) : q \in [1 .. Len(q) -> Keys]
    OBVIOUS
  <2> QED BY <2>1, <2>2
<1>3. Len(p) + 1 \in 0 .. maxMergeDepth + 1 /\ Len(p) \in Nat
  BY <1>1, DepthOK
<1>4. front(Append(p, k)) = p
  <2>1. front(Append(p, k)) = SubSeq(Append(p, k), 1, Len(p))
    BY <1>2, <1>3 DEF front
  <2> QED BY <1>1, <1>2, <1>3, <2>1
<1>5. Append(p, k) # <<>>
  <2>1. Len(Append(p, k)) # 0
    BY <1>2, <1>3
  <2> QED BY <2>1
<1> QED BY <1>2, <1>3, <1>4, <1>5 DEF Paths, last

\* Compaction changes a body only when there is a None in it: the deepest container
\* it changes holds one.
LEMMA ChangedByNone ==
  ASSUME NEW h, Typed(h), NEW root \in Objs, root \in compactChanges(h)[0]
  PROVE  \E q \in Paths : found(h, root)[q] = None
<1> DEFINE at == found(h, root)
           ch == compactChanges(h)
           changed(q) == Len(q) <= maxMergeDepth /\ at[q] \in ch[Len(q)]
           T == {n \in Nat : \E q \in Paths : maxMergeDepth - Len(q) = n /\ changed(q)}
<1>1. T # {}
  <2>1. <<>> \in Paths /\ Len(<<>>) = 0
    <3>1. <<>> \in [1 .. 0 -> Keys] /\ 0 \in 0 .. maxMergeDepth + 1
      BY DepthOK
    <3> QED BY <3>1 DEF Paths
  <2>2. changed(<<>>)
    BY <2>1, FoundEquation, DepthOK
  <2>3. maxMergeDepth - Len(<<>>) \in Nat
    BY <2>1, DepthOK
  <2> QED BY <2>1, <2>2, <2>3
<1>2. PICK n \in T : \A m \in T : n <= m
  BY <1>1, Least
<1>3. PICK q \in Paths : maxMergeDepth - Len(q) = n /\ changed(q)
  BY <1>2
<1>4. Len(q) \in 0 .. maxMergeDepth /\ Len(q) \in Nat
  BY <1>3, PathParts, DepthOK
<1>5. at[q] \in Objs /\ \E k \in Keys : entry(h, at[q], k) \in {None} \cup ch[Len(q) + 1]
  BY <1>3, <1>4, ChangesEquation
<1>6. PICK k \in Keys : entry(h, at[q], k) \in {None} \cup ch[Len(q) + 1]
  BY <1>5
<1> DEFINE r == Append(q, k)
<1>7. r \in Paths /\ r # <<>> /\ front(r) = q /\ last(r) = k /\ Len(r) = Len(q) + 1
  BY <1>3, PathOn
<1> HIDE DEF r
<1>8. at[r] \in {None} \cup ch[Len(r)]
  BY <1>5, <1>6, <1>7, FoundEquation DEF next
<1>9. at[r] \notin ch[Len(r)]
  <2> SUFFICES ASSUME at[r] \in ch[Len(r)] PROVE FALSE
    OBVIOUS
  <2>1. CASE Len(q) = maxMergeDepth
    BY <1>7, <2>1, ChangesEquation
  <2>2. CASE Len(q) # maxMergeDepth
    <3>1. Len(r) <= maxMergeDepth /\ maxMergeDepth - Len(r) \in Nat
      BY <1>4, <1>7, <2>2, DepthOK
    <3>2. maxMergeDepth - Len(r) \in T
      BY <1>7, <3>1
    <3> HIDE DEF T
    <3> QED BY <1>2, <1>3, <1>4, <1>7, <3>2, DepthOK
  <2> QED BY <2>1, <2>2
<1> QED BY <1>7, <1>8, <1>9

\* Compaction leaves a body as it is when the root does not change.
LEMMA RebuiltOnChange ==
  ASSUME NEW h, Typed(h), NEW root \in Objs, NEW p \in Paths, p # <<>>, compacted(h, root)[p]
  PROVE  root \in compactChanges(h)[0]
<1> DEFINE T == {n \in Nat : \E q \in Paths : Len(q) = n /\ q # <<>> /\ compacted(h, root)[q]}
<1>1. T # {}
  BY PathParts, DepthOK
<1>2. PICK n \in T : \A m \in T : n <= m
  BY <1>1, Least
<1>3. PICK q \in Paths : Len(q) = n /\ q # <<>> /\ compacted(h, root)[q]
  BY <1>2
<1>4. /\ front(q) \in Paths /\ Len(front(q)) = n - 1 /\ n \in Nat /\ n - 1 \in Nat
      /\ front(q) = <<>> <=> Len(front(q)) = 0
  BY <1>3, PathParts, DepthOK
<1>5. /\ compacted(h, root)[front(q)]
      /\ found(h, root)[front(q)] \in compactChanges(h)[Len(front(q))]
  BY <1>3, CompactedEquation
<1>6. front(q) = <<>>
  <2> SUFFICES ASSUME front(q) # <<>> PROVE FALSE
    OBVIOUS
  <2>1. n - 1 \in T
    BY <1>4, <1>5
  <2> HIDE DEF T
  <2> QED BY <1>2, <1>4, <2>1
<1> QED BY <1>4, <1>5, <1>6, FoundEquation

\* Whatever a script has done to its containers, a body that Resource() accepts is
\* emitted as it stands but for its None entries, and but for the content of dicts
\* that cannot be converted, when there is a None: without one compaction rebuilds
\* nothing, and the conversion meets such a dict and fails.
THEOREM BodiesExact == Spec => []EmittedExact
<1>1. IInv => EmittedExact
  <2> SUFFICES ASSUME IInv, NEW o \in Objs, heap[o].kind \in bodyKinds, bodyOK(heap, o),
                      NEW p \in Paths
               PROVE  \/ body(heap, o)[p] = emitted(stands(heap, o, p))
                      \/ /\ inBadDict(heap, o, p) /\ body(heap, o)[p] = Absent
                         /\ \E q \in Paths : found(heap, o)[q] = None
    BY Zenon DEF EmittedExact
  <2>1. Typed(heap) /\ AllocatedIn(heap)
    BY Parts DEF HeapInv
  <2>2. body(heap, o)[p] = emitted(found(heap, o)[p])
    BY <2>1, BodyExact DEF emitted
  <2>3. CASE ~inBadDict(heap, o, p)
    BY <2>2, <2>3 DEF stands
  <2>4. CASE inBadDict(heap, o, p)
    <3> DEFINE q == front(p)
               d == found(heap, o)[q]
    <3>1. p # <<>> /\ d \in Objs /\ unconvertible(heap, d)
      BY <2>4 DEF inBadDict
    <3>2. q \in Paths /\ last(p) \in Keys
      BY <3>1, PathParts
    <3>3. heap[d].kind = "star" /\ heap[d].entries = noEntries
      BY <2>1, <3>1 DEF AllocatedIn
    <3>4. found(heap, o)[p] = Absent
      BY <2>1, <3>1, <3>2, <3>3, FoundEquation DEF next, noEntries
    <3>5. body(heap, o)[p] = Absent
      BY <2>2, <3>4, Distinct DEF emitted
    <3>6. q # <<>>
      BY <2>1, <3>3, FoundEquation DEF bodyKinds
    <3>7. compacted(heap, o)[q]
      BY <3>1, <3>2 DEF bodyOK
    <3>8. \E r \in Paths : found(heap, o)[r] = None
      BY <2>1, <3>2, <3>6, <3>7, RebuiltOnChange, ChangedByNone
    <3> QED BY <2>4, <3>5, <3>8
  <2> QED BY <2>3, <2>4
<1> QED BY <1>1, Inductive, PTL
================================================================================
