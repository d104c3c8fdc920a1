------------------------------- MODULE Containers -------------------------------
(***************************************************************************)
(* The containers a script handles, on a heap: plain Starlark dicts,       *)
(* StarlarkDicts (converted protobuf structs, possibly lazily), SchemaDicts *)
(* and mutable_structs; and the validation of fields against a schema.     *)
(* Lists are left out, and the entries of a dict are taken in the order of *)
(* its keys.                                                               *)
(***************************************************************************)
EXTENDS Integers, Sequences, FiniteSets, FiniteSetsExt

CONSTANTS Objs,        \* identities of containers
          NKeys,       \* keys are 1 .. NKeys
          Atoms,       \* scalar values
          typeOf,      \* typeOf[a]: the Starlark type of a scalar
          Schemas,     \* schemas
          descriptor,  \* descriptor[s][k]: the field k of s, or Absent
          None,        \* Starlark's None; also "no schema", "no enum"
          Absent

Keys == 1 .. NKeys

ASSUME KeysOK == NKeys \in Nat
ASSUME Distinct == /\ None \notin Atoms \cup Objs \cup Schemas
                   /\ Absent \notin Atoms \cup Objs \cup {None}
                   /\ Atoms \cap Objs = {}

Values == Atoms \cup Objs \cup {None}
Entries == [Keys -> Values \cup {Absent}]
noEntries == [k \in Keys |-> Absent]

\* A field descriptor.  A default is a scalar here, and is not validated.
Fields == [type : {"", "string", "int", "dict"}, enum : {None} \cup SUBSET Atoms,
           required : BOOLEAN, default : Atoms \cup {None}, schema : Schemas \cup {None}]

\* Schemas of fields are flat, and a schema has one field with a schema at most.
ASSUME SchemasOK ==
  \A s \in Schemas :
    /\ DOMAIN descriptor[s] = Keys
    /\ \A k \in Keys : descriptor[s][k] = Absent \/
         /\ DOMAIN descriptor[s][k] = {"type", "enum", "required", "default", "schema"}
         /\ descriptor[s][k].default \in Atoms \cup {None}
         /\ descriptor[s][k].schema \in Schemas \cup {None}
         /\ descriptor[s][k].schema # None =>
              \A j \in Keys : /\ descriptor[descriptor[s][k].schema][j] # Absent =>
                                   descriptor[descriptor[s][k].schema][j].schema = None
                              /\ j # k /\ descriptor[s][j] # Absent =>
                                   descriptor[s][j].schema = None

\* A container.  lazy: the entries are there ("built"), their conversion is yet
\* to come and will succeed ("pending") or fail ("bad"), or has failed.
Containers == [kind : {"free", "dict", "star", "schema", "struct"}, entries : Entries,
               frozen : BOOLEAN, schema : Schemas \cup {None},
               lazy : {"built", "pending", "bad", "failed"}]

container(kind, entries, s) == [kind |-> kind, entries |-> entries, frozen |-> FALSE,
                                schema |-> s, lazy |-> "built"]

--------------------------------------------------------------------------------
(* The heap *)

Free(h) == {o \in Objs : h[o].kind = "free"}
Live(h) == {o \in Objs : h[o].kind # "free"}
entry(h, o, k) == h[o].entries[k]
has(h, o, k) == entry(h, o, k) # Absent

\* Mutant of materialize: the freeze asked for before the conversion is forgotten.
materializeUnfrozen(c) ==
  [c EXCEPT !.frozen = IF c.lazy \in {"pending", "bad"} THEN FALSE ELSE @,
            !.lazy = CASE @ = "pending" -> "built" [] @ = "bad" -> "failed" [] OTHER -> @]

\* ensure: the conversion of a lazy dict, once; it stays frozen if it was.
materialize(c) == [c EXCEPT !.lazy = CASE @ = "pending" -> "built"
                                       [] @ = "bad" -> "failed"
                                       [] OTHER -> @]
ensure(h, o) == [h EXCEPT ![o] = materialize(@)]

\* The conversion fails: what reads the dict through materialized() gets the
\* error, what reads it through dict() an empty dict.
unconvertible(h, o) == h[o].lazy \in {"bad", "failed"}

\* The containers reachable from o.
closed(h, S) == \A p \in S, k \in Keys : entry(h, p, k) \in Objs => entry(h, p, k) \in S
reach(h, o) == {p \in Objs : \A S \in SUBSET Objs : o \in S /\ closed(h, S) => p \in S}

\* Mutant of freeze: of the container only.
freezeShallow(h, o) == [h EXCEPT ![o].frozen = TRUE]

\* Freeze: o and everything in it; a lazy dict is frozen once it is converted.
freeze(h, o) == [p \in Objs |-> IF p \in reach(h, o) THEN [h[p] EXCEPT !.frozen = TRUE]
                                ELSE h[p]]

--------------------------------------------------------------------------------
(* Validation *)

\* CheckType, and checkEnum.
dictKinds == {"dict", "star", "schema"}
CheckType(h, v, t) == \/ t = ""
                      \/ v \in Atoms /\ typeOf[v] = t
                      \/ t = "dict" /\ v \in Objs /\ h[v].kind \in dictKinds
checkEnum(v, enum) == enum = None \/ v \in enum

\* A value without a schema of its own is accepted by its type and enum.
acceptsPlain(h, fd, v) == CheckType(h, v, fd.type) /\ checkEnum(v, fd.enum)

\* None and an omitted field: an error if required, else the default or nothing.
omitted(v) == v \in {None, Absent}
defaultOf(fd) == IF fd.default = None THEN Absent ELSE fd.default

\* validateFields for the schema of a field: whether the entries are valid, and
\* what is stored.
flatOK(h, s, e) ==
  \A k \in Keys : LET fd == descriptor[s][k] IN
    IF fd = Absent THEN e[k] = Absent
    ELSE IF omitted(e[k]) THEN ~fd.required
    ELSE acceptsPlain(h, fd, e[k])
flatEntries(s, e) ==
  [k \in Keys |-> LET fd == descriptor[s][k] IN
    IF fd = Absent THEN Absent ELSE IF omitted(e[k]) THEN defaultOf(fd) ELSE e[k]]

\* A value of a field: by its type, or by the field's schema.  Any SchemaDict is
\* taken as validated, of whatever schema; a dict is validated into a new one.
acceptsValue(h, fd, v, convertible) ==
  IF fd.schema = None THEN acceptsPlain(h, fd, v)
  ELSE v \in Objs /\ \/ h[v].kind = "schema"
                     \/ h[v].kind \in convertible /\ flatOK(h, fd.schema, h[v].entries)

\* Whether the value is replaced by a new SchemaDict, which this is.
converted(h, fd, v) == fd.schema # None /\ v \in Objs /\ h[v].kind # "schema"
nested(h, fd, v) == container("schema", flatEntries(fd.schema, h[v].entries), fd.schema)

\* validateFields: the entries given are valid; what is stored, and the heap with
\* the new SchemaDict sub of the field that needs one.
validFields(h, s, e) ==
  \A k \in Keys : LET fd == descriptor[s][k] IN
    IF fd = Absent THEN e[k] = Absent
    ELSE IF omitted(e[k]) THEN ~fd.required
    ELSE acceptsValue(h, fd, e[k], {"dict"})
needsNested(h, s, e) ==
  \E k \in Keys : descriptor[s][k] # Absent /\ converted(h, descriptor[s][k], e[k])
storedFields(h, s, e, sub) ==
  [k \in Keys |-> LET fd == descriptor[s][k] IN
    IF fd = Absent THEN Absent
    ELSE IF omitted(e[k]) THEN defaultOf(fd)
    ELSE IF converted(h, fd, e[k]) THEN sub ELSE e[k]]
withNested(h, s, e, sub) ==
  IF needsNested(h, s, e)
  THEN LET k == CHOOSE j \in Keys : descriptor[s][j] # Absent /\ converted(h, descriptor[s][j], e[j])
       IN  [h EXCEPT ![sub] = nested(h, descriptor[s][k], e[k])]
  ELSE h

\* ValidateMutation of one field: accepted or not, and what is stored (Absent: the
\* key is deleted).  Any dict-like value can become the SchemaDict of a field.
validMutation(h, s, k, v) ==
  LET fd == descriptor[s][k] IN
  /\ fd # Absent
  /\ IF v = None THEN ~fd.required ELSE acceptsValue(h, fd, v, {"dict", "star", "struct"})
mutationNeedsNested(h, s, k, v) ==
  descriptor[s][k] # Absent /\ converted(h, descriptor[s][k], v)
storedValue(h, s, k, v, sub) ==
  LET fd == descriptor[s][k] IN
  IF v = None THEN defaultOf(fd) ELSE IF converted(h, fd, v) THEN sub ELSE v
================================================================================
