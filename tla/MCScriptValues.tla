----------------------------- MODULE MCScriptValues -----------------------------
(* Two keys, a string and an integer too large for protobuf; a schema with a
   required string and a field with a schema of its own, whose two fields have an
   enum and a default. *)
EXTENDS ScriptValues, TLC

CONSTANTS a, big, Outer, Inner, o1, o2, o3

\* The containers a script makes are interchangeable.
Made == Permutations({o2, o3})

MCTypeOf == [v \in Atoms |-> IF v = a THEN "string" ELSE "huge"]

MCBodies == {<<a, None>>}
MCBadBody == <<a, big>>

field(type, enum, required, default, schema) ==
  [type |-> type, enum |-> enum, required |-> required, default |-> default, schema |-> schema]

MCDescriptor ==
  [s \in {Outer, Inner} |->
     IF s = Outer THEN <<field("string", None, TRUE, None, None), field("", None, FALSE, None, Inner)>>
     ELSE <<field("", {a}, FALSE, a, None), Absent>>]
================================================================================
