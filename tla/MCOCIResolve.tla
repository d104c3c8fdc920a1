------------------------------ MODULE MCOCIResolve ------------------------------
(* Artifacts and scripts for model checking OCIResolve. *)
EXTENDS OCIResolve, FiniteSets, TLC

CONSTANTS a, b, c, d, m, n

AtMostOne(S) == {{}} \cup {{x} : x \in S}
FilesNamed(f) == [ref : Refs, file : {f}]

\* Every artifact holds m, some hold n as well.  Alone, m loads some m or
\* cannot be scanned; otherwise m loads some n and n some m, of this or of
\* another artifact, which may not have it.
MCArtifacts ==
  [{m} -> AtMostOne(FilesNamed(m)) \cup {Unparsable}] \cup
  {m :> x @@ n :> y : x \in AtMostOne(FilesNamed(n)), y \in AtMostOne(FilesNamed(m))}

\* Scripts load m from up to two artifacts.
MCScripts ==
  {{s, t} : s, t \in FilesNamed(m)} \cup {{}, Unparsable, NoRegistry}

Perms == Permutations(Refs)
================================================================================
