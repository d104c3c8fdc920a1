------------------------------ MODULE MCOCICache ------------------------------
(* Instances of OCICache: a moving tag, and a digest-pinned reference. *)
EXTENDS OCICache, TLC

CONSTANTS p1, p2, tag, pin, d1, d2, bad

TagOnly == tag :> None
TagAndPin == tag :> None @@ pin :> d1
================================================================================
