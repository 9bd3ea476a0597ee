------------------------------- MODULE MCDict -------------------------------
(* Model values and the hash function for checking Dict. *)
EXTENDS Dict

CONSTANTS k1, k2, k3, v1, v2

MCKeys2 == {k1, k2}
MCKeys3 == {k1, k2, k3}

(* k1 and k3 share a hash (the user-level equality is called between    *)
(* different keys); k2 has the same low bits but a different perturb.   *)
MCHash == (k1 :> 3) @@ (k2 :> 11) @@ (k3 :> 3)

(* d2 for dictsAreEqual: {k1: v1}, {k1: v1, k3: v1}, or no d2 at all. *)
MCOther1 == k1 :> v1
MCOther2 == (k1 :> v1) @@ (k3 :> v1)
MCNoOther == <<>>

=============================================================================
