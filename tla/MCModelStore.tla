---------------------------- MODULE MCModelStore ----------------------------
(* Instances of ModelStore: three requests for one model, one for another. *)
EXTENDS ModelStore, TLC

CONSTANTS r1, r2, r3, r4, tower, site

MCNameOf == (r1 :> tower) @@ (r2 :> tower) @@ (r3 :> tower) @@ (r4 :> site)
=============================================================================
