----------------------------- MODULE MCUploads -----------------------------
(* Instances of Uploads: one client federates two files, another one file   *)
(* of the same name, and the first also sends that file on its own.         *)
EXTENDS Uploads, TLC

CONSTANTS u1, u2, u3, u4, alice, bob, tower, site, a, b, d1, d2

MCClientOf == (u1 :> alice) @@ (u2 :> alice) @@ (u3 :> bob) @@ (u4 :> alice)
MCNameOf   == (u1 :> tower) @@ (u2 :> site) @@ (u3 :> tower) @@ (u4 :> tower)
MCSetOf    == (u1 :> a) @@ (u2 :> a) @@ (u3 :> b) @@ (u4 :> NoSet)

\* Names that keep their directories apart.
MCApart == (a :> d1) @@ (b :> d2)
=============================================================================
