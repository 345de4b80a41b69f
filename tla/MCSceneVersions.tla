-------------------------- MODULE MCSceneVersions --------------------------
(* Instances of SceneVersions. *)
EXTENDS SceneVersions, TLC

Symmetry == Permutations(Convs)
=============================================================================
