------------------------- MODULE MCPartitionMembers -------------------------
(* Instances of PartitionMembers: three members in one partition, or two    *)
(* partitions of two and one.  Headers are two and three bytes, so that a   *)
(* member may end within one; a body is up to three bytes, so that one may  *)
(* reach over a whole member into the one after.  The last kinds of member  *)
(* have no descriptor, an unknown layout, or cannot be inflated.            *)
EXTENDS PartitionMembers

NarrowBytes == UNION {[1..n -> {0, 1, 3}] : n \in 0..2}
                 \union {<<0, 0, 0>>, <<0, 1, 0>>, <<0, 3, 0>>, <<1, 0, 0>>, <<0, 0, 0, 1>>}
WideBytes == {<<0>>, <<0, 0>>, <<0, 0, 0>>, <<0, 0, 2>>, <<0, 0, 0, 1>>}

Member ==
    {[tag |-> "narrow", decodes |-> TRUE, bytes |-> b] : b \in NarrowBytes}
      \union {[tag |-> "wide", decodes |-> TRUE, bytes |-> b] : b \in WideBytes}
      \union {[tag |-> t, decodes |-> TRUE, bytes |-> <<0>>] : t \in {"none", "unknown"}}
      \union {[tag |-> "narrow", decodes |-> FALSE, bytes |-> <<>>]}

MCInputs ==
    {<<p>> : p \in [1..3 -> Member]}
      \union {<<p, q>> : p \in [1..2 -> Member], q \in [1..1 -> Member]}
=============================================================================
