----------------------------- MODULE MCBlockCopy -----------------------------
(* BlockCopy for TLC: pages of two slots.  One follower is sent a batch of *)
(* one slot, whose page reaches into the next slot, a batch of three       *)
(* chunks of different sizes, and a batch whose page reaches past the      *)
(* ring's end; the other only the short batch.                             *)
EXTENDS BlockCopy, TLC

CONSTANTS v1, v2

Short == [start |-> 0, len |-> 1]
Long == [start |-> 1, len |-> 6]
AtEnd == [start |-> 6, len |-> 1]

Sent == (v1 :> {Short, Long, AtEnd}) @@ (v2 :> {Short})

ThreadSymmetry == Permutations(Call)
=============================================================================
