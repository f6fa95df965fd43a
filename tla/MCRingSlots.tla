---------------------------- MODULE MCRingSlots -----------------------------
(* RingSlots for TLC: the commands of an apply, by their slot counts. *)
EXTENDS RingSlots

Commands == {<<1>>, <<2>>, <<1, 2>>}
=============================================================================
