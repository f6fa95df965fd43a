--------------------------- MODULE MCFollowerLog ----------------------------
(* FollowerLog for TLC: every leader has all that its predecessors had.    *)
EXTENDS FollowerLog, TLC

AgreeingLogs == <<<<1, 1>>, <<1, 1, 2>>, <<1, 1, 2, 3>>>>

(* Entries of one and of two slots.  The last leader keeps its log at      *)
(* other slots: a promoted server goes on where its own tail_slot was.     *)
EntrySlots == <<<<1, 2, 4>>, <<1, 2, 4, 5>>, <<1, 2, 4, 6, 7>>>>

ThreadSymmetry == Permutations(Thread)
=============================================================================
