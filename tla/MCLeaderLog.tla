---------------------------- MODULE MCLeaderLog -----------------------------
(* LeaderLog for TLC: peers, and worker threads, are interchangeable. *)
EXTENDS LeaderLog, TLC

Symmetry == Permutations(Peer) \cup Permutations(Thread)
=============================================================================
