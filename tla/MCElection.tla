---------------------------- MODULE MCElection ------------------------------
(* Election for TLC: the servers are model values; the contenders among    *)
(* them are interchangeable, and so are the others.                        *)
EXTENDS Election, TLC

ServerSymmetry == Permutations(Contender) \cup Permutations(Server \ Contender)
=============================================================================
