------------------------------ MODULE MCCluster ------------------------------
(* Cluster for TLC.  s1 runs first, whichever server that is, and another  *)
(* one for the second term; the first leader may restart and come back as  *)
(* a follower.                                                             *)
EXTENDS Cluster

CONSTANTS s1, s2, s3

Servers == {s1, s2, s3}
TwoElections == <<{s1}, {s2}>>
FirstLeader == {s1}
=============================================================================
