---------------------------- MODULE MCApplyClient ----------------------------
(* ApplyClient for TLC: after its probe the client applies one batch of a  *)
(* command and an empty command.                                           *)
EXTENDS ApplyClient

OneBatch == [c \in Client |-> 1]
TwoCommands == [c \in Client |-> <<TRUE, FALSE>>]
=============================================================================
