----------------------------- MODULE VoteLedger -----------------------------
(***************************************************************************)
(* What leader election promises, without threads, messages or disks.      *)
(* Voters cast at most one ballot per term, and a server leads a term only *)
(* with the ballots of a majority in that very term.  Election is checked  *)
(* to implement this specification, with its two history variables as the  *)
(* ledger.                                                                 *)
(***************************************************************************)
EXTENDS Integers, FiniteSets

CONSTANTS
    Server,      \* the members of raft.cluster
    MaxTerm      \* bound on the terms that are used

VARIABLES
    ballots,     \* the votes cast: [voter, cand, term]
    elected      \* the leaderships begun: [server, term]

vars == <<ballots, elected>>

Init ==
    /\ ballots = {}
    /\ elected = {}

(* The voters of c in term t. *)
Supporters(c, t) == {v \in Server : [voter |-> v, cand |-> c, term |-> t] \in ballots}

(* A voter that has no ballot in term t yet casts one. *)
Cast(v, c, t) ==
    /\ \A b \in ballots : b.voter = v => b.term # t
    /\ ballots' = ballots \cup {[voter |-> v, cand |-> c, term |-> t]}
    /\ UNCHANGED elected

(* A server with a majority of the ballots of term t begins to lead it. *)
Elect(s, t) ==
    /\ 2 * Cardinality(Supporters(s, t)) > Cardinality(Server)
    /\ elected' = elected \cup {[server |-> s, term |-> t]}
    /\ UNCHANGED ballots

Next ==
    \E s \in Server, t \in 1..MaxTerm :
        \/ \E v \in Server : Cast(v, s, t)
        \/ Elect(s, t)

Spec == Init /\ [][Next]_vars
=============================================================================
