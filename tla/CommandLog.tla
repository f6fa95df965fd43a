----------------------------- MODULE CommandLog -----------------------------
(***************************************************************************)
(* What the cluster promises its clients, without servers or messages: one *)
(* log of decided entries that only grows at its end.  Cluster is checked  *)
(* to implement it, with the entries any server has ever committed.        *)
(***************************************************************************)
EXTENDS Integers

VARIABLE chosen      \* the decided entries: [index, term]

Init == chosen = {}

(* At most one entry is decided at an index. *)
Agreed(c) == \A d, e \in c : d.index = e.index => d = e

(* Nothing is decided before all that stands in front of it. *)
Gapless(c) == \A d \in c : \A i \in 1..d.index : \E e \in c : e.index = i

(* A later entry is of no earlier term. *)
Ordered(c) == \A d, e \in c : d.index <= e.index => d.term <= e.term

(* Entries are decided behind those that were. *)
Decide ==
    /\ chosen \subseteq chosen'
    /\ \A e \in chosen' \ chosen, d \in chosen : d.index < e.index
    /\ Agreed(chosen') /\ Gapless(chosen') /\ Ordered(chosen')

Spec == Init /\ [][Decide]_chosen
=============================================================================
