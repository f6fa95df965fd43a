---------------------------- MODULE ClusterProofs ----------------------------
(***************************************************************************)
(* The cluster as a whole, for every number of servers, terms, entries,    *)
(* calls and faults, if nothing happens that the code does not handle      *)
(* (Excluded): the logs agree, leaders have all that was committed, and    *)
(* the decided entries are one log that only grows.                        *)
(*                                                                         *)
(* The proof speaks of facts: an entry of a certain term at a certain      *)
(* index, in a log, in a request under way, or decided once.  The facts    *)
(* are ordered by term as they are by index (Ordered); so there is one     *)
(* entry for an index, wherever it is.  Replication only repeats facts.    *)
(* New ones are made by a new leader and by its commands, and these lie    *)
(* behind all others: a voter's log held whatever there was, and the vote  *)
(* went to a log that is as good.                                          *)
(***************************************************************************)
EXTENDS Cluster, FiniteSetTheorems, WellFoundedInduction, TLAPS

(* Nothing of what the code does not handle. *)
Sheltered == Excluded = {"lostTail", "amnesia", "lateCopy", "lateReply"}

Positive == Nat \ {0}
Fact == [index : Positive, term : Positive]

FactsOf(l) == {[index |-> i, term |-> l[i]] : i \in 1..Len(l)}
LogFacts(s) == FactsOf(log[s])
CallFacts(c) ==
    {[index |-> FirstIndex(c) + k - 1, term |-> c.req.entries[k]] : k \in 1..Len(c.req.entries)}
Held == UNION {LogFacts(s) : s \in Server}
Carried == UNION {CallFacts(c) : c \in calls}
Facts == Held \cup Carried \cup decided

(* The facts of earlier indices are of no later terms. *)
Ordered == \A f, g \in Facts : f.index <= g.index => f.term <= g.term

ACall ==
    [src : Server, dst : Server, open : BOOLEAN, pc : {"sent", "copying", "answered"},
     term : Nat, next : Positive, num : Nat,
     req : [prevTerm : Nat, commit : Nat, entries : Seq(Positive)],
     rsp : [term : Nat, success : BOOLEAN, conflictTerm : Nat, conflictIndex : Nat]]

(* Everything has the type the proofs need, without the bounds. *)
Typed ==
    /\ term \in [Server -> Nat]
    /\ leading \in [Server -> BOOLEAN]
    /\ log \in [Server -> Seq(Positive)]
    /\ tail \in [Server -> Nat]
    /\ commit \in [Server -> Nat]
    /\ next \in [Server -> [Server -> Nat]]
    /\ match \in [Server -> [Server -> Nat]]
    /\ calls \subseteq ACall
    /\ restarted \in SUBSET Server
    /\ decided \in SUBSET Fact

(* Every index up to n is decided. *)
DecidedUpTo(n) == \A j \in 1..n : \E d \in decided : d.index = j

(* A log ends before the tail, has no term its server has not heard of,    *)
(* and is decided up to the commit index.                                  *)
LogInv ==
    \A s \in Server :
        /\ tail[s] = Len(log[s]) + 1
        /\ \A i \in 1..Len(log[s]) : log[s][i] <= term[s]
        /\ DecidedUpTo(commit[s])

(* What a call carries: entries that fit where its handler will append     *)
(* them, a commit index that is decided.                                   *)
CallInv ==
    \A c \in calls :
        /\ c.pc = "sent" => Len(c.req.entries) = c.num
        /\ c.pc = "answered" => c.req = NoReq /\ c.open
        /\ c.pc = "copying" => /\ FirstIndex(c) = tail[c.dst]
                               /\ c.term <= term[c.dst]
                               /\ ~leading[c.dst]
        /\ \A k \in 1..Len(c.req.entries) : c.req.entries[k] <= c.term
        /\ DecidedUpTo(c.req.commit)

(* A handler copies one batch at a time. *)
OneCopy ==
    \A c, d \in calls : c.pc = "copying" /\ d.pc = "copying" /\ c.dst = d.dst => c = d

(* A thread waits for one call at a time; it has sent what its log has,    *)
(* and a success means that the peer's log has it too.                     *)
OpenInv ==
    \A c \in calls : c.open =>
        /\ \A d \in calls : d.open /\ d.src = c.src /\ d.dst = c.dst => d = c
        /\ c.next + c.num <= tail[c.src]
        /\ leading[c.src] => next[c.src][c.dst] = c.next
        /\ c.pc = "answered" /\ c.rsp.success /\ c.dst \notin restarted
              => c.next + c.num <= tail[c.dst]

(* A term has one leader.  Its log ends with the term, and nothing of that *)
(* term is outside it.  What the leader believes of a peer is so.          *)
LeaderInv ==
    \A s \in Server : leading[s] =>
        /\ \A v \in Server : leading[v] /\ term[v] = term[s] => v = s
        /\ Len(log[s]) > 0
        /\ log[s][Len(log[s])] = term[s]
        /\ \A f \in Facts : f.term = term[s] => f.index <= Len(log[s])
        /\ s \notin restarted
        /\ \A p \in Server : /\ next[s][p] > 0
                             /\ match[s][p] < tail[s]
                             /\ p \notin restarted => match[s][p] < tail[p]

(* The servers whose logs have the fact f. *)
Holders(f) == {v \in Server : f \in LogFacts(v)}

(* What was decided is with a majority for ever, if one counts the         *)
(* restarted servers; they are no majority.                                *)
DecidedInv ==
    /\ \A d \in decided : DecidedUpTo(d.index)
    /\ \A d \in decided : IsMajority(Holders(d) \cup restarted)
    /\ ~IsMajority(restarted)

ClusterInv ==
    /\ Typed
    /\ Ordered
    /\ LogInv
    /\ CallInv
    /\ OneCopy
    /\ OpenInv
    /\ LeaderInv
    /\ DecidedInv

-----------------------------------------------------------------------------
(* Facts of a log *)

(* What it means that a log has a fact. *)
LEMMA FactOf ==
    ASSUME NEW l \in Seq(Positive), NEW f
    PROVE  f \in FactsOf(l) <=> /\ f \in Fact
                                /\ f.index <= Len(l)
                                /\ f.term = l[f.index]
<1>1. Len(l) \in Nat /\ \A i \in 1..Len(l) : l[i] \in Positive
  OBVIOUS
<1>2. ASSUME f \in FactsOf(l)
      PROVE  f \in Fact /\ f.index <= Len(l) /\ f.term = l[f.index]
  <2>1. PICK i \in 1..Len(l) : f = [index |-> i, term |-> l[i]]
    BY <1>2 DEF FactsOf
  <2>2. i \in Positive /\ l[i] \in Positive /\ i <= Len(l)
    BY <1>1, <2>1 DEF Positive
  <2>. QED  BY <2>1, <2>2 DEF Fact
<1>3. ASSUME f \in Fact, f.index <= Len(l), f.term = l[f.index]
      PROVE  f \in FactsOf(l)
  <2>1. f = [index |-> f.index, term |-> l[f.index]]
    BY <1>3 DEF Fact
  <2>2. f.index \in 1..Len(l)
    BY <1>1, <1>3 DEF Fact, Positive
  <2>. QED  BY <2>1, <2>2 DEF FactsOf
<1>. QED  BY <1>2, <1>3

(* The fact of an entry. *)
LEMMA EntryFact ==
    ASSUME NEW l \in Seq(Positive), NEW i \in 1..Len(l)
    PROVE  [index |-> i, term |-> l[i]] \in FactsOf(l) \cap Fact
<1>1. l[i] \in Positive /\ i \in Positive
  BY DEF Positive
<1>. QED  BY <1>1 DEF FactsOf, Fact

(* One entry more is one fact more. *)
LEMMA AppendFacts ==
    ASSUME NEW l \in Seq(Positive), NEW t \in Positive
    PROVE  /\ Append(l, t) \in Seq(Positive)
           /\ Len(Append(l, t)) = Len(l) + 1
           /\ FactsOf(Append(l, t)) = FactsOf(l) \cup {[index |-> Len(l) + 1, term |-> t]}
<1>1. /\ Append(l, t) \in Seq(Positive) /\ Len(Append(l, t)) = Len(l) + 1 /\ Len(l) \in Nat
      /\ \A i \in 1..Len(l) : Append(l, t)[i] = l[i]
      /\ Append(l, t)[Len(l) + 1] = t
  OBVIOUS
<1>2. 1..Len(l) + 1 = (1..Len(l)) \cup {Len(l) + 1}
  BY <1>1
<1>3. ASSUME NEW f \in FactsOf(Append(l, t))
      PROVE  f \in FactsOf(l) \cup {[index |-> Len(l) + 1, term |-> t]}
  <2>1. PICK i \in 1..Len(l) + 1 : f = [index |-> i, term |-> Append(l, t)[i]]
    BY <1>1 DEF FactsOf
  <2>2. CASE i \in 1..Len(l)
    BY <1>1, <2>1, <2>2 DEF FactsOf
  <2>3. CASE i = Len(l) + 1
    BY <1>1, <2>1, <2>3
  <2>. QED  BY <1>2, <2>2, <2>3
<1>4. ASSUME NEW f \in FactsOf(l) \cup {[index |-> Len(l) + 1, term |-> t]}
      PROVE  f \in FactsOf(Append(l, t))
  <2>1. CASE f \in FactsOf(l)
    <3>1. PICK i \in 1..Len(l) : f = [index |-> i, term |-> l[i]]
      BY <2>1 DEF FactsOf
    <3>2. i \in 1..Len(Append(l, t)) /\ f = [index |-> i, term |-> Append(l, t)[i]]
      BY <1>1, <3>1
    <3>. QED  BY <3>2 DEF FactsOf
  <2>2. CASE f = [index |-> Len(l) + 1, term |-> t]
    <3>1. Len(l) + 1 \in 1..Len(Append(l, t)) /\ f = [index |-> Len(l) + 1, term |-> Append(l, t)[Len(l) + 1]]
      BY <1>1, <2>2
    <3>. QED  BY <3>1 DEF FactsOf
  <2>. QED  BY <1>4, <2>1, <2>2
<1>. QED  BY <1>1, <1>3, <1>4

(* A batch brings its facts, and the log keeps its own. *)
LEMMA ConcatFacts ==
    ASSUME NEW l \in Seq(Positive), NEW m \in Seq(Positive)
    PROVE  /\ l \o m \in Seq(Positive)
           /\ Len(l \o m) = Len(l) + Len(m)
           /\ FactsOf(l) \subseteq FactsOf(l \o m)
           /\ FactsOf(l \o m) \subseteq
                 FactsOf(l) \cup {[index |-> Len(l) + k, term |-> m[k]] : k \in 1..Len(m)}
<1>1. /\ l \o m \in Seq(Positive) /\ Len(l \o m) = Len(l) + Len(m)
      /\ Len(l) \in Nat /\ Len(m) \in Nat
      /\ \A i \in 1..Len(l) : (l \o m)[i] = l[i]
      /\ \A k \in 1..Len(m) : (l \o m)[Len(l) + k] = m[k]
  OBVIOUS
<1>2. ASSUME NEW f \in FactsOf(l)
      PROVE  f \in FactsOf(l \o m)
  <2>1. PICK i \in 1..Len(l) : f = [index |-> i, term |-> l[i]]
    BY <1>2 DEF FactsOf
  <2>2. i \in 1..Len(l \o m) /\ f = [index |-> i, term |-> (l \o m)[i]]
    BY <1>1, <2>1
  <2>. QED  BY <2>2 DEF FactsOf
<1>3. ASSUME NEW f \in FactsOf(l \o m)
      PROVE  f \in FactsOf(l) \cup {[index |-> Len(l) + k, term |-> m[k]] : k \in 1..Len(m)}
  <2>1. PICK i \in 1..Len(l) + Len(m) : f = [index |-> i, term |-> (l \o m)[i]]
    BY <1>1, <1>3 DEF FactsOf
  <2>2. CASE i <= Len(l)
    <3>1. i \in 1..Len(l)
      BY <1>1, <2>1, <2>2
    <3>. QED  BY <1>1, <2>1, <3>1 DEF FactsOf
  <2>3. CASE i > Len(l)
    <3>1. i - Len(l) \in 1..Len(m) /\ Len(l) + (i - Len(l)) = i
      BY <1>1, <2>1, <2>3
    <3>2. f = [index |-> Len(l) + (i - Len(l)), term |-> m[i - Len(l)]]
      BY <1>1, <2>1, <3>1
    <3>. QED  BY <3>1, <3>2
  <2>4. i <= Len(l) \/ i > Len(l)
    BY <1>1, <2>1
  <2>. QED  BY <2>2, <2>3, <2>4
<1>. QED  BY <1>1, <1>2, <1>3

-----------------------------------------------------------------------------
(* Least and greatest elements, majorities *)

(* A set of natural numbers has a least element. *)
LEMMA LeastExists ==
    ASSUME NEW S \in SUBSET Nat, S # {}
    PROVE  \E x \in S : \A y \in S : x <= y
<1>. DEFINE T == {0..x : x \in S}
            R == StrictSubsetOrdering(Nat)
<1>1. IsWellFoundedOn(R, FiniteSubsetsOf(Nat))
  BY FS_StrictSubsetOrderingWellFounded
<1>2. T \subseteq FiniteSubsetsOf(Nat) /\ T # {}
  <2>1. \A x \in S : 0..x \subseteq Nat /\ IsFiniteSet(0..x)
    BY FS_Interval
  <2>. QED  BY <2>1 DEF FiniteSubsetsOf
<1>3. \E u \in T : \A v \in T : ~(<<v, u>> \in R)
  <2>. HIDE DEF T, R
  <2>. QED  BY <1>1, <1>2, WFMin
<1>4. PICK x \in S : \A v \in T : ~(<<v, 0..x>> \in R)
  BY <1>3
<1>5. ASSUME NEW y \in S, ~(x <= y)
      PROVE  FALSE
  <2>1. x \in Nat /\ y \in Nat /\ y < x
    BY <1>5
  <2>2. 0..y \subseteq 0..x /\ x \in 0..x /\ x \notin 0..y
    BY <2>1
  <2>3. 0..y \in SUBSET Nat /\ 0..x \in SUBSET Nat /\ 0..y # 0..x
    BY <2>1, <2>2
  <2>4. <<0..y, 0..x>> \in R
    BY <2>2, <2>3 DEF StrictSubsetOrdering
  <2>. QED  BY <1>4, <2>4
<1>. QED  BY <1>5

(* Min is the least element. *)
LEMMA MinIs ==
    ASSUME NEW S \in SUBSET Nat, S # {}
    PROVE  Min(S) \in S /\ \A y \in S : Min(S) <= y
BY LeastExists DEF Min

(* Max is the greatest element of a bounded set. *)
LEMMA MaxIs ==
    ASSUME NEW n \in Nat, NEW S \in SUBSET (0..n), S # {}
    PROVE  Max(S) \in S /\ \A y \in S : y <= Max(S)
<1>. DEFINE T == {n - x : x \in S}
<1>1. T \in SUBSET Nat /\ T # {}
  <2>1. \A x \in S : n - x \in Nat
    OBVIOUS
  <2>. QED  BY <2>1
<1>2. PICK z \in T : \A y \in T : z <= y
  <2>. HIDE DEF T
  <2>. QED  BY <1>1, LeastExists
<1>3. PICK x \in S : z = n - x
  OBVIOUS
<1>4. \A y \in S : x >= y
  <2>1. ASSUME NEW y \in S
        PROVE  x >= y
    <3>1. n - y \in T
      OBVIOUS
    <3>2. n - x <= n - y
      BY <1>2, <1>3, <3>1
    <3>. QED  BY <3>2
  <2>. QED  BY <2>1
<1>5. Max(S) \in S /\ \A y \in S : Max(S) >= y
  <2>. HIDE DEF T
  <2>. QED  BY <1>4 DEF Max
<1>. QED  BY <1>5

(* The larger and the smaller of two or three numbers. *)
LEMMA MaxOf ==
    ASSUME NEW a \in Int, NEW b \in Int
    PROVE  /\ Max({a, b}) = IF a >= b THEN a ELSE b
           /\ Min({a, b}) = IF a <= b THEN a ELSE b
BY DEF Max, Min

(* Max of three numbers. *)
LEMMA MaxOfThree ==
    ASSUME NEW a \in Int, NEW b \in Int, NEW c \in Int
    PROVE  /\ Max({a, b, c}) \in {a, b, c}
           /\ Max({a, b, c}) >= a /\ Max({a, b, c}) >= b /\ Max({a, b, c}) >= c
<1>1. \E x \in {a, b, c} : \A y \in {a, b, c} : x >= y
  <2>1. CASE a >= b /\ a >= c
    BY <2>1
  <2>2. CASE b >= a /\ b >= c
    BY <2>2
  <2>3. CASE c >= a /\ c >= b
    BY <2>3
  <2>. QED  BY <2>1, <2>2, <2>3
<1>2. Max({a, b, c}) \in {a, b, c} /\ \A y \in {a, b, c} : Max({a, b, c}) >= y
  BY <1>1 DEF Max
<1>. QED  BY <1>2

(* Servers are finitely many. *)
LEMMA ServersFinite ==
    ASSUME NEW A \in SUBSET Server
    PROVE  IsFiniteSet(Server) /\ IsFiniteSet(A) /\ Cardinality(A) \in Nat /\ Cardinality(Server) \in Nat
<1>1. IsFiniteSet(Server)
  BY ClusterAssumptions
<1>2. IsFiniteSet(A)
  BY <1>1, FS_Subset
<1>. QED  BY <1>1, <1>2, FS_CardinalityType

(* Two majorities have a server in common. *)
LEMMA MajoritiesMeet ==
    ASSUME NEW A \in SUBSET Server, NEW B \in SUBSET Server, IsMajority(A), IsMajority(B)
    PROVE  \E v \in A : v \in B
<1>1. /\ Cardinality(A) \in Nat /\ Cardinality(B) \in Nat /\ Cardinality(Server) \in Nat
      /\ IsFiniteSet(Server)
  BY ServersFinite
<1>2. Cardinality(A) + Cardinality(B) > Cardinality(Server)
  BY <1>1 DEF IsMajority
<1>. QED  BY <1>1, <1>2, FS_MajoritiesIntersect

(* A set with a majority in it is one. *)
LEMMA MajorityGrows ==
    ASSUME NEW B \in SUBSET Server, NEW A \in SUBSET B, IsMajority(A)
    PROVE  IsMajority(B)
<1>1. /\ Cardinality(A) \in Nat /\ Cardinality(B) \in Nat /\ Cardinality(Server) \in Nat
      /\ IsFiniteSet(B)
  BY ServersFinite
<1>2. Cardinality(A) <= Cardinality(B)
  BY <1>1, FS_Subset
<1>. QED  BY <1>1, <1>2 DEF IsMajority

-----------------------------------------------------------------------------
(* Facts of the cluster *)

(* Where a fact comes from. *)
LEMMA FactFrom ==
    ASSUME NEW f
    PROVE  f \in Facts <=> \/ \E s \in Server : f \in LogFacts(s)
                           \/ \E c \in calls : f \in CallFacts(c)
                           \/ f \in decided
<1>1. f \in Held <=> \E s \in Server : f \in LogFacts(s)
  BY DEF Held
<1>2. f \in Carried <=> \E c \in calls : f \in CallFacts(c)
  BY DEF Carried
<1>. QED  BY <1>1, <1>2 DEF Facts

(* What a call carries are facts of their type. *)
LEMMA CallFactType ==
    ASSUME NEW c \in ACall, FirstIndex(c) \in Positive
    PROVE  CallFacts(c) \subseteq Fact
<1>. SUFFICES ASSUME NEW k \in 1..Len(c.req.entries)
              PROVE  [index |-> FirstIndex(c) + k - 1, term |-> c.req.entries[k]] \in Fact
  BY DEF CallFacts
<1>1. c.req.entries \in Seq(Positive)
  BY DEF ACall
<1>2. c.req.entries[k] \in Positive /\ k \in Nat /\ k >= 1
  BY <1>1
<1>3. FirstIndex(c) + k - 1 \in Positive
  BY <1>2 DEF Positive
<1>. QED  BY <1>2, <1>3 DEF Fact

(* Where a call's entries begin. *)
LEMMA FirstIndexType ==
    ASSUME Typed, LogInv, CallInv, NEW c \in calls
    PROVE  /\ c \in ACall /\ c.req.entries \in Seq(Positive) /\ Len(c.req.entries) \in Nat
           /\ c.next \in Nat /\ c.next >= 1 /\ c.num \in Nat
           /\ FirstIndex(c) \in Positive
           /\ FirstIndex(c) + Len(c.req.entries) = c.next + c.num
<1>1. c \in ACall
  BY DEF Typed
<1>2. c.req.entries \in Seq(Positive) /\ c.next \in Positive /\ c.num \in Nat
  BY <1>1 DEF ACall
<1>3. Len(c.req.entries) \in Nat
  BY <1>2
<1>4. ASSUME c.pc = "sent"
      PROVE  FirstIndex(c) \in Positive
  <2>1. Len(c.req.entries) = c.num
    BY <1>4 DEF CallInv
  <2>. QED  BY <1>2, <2>1 DEF FirstIndex, Positive
<1>5. ASSUME c.pc = "answered"
      PROVE  FirstIndex(c) \in Positive
  <2>1. Len(c.req.entries) = 0
    BY <1>5 DEF CallInv, NoReq
  <2>2. FirstIndex(c) = c.next + c.num
    BY <1>2, <2>1 DEF FirstIndex, Positive
  <2>. QED  BY <1>2, <2>2 DEF Positive
<1>6. ASSUME c.pc = "copying"
      PROVE  FirstIndex(c) \in Positive
  <2>1. FirstIndex(c) = tail[c.dst]
    BY <1>6 DEF CallInv
  <2>2. c.dst \in Server
    BY <1>1 DEF ACall
  <2>3. Len(log[c.dst]) \in Nat /\ tail[c.dst] = Len(log[c.dst]) + 1
    <3>1. log[c.dst] \in Seq(Positive)
      BY <2>2 DEF Typed
    <3>. QED  BY <2>2, <3>1 DEF LogInv
  <2>. QED  BY <2>1, <2>3 DEF Positive
<1>7. c.pc \in {"sent", "copying", "answered"}
  BY <1>1 DEF ACall
<1>8. FirstIndex(c) \in Positive
  BY <1>4, <1>5, <1>6, <1>7
<1>9. FirstIndex(c) + Len(c.req.entries) = c.next + c.num
  BY <1>2, <1>3 DEF FirstIndex, Positive
<1>. QED  BY <1>1, <1>2, <1>3, <1>8, <1>9 DEF Positive

(* A call carries its entries, each as a fact. *)
LEMMA CarriedFact ==
    ASSUME NEW c \in calls, NEW k \in 1..Len(c.req.entries)
    PROVE  [index |-> FirstIndex(c) + k - 1, term |-> c.req.entries[k]] \in Facts
<1>1. [index |-> FirstIndex(c) + k - 1, term |-> c.req.entries[k]] \in CallFacts(c)
  BY DEF CallFacts
<1>. QED  BY <1>1, FactFrom

(* Every fact is of its type. *)
LEMMA FactType ==
    ASSUME Typed, LogInv, CallInv
    PROVE  Facts \subseteq Fact
<1>. SUFFICES ASSUME NEW f \in Facts PROVE f \in Fact
  OBVIOUS
<1>1. ASSUME NEW s \in Server, f \in LogFacts(s)
      PROVE  f \in Fact
  <2>1. log[s] \in Seq(Positive)
    BY DEF Typed
  <2>. QED  BY <1>1, <2>1, FactOf DEF LogFacts
<1>2. ASSUME NEW c \in calls, f \in CallFacts(c)
      PROVE  f \in Fact
  BY <1>2, FirstIndexType, CallFactType
<1>3. f \in decided => f \in Fact
  BY DEF Typed
<1>. QED  BY <1>1, <1>2, <1>3, FactFrom

(* There is one entry for an index. *)
LEMMA SameAt ==
    ASSUME Typed, LogInv, CallInv, Ordered,
           NEW f \in Facts, NEW g \in Facts, f.index = g.index
    PROVE  f = g
<1>1. f \in Fact /\ g \in Fact
  BY FactType
<1>2. f.index \in Nat /\ f.term \in Nat /\ g.term \in Nat
  BY <1>1 DEF Fact, Positive
<1>3. f.term <= g.term /\ g.term <= f.term
  BY <1>2 DEF Ordered
<1>4. f.term = g.term
  BY <1>2, <1>3
<1>. QED  BY <1>1, <1>4 DEF Fact

(* A fact within a log's length is in the log. *)
LEMMA InLog ==
    ASSUME Typed, LogInv, CallInv, Ordered, NEW f \in Facts, NEW s \in Server,
           f.index <= Len(log[s])
    PROVE  f \in LogFacts(s)
<1>1. f \in Fact
  BY FactType
<1>2. log[s] \in Seq(Positive) /\ Len(log[s]) \in Nat
  BY DEF Typed
<1>3. f.index \in 1..Len(log[s])
  BY <1>1, <1>2 DEF Fact, Positive
<1>. DEFINE g == [index |-> f.index, term |-> log[s][f.index]]
<1>4. g \in LogFacts(s)
  BY <1>2, <1>3, EntryFact DEF LogFacts
<1>5. g \in Facts /\ g.index = f.index
  BY <1>4, FactFrom
<1>. HIDE DEF g
<1>6. f = g
  BY <1>5, SameAt
<1>. QED  BY <1>4, <1>6

(* The entries of two logs, where both have one. *)
LEMMA SameEntry ==
    ASSUME Typed, LogInv, CallInv, Ordered, NEW s \in Server, NEW p \in Server,
           NEW i \in 1..Len(log[s]), i <= Len(log[p])
    PROVE  log[s][i] = log[p][i]
<1>1. log[s] \in Seq(Positive) /\ log[p] \in Seq(Positive)
  BY DEF Typed
<1>. DEFINE f == [index |-> i, term |-> log[s][i]]
<1>2. f \in LogFacts(s) /\ f.index = i /\ f.term = log[s][i]
  BY <1>1, EntryFact DEF LogFacts
<1>. HIDE DEF f
<1>3. f \in Facts
  BY <1>2, FactFrom
<1>4. f \in LogFacts(p)
  BY <1>2, <1>3, InLog
<1>5. f.term = log[p][f.index]
  BY <1>1, <1>4, FactOf DEF LogFacts
<1>. QED  BY <1>2, <1>5

(* The voter's part of the election: a log that is as good has whatever    *)
(* the voter's log has.                                                    *)
LEMMA GoodLog ==
    ASSUME Typed, LogInv, CallInv, Ordered, NEW s \in Server, NEW v \in Server, LogOk(s, v)
    PROVE  LogFacts(v) \subseteq LogFacts(s)
<1>1. /\ log[s] \in Seq(Positive) /\ log[v] \in Seq(Positive)
      /\ Len(log[s]) \in Nat /\ Len(log[v]) \in Nat
      /\ tail[s] = Len(log[s]) + 1 /\ tail[v] = Len(log[v]) + 1
  BY DEF Typed, LogInv
<1>2. ASSUME Len(log[v]) > Len(log[s])
      PROVE  FALSE
  <2>1. /\ Len(log[v]) \in 1..Len(log[v]) /\ log[v][Len(log[v])] \in Positive
        /\ LastTerm(log[v]) = log[v][Len(log[v])]
    BY <1>1, <1>2 DEF LastTerm, TermAt
  <2>. DEFINE g == [index |-> Len(log[v]), term |-> log[v][Len(log[v])]]
  <2>2. g \in LogFacts(v) /\ g.index = Len(log[v]) /\ g.term = LastTerm(log[v])
    BY <1>1, <2>1, EntryFact DEF LogFacts
  <2>. HIDE DEF g
  <2>3. CASE Len(log[s]) = 0
    <3>1. LastTerm(log[s]) = 0
      BY <2>3 DEF LastTerm, TermAt
    <3>. QED  BY <2>1, <3>1 DEF LogOk, Positive
  <2>4. CASE Len(log[s]) > 0
    <3>1. /\ Len(log[s]) \in 1..Len(log[s]) /\ log[s][Len(log[s])] \in Positive
          /\ LastTerm(log[s]) = log[s][Len(log[s])]
      BY <1>1, <2>4 DEF LastTerm, TermAt
    <3>. DEFINE f == [index |-> Len(log[s]), term |-> log[s][Len(log[s])]]
    <3>2. f \in LogFacts(s) /\ f.index = Len(log[s]) /\ f.term = LastTerm(log[s])
      BY <1>1, <3>1, EntryFact DEF LogFacts
    <3>. HIDE DEF f
    <3>3. f \in Facts /\ g \in Facts
      BY <2>2, <3>2, FactFrom
    <3>4. LastTerm(log[s]) <= LastTerm(log[v])
      BY <1>1, <1>2, <2>2, <3>2, <3>3 DEF Ordered
    <3>5. tail[s] < tail[v]
      BY <1>1, <1>2
    <3>6. LastTerm(log[s]) \in Nat /\ LastTerm(log[v]) \in Nat /\ tail[s] \in Nat /\ tail[v] \in Nat
      BY <1>1, <2>1, <3>1 DEF Positive
    <3>. QED  BY <3>4, <3>5, <3>6 DEF LogOk
  <2>. QED  BY <1>1, <2>3, <2>4
<1>3. Len(log[v]) <= Len(log[s])
  BY <1>1, <1>2
<1>4. ASSUME NEW f \in LogFacts(v)
      PROVE  f \in LogFacts(s)
  <2>1. f \in Facts /\ f \in Fact /\ f.index <= Len(log[v])
    BY <1>1, <1>4, FactFrom, FactOf DEF LogFacts
  <2>2. f.index <= Len(log[s])
    BY <1>1, <1>3, <2>1 DEF Fact, Positive
  <2>. QED  BY <2>1, <2>2, InLog
<1>. QED  BY <1>4

-----------------------------------------------------------------------------
(* An election *)

(* What a majority holds, restarted servers counted, a voter has: so has   *)
(* the winner.                                                             *)
LEMMA VoteBrings ==
    ASSUME Sheltered, Typed, LogInv, CallInv, Ordered,
           NEW s \in Server, NEW H \in SUBSET Server, MayRun(s, H), IsMajority(Voters(s, H)),
           NEW M \in SUBSET Server, IsMajority(M \cup restarted)
    PROVE  \E v \in M : LogFacts(v) \subseteq LogFacts(s)
<1>1. Voters(s, H) \in SUBSET Server /\ M \cup restarted \in SUBSET Server
  BY DEF Voters, Typed
<1>2. PICK v \in Voters(s, H) : v \in M \cup restarted
  BY <1>1, MajoritiesMeet
<1>3. v \notin restarted
  BY <1>2 DEF Voters, MayRun, Sheltered
<1>4. v \in M /\ v \in Server
  BY <1>1, <1>2, <1>3
<1>5. v = s \/ LogOk(s, v)
  BY <1>2 DEF Voters
<1>. QED  BY <1>4, <1>5, GoodLog

(* The winner's log has every fact there is. *)
LEMMA WinnerHasAll ==
    ASSUME Sheltered, Typed, LogInv, CallInv, Ordered, DecidedInv,
           NEW s \in Server, NEW H \in SUBSET Server, Elect(s, H)
    PROVE  Facts \subseteq LogFacts(s)
<1>1. /\ MayRun(s, H) /\ IsMajority(Voters(s, H))
      /\ \A v \in Server : LogHeld(v)
      /\ \A c \in calls : CallHeld(c)
  BY DEF Elect, Sheltered
<1>2. ASSUME NEW f \in Facts, NEW u \in Server, f \in LogFacts(u)
      PROVE  f \in LogFacts(s)
  <2>. DEFINE M == {v \in Server : IsPrefix(log[u], log[v])}
  <2>1. IsMajority(M \cup restarted)
    BY <1>1 DEF LogHeld
  <2>2. PICK v \in M : LogFacts(v) \subseteq LogFacts(s)
    <3>1. M \in SUBSET Server
      OBVIOUS
    <3>. HIDE DEF M
    <3>. QED  BY <1>1, <2>1, <3>1, VoteBrings
  <2>3. v \in Server /\ Len(log[u]) <= Len(log[v])
    BY DEF IsPrefix
  <2>4. log[u] \in Seq(Positive) /\ log[v] \in Seq(Positive)
    BY <2>3 DEF Typed
  <2>5. f \in Fact /\ f.index <= Len(log[u])
    BY <1>2, <2>4, FactOf DEF LogFacts
  <2>6. f.index <= Len(log[v])
    BY <2>3, <2>4, <2>5 DEF Fact, Positive
  <2>7. f \in LogFacts(v)
    BY <2>3, <2>6, InLog
  <2>. QED  BY <2>2, <2>7
<1>3. ASSUME NEW f \in Facts, NEW c \in calls, f \in CallFacts(c)
      PROVE  f \in LogFacts(s)
  <2>. DEFINE M == {v \in Server : \A k \in 1..Len(c.req.entries) :
                      TermAt(log[v], FirstIndex(c) + k - 1) = c.req.entries[k]}
  <2>1. IsMajority(M \cup restarted)
    BY <1>1 DEF CallHeld
  <2>2. PICK v \in M : LogFacts(v) \subseteq LogFacts(s)
    <3>1. M \in SUBSET Server
      OBVIOUS
    <3>. HIDE DEF M
    <3>. QED  BY <1>1, <2>1, <3>1, VoteBrings
  <2>3. PICK k \in 1..Len(c.req.entries) :
           f = [index |-> FirstIndex(c) + k - 1, term |-> c.req.entries[k]]
    BY <1>3 DEF CallFacts
  <2>4. v \in Server /\ TermAt(log[v], f.index) = f.term
    BY <2>3
  <2>5. f.term # 0
    BY FactType DEF Fact, Positive
  <2>6. f.index \in 1..Len(log[v])
    BY <2>4, <2>5 DEF TermAt
  <2>7. f.index <= Len(log[v])
    <3>1. Len(log[v]) \in Nat
      BY <2>4 DEF Typed
    <3>. QED  BY <2>6, <3>1
  <2>8. f \in LogFacts(v)
    BY <2>4, <2>7, InLog
  <2>. QED  BY <2>2, <2>8
<1>4. ASSUME NEW f \in decided
      PROVE  f \in LogFacts(s)
  <2>1. IsMajority(Holders(f) \cup restarted) /\ Holders(f) \in SUBSET Server
    BY DEF DecidedInv, Holders
  <2>2. PICK v \in Holders(f) : LogFacts(v) \subseteq LogFacts(s)
    BY <1>1, <2>1, VoteBrings
  <2>. QED  BY <2>2 DEF Holders
<1>5. ASSUME NEW f \in Facts
      PROVE  f \in LogFacts(s)
  BY <1>2, <1>3, <1>4, FactFrom
<1>. QED  BY <1>5

(* What an election does to the terms. *)
LEMMA Heard ==
    ASSUME Typed, NEW s \in Server, NEW H \in SUBSET Server, MayRun(s, H),
           HearOf(H \cup {s}, term[s] + 1)
    PROVE  /\ term' \in [Server -> Nat]
           /\ term'[s] = term[s] + 1
           /\ \A v \in Server : term[v] <= term'[v]
           /\ \A v \in Server \ (H \cup {s}) : term'[v] = term[v]
<1>1. term \in [Server -> Nat]
  BY DEF Typed
<1>2. \A v \in Server : term'[v] = IF v \in H \cup {s} THEN term[s] + 1 ELSE term[v]
  BY DEF HearOf
<1>3. term' \in [Server -> Nat]
  BY <1>1 DEF HearOf
<1>4. \A v \in H : term[v] <= term[s]
  BY DEF MayRun
<1>. QED  BY <1>1, <1>2, <1>3, <1>4

(* The facts stay in order when there are no new ones. *)
LEMMA OrderKept ==
    ASSUME Ordered, Facts' \subseteq Facts
    PROVE  Ordered'
BY DEF Ordered

(* What is decided stays so. *)
LEMMA DecidedKept ==
    ASSUME NEW n, DecidedUpTo(n), decided \subseteq decided'
    PROVE  DecidedUpTo(n)'
BY DEF DecidedUpTo

(* A server's part of the types. *)
LEMMA ServerTypes ==
    ASSUME Typed, LogInv, NEW s \in Server
    PROVE  /\ log[s] \in Seq(Positive) /\ Len(log[s]) \in Nat
           /\ tail[s] = Len(log[s]) + 1 /\ tail[s] \in Nat
           /\ term[s] \in Nat /\ leading[s] \in BOOLEAN /\ commit[s] \in Nat
           /\ DecidedUpTo(commit[s])
           /\ \A i \in 1..Len(log[s]) : log[s][i] <= term[s] /\ log[s][i] \in Nat
<1>1. /\ log[s] \in Seq(Positive) /\ tail[s] \in Nat
      /\ term[s] \in Nat /\ leading[s] \in BOOLEAN /\ commit[s] \in Nat
  BY DEF Typed
<1>2. /\ tail[s] = Len(log[s]) + 1 /\ DecidedUpTo(commit[s])
      /\ \A i \in 1..Len(log[s]) : log[s][i] <= term[s]
  BY DEF LogInv
<1>3. PICK l \in Seq(Positive) : l = log[s]
  BY <1>1
<1>4. Len(l) \in Nat /\ \A i \in 1..Len(l) : l[i] \in Nat
  BY DEF Positive
<1>. QED  BY <1>1, <1>2, <1>3, <1>4

(* Campaign: servers hear of a term, and nothing else changes. *)
LEMMA CampaignStep ==
    ASSUME Sheltered, ClusterInv, NEW s \in Server, NEW H \in SUBSET Server, Campaign(s, H)
    PROVE  ClusterInv'
<1>0. Typed /\ Ordered /\ LogInv /\ CallInv /\ OneCopy /\ OpenInv /\ LeaderInv /\ DecidedInv
  BY DEF ClusterInv
<1>1. /\ term' \in [Server -> Nat] /\ \A v \in Server : term[v] <= term'[v]
      /\ \A v \in Server \ (H \cup {s}) : term'[v] = term[v]
  BY <1>0, Heard DEF Campaign
<1>2. UNCHANGED <<log, tail, commit, next, match, calls, restarted, decided>>
  BY DEF Campaign
<1>3. /\ leading' \in [Server -> BOOLEAN]
      /\ \A v \in Server : leading'[v] => leading[v] /\ v \notin H \cup {s}
  BY <1>0 DEF Campaign, MayRun, Typed
<1>4. Facts' = Facts
  BY <1>2 DEF Facts, Held, Carried, LogFacts
<1>5. Typed'
  BY <1>0, <1>1, <1>2, <1>3 DEF Typed
<1>6. Ordered'
  BY <1>0, <1>4, OrderKept
<1>7. LogInv'
  <2>1. ASSUME NEW v \in Server, NEW i \in 1..Len(log[v])
        PROVE  log[v][i] <= term'[v]
    <3>1. log[v][i] \in Nat /\ term[v] \in Nat /\ term'[v] \in Nat
      <4>1. log[v][i] \in Nat /\ term[v] \in Nat
        BY <1>0, ServerTypes
      <4>2. term'[v] \in Nat
        BY <1>1
      <4>. QED  BY <4>1, <4>2
    <3>2. log[v][i] <= term[v] /\ term[v] <= term'[v]
      BY <1>0, <1>1 DEF LogInv
    <3>. QED  BY <3>1, <3>2
  <2>. QED  BY <1>0, <1>2, <2>1 DEF LogInv, DecidedUpTo
<1>8. CallInv'
  <2>1. ASSUME NEW c \in calls, c.pc = "copying"
        PROVE  c.term <= term'[c.dst] /\ ~leading'[c.dst]
    <3>1. c.dst \in Server /\ c.term \in Nat
      BY <1>0 DEF Typed, ACall
    <3>2. c.term <= term[c.dst] /\ ~leading[c.dst]
      BY <1>0, <2>1 DEF CallInv
    <3>3. term[c.dst] \in Nat /\ term'[c.dst] \in Nat /\ term[c.dst] <= term'[c.dst]
      BY <1>0, <1>1, <3>1 DEF Typed
    <3>. QED  BY <1>3, <3>1, <3>2, <3>3
  <2>. QED  BY <1>0, <1>2, <2>1 DEF CallInv, DecidedUpTo, FirstIndex
<1>9. OneCopy' /\ DecidedInv'
  BY <1>0, <1>2 DEF OneCopy, DecidedInv, DecidedUpTo, Holders, LogFacts
<1>10. OpenInv'
  <2>1. \A c \in calls : leading'[c.src] => leading[c.src]
    BY <1>0, <1>3 DEF Typed, ACall
  <2>. QED  BY <1>0, <1>2, <2>1 DEF OpenInv
<1>11. LeaderInv'
  <2>1. \A v \in Server : leading'[v] => leading[v] /\ term'[v] = term[v]
    BY <1>1, <1>3
  <2>. QED  BY <1>0, <1>2, <1>4, <2>1 DEF LeaderInv
<1>. QED  BY <1>5, <1>6, <1>7, <1>8, <1>9, <1>10, <1>11 DEF ClusterInv

(* A new entry at the end of s's log, a fact that lies behind all others:  *)
(* become_leader's no-op, or a command of a leader that is still the       *)
(* latest.                                                                 *)
LEMMA NewFact ==
    ASSUME Typed, LogInv, CallInv, Ordered, DecidedInv,
           NEW s \in Server, NEW t \in Positive,
           log' = [log EXCEPT ![s] = Append(@, t)],
           UNCHANGED <<calls, restarted, decided>>,
           \A f \in Facts : f.index <= Len(log[s]) /\ f.term <= t
    PROVE  /\ log' \in [Server -> Seq(Positive)]
           /\ Len(log'[s]) = Len(log[s]) + 1 /\ log'[s][Len(log'[s])] = t
           /\ \A i \in 1..Len(log[s]) : log'[s][i] = log[s][i]
           /\ \A v \in Server \ {s} : log'[v] = log[v]
           /\ Facts' = Facts \cup {[index |-> Len(log[s]) + 1, term |-> t]}
           /\ Ordered'
           /\ DecidedInv'
<1>1. log \in [Server -> Seq(Positive)] /\ log[s] \in Seq(Positive) /\ Len(log[s]) \in Nat
  BY DEF Typed
<1>2. log'[s] = Append(log[s], t) /\ \A v \in Server \ {s} : log'[v] = log[v]
  BY <1>1
<1>3. /\ log'[s] \in Seq(Positive) /\ Len(log'[s]) = Len(log[s]) + 1
      /\ LogFacts(s)' = LogFacts(s) \cup {[index |-> Len(log[s]) + 1, term |-> t]}
  BY <1>1, <1>2, AppendFacts DEF LogFacts
<1>4. log' \in [Server -> Seq(Positive)]
  BY <1>1, <1>2, <1>3
<1>5. log'[s][Len(log[s]) + 1] = t /\ \A i \in 1..Len(log[s]) : log'[s][i] = log[s][i]
  BY <1>1, <1>2
<1>6. \A v \in Server \ {s} : LogFacts(v)' = LogFacts(v)
  BY <1>2 DEF LogFacts
<1>. DEFINE n == [index |-> Len(log[s]) + 1, term |-> t]
<1>7. Facts' = Facts \cup {n}
  <2>1. Held' = Held \cup {n}
    <3>. HIDE DEF n
    <3>1. \A v \in Server : LogFacts(v)' = IF v = s THEN LogFacts(v) \cup {n} ELSE LogFacts(v)
      BY <1>3, <1>6 DEF n
    <3>2. ASSUME NEW f
          PROVE  f \in Held' <=> f \in Held \cup {n}
      <4>1. f \in Held' <=> \E v \in Server : f \in LogFacts(v)'
        BY DEF Held
      <4>2. f \in Held <=> \E v \in Server : f \in LogFacts(v)
        BY DEF Held
      <4>. QED  BY <3>1, <4>1, <4>2
    <3>. QED  BY <3>2
  <2>2. Carried' = Carried
    BY DEF Carried
  <2>. QED  BY <2>1, <2>2 DEF Facts
<1>8. Ordered'
  <2>1. ASSUME NEW f \in Facts \cup {n}, NEW g \in Facts \cup {n}, f.index <= g.index
        PROVE  f.term <= g.term
    <3>1. n.index = Len(log[s]) + 1 /\ n.term = t /\ t \in Nat
      BY DEF Positive
    <3>2. Facts \subseteq Fact
      BY FactType
    <3>. HIDE DEF n
    <3>3. CASE f \in Facts /\ g \in Facts
      BY <2>1, <3>3 DEF Ordered
    <3>4. CASE f \in Facts /\ g = n
      BY <3>1, <3>4
    <3>5. CASE f = n /\ g \in Facts
      <4>1. g.index <= Len(log[s]) /\ g.index \in Nat
        BY <3>2, <3>5 DEF Fact, Positive
      <4>. QED  BY <1>1, <2>1, <3>1, <3>5, <4>1
    <3>6. CASE f = n /\ g = n
      BY <3>1, <3>6
    <3>. QED  BY <2>1, <3>3, <3>4, <3>5, <3>6
  <2>. HIDE DEF n
  <2>. QED  BY <1>7, <2>1 DEF Ordered
<1>9. DecidedInv'
  <2>1. ASSUME NEW d \in decided
        PROVE  IsMajority(Holders(d)' \cup restarted)
    <3>1. Holders(d) \subseteq Holders(d)'
      BY <1>3, <1>6 DEF Holders
    <3>2. Holders(d)' \cup restarted \in SUBSET Server
      BY DEF Holders, Typed
    <3>3. IsMajority(Holders(d) \cup restarted)
      BY DEF DecidedInv
    <3>. QED  BY <3>1, <3>2, <3>3, MajorityGrows
  <2>. QED  BY <2>1 DEF DecidedInv, DecidedUpTo
<1>. QED  BY <1>2, <1>3, <1>4, <1>5, <1>7, <1>8, <1>9

(* Elect: the winner holds every fact, and its no-op stands behind them. *)
LEMMA ElectStep ==
    ASSUME Sheltered, ClusterInv, NEW s \in Server, NEW H \in SUBSET Server, Elect(s, H)
    PROVE  ClusterInv'
<1>0. Typed /\ Ordered /\ LogInv /\ CallInv /\ OneCopy /\ OpenInv /\ LeaderInv /\ DecidedInv
  BY DEF ClusterInv
<1>. DEFINE t == term[s] + 1
<1>1. /\ term' \in [Server -> Nat] /\ term'[s] = t /\ \A v \in Server : term[v] <= term'[v]
      /\ \A v \in Server \ (H \cup {s}) : term'[v] = term[v]
  BY <1>0, Heard DEF Elect
<1>2. /\ UNCHANGED <<commit, calls, restarted, decided>>
      /\ log' = [log EXCEPT ![s] = Append(@, t)]
      /\ tail' = [tail EXCEPT ![s] = @ + 1]
      /\ next' = [next EXCEPT ![s] = [p \in Server |-> tail[s]]]
      /\ match' = [match EXCEPT ![s] = [p \in Server |-> 0]]
  BY DEF Elect
<1>3. /\ leading' \in [Server -> BOOLEAN]
      /\ \A v \in Server : leading'[v] => v = s \/ (leading[v] /\ v \notin H \cup {s})
  BY <1>0 DEF Elect, MayRun, Typed
<1>4. /\ s \notin restarted
      /\ \A c \in calls : c.pc = "copying" => c.dst # s
      /\ \A c \in calls : c.open => c.src # s
  BY DEF Elect, MayRun, Sheltered, Copying, OpenCalls
<1>5. /\ term[s] \in Nat /\ t \in Positive /\ log[s] \in Seq(Positive) /\ Len(log[s]) \in Nat
      /\ tail[s] = Len(log[s]) + 1 /\ tail \in [Server -> Nat]
      /\ \A i \in 1..Len(log[s]) : log[s][i] <= term[s]
  <2>1. term[s] \in Nat /\ log[s] \in Seq(Positive) /\ tail \in [Server -> Nat]
    BY <1>0 DEF Typed
  <2>2. tail[s] = Len(log[s]) + 1 /\ \A i \in 1..Len(log[s]) : log[s][i] <= term[s]
    BY <1>0 DEF LogInv
  <2>. QED  BY <2>1, <2>2 DEF Positive
<1>. HIDE DEF t
<1>6. ASSUME NEW f \in Facts
      PROVE  f \in Fact /\ f.index <= Len(log[s]) /\ f.term <= term[s]
  <2>1. f \in LogFacts(s)
    BY <1>0, WinnerHasAll
  <2>2. f \in Fact /\ f.index <= Len(log[s]) /\ f.term = log[s][f.index]
    BY <1>5, <2>1, FactOf DEF LogFacts
  <2>3. f.index \in 1..Len(log[s])
    BY <1>5, <2>2 DEF Fact, Positive
  <2>. QED  BY <1>5, <2>2, <2>3
<1>7. \A f \in Facts : f.index <= Len(log[s]) /\ f.term <= t
  BY <1>5, <1>6 DEF t, Fact, Positive
<1>. DEFINE n == [index |-> Len(log[s]) + 1, term |-> t]
<1>8. /\ log' \in [Server -> Seq(Positive)]
      /\ Len(log'[s]) = Len(log[s]) + 1 /\ log'[s][Len(log'[s])] = t
      /\ \A i \in 1..Len(log[s]) : log'[s][i] = log[s][i]
      /\ \A v \in Server \ {s} : log'[v] = log[v]
      /\ Facts' = Facts \cup {n} /\ Ordered' /\ DecidedInv'
  BY <1>0, <1>2, <1>5, <1>7, NewFact
<1>9. /\ tail' \in [Server -> Nat] /\ tail'[s] = tail[s] + 1
      /\ \A v \in Server \ {s} : tail'[v] = tail[v]
      /\ \A v \in Server : tail[v] <= tail'[v]
  BY <1>2, <1>5
<1>10. /\ next' \in [Server -> [Server -> Nat]] /\ match' \in [Server -> [Server -> Nat]]
       /\ \A p \in Server : next'[s][p] = tail[s] /\ match'[s][p] = 0
       /\ \A v \in Server \ {s} : next'[v] = next[v] /\ match'[v] = match[v]
  <2>1. next \in [Server -> [Server -> Nat]] /\ match \in [Server -> [Server -> Nat]] /\ tail[s] \in Nat
    BY <1>0 DEF Typed
  <2>. QED  BY <1>2, <2>1
<1>11. Typed'
  BY <1>0, <1>1, <1>2, <1>3, <1>8, <1>9, <1>10 DEF Typed
<1>12. LogInv'
  <2>1. ASSUME NEW v \in Server
        PROVE  tail'[v] = Len(log'[v]) + 1 /\ \A i \in 1..Len(log'[v]) : log'[v][i] <= term'[v]
    <3>1. CASE v = s
      <4>1. tail'[s] = Len(log'[s]) + 1
        BY <1>5, <1>8, <1>9
      <4>2. ASSUME NEW i \in 1..Len(log[s]) + 1
            PROVE  log'[s][i] <= t
        <5>1. CASE i = Len(log[s]) + 1
          BY <1>5, <1>8, <5>1 DEF Positive
        <5>2. CASE i \in 1..Len(log[s])
          <6>1. log'[s][i] = log[s][i] /\ log[s][i] <= term[s] /\ log[s][i] \in Nat
            BY <1>5, <1>8, <5>2 DEF Positive
          <6>. QED  BY <1>5, <6>1 DEF t
        <5>. QED  BY <1>5, <4>2, <5>1, <5>2
      <4>. QED  BY <1>1, <1>8, <3>1, <4>1, <4>2
    <3>2. CASE v # s
      <4>1. log'[v] = log[v] /\ tail'[v] = tail[v] /\ term[v] <= term'[v] /\ term'[v] \in Nat
        BY <1>1, <1>8, <1>9, <3>2
      <4>2. tail[v] = Len(log[v]) + 1 /\ \A i \in 1..Len(log[v]) : log[v][i] <= term[v]
        BY <1>0 DEF LogInv
      <4>3. term[v] \in Nat /\ \A i \in 1..Len(log[v]) : log[v][i] \in Nat
        <5>1. log[v] \in Seq(Positive)
          BY <1>0 DEF Typed
        <5>. QED  BY <1>0, <5>1, SMTT(30) DEF Typed, Positive
      <4>. QED  BY <4>1, <4>2, <4>3
    <3>. QED  BY <3>1, <3>2
  <2>. QED  BY <1>0, <1>2, <2>1 DEF LogInv, DecidedUpTo
<1>13. CallInv'
  <2>1. ASSUME NEW c \in calls, c.pc = "copying"
        PROVE  FirstIndex(c) = tail'[c.dst] /\ c.term <= term'[c.dst] /\ ~leading'[c.dst]
    <3>1. c.dst \in Server /\ c.term \in Nat
      BY <1>0 DEF Typed, ACall
    <3>2. FirstIndex(c) = tail[c.dst] /\ c.term <= term[c.dst] /\ ~leading[c.dst]
      BY <1>0, <2>1 DEF CallInv
    <3>3. term[c.dst] \in Nat /\ term'[c.dst] \in Nat /\ term[c.dst] <= term'[c.dst]
      BY <1>0, <1>1, <3>1 DEF Typed
    <3>4. c.dst # s
      BY <1>4, <2>1
    <3>. QED  BY <1>3, <1>9, <3>1, <3>2, <3>3, <3>4
  <2>. QED  BY <1>0, <1>2, <2>1 DEF CallInv, DecidedUpTo, FirstIndex
<1>14. OneCopy'
  BY <1>0, <1>2 DEF OneCopy
<1>15. OpenInv'
  <2>1. ASSUME NEW c \in calls, c.open
        PROVE  /\ tail[c.src] \in Nat /\ tail'[c.src] \in Nat /\ tail[c.src] <= tail'[c.src]
               /\ tail[c.dst] \in Nat /\ tail'[c.dst] \in Nat /\ tail[c.dst] <= tail'[c.dst]
               /\ c.next + c.num \in Nat
               /\ leading'[c.src] => leading[c.src] /\ next'[c.src] = next[c.src]
    <3>1. c.dst \in Server /\ c.src \in Server /\ c.next \in Nat /\ c.num \in Nat
      BY <1>0 DEF Typed, ACall, Positive
    <3>2. \A v \in Server : tail[v] \in Nat /\ tail'[v] \in Nat /\ tail[v] <= tail'[v]
      BY <1>5, <1>9
    <3>3. c.src \in Server \ {s}
      BY <1>4, <2>1, <3>1
    <3>4. leading'[c.src] => leading[c.src] /\ next'[c.src] = next[c.src]
      BY <1>3, <1>10, <3>3
    <3>5. c.next + c.num \in Nat
      BY <3>1
    <3>. QED  BY <3>1, <3>2, <3>4, <3>5
  <2>2. ASSUME NEW c \in calls, c.open
        PROVE  /\ c.next + c.num <= tail'[c.src]
               /\ leading'[c.src] => next'[c.src][c.dst] = c.next
               /\ c.pc = "answered" /\ c.rsp.success /\ c.dst \notin restarted
                     => c.next + c.num <= tail'[c.dst]
    <3>1. /\ c.next + c.num <= tail[c.src]
          /\ leading[c.src] => next[c.src][c.dst] = c.next
          /\ c.pc = "answered" /\ c.rsp.success /\ c.dst \notin restarted
                => c.next + c.num <= tail[c.dst]
      BY <1>0, <2>2 DEF OpenInv
    <3>. QED  BY <2>1, <2>2, <3>1
  <2>3. \A c \in calls : c.open => \A d \in calls : d.open /\ d.src = c.src /\ d.dst = c.dst => d = c
    BY <1>0 DEF OpenInv
  <2>. QED  BY <1>2, <2>2, <2>3 DEF OpenInv
<1>16. LeaderInv'
  <2>. HIDE DEF n
  <2>0. n.index = Len(log[s]) + 1 /\ n.term = t
    BY DEF n
  <2>1. /\ Len(log'[s]) > 0 /\ log'[s][Len(log'[s])] = term'[s]
        /\ \A f \in Facts' : f.index <= Len(log'[s])
        /\ s \notin restarted'
        /\ \A p \in Server : /\ next'[s][p] > 0 /\ match'[s][p] < tail'[s]
                             /\ match'[s][p] < tail'[p]
    <3>1. Len(log'[s]) > 0 /\ log'[s][Len(log'[s])] = term'[s] /\ s \notin restarted'
      BY <1>1, <1>2, <1>4, <1>5, <1>8
    <3>2. ASSUME NEW f \in Facts'
          PROVE  f.index <= Len(log'[s])
      <4>1. CASE f = n
        BY <1>5, <1>8, <2>0, <4>1
      <4>2. CASE f \in Facts
        <5>1. f.index \in Nat /\ f.index <= Len(log[s])
          BY <1>6, <4>2 DEF Fact, Positive
        <5>. QED  BY <1>5, <1>8, <5>1
      <4>. QED  BY <1>8, <4>1, <4>2
    <3>3. ASSUME NEW p \in Server
          PROVE  next'[s][p] > 0 /\ match'[s][p] < tail'[s] /\ match'[s][p] < tail'[p]
      <4>1. tail[s] > 0 /\ tail'[s] > 0 /\ tail'[p] > 0
        <5>1. tail[p] = Len(log[p]) + 1 /\ Len(log[p]) \in Nat
          BY <1>0 DEF LogInv, Typed
        <5>. QED  BY <1>5, <1>9, <5>1
      <4>. QED  BY <1>10, <4>1
    <3>. QED  BY <3>1, <3>2, <3>3
  <2>2. ASSUME NEW v \in Server \ {s}, leading'[v]
        PROVE  /\ Len(log'[v]) > 0 /\ log'[v][Len(log'[v])] = term'[v]
               /\ \A f \in Facts' : f.term = term'[v] => f.index <= Len(log'[v])
               /\ v \notin restarted'
               /\ \A p \in Server : /\ next'[v][p] > 0 /\ match'[v][p] < tail'[v]
                                    /\ p \notin restarted' => match'[v][p] < tail'[p]
    <3>1. leading[v] /\ term'[v] = term[v] /\ log'[v] = log[v] /\ tail'[v] = tail[v]
          /\ next'[v] = next[v] /\ match'[v] = match[v]
      BY <1>1, <1>3, <1>8, <1>9, <1>10, <2>2
    <3>2. /\ Len(log[v]) > 0 /\ log[v][Len(log[v])] = term[v]
          /\ \A f \in Facts : f.term = term[v] => f.index <= Len(log[v])
          /\ v \notin restarted
          /\ \A p \in Server : /\ next[v][p] > 0 /\ match[v][p] < tail[v]
                               /\ p \notin restarted => match[v][p] < tail[p]
      BY <1>0, <3>1 DEF LeaderInv
    <3>3. n.term # term[v]
      <4>1. log[v] \in Seq(Positive) /\ Len(log[v]) \in 1..Len(log[v])
        <5>1. log[v] \in Seq(Positive)
          BY <1>0 DEF Typed
        <5>. QED  BY <3>2, <5>1
      <4>. DEFINE g == [index |-> Len(log[v]), term |-> log[v][Len(log[v])]]
      <4>2. g \in LogFacts(v) /\ g.term = term[v]
        BY <3>2, <4>1, EntryFact DEF LogFacts
      <4>. HIDE DEF g
      <4>3. g \in Facts
        BY <4>2, FactFrom
      <4>4. term[v] <= term[s] /\ term[v] \in Nat
        BY <1>0, <1>6, <4>2, <4>3 DEF Typed
      <4>. QED  BY <1>5, <2>0, <4>4 DEF t
    <3>4. \A f \in Facts' : f.term = term[v] => f.index <= Len(log[v])
      BY <1>8, <3>2, <3>3
    <3>5. ASSUME NEW p \in Server, p \notin restarted
          PROVE  match[v][p] < tail'[p]
      <4>1. match[v][p] \in Nat /\ tail[p] \in Nat /\ tail'[p] \in Nat
        BY <1>0, <1>9 DEF Typed
      <4>. QED  BY <1>9, <3>2, <3>5, <4>1
    <3>. QED  BY <1>2, <3>1, <3>2, <3>4, <3>5
  <2>3. ASSUME NEW v \in Server, NEW u \in Server, leading'[v], leading'[u], term'[v] = term'[u]
        PROVE  v = u
    <3>1. ASSUME NEW w \in Server \ {s}, leading'[w]
          PROVE  leading[w] /\ term'[w] = term[w] /\ term[w] <= term[s] /\ term[w] \in Nat
      <4>1. leading[w] /\ term'[w] = term[w]
        BY <1>1, <1>3, <3>1
      <4>2. Len(log[w]) > 0 /\ log[w][Len(log[w])] = term[w] /\ log[w] \in Seq(Positive)
        BY <1>0, <4>1 DEF LeaderInv, Typed
      <4>3. Len(log[w]) \in 1..Len(log[w])
        BY <4>2
      <4>. DEFINE g == [index |-> Len(log[w]), term |-> log[w][Len(log[w])]]
      <4>4. g \in LogFacts(w) /\ g.term = term[w]
        BY <4>2, <4>3, EntryFact DEF LogFacts
      <4>. HIDE DEF g
      <4>5. g \in Facts
        BY <4>4, FactFrom
      <4>. QED  BY <1>0, <1>6, <4>1, <4>4, <4>5 DEF Typed
    <3>2. CASE v = s /\ u # s
      BY <1>1, <1>5, <2>3, <3>1, <3>2 DEF t
    <3>3. CASE v # s /\ u = s
      BY <1>1, <1>5, <2>3, <3>1, <3>3 DEF t
    <3>4. CASE v # s /\ u # s
      BY <1>0, <2>3, <3>1, <3>4 DEF LeaderInv
    <3>. QED  BY <3>2, <3>3, <3>4
  <2>. QED  BY <2>1, <2>2, <2>3 DEF LeaderInv
<1>. QED  BY <1>8, <1>11, <1>12, <1>13, <1>14, <1>15, <1>16 DEF ClusterInv

-----------------------------------------------------------------------------
(* A leader *)

(* A leader that is still the latest has all the facts. *)
LEMMA LatestHasAll ==
    ASSUME Sheltered, ClusterInv, NEW s \in Server, Apply(s), NEW f \in Facts
    PROVE  f \in Fact /\ f.index <= Len(log[s]) /\ f.term <= term[s]
<1>0. Typed /\ Ordered /\ LogInv /\ CallInv /\ OneCopy /\ OpenInv /\ LeaderInv /\ DecidedInv
  BY DEF ClusterInv
<1>1. /\ leading[s] /\ \A v \in Server : LastTerm(log[v]) <= term[s]
      /\ \A c \in calls : c.term <= term[s]
  BY DEF Apply, Sheltered
<1>2. term[s] \in Nat /\ log[s] \in Seq(Positive) /\ Len(log[s]) \in Nat
  BY <1>0 DEF Typed
<1>3. /\ Len(log[s]) > 0 /\ log[s][Len(log[s])] = term[s]
      /\ \A g \in Facts : g.term = term[s] => g.index <= Len(log[s])
  BY <1>0, <1>1 DEF LeaderInv
<1>4. f \in Fact /\ f.index \in Nat /\ f.term \in Nat
  BY <1>0, FactType DEF Fact, Positive
<1>5. ASSUME NEW v \in Server, NEW g \in LogFacts(v)
      PROVE  g.term <= term[s]
  <2>1. log[v] \in Seq(Positive) /\ Len(log[v]) \in Nat
    BY <1>0 DEF Typed
  <2>2. g \in Fact /\ g.index <= Len(log[v]) /\ g \in Facts
    BY <1>5, <2>1, FactOf, FactFrom DEF LogFacts
  <2>3. Len(log[v]) \in 1..Len(log[v])
    BY <2>1, <2>2 DEF Fact, Positive
  <2>. DEFINE h == [index |-> Len(log[v]), term |-> log[v][Len(log[v])]]
  <2>4. h \in LogFacts(v) /\ h.index = Len(log[v]) /\ h.term = LastTerm(log[v])
    BY <2>1, <2>3, EntryFact DEF LogFacts, LastTerm, TermAt
  <2>. HIDE DEF h
  <2>5. h \in Facts /\ h \in Fact
    BY <1>0, <2>4, FactFrom, FactType
  <2>6. g.term <= h.term
    BY <2>2, <2>4, <2>5 DEF Ordered, ClusterInv
  <2>7. h.term <= term[s]
    BY <1>1, <2>4
  <2>. QED  BY <1>2, <2>2, <2>5, <2>6, <2>7 DEF Fact, Positive
<1>6. f.term <= term[s]
  <2>1. CASE \E v \in Server : f \in LogFacts(v)
    BY <1>5, <2>1
  <2>2. ASSUME NEW c \in calls, f \in CallFacts(c)
        PROVE  f.term <= term[s]
    <3>1. PICK k \in 1..Len(c.req.entries) :
             f = [index |-> FirstIndex(c) + k - 1, term |-> c.req.entries[k]]
      BY <2>2 DEF CallFacts
    <3>2. f.term <= c.term
      BY <1>0, <3>1 DEF CallInv
    <3>3. c.term \in Nat
      BY <1>0 DEF Typed, ACall
    <3>. QED  BY <1>1, <1>2, <1>4, <3>2, <3>3
  <2>3. CASE f \in decided
    <3>1. IsMajority(Holders(f) \cup restarted) /\ ~IsMajority(restarted)
      BY <1>0, <2>3 DEF DecidedInv
    <3>2. Holders(f) # {}
      <4>1. Holders(f) = {} => Holders(f) \cup restarted = restarted
        OBVIOUS
      <4>. QED  BY <3>1, <4>1
    <3>3. PICK v \in Server : f \in LogFacts(v)
      BY <3>2 DEF Holders
    <3>. QED  BY <1>5, <3>3
  <2>. QED  BY <2>1, <2>2, <2>3, FactFrom
<1>7. ASSUME f.index > Len(log[s])
      PROVE  FALSE
  <2>. DEFINE h == [index |-> Len(log[s]), term |-> log[s][Len(log[s])]]
  <2>1. Len(log[s]) \in 1..Len(log[s])
    BY <1>2, <1>3
  <2>2. h \in LogFacts(s) /\ h.index = Len(log[s]) /\ h.term = term[s]
    BY <1>2, <1>3, <2>1, EntryFact DEF LogFacts
  <2>. HIDE DEF h
  <2>3. h \in Facts
    BY <2>2, FactFrom
  <2>4. h.index <= f.index
    BY <1>2, <1>4, <1>7, <2>2
  <2>5. term[s] <= f.term
    BY <2>2, <2>3, <2>4, <1>0 DEF Ordered
  <2>6. f.term = term[s]
    BY <1>2, <1>4, <1>6, <2>5
  <2>7. f.index <= Len(log[s])
    BY <1>3, <2>6
  <2>. QED  BY <1>2, <1>4, <1>7, <2>7
<1>. QED  BY <1>2, <1>4, <1>6, <1>7

(* Apply: the leader's next entry stands behind every fact. *)
LEMMA ApplyStep ==
    ASSUME Sheltered, ClusterInv, NEW s \in Server, Apply(s)
    PROVE  ClusterInv'
<1>0. Typed /\ Ordered /\ LogInv /\ CallInv /\ OneCopy /\ OpenInv /\ LeaderInv /\ DecidedInv
  BY DEF ClusterInv
<1>. DEFINE t == term[s]
<1>1. /\ UNCHANGED <<term, leading, commit, next, match, calls, restarted, decided>>
      /\ log' = [log EXCEPT ![s] = Append(@, t)]
      /\ tail' = [tail EXCEPT ![s] = @ + 1]
      /\ leading[s]
  BY DEF Apply
<1>2. \A f \in Facts : f \in Fact /\ f.index <= Len(log[s]) /\ f.term <= t
  BY LatestHasAll
<1>3. /\ log[s] \in Seq(Positive) /\ Len(log[s]) \in Nat /\ tail \in [Server -> Nat]
      /\ t \in Positive /\ tail[s] = Len(log[s]) + 1
      /\ \A i \in 1..Len(log[s]) : log[s][i] <= t
  <2>1. log[s] \in Seq(Positive) /\ tail \in [Server -> Nat]
    BY <1>0 DEF Typed
  <2>2. Len(log[s]) > 0 /\ t = log[s][Len(log[s])]
    BY <1>0, <1>1 DEF LeaderInv
  <2>3. Len(log[s]) \in Nat /\ t \in Positive
    BY <2>1, <2>2
  <2>. QED  BY <1>0, <2>1, <2>3 DEF LogInv
<1>. HIDE DEF t
<1>. DEFINE n == [index |-> Len(log[s]) + 1, term |-> t]
<1>4. /\ log' \in [Server -> Seq(Positive)]
      /\ Len(log'[s]) = Len(log[s]) + 1 /\ log'[s][Len(log'[s])] = t
      /\ \A i \in 1..Len(log[s]) : log'[s][i] = log[s][i]
      /\ \A v \in Server \ {s} : log'[v] = log[v]
      /\ Facts' = Facts \cup {n} /\ Ordered' /\ DecidedInv'
  BY <1>0, <1>1, <1>2, <1>3, NewFact
<1>5. /\ tail' \in [Server -> Nat] /\ tail'[s] = tail[s] + 1
      /\ \A v \in Server \ {s} : tail'[v] = tail[v]
      /\ \A v \in Server : tail[v] <= tail'[v]
  BY <1>1, <1>3
<1>6. Typed'
  BY <1>0, <1>1, <1>4, <1>5 DEF Typed
<1>7. LogInv'
  <2>1. ASSUME NEW i \in 1..Len(log[s]) + 1
        PROVE  log'[s][i] <= t
    <3>1. CASE i = Len(log[s]) + 1
      BY <1>3, <1>4, <3>1 DEF Positive
    <3>2. CASE i \in 1..Len(log[s])
      BY <1>3, <1>4, <3>2
    <3>. QED  BY <1>3, <2>1, <3>1, <3>2
  <2>2. ASSUME NEW v \in Server
        PROVE  tail'[v] = Len(log'[v]) + 1 /\ \A i \in 1..Len(log'[v]) : log'[v][i] <= term'[v]
    <3>1. CASE v = s
      BY <1>1, <1>3, <1>4, <1>5, <2>1, <3>1 DEF t
    <3>2. CASE v # s
      BY <1>0, <1>1, <1>4, <1>5, <3>2 DEF LogInv
    <3>. QED  BY <3>1, <3>2
  <2>. QED  BY <1>0, <1>1, <2>2 DEF LogInv, DecidedUpTo
<1>8. CallInv'
  <2>1. ASSUME NEW c \in calls, c.pc = "copying"
        PROVE  FirstIndex(c) = tail'[c.dst]
    <3>1. c.dst \in Server
      BY <1>0 DEF Typed, ACall
    <3>2. FirstIndex(c) = tail[c.dst] /\ ~leading[c.dst]
      BY <1>0, <2>1 DEF CallInv
    <3>3. c.dst # s
      BY <1>1, <3>2
    <3>. QED  BY <1>5, <3>1, <3>2, <3>3
  <2>. QED  BY <1>0, <1>1, <2>1 DEF CallInv, DecidedUpTo, FirstIndex
<1>9. OneCopy'
  BY <1>0, <1>1 DEF OneCopy
<1>10. OpenInv'
  <2>1. \A v \in Server : tail[v] \in Nat /\ tail'[v] \in Nat /\ tail[v] <= tail'[v]
    BY <1>3, <1>5
  <2>2. ASSUME NEW c \in calls, c.open
        PROVE  /\ c.next + c.num <= tail'[c.src]
               /\ c.pc = "answered" /\ c.rsp.success /\ c.dst \notin restarted
                     => c.next + c.num <= tail'[c.dst]
    <3>1. c.dst \in Server /\ c.src \in Server /\ c.next \in Nat /\ c.num \in Nat
      BY <1>0 DEF Typed, ACall, Positive
    <3>2. /\ c.next + c.num <= tail[c.src]
          /\ c.pc = "answered" /\ c.rsp.success /\ c.dst \notin restarted
                => c.next + c.num <= tail[c.dst]
      BY <1>0, <2>2 DEF OpenInv
    <3>. QED  BY <2>1, <3>1, <3>2
  <2>. QED  BY <1>0, <1>1, <2>2 DEF OpenInv
<1>11. LeaderInv'
  <2>. HIDE DEF n
  <2>0. n.index = Len(log[s]) + 1 /\ n.term = t
    BY DEF n
  <2>1. ASSUME NEW v \in Server, leading[v]
        PROVE  /\ Len(log'[v]) > 0 /\ log'[v][Len(log'[v])] = term[v]
               /\ \A f \in Facts' : f.term = term[v] => f.index <= Len(log'[v])
    <3>1. /\ Len(log[v]) > 0 /\ log[v][Len(log[v])] = term[v]
          /\ \A f \in Facts : f.term = term[v] => f.index <= Len(log[v])
      BY <1>0, <2>1 DEF LeaderInv
    <3>2. CASE v = s
      <4>1. ASSUME NEW f \in Facts'
            PROVE  f.index <= Len(log'[s])
        <5>1. CASE f = n
          BY <1>3, <1>4, <2>0, <5>1
        <5>2. CASE f \in Facts
          <6>1. f.index \in Nat /\ f.index <= Len(log[s])
            BY <1>2, <5>2 DEF Fact, Positive
          <6>. QED  BY <1>3, <1>4, <6>1
        <5>. QED  BY <1>4, <5>1, <5>2
      <4>2. Len(log'[s]) > 0 /\ log'[s][Len(log'[s])] = term[s]
        BY <1>3, <1>4 DEF t
      <4>. QED  BY <3>2, <4>1, <4>2
    <3>3. CASE v # s
      <4>1. log'[v] = log[v]
        BY <1>4, <3>3
      <4>2. ASSUME t = term[v]
            PROVE  FALSE
        BY <1>0, <1>1, <2>1, <3>3, <4>2 DEF LeaderInv, t
      <4>. QED  BY <1>4, <2>0, <3>1, <4>1, <4>2
    <3>. QED  BY <3>2, <3>3
  <2>2. ASSUME NEW v \in Server, leading[v], NEW p \in Server
        PROVE  match[v][p] < tail'[v] /\ (p \notin restarted => match[v][p] < tail'[p])
    <3>1. match[v][p] \in Nat /\ tail[p] \in Nat /\ tail'[p] \in Nat /\ tail[v] \in Nat /\ tail'[v] \in Nat
      BY <1>0, <1>5 DEF Typed
    <3>2. match[v][p] < tail[v] /\ (p \notin restarted => match[v][p] < tail[p])
      BY <1>0, <2>2 DEF LeaderInv
    <3>. QED  BY <1>5, <3>1, <3>2
  <2>. QED  BY <1>0, <1>1, <2>1, <2>2 DEF LeaderInv
<1>. QED  BY <1>4, <1>6, <1>7, <1>8, <1>9, <1>10, <1>11 DEF ClusterInv

-----------------------------------------------------------------------------
(* Calls *)

(* A step that only repeats what there was. *)
LEMMA FactsRepeated ==
    ASSUME \A v \in Server : LogFacts(v)' \subseteq Facts,
           \A c \in calls' : CallFacts(c) \subseteq Facts,
           decided' \subseteq Facts
    PROVE  Facts' \subseteq Facts
<1>1. Held' \subseteq Facts
  BY DEF Held
<1>2. Carried' \subseteq Facts
  BY DEF Carried
<1>. QED  BY <1>1, <1>2 DEF Facts

(* The facts of the parts are facts. *)
LEMMA PartsAreFacts ==
    /\ \A v \in Server : LogFacts(v) \subseteq Facts
    /\ \A c \in calls : CallFacts(c) \subseteq Facts
    /\ decided \subseteq Facts
BY FactFrom

(* A piece of a log. *)
LEMMA PieceOf ==
    ASSUME NEW l \in Seq(Positive), NEW n \in Nat, NEW k \in Nat, n >= 1, n + k <= Len(l) + 1
    PROVE  /\ SubSeq(l, n, n + k - 1) \in Seq(Positive)
           /\ Len(SubSeq(l, n, n + k - 1)) = k
           /\ \A j \in 1..k : /\ n + j - 1 \in 1..Len(l)
                              /\ SubSeq(l, n, n + k - 1)[j] = l[n + j - 1]
<1>1. Len(l) \in Nat
  OBVIOUS
<1>2. \A j \in 1..k : n + j - 1 \in 1..Len(l)
  BY <1>1
<1>3. Len(SubSeq(l, n, n + k - 1)) = k
  BY <1>1
<1>4. \A j \in 1..k : SubSeq(l, n, n + k - 1)[j] = l[n + j - 1]
  BY <1>1, <1>3
<1>5. SubSeq(l, n, n + k - 1) \in Seq(Positive)
  <2>1. SubSeq(l, n, n + k - 1) = [j \in 1..k |-> l[n + j - 1]]
    BY <1>1, <1>3, <1>4
  <2>2. \A j \in 1..k : l[n + j - 1] \in Positive
    BY <1>2
  <2>3. \A j \in 1..Len(SubSeq(l, n, n + k - 1)) : SubSeq(l, n, n + k - 1)[j] \in Positive
    BY <1>3, <1>4, <2>2
  <2>. QED  BY <1>1, <1>2, <2>3
<1>. QED  BY <1>2, <1>3, <1>4, <1>5

(* What Lock B sends, and from where. *)
LEMMA SendFacts ==
    ASSUME ClusterInv, NEW s \in Server, NEW p \in Server, Send(s, p)
    PROVE  \E n \in Positive : \E k \in Nat :
              /\ n + k <= tail[s]
              /\ next' = [next EXCEPT ![s][p] = n]
              /\ calls' = calls \cup
                   {[src |-> s, dst |-> p, open |-> TRUE, pc |-> "sent",
                     term |-> term[s], next |-> n, num |-> k,
                     req |-> [prevTerm |-> TermAt(log[s], n - 1), commit |-> commit[s],
                              entries |-> SubSeq(log[s], n, n + k - 1)],
                     rsp |-> NoRsp]}
<1>0. Typed /\ LogInv /\ LeaderInv
  BY DEF ClusterInv
<1>. DEFINE last == tail[s] - 1
            n == Min({next[s][p], last + 1})
            batch == IF n \in records[s] THEN 1..Min({MaxBatch, last - n + 1}) ELSE {0}
<1>1. leading[s]
  BY DEF Send
<1>2. next[s][p] \in Nat /\ next[s][p] > 0 /\ tail[s] \in Nat /\ tail[s] > 0
  <2>1. Len(log[s]) \in Nat /\ tail[s] = Len(log[s]) + 1
    BY <1>0 DEF Typed, LogInv
  <2>. QED  BY <1>0, <1>1, <2>1 DEF Typed, LeaderInv
<1>3. last + 1 = tail[s] /\ last + 1 \in Int
  BY <1>2
<1>4. n \in Positive /\ n <= tail[s]
  <2>1. n = IF next[s][p] <= last + 1 THEN next[s][p] ELSE last + 1
    <3>. HIDE DEF last
    <3>1. \A a, b \in Int : Min({a, b}) = IF a <= b THEN a ELSE b
      BY MaxOf
    <3>. QED  BY <1>2, <1>3, <3>1
  <2>. QED  BY <1>2, <1>3, <2>1 DEF Positive
<1>5. ASSUME NEW k \in batch
      PROVE  k \in Nat /\ n + k <= tail[s]
  <2>. HIDE DEF n
  <2>1. last - n + 1 \in Int /\ MaxBatch \in Int
    BY <1>2, <1>4, ClusterAssumptions DEF Positive
  <2>2. CASE n \in records[s]
    <3>1. Min({MaxBatch, last - n + 1}) = IF MaxBatch <= last - n + 1 THEN MaxBatch ELSE last - n + 1
      BY <2>1, MaxOf
    <3>2. k \in 1..Min({MaxBatch, last - n + 1})
      BY <2>2
    <3>3. k \in Nat /\ k <= last - n + 1
      BY <2>1, <3>1, <3>2
    <3>. QED  BY <1>2, <1>4, <3>3 DEF Positive
  <2>3. CASE n \notin records[s]
    <3>1. k = 0
      BY <2>3
    <3>. QED  BY <1>2, <1>4, <3>1 DEF Positive
  <2>. QED  BY <2>2, <2>3
<1>6. /\ next' = [next EXCEPT ![s][p] = n]
      /\ \E k \in batch :
              calls' = calls \cup
                 {[src |-> s, dst |-> p, open |-> TRUE, pc |-> "sent",
                   term |-> term[s], next |-> n, num |-> k,
                   req |-> [prevTerm |-> TermAt(log[s], n - 1), commit |-> commit[s],
                            entries |-> SubSeq(log[s], n, n + k - 1)],
                   rsp |-> NoRsp]}
  BY DEF Send
<1>. HIDE DEF n, batch
<1>. QED  BY <1>4, <1>5, <1>6

(* Send: a request repeats what the leader's log has. *)
LEMMA SendStep ==
    ASSUME Sheltered, ClusterInv, NEW s \in Server, NEW p \in Server, Send(s, p)
    PROVE  ClusterInv'
<1>0. Typed /\ Ordered /\ LogInv /\ CallInv /\ OneCopy /\ OpenInv /\ LeaderInv /\ DecidedInv
  BY DEF ClusterInv
<1>1. /\ UNCHANGED <<term, leading, log, tail, commit, match, restarted, decided>>
      /\ leading[s] /\ \A c \in calls : c.open /\ c.src = s => c.dst # p
  BY DEF Send, OpenCalls
<1>2. PICK n \in Positive, k \in Nat :
              /\ n + k <= tail[s]
              /\ next' = [next EXCEPT ![s][p] = n]
              /\ calls' = calls \cup
                   {[src |-> s, dst |-> p, open |-> TRUE, pc |-> "sent",
                     term |-> term[s], next |-> n, num |-> k,
                     req |-> [prevTerm |-> TermAt(log[s], n - 1), commit |-> commit[s],
                              entries |-> SubSeq(log[s], n, n + k - 1)],
                     rsp |-> NoRsp]}
  BY SendFacts
<1>3. /\ log[s] \in Seq(Positive) /\ Len(log[s]) \in Nat /\ tail[s] = Len(log[s]) + 1
      /\ n \in Nat /\ n >= 1 /\ term[s] \in Nat /\ commit[s] \in Nat
      /\ DecidedUpTo(commit[s])
      /\ \A i \in 1..Len(log[s]) : log[s][i] <= term[s]
  <2>1. n \in Nat /\ n >= 1
    BY DEF Positive
  <2>. QED  BY <1>0, <2>1, ServerTypes
<1>4. PICK piece \in Seq(Positive) :
         /\ piece = SubSeq(log[s], n, n + k - 1) /\ Len(piece) = k
         /\ \A j \in 1..k : n + j - 1 \in 1..Len(log[s]) /\ piece[j] = log[s][n + j - 1]
  BY <1>2, <1>3, PieceOf, ZenonT(30)
<1>5. TermAt(log[s], n - 1) \in Nat
  BY <1>3 DEF TermAt, Positive
<1>6. PICK e : e = [src |-> s, dst |-> p, open |-> TRUE, pc |-> "sent",
                    term |-> term[s], next |-> n, num |-> k,
                    req |-> [prevTerm |-> TermAt(log[s], n - 1), commit |-> commit[s],
                             entries |-> piece],
                    rsp |-> NoRsp]
  OBVIOUS
<1>7. /\ e.src = s /\ e.dst = p /\ e.open /\ e.pc = "sent" /\ e.term = term[s] /\ e.next = n /\ e.num = k
      /\ e.req.entries = piece /\ e.req.commit = commit[s] /\ e \in ACall
  <2>1. NoRsp \in [term : Nat, success : BOOLEAN, conflictTerm : Nat, conflictIndex : Nat]
    BY DEF NoRsp
  <2>2. e \in ACall
    BY <1>3, <1>4, <1>5, <1>6, <2>1 DEF ACall
  <2>. QED  BY <1>6, <2>2
<1>8. calls' = calls \cup {e}
  BY <1>2, <1>4, <1>6
<1>9. FirstIndex(e) = n
  <2>1. FirstIndex(e) = n + k - k
    BY <1>4, <1>7 DEF FirstIndex
  <2>. QED  BY <1>3, <2>1
<1>10. CallFacts(e) \subseteq LogFacts(s)
  <2>1. ASSUME NEW j \in 1..k
        PROVE  [index |-> n + j - 1, term |-> piece[j]] \in LogFacts(s)
    <3>1. n + j - 1 \in 1..Len(log[s]) /\ piece[j] = log[s][n + j - 1]
      BY <1>4
    <3>. QED  BY <1>3, <3>1, EntryFact DEF LogFacts
  <2>. QED  BY <1>4, <1>7, <1>9, <2>1 DEF CallFacts
<1>11. Facts' \subseteq Facts
  <2>1. \A v \in Server : LogFacts(v)' \subseteq Facts
    BY <1>1, PartsAreFacts DEF LogFacts
  <2>2. \A c \in calls' : CallFacts(c) \subseteq Facts
    BY <1>8, <1>10, PartsAreFacts
  <2>3. decided' \subseteq Facts
    BY <1>1, PartsAreFacts
  <2>. QED  BY <2>1, <2>2, <2>3, FactsRepeated
<1>12. /\ next' \in [Server -> [Server -> Nat]] /\ next'[s][p] = n
       /\ \A v, u \in Server : v # s \/ u # p => next'[v][u] = next[v][u]
  <2>1. next \in [Server -> [Server -> Nat]]
    BY <1>0 DEF Typed
  <2>2. next' = [next EXCEPT ![s] = [next[s] EXCEPT ![p] = n]]
    BY <1>2, <2>1
  <2>3. [next[s] EXCEPT ![p] = n] \in [Server -> Nat]
    BY <1>3, <2>1
  <2>. QED  BY <2>1, <2>2, <2>3
<1>13. Typed'
  BY <1>0, <1>1, <1>7, <1>8, <1>12 DEF Typed
<1>14. Ordered'
  BY <1>0, <1>11, OrderKept
<1>15. LogInv' /\ DecidedInv'
  BY <1>0, <1>1 DEF LogInv, DecidedInv, DecidedUpTo, Holders, LogFacts
<1>16. CallInv'
  <2>1. ASSUME NEW c \in calls
        PROVE  /\ c.pc = "sent" => Len(c.req.entries) = c.num
               /\ c.pc = "answered" => c.req = NoReq /\ c.open
               /\ c.pc = "copying" => /\ FirstIndex(c) = tail'[c.dst]
                                      /\ c.term <= term'[c.dst]
                                      /\ ~leading'[c.dst]
               /\ \A j \in 1..Len(c.req.entries) : c.req.entries[j] <= c.term
               /\ DecidedUpTo(c.req.commit)'
    BY <1>0, <1>1 DEF CallInv, DecidedUpTo
  <2>2. \A j \in 1..Len(e.req.entries) : e.req.entries[j] <= e.term
    <3>1. \A j \in 1..k : piece[j] <= term[s]
      BY <1>3, <1>4
    <3>. QED  BY <1>4, <1>7, <3>1
  <2>3. DecidedUpTo(e.req.commit)'
    BY <1>1, <1>3, <1>7 DEF DecidedUpTo
  <2>4. Len(e.req.entries) = e.num
    BY <1>4, <1>7
  <2>5. ASSUME NEW c \in calls'
        PROVE  /\ c.pc = "sent" => Len(c.req.entries) = c.num
               /\ c.pc = "answered" => c.req = NoReq /\ c.open
               /\ c.pc = "copying" => /\ FirstIndex(c) = tail'[c.dst]
                                      /\ c.term <= term'[c.dst]
                                      /\ ~leading'[c.dst]
               /\ \A j \in 1..Len(c.req.entries) : c.req.entries[j] <= c.term
               /\ DecidedUpTo(c.req.commit)'
    <3>1. CASE c = e
      BY <1>7, <2>2, <2>3, <2>4, <3>1
    <3>2. CASE c \in calls
      BY <2>1, <3>2
    <3>. QED  BY <1>8, <3>1, <3>2
  <2>. QED  BY <2>5 DEF CallInv, FirstIndex
<1>17. OneCopy'
  BY <1>0, <1>7, <1>8 DEF OneCopy
<1>18. OpenInv'
  <2>1. ASSUME NEW c \in calls, c.open
        PROVE  /\ ~(c.src = s /\ c.dst = p)
               /\ c.src \in Server /\ c.dst \in Server
               /\ \A d \in calls : d.open /\ d.src = c.src /\ d.dst = c.dst => d = c
               /\ c.next + c.num <= tail[c.src]
               /\ leading[c.src] => next'[c.src][c.dst] = c.next
               /\ c.pc = "answered" /\ c.rsp.success /\ c.dst \notin restarted
                    => c.next + c.num <= tail[c.dst]
    <3>1. c.src \in Server /\ c.dst \in Server
      BY <1>0 DEF Typed, ACall
    <3>2. ~(c.src = s /\ c.dst = p)
      BY <1>1, <2>1
    <3>3. next'[c.src][c.dst] = next[c.src][c.dst]
      BY <1>12, <3>1, <3>2
    <3>. QED  BY <1>0, <2>1, <3>1, <3>2, <3>3 DEF OpenInv
  <2>2. e.next + e.num <= tail[s] /\ next'[e.src][e.dst] = e.next
    BY <1>2, <1>7, <1>12
  <2>. QED  BY <1>1, <1>7, <1>8, <2>1, <2>2 DEF OpenInv
<1>19. LeaderInv'
  <2>1. \A v, u \in Server : leading[v] => next'[v][u] > 0
    <3>1. ASSUME NEW v \in Server, NEW u \in Server, leading[v]
          PROVE  next'[v][u] > 0
      <4>1. CASE v = s /\ u = p
        BY <1>3, <1>12, <4>1
      <4>2. CASE v # s \/ u # p
        BY <1>0, <1>12, <3>1, <4>2 DEF LeaderInv
      <4>. QED  BY <4>1, <4>2
    <3>. QED  BY <3>1
  <2>. QED  BY <1>0, <1>1, <1>11, <2>1 DEF LeaderInv
<1>. QED  BY <1>13, <1>14, <1>15, <1>16, <1>17, <1>18, <1>19 DEF ClusterInv

(* A handler's step on the call c: its server may hear of a term, append   *)
(* what c carries and move its commit index over what is decided; c may be *)
(* gone or have become the call e.                                         *)
HandlerMoves(c) ==
    /\ UNCHANGED <<next, match, restarted, decided>>
    /\ \A v \in Server \ {c.dst} :
          /\ term'[v] = term[v] /\ leading'[v] = leading[v] /\ log'[v] = log[v]
          /\ tail'[v] = tail[v] /\ commit'[v] = commit[v]
    /\ term[c.dst] <= term'[c.dst]
    /\ leading'[c.dst] => /\ leading[c.dst] /\ term'[c.dst] = term[c.dst]
                          /\ log'[c.dst] = log[c.dst]
    /\ tail'[c.dst] = Len(log'[c.dst]) + 1
    /\ tail[c.dst] <= tail'[c.dst]
    /\ LogFacts(c.dst) \subseteq LogFacts(c.dst)'
    /\ LogFacts(c.dst)' \subseteq Facts
    /\ \A i \in 1..Len(log'[c.dst]) : log'[c.dst][i] <= term'[c.dst]
    /\ DecidedUpTo(commit'[c.dst])
    /\ \A d \in calls \ {c} : d.pc = "copying" /\ d.dst = c.dst => tail'[c.dst] = tail[c.dst]

(* The call e that c has become. *)
Becomes(c, e) ==
    /\ e \in ACall
    /\ e.src = c.src /\ e.dst = c.dst /\ e.open = c.open
    /\ e.term = c.term /\ e.next = c.next /\ e.num = c.num
    /\ \/ /\ e.pc = "answered" /\ e.open /\ e.req = NoReq
          /\ e.rsp.success => c.next + c.num <= tail'[c.dst]
       \/ /\ e.pc = "copying"
          /\ FirstIndex(e) = tail'[c.dst]
          /\ c.term <= term'[c.dst] /\ ~leading'[c.dst]
          /\ CallFacts(e) \subseteq CallFacts(c)
          /\ \A k \in 1..Len(e.req.entries) : e.req.entries[k] <= c.term
          /\ e.req.commit = c.req.commit
          /\ \A d \in calls \ {c} : ~(d.pc = "copying" /\ d.dst = c.dst)

HandlerCalls(c) ==
    \/ calls' = calls \ {c}
    \/ \E e : Becomes(c, e) /\ calls' = (calls \ {c}) \cup {e}

HandlerTypes ==
    /\ term' \in [Server -> Nat]
    /\ leading' \in [Server -> BOOLEAN]
    /\ log' \in [Server -> Seq(Positive)]
    /\ tail' \in [Server -> Nat]
    /\ commit' \in [Server -> Nat]

(* A handler's step, part by part. *)
LEMMA HandlerKeeps ==
    ASSUME ClusterInv, NEW c \in calls, HandlerMoves(c), HandlerCalls(c), HandlerTypes
    PROVE  ClusterInv'
<1>0. Typed /\ Ordered /\ LogInv /\ CallInv /\ OneCopy /\ OpenInv /\ LeaderInv /\ DecidedInv
  BY DEF ClusterInv
<1>1. /\ UNCHANGED <<next, match, restarted, decided>>
      /\ c \in ACall /\ c.dst \in Server /\ c.src \in Server
  BY <1>0 DEF HandlerMoves, Typed, ACall
<1>2. \A d \in calls' : d \in calls \ {c} \/ Becomes(c, d)
  BY DEF HandlerCalls
<1>3. \A d, e \in calls' : Becomes(c, d) /\ d \notin calls \ {c} /\ Becomes(c, e) /\ e \notin calls \ {c} => d = e
  BY DEF HandlerCalls
<1>4. Typed'
  <2>1. calls' \subseteq ACall
    BY <1>0, <1>2 DEF Typed, Becomes
  <2>. QED  BY <1>0, <1>1, <2>1 DEF Typed, HandlerTypes
<1>5. Facts' \subseteq Facts
  <2>1. \A v \in Server : LogFacts(v)' \subseteq Facts
    <3>1. \A v \in Server \ {c.dst} : LogFacts(v)' = LogFacts(v)
      BY DEF HandlerMoves, LogFacts
    <3>2. LogFacts(c.dst)' \subseteq Facts
      BY DEF HandlerMoves
    <3>. QED  BY <3>1, <3>2, PartsAreFacts
  <2>2. ASSUME NEW d \in calls'
        PROVE  CallFacts(d) \subseteq Facts
    <3>1. CASE d \in calls
      BY <3>1, PartsAreFacts
    <3>2. CASE Becomes(c, d) /\ d.pc = "answered"
      <4>1. Len(d.req.entries) = 0
        BY <3>2 DEF Becomes, NoReq
      <4>2. CallFacts(d) = {}
        BY <4>1 DEF CallFacts
      <4>. QED  BY <4>2
    <3>3. CASE Becomes(c, d) /\ d.pc = "copying"
      <4>1. CallFacts(d) \subseteq CallFacts(c)
        BY <3>3 DEF Becomes
      <4>. QED  BY <4>1, PartsAreFacts
    <3>. QED  BY <1>2, <3>1, <3>2, <3>3 DEF Becomes
  <2>3. decided' \subseteq Facts
    BY <1>1, PartsAreFacts
  <2>. QED  BY <2>1, <2>2, <2>3, FactsRepeated
<1>6. Ordered'
  BY <1>0, <1>5, OrderKept
<1>7. LogInv'
  <2>1. ASSUME NEW v \in Server
        PROVE  /\ tail'[v] = Len(log'[v]) + 1
               /\ \A i \in 1..Len(log'[v]) : log'[v][i] <= term'[v]
               /\ DecidedUpTo(commit'[v])
    <3>1. CASE v = c.dst
      BY <3>1 DEF HandlerMoves
    <3>2. CASE v # c.dst
      BY <1>0, <3>2 DEF HandlerMoves, LogInv
    <3>. QED  BY <3>1, <3>2
  <2>. QED  BY <1>1, <2>1 DEF LogInv, DecidedUpTo
<1>8. /\ \A v \in Server : tail[v] \in Nat /\ tail'[v] \in Nat /\ tail[v] <= tail'[v]
      /\ \A v \in Server : term[v] \in Nat /\ term'[v] \in Nat /\ term[v] <= term'[v]
      /\ \A v \in Server : leading'[v] => leading[v] /\ term'[v] = term[v] /\ log'[v] = log[v]
  <2>1. \A v \in Server : tail[v] \in Nat /\ tail'[v] \in Nat /\ term[v] \in Nat /\ term'[v] \in Nat
    BY <1>0, <1>4 DEF Typed
  <2>2. ASSUME NEW v \in Server
        PROVE  /\ tail[v] <= tail'[v] /\ term[v] <= term'[v]
               /\ leading'[v] => leading[v] /\ term'[v] = term[v] /\ log'[v] = log[v]
    <3>1. CASE v = c.dst
      BY <3>1 DEF HandlerMoves
    <3>2. CASE v # c.dst
      BY <2>1, <3>2 DEF HandlerMoves
    <3>. QED  BY <3>1, <3>2
  <2>. QED  BY <2>1, <2>2
<1>9. CallInv'
  <2>1. ASSUME NEW d \in calls'
        PROVE  /\ d.pc = "sent" => Len(d.req.entries) = d.num
               /\ d.pc = "answered" => d.req = NoReq /\ d.open
               /\ d.pc = "copying" => /\ FirstIndex(d) = tail'[d.dst]
                                      /\ d.term <= term'[d.dst]
                                      /\ ~leading'[d.dst]
               /\ \A k \in 1..Len(d.req.entries) : d.req.entries[k] <= d.term
               /\ DecidedUpTo(d.req.commit)
    <3>1. CASE d \in calls \ {c}
      <4>1. /\ d.pc = "sent" => Len(d.req.entries) = d.num
            /\ d.pc = "answered" => d.req = NoReq /\ d.open
            /\ d.pc = "copying" => /\ FirstIndex(d) = tail[d.dst]
                                   /\ d.term <= term[d.dst]
                                   /\ ~leading[d.dst]
            /\ \A k \in 1..Len(d.req.entries) : d.req.entries[k] <= d.term
            /\ DecidedUpTo(d.req.commit)
        BY <1>0, <3>1 DEF CallInv
      <4>2. d.dst \in Server /\ d.term \in Nat
        BY <1>0, <3>1 DEF Typed, ACall
      <4>3. d.pc = "copying" => tail'[d.dst] = tail[d.dst]
        BY <3>1, <4>2 DEF HandlerMoves
      <4>4. d.pc = "copying" => d.term <= term'[d.dst] /\ ~leading'[d.dst]
        BY <1>8, <4>1, <4>2
      <4>. QED  BY <4>1, <4>3, <4>4
    <3>2. CASE Becomes(c, d) /\ d.pc = "answered"
      <4>1. Len(d.req.entries) = 0 /\ d.req.commit = 0 /\ d.req = NoReq /\ d.open
        BY <3>2 DEF Becomes, NoReq
      <4>. QED  BY <3>2, <4>1 DEF DecidedUpTo
    <3>3. CASE Becomes(c, d) /\ d.pc = "copying"
      <4>1. DecidedUpTo(c.req.commit)
        BY <1>0 DEF CallInv
      <4>. QED  BY <3>3, <4>1 DEF Becomes
    <3>. QED  BY <1>2, <3>1, <3>2, <3>3 DEF Becomes
  <2>. QED  BY <1>1, <2>1 DEF CallInv, DecidedUpTo, FirstIndex
<1>10. OneCopy'
  <2>1. ASSUME NEW d \in calls', NEW e \in calls', d.pc = "copying", e.pc = "copying", d.dst = e.dst
        PROVE  d = e
    <3>1. CASE d \in calls \ {c} /\ e \in calls \ {c}
      BY <1>0, <2>1, <3>1 DEF OneCopy
    <3>2. CASE d \in calls \ {c} /\ e \notin calls \ {c}
      <4>1. Becomes(c, e)
        BY <1>2, <3>2
      <4>. QED  BY <2>1, <3>2, <4>1 DEF Becomes
    <3>3. CASE d \notin calls \ {c} /\ e \in calls \ {c}
      <4>1. Becomes(c, d)
        BY <1>2, <3>3
      <4>. QED  BY <2>1, <3>3, <4>1 DEF Becomes
    <3>4. CASE d \notin calls \ {c} /\ e \notin calls \ {c}
      BY <1>2, <1>3, <3>4
    <3>. QED  BY <3>1, <3>2, <3>3, <3>4
  <2>. QED  BY <2>1 DEF OneCopy
<1>11. OpenInv'
  <2>1. ASSUME NEW d \in calls, d.open
        PROVE  /\ d.next + d.num <= tail'[d.src]
               /\ leading'[d.src] => next[d.src][d.dst] = d.next
               /\ d.pc = "answered" /\ d.rsp.success /\ d.dst \notin restarted
                     => d.next + d.num <= tail'[d.dst]
    <3>1. d.src \in Server /\ d.dst \in Server /\ d.next \in Nat /\ d.num \in Nat
      BY <1>0 DEF Typed, ACall, Positive
    <3>2. /\ d.next + d.num <= tail[d.src]
          /\ leading[d.src] => next[d.src][d.dst] = d.next
          /\ d.pc = "answered" /\ d.rsp.success /\ d.dst \notin restarted
                => d.next + d.num <= tail[d.dst]
      BY <1>0, <2>1 DEF OpenInv
    <3>. QED  BY <1>8, <3>1, <3>2
  <2>2. ASSUME NEW d \in calls', d.open
        PROVE  /\ d.next + d.num <= tail'[d.src]
               /\ leading'[d.src] => next[d.src][d.dst] = d.next
               /\ d.pc = "answered" /\ d.rsp.success /\ d.dst \notin restarted
                     => d.next + d.num <= tail'[d.dst]
    <3>1. CASE d \in calls
      BY <2>1, <2>2, <3>1
    <3>2. CASE Becomes(c, d)
      <4>1. c.open /\ d.src = c.src /\ d.dst = c.dst /\ d.next = c.next /\ d.num = c.num
        BY <2>2, <3>2 DEF Becomes
      <4>2. d.pc = "answered" /\ d.rsp.success => c.next + c.num <= tail'[c.dst]
        BY <3>2 DEF Becomes
      <4>. QED  BY <2>1, <4>1, <4>2
    <3>. QED  BY <1>2, <3>1, <3>2
  <2>3. ASSUME NEW d \in calls', NEW e \in calls', d.open, e.open, d.src = e.src, d.dst = e.dst
        PROVE  d = e
    <3>1. CASE d \in calls \ {c} /\ e \in calls \ {c}
      BY <1>0, <2>3, <3>1 DEF OpenInv
    <3>2. ASSUME NEW x \in calls \ {c}, NEW y, Becomes(c, y), x.open, y.open, x.src = y.src, x.dst = y.dst
          PROVE  FALSE
      <4>1. c.open /\ y.src = c.src /\ y.dst = c.dst
        BY <3>2 DEF Becomes
      <4>2. x = c
        BY <1>0, <3>2, <4>1 DEF OpenInv
      <4>. QED  BY <3>2, <4>2
    <3>3. CASE d \notin calls \ {c} /\ e \notin calls \ {c}
      BY <1>2, <1>3, <3>3
    <3>. QED  BY <1>2, <2>3, <3>1, <3>2, <3>3
  <2>. QED  BY <1>1, <2>2, <2>3 DEF OpenInv
<1>12. LeaderInv'
  <2>1. ASSUME NEW v \in Server, leading'[v]
        PROVE  /\ \A u \in Server : leading'[u] /\ term'[u] = term'[v] => u = v
               /\ Len(log'[v]) > 0 /\ log'[v][Len(log'[v])] = term'[v]
               /\ \A f \in Facts' : f.term = term'[v] => f.index <= Len(log'[v])
               /\ v \notin restarted
    BY <1>0, <1>5, <1>8, <2>1 DEF LeaderInv
  <2>2. ASSUME NEW v \in Server, leading'[v], NEW p \in Server
        PROVE  /\ next[v][p] > 0 /\ match[v][p] < tail'[v]
               /\ p \notin restarted => match[v][p] < tail'[p]
    <3>1. /\ next[v][p] > 0 /\ match[v][p] < tail[v]
          /\ p \notin restarted => match[v][p] < tail[p]
      BY <1>0, <1>8, <2>2 DEF LeaderInv
    <3>2. match[v][p] \in Nat
      BY <1>0 DEF Typed
    <3>. QED  BY <1>8, <3>1, <3>2
  <2>. QED  BY <1>1, <2>1, <2>2 DEF LeaderInv
<1>13. DecidedInv'
  <2>1. \A v \in Server : LogFacts(v) \subseteq LogFacts(v)'
    BY DEF HandlerMoves, LogFacts
  <2>2. ASSUME NEW d \in decided
        PROVE  IsMajority(Holders(d)' \cup restarted)
    <3>1. Holders(d) \subseteq Holders(d)'
      BY <2>1 DEF Holders
    <3>2. Holders(d)' \cup restarted \in SUBSET Server
      BY <1>0 DEF Holders, Typed
    <3>3. IsMajority(Holders(d) \cup restarted)
      BY <1>0 DEF DecidedInv
    <3>. QED  BY <3>1, <3>2, <3>3, MajorityGrows
  <2>. QED  BY <1>0, <1>1, <2>2 DEF DecidedInv, DecidedUpTo
<1>. QED  BY <1>4, <1>6, <1>7, <1>9, <1>10, <1>11, <1>12, <1>13 DEF ClusterInv

(* A follower's commit index moves over decided entries only. *)
LEMMA FollowerCommits ==
    ASSUME ClusterInv, NEW c \in calls, NEW l \in Seq(Positive), FactsOf(l) \subseteq Facts,
           NEW n, n = Len(l) + 1, FollowerCommit(c, l, n)
    PROVE  /\ decided' = decided
           /\ commit' \in [Server -> Nat]
           /\ \A v \in Server \ {c.dst} : commit'[v] = commit[v]
           /\ DecidedUpTo(commit'[c.dst])
<1>0. Typed /\ Ordered /\ LogInv /\ CallInv
  BY DEF ClusterInv
<1>1. c \in ACall /\ c.dst \in Server /\ c.req.commit \in Nat
  BY <1>0 DEF Typed, ACall
<1>2. Len(l) \in Nat /\ commit \in [Server -> Nat] /\ commit[c.dst] \in Nat
  BY <1>0, <1>1 DEF Typed
<1>3. PICK i : i = IF c.req.commit > commit[c.dst] THEN Min({c.req.commit, n - 1}) ELSE commit[c.dst]
  OBVIOUS
<1>4. commit' = [commit EXCEPT ![c.dst] = i] /\ decided' = decided \cup EntriesUpTo(l, i)
  BY <1>3 DEF FollowerCommit
<1>5. i \in Nat /\ (i <= c.req.commit \/ i = commit[c.dst])
  <2>1. Min({c.req.commit, n - 1}) = IF c.req.commit <= n - 1 THEN c.req.commit ELSE n - 1
    <3>1. \A a, b \in Int : Min({a, b}) = IF a <= b THEN a ELSE b
      BY MaxOf
    <3>. QED  BY <1>1, <1>2, <3>1
  <2>. QED  BY <1>1, <1>2, <1>3, <2>1
<1>6. DecidedUpTo(i)
  <2>1. DecidedUpTo(c.req.commit) /\ DecidedUpTo(commit[c.dst])
    BY <1>0, <1>1 DEF LogInv, CallInv
  <2>2. ASSUME NEW j \in 1..i, i <= c.req.commit
        PROVE  j \in 1..c.req.commit
    BY <1>1, <1>5, <2>2
  <2>. QED  BY <1>5, <2>1, <2>2 DEF DecidedUpTo
<1>7. EntriesUpTo(l, i) \subseteq decided
  <2>1. ASSUME NEW j \in 1..Min({i, Len(l)})
        PROVE  [index |-> j, term |-> l[j]] \in decided
    <3>1. Min({i, Len(l)}) = IF i <= Len(l) THEN i ELSE Len(l)
      <4>1. \A a, b \in Int : Min({a, b}) = IF a <= b THEN a ELSE b
        BY MaxOf
      <4>. QED  BY <1>2, <1>5, <4>1
    <3>2. j \in 1..i /\ j \in 1..Len(l)
      BY <1>2, <1>5, <2>1, <3>1
    <3>3. PICK d \in decided : d.index = j
      BY <1>6, <3>2 DEF DecidedUpTo
    <3>4. [index |-> j, term |-> l[j]] \in Facts /\ d \in Facts
      BY <3>2, EntryFact, PartsAreFacts
    <3>5. [index |-> j, term |-> l[j]] = d
      BY <1>0, <3>3, <3>4, SameAt
    <3>. QED  BY <3>5
  <2>. QED  BY <2>1 DEF EntriesUpTo
<1>8. commit'[c.dst] = i /\ commit' \in [Server -> Nat]
  BY <1>1, <1>2, <1>4, <1>5
<1>. QED  BY <1>1, <1>2, <1>4, <1>6, <1>7, <1>8

(* A handler that answers. *)
LEMMA AnswerCalls ==
    ASSUME ClusterInv, NEW c \in calls, NEW t \in Nat, NEW ok \in BOOLEAN, NEW ct \in Nat, NEW ci \in Nat,
           calls' = Answered(c, t, ok, ct, ci), ok => c.next + c.num <= tail'[c.dst]
    PROVE  HandlerCalls(c)
<1>1. c \in ACall
  BY DEF ClusterInv, Typed
<1>2. CASE ~c.open
  BY <1>2 DEF Answered, HandlerCalls
<1>3. CASE c.open
  <2>1. PICK e : e = [c EXCEPT !.pc = "answered", !.req = NoReq,
                               !.rsp = [term |-> t, success |-> ok,
                                        conflictTerm |-> ct, conflictIndex |-> ci]]
    OBVIOUS
  <2>2. calls' = (calls \ {c}) \cup {e}
    BY <1>3, <2>1 DEF Answered
  <2>3. /\ e.src = c.src /\ e.dst = c.dst /\ e.open = c.open
        /\ e.term = c.term /\ e.next = c.next /\ e.num = c.num
        /\ e.pc = "answered" /\ e.req = NoReq /\ e.rsp.success = ok
    BY <1>1, <2>1 DEF ACall
  <2>4. NoReq \in [prevTerm : Nat, commit : Nat, entries : Seq(Positive)]
    BY DEF NoReq
  <2>5. [term |-> t, success |-> ok, conflictTerm |-> ct, conflictIndex |-> ci] \in
           [term : Nat, success : BOOLEAN, conflictTerm : Nat, conflictIndex : Nat]
    OBVIOUS
  <2>6. e \in ACall
    BY <1>1, <2>1, <2>4, <2>5 DEF ACall
  <2>7. Becomes(c, e)
    BY <1>3, <2>3, <2>6 DEF Becomes
  <2>. QED  BY <2>2, <2>7 DEF HandlerCalls
<1>. QED  BY <1>2, <1>3

(* The numbers of a call that has reached its handler. *)
LEMMA CallNumbers ==
    ASSUME ClusterInv, NEW c \in calls
    PROVE  /\ c \in ACall /\ c.src \in Server /\ c.dst \in Server
           /\ c.term \in Nat /\ c.next \in Nat /\ c.next >= 1 /\ c.num \in Nat
           /\ c.rsp.term \in Nat
           /\ term[c.dst] \in Nat /\ leading[c.dst] \in BOOLEAN
           /\ log[c.dst] \in Seq(Positive) /\ Len(log[c.dst]) \in Nat
           /\ tail[c.dst] \in Nat /\ tail[c.dst] = Len(log[c.dst]) + 1
           /\ Prev(c) = c.next - 1
<1>1. c \in ACall
  BY DEF ClusterInv, Typed
<1>2. /\ c.src \in Server /\ c.dst \in Server /\ c.term \in Nat /\ c.next \in Nat /\ c.next >= 1
      /\ c.num \in Nat /\ c.rsp.term \in Nat
  BY <1>1 DEF ACall, Positive
<1>3. /\ term[c.dst] \in Nat /\ leading[c.dst] \in BOOLEAN
      /\ log[c.dst] \in Seq(Positive) /\ Len(log[c.dst]) \in Nat
      /\ tail[c.dst] \in Nat /\ tail[c.dst] = Len(log[c.dst]) + 1
  <2>1. Typed /\ LogInv
    BY DEF ClusterInv
  <2>. QED  BY <1>2, <2>1, ServerTypes
<1>4. Prev(c) = IF c.next - 1 >= 0 THEN c.next - 1 ELSE 0
  <2>1. \A a, b \in Int : Max({a, b}) = IF a >= b THEN a ELSE b
    BY MaxOf
  <2>. QED  BY <1>2, <2>1 DEF Prev
<1>. QED  BY <1>1, <1>2, <1>3, <1>4

(* How many entries a handler skips whose check has succeeded. *)
LEMMA SkipIs ==
    ASSUME ClusterInv, NEW c \in calls, PrevOk(c)
    PROVE  Skip(c) \in Nat /\ Skip(c) = tail[c.dst] - c.next
<1>1. /\ c.next \in Nat /\ c.next >= 1 /\ tail[c.dst] \in Nat /\ tail[c.dst] >= 1 /\ Prev(c) = c.next - 1
  BY CallNumbers
<1>2. c.next <= tail[c.dst]
  BY <1>1 DEF PrevOk
<1>3. Skip(c) = IF tail[c.dst] - (Prev(c) + 1) >= 0 THEN tail[c.dst] - (Prev(c) + 1) ELSE 0
  <2>1. \A a, b \in Int : Max({a, b}) = IF a >= b THEN a ELSE b
    BY MaxOf
  <2>2. tail[c.dst] - (Prev(c) + 1) \in Int
    BY <1>1
  <2>. QED  BY <2>1, <2>2 DEF Skip
<1>. QED  BY <1>1, <1>2, <1>3

(* The hints of a refusal are numbers. *)
LEMMA HintTypes ==
    ASSUME ClusterInv, NEW c \in calls, ~PrevOk(c)
    PROVE  ConflictTerm(c) \in Nat /\ ConflictIndex(c) \in Nat
<1>1. /\ c.next \in Nat /\ c.next >= 1 /\ tail[c.dst] \in Nat /\ Prev(c) = c.next - 1
      /\ log[c.dst] \in Seq(Positive)
      /\ Len(log[c.dst]) \in Nat /\ tail[c.dst] = Len(log[c.dst]) + 1
  BY CallNumbers
<1>2. Prev(c) \in Nat /\ Prev(c) # 0
  BY <1>1 DEF PrevOk
<1>3. ConflictTerm(c) \in Nat
  BY <1>1, <1>2 DEF ConflictTerm, TermAt, Positive
<1>4. ASSUME ~(Prev(c) >= tail[c.dst])
      PROVE  ConflictIndex(c) \in Nat
  <2>. DEFINE S == {i \in 1..Prev(c) : \A j \in i..Prev(c) : log[c.dst][j] = ConflictTerm(c)}
  <2>1. S \in SUBSET Nat
    BY <1>2
  <2>2. Prev(c) \in 1..Len(log[c.dst]) /\ Prev(c) \in 1..Prev(c) /\ Prev(c)..Prev(c) = {Prev(c)}
    BY <1>1, <1>2, <1>4
  <2>3. log[c.dst][Prev(c)] = ConflictTerm(c)
    BY <1>4, <2>2 DEF ConflictTerm, TermAt
  <2>4. S # {}
    BY <2>2, <2>3
  <2>5. ConflictIndex(c) = Min(S)
    BY <1>4 DEF ConflictIndex
  <2>. HIDE DEF S
  <2>. QED  BY <2>1, <2>4, <2>5, MinIs
<1>5. Prev(c) >= tail[c.dst] => ConflictIndex(c) \in Nat
  BY <1>1 DEF ConflictIndex
<1>. QED  BY <1>3, <1>4, <1>5

(* What a request brings to a handler before anything is appended. *)
LEMMA ReceiveMoves ==
    ASSUME ClusterInv, NEW c \in calls, Receive(c),
           decided' = decided, commit' \in [Server -> Nat],
           \A v \in Server \ {c.dst} : commit'[v] = commit[v],
           DecidedUpTo(commit'[c.dst])
    PROVE  /\ HandlerMoves(c) /\ HandlerTypes
           /\ term'[c.dst] = IF term[c.dst] >= c.term THEN term[c.dst] ELSE c.term
           /\ leading'[c.dst] = (leading[c.dst] /\ c.term <= term[c.dst])
<1>0. Typed /\ LogInv
  BY DEF ClusterInv
<1>1. /\ c.dst \in Server /\ c.term \in Nat /\ term[c.dst] \in Nat
      /\ tail[c.dst] \in Nat /\ tail[c.dst] = Len(log[c.dst]) + 1
  BY CallNumbers
<1>2. Max({term[c.dst], c.term}) = IF term[c.dst] >= c.term THEN term[c.dst] ELSE c.term
  <2>1. \A a, b \in Int : Max({a, b}) = IF a >= b THEN a ELSE b
    BY MaxOf
  <2>. QED  BY <1>1, <2>1
<1>3. /\ term' = [term EXCEPT ![c.dst] = Max({term[c.dst], c.term})]
      /\ leading' = [leading EXCEPT ![c.dst] = @ /\ c.term <= term[c.dst]]
      /\ UNCHANGED <<log, tail, next, match, restarted>>
  BY DEF Receive
<1>4. /\ term \in [Server -> Nat] /\ leading \in [Server -> BOOLEAN]
  BY <1>0 DEF Typed
<1>5. /\ term' \in [Server -> Nat] /\ term'[c.dst] = IF term[c.dst] >= c.term THEN term[c.dst] ELSE c.term
      /\ \A v \in Server \ {c.dst} : term'[v] = term[v]
  BY <1>1, <1>2, <1>3, <1>4
<1>6. /\ leading' \in [Server -> BOOLEAN]
      /\ leading'[c.dst] = (leading[c.dst] /\ c.term <= term[c.dst])
      /\ \A v \in Server \ {c.dst} : leading'[v] = leading[v]
  BY <1>1, <1>3, <1>4
<1>7. HandlerTypes
  BY <1>0, <1>3, <1>5, <1>6 DEF HandlerTypes, Typed
<1>8. term[c.dst] <= term'[c.dst]
  BY <1>1, <1>5
<1>9. leading'[c.dst] => leading[c.dst] /\ term'[c.dst] = term[c.dst]
  BY <1>1, <1>5, <1>6
<1>10. \A i \in 1..Len(log[c.dst]) : log[c.dst][i] <= term'[c.dst]
  <2>1. \A i \in 1..Len(log[c.dst]) : log[c.dst][i] <= term[c.dst] /\ log[c.dst][i] \in Nat
    BY <1>0, <1>1, ServerTypes
  <2>2. PICK a \in Nat, b \in Nat : a = term[c.dst] /\ b = term'[c.dst] /\ a <= b
    BY <1>1, <1>5, <1>8
  <2>3. ASSUME NEW i \in 1..Len(log[c.dst])
        PROVE  log[c.dst][i] <= term'[c.dst]
    <3>1. PICK x \in Nat : x = log[c.dst][i] /\ x <= a
      BY <2>1, <2>2
    <3>2. x <= b
      BY <2>2, <3>1
    <3>. QED  BY <2>2, <3>1, <3>2
  <2>. QED  BY <2>3
<1>11. LogFacts(c.dst)' = LogFacts(c.dst) /\ LogFacts(c.dst) \subseteq Facts
  BY <1>1, <1>3, PartsAreFacts DEF LogFacts
<1>12. HandlerMoves(c)
  <2>1. \A v \in Server \ {c.dst} :
          /\ term'[v] = term[v] /\ leading'[v] = leading[v] /\ log'[v] = log[v]
          /\ tail'[v] = tail[v] /\ commit'[v] = commit[v]
    BY <1>3, <1>5, <1>6
  <2>2. /\ tail'[c.dst] = Len(log'[c.dst]) + 1 /\ tail[c.dst] <= tail'[c.dst]
        /\ tail'[c.dst] = tail[c.dst] /\ log'[c.dst] = log[c.dst]
    BY <1>1, <1>3
  <2>3. \A i \in 1..Len(log'[c.dst]) : log'[c.dst][i] <= term'[c.dst]
    BY <1>10, <2>2
  <2>4. LogFacts(c.dst) \subseteq LogFacts(c.dst)' /\ LogFacts(c.dst)' \subseteq Facts
    BY <1>11
  <2>5. UNCHANGED <<next, match, restarted, decided>>
    BY <1>3
  <2>. QED  BY <1>8, <1>9, <2>1, <2>2, <2>3, <2>4, <2>5 DEF HandlerMoves
<1>. QED  BY <1>5, <1>6, <1>7, <1>12

(* The call that a handler takes to its copy: it carries what the log      *)
(* lacks.                                                                  *)
LEMMA CopyCalls ==
    ASSUME Sheltered, ClusterInv, NEW c \in calls, c.pc = "sent", PrevOk(c), Skip(c) < c.num,
           ~Copying(c.dst), NEW t \in Nat, UNCHANGED tail,
           c.term <= term'[c.dst], ~leading'[c.dst],
           calls' = (calls \ {c}) \cup
                          {[c EXCEPT !.pc = "copying", !.rsp.term = t,
                                     !.req.entries = SubSeq(@, Skip(c) + 1, c.num)]}
    PROVE  HandlerCalls(c)
<1>0. Typed /\ LogInv /\ CallInv
  BY DEF ClusterInv
<1>1. /\ c \in ACall /\ c.dst \in Server /\ c.next \in Nat /\ c.next >= 1 /\ c.num \in Nat
      /\ c.term \in Nat /\ tail[c.dst] \in Nat
  BY CallNumbers
<1>2. c.req.entries \in Seq(Positive) /\ Len(c.req.entries) = c.num
  BY <1>0, <1>1 DEF CallInv, ACall
<1>3. PICK k \in Nat : k = Skip(c) /\ k = tail[c.dst] - c.next /\ k < c.num
  BY SkipIs
<1>4. PICK piece \in Seq(Positive) :
         /\ piece = SubSeq(c.req.entries, k + 1, c.num) /\ Len(piece) = c.num - k
         /\ \A j \in 1..c.num - k : k + j \in 1..c.num /\ piece[j] = c.req.entries[k + j]
  <2>1. k + 1 \in Nat /\ k + 1 >= 1 /\ c.num - k \in Nat /\ (k + 1) + (c.num - k) <= Len(c.req.entries) + 1
    BY <1>1, <1>2, <1>3, SMTT(30)
  <2>2. (k + 1) + (c.num - k) - 1 = c.num /\ \A j \in 1..c.num - k : (k + 1) + j - 1 = k + j
    BY <1>1, <1>3
  <2>3. PICK m \in Nat, n \in Nat : m = k + 1 /\ n = c.num - k /\ m + n - 1 = c.num
    BY <2>1, <2>2
  <2>4. /\ SubSeq(c.req.entries, m, m + n - 1) \in Seq(Positive)
        /\ Len(SubSeq(c.req.entries, m, m + n - 1)) = n
        /\ \A j \in 1..n : /\ m + j - 1 \in 1..Len(c.req.entries)
                           /\ SubSeq(c.req.entries, m, m + n - 1)[j] = c.req.entries[m + j - 1]
    BY <1>2, <2>1, <2>3, PieceOf
  <2>. QED  BY <1>2, <2>2, <2>3, <2>4
<1>5. PICK e : e = [c EXCEPT !.pc = "copying", !.rsp.term = t,
                             !.req.entries = SubSeq(@, Skip(c) + 1, c.num)]
  OBVIOUS
<1>6. e = [c EXCEPT !.pc = "copying", !.rsp = [c.rsp EXCEPT !.term = t],
                    !.req = [c.req EXCEPT !.entries = piece]]
  <2>1. piece = SubSeq(c.req.entries, Skip(c) + 1, c.num)
    BY <1>3, <1>4
  <2>. QED  BY <1>1, <1>5, <2>1 DEF ACall
<1>7. /\ e.src = c.src /\ e.dst = c.dst /\ e.open = c.open
      /\ e.term = c.term /\ e.next = c.next /\ e.num = c.num
      /\ e.pc = "copying"
      /\ e.rsp = [c.rsp EXCEPT !.term = t] /\ e.req = [c.req EXCEPT !.entries = piece]
  BY <1>1, <1>6 DEF ACall
<1>8. c.req \in [prevTerm : Nat, commit : Nat, entries : Seq(Positive)]
  BY <1>1 DEF ACall
<1>9. e.req \in [prevTerm : Nat, commit : Nat, entries : Seq(Positive)]
      /\ e.req.entries = piece /\ e.req.commit = c.req.commit
  <2>1. piece \in Seq(Positive)
    OBVIOUS
  <2>2. e.req = [c.req EXCEPT !.entries = piece]
    BY <1>7
  <2>. QED  BY <1>8, <2>1, <2>2
<1>10. e.rsp \in [term : Nat, success : BOOLEAN, conflictTerm : Nat, conflictIndex : Nat]
  BY <1>1, <1>7 DEF ACall
<1>11. e \in ACall
  BY <1>1, <1>6, <1>7, <1>9, <1>10 DEF ACall
<1>12. FirstIndex(e) = tail[c.dst]
  <2>1. FirstIndex(e) = c.next + c.num - Len(piece)
    BY <1>7, <1>9, Zenon DEF FirstIndex
  <2>2. Len(piece) = c.num - k
    BY <1>4
  <2>. QED  BY <1>1, <1>3, <2>1, <2>2, SMTT(30)
<1>13. FirstIndex(c) = c.next
  BY <1>1, <1>2 DEF FirstIndex
<1>14. CallFacts(e) \subseteq CallFacts(c)
  <2>1. ASSUME NEW j \in 1..c.num - k
        PROVE  [index |-> tail[c.dst] + j - 1, term |-> piece[j]] \in CallFacts(c)
    <3>1. k + j \in 1..c.num /\ piece[j] = c.req.entries[k + j]
      BY <1>4
    <3>2. tail[c.dst] + j - 1 = c.next + (k + j) - 1
      BY <1>1, <1>3, SMTT(30)
    <3>. QED  BY <1>2, <1>13, <3>1, <3>2 DEF CallFacts
  <2>2. CallFacts(e) = {[index |-> tail[c.dst] + j - 1, term |-> piece[j]] : j \in 1..c.num - k}
    <3>1. e.req.entries = piece /\ Len(piece) = c.num - k
      BY <1>4, <1>9, Zenon
    <3>. QED  BY <1>12, <3>1, Zenon DEF CallFacts
  <2>. HIDE DEF CallFacts
  <2>. QED  BY <2>1, <2>2
<1>15. \A j \in 1..Len(e.req.entries) : e.req.entries[j] <= c.term
  <2>1. \A i \in 1..c.num : c.req.entries[i] <= c.term
    BY <1>0, <1>2 DEF CallInv
  <2>. QED  BY <1>4, <1>9, <2>1
<1>16. Becomes(c, e)
  BY <1>7, <1>9, <1>11, <1>12, <1>14, <1>15 DEF Becomes, Copying
<1>. QED  BY <1>5, <1>16 DEF HandlerCalls

(* Receive: a handler up to its reply or to its copy. *)
LEMMA ReceiveStep ==
    ASSUME Sheltered, ClusterInv, NEW c \in calls, Receive(c)
    PROVE  ClusterInv'
<1>0. Typed /\ LogInv /\ CallInv
  BY DEF ClusterInv
<1>1. /\ c \in ACall /\ c.dst \in Server /\ c.next \in Nat /\ c.next >= 1 /\ c.num \in Nat
      /\ c.term \in Nat /\ tail[c.dst] \in Nat /\ term[c.dst] \in Nat /\ leading[c.dst] \in BOOLEAN
      /\ log[c.dst] \in Seq(Positive) /\ tail[c.dst] = Len(log[c.dst]) + 1
  BY CallNumbers
<1>2. PICK t \in Nat : t = Max({term[c.dst], c.term}) /\ t = IF term[c.dst] >= c.term THEN term[c.dst] ELSE c.term
  <2>1. \A a, b \in Int : Max({a, b}) = IF a >= b THEN a ELSE b
    BY MaxOf
  <2>. QED  BY <1>1, <2>1
<1>3. PICK listens \in BOOLEAN : listens = (c.term = t /\ (c.term > term[c.dst] \/ ~leading[c.dst]))
  OBVIOUS
<1>4. PICK copies \in BOOLEAN : copies = (listens /\ PrevOk(c) /\ Skip(c) < c.num)
  OBVIOUS
<1>5. /\ c.pc = "sent"
      /\ Copying(c.dst) => ~copies
      /\ UNCHANGED <<log, tail>>
      /\ \/ /\ ~listens
            /\ calls' = Answered(c, t, FALSE, 0, 0)
            /\ UNCHANGED <<commit, decided>>
         \/ /\ listens /\ ~PrevOk(c)
            /\ calls' = Answered(c, t, FALSE, ConflictTerm(c), ConflictIndex(c))
            /\ UNCHANGED <<commit, decided>>
         \/ /\ listens /\ PrevOk(c) /\ ~copies
            /\ FollowerCommit(c, log[c.dst], tail[c.dst])
            /\ calls' = Answered(c, t, TRUE, 0, 0)
         \/ /\ copies
            /\ calls' = (calls \ {c}) \cup
                        {[c EXCEPT !.pc = "copying", !.rsp.term = t,
                                   !.req.entries = SubSeq(@, Skip(c) + 1, c.num)]}
            /\ UNCHANGED <<commit, decided>>
  <2>1. "lateCopy" \in Excluded
    BY DEF Sheltered
  <2>. QED  BY <1>2, <1>3, <1>4, <2>1 DEF Receive
<1>6. /\ decided' = decided /\ commit' \in [Server -> Nat]
      /\ \A v \in Server \ {c.dst} : commit'[v] = commit[v]
      /\ DecidedUpTo(commit'[c.dst])
  <2>1. CASE UNCHANGED <<commit, decided>>
    BY <1>0, <1>1, <2>1 DEF Typed, LogInv
  <2>2. CASE FollowerCommit(c, log[c.dst], tail[c.dst])
    <3>1. FactsOf(log[c.dst]) \subseteq Facts
      BY <1>1, PartsAreFacts DEF LogFacts
    <3>. QED  BY <1>1, <2>2, <3>1, FollowerCommits
  <2>. QED  BY <1>5, <2>1, <2>2
<1>7. /\ HandlerMoves(c) /\ HandlerTypes
      /\ term'[c.dst] = t
      /\ leading'[c.dst] = (leading[c.dst] /\ c.term <= term[c.dst])
  BY <1>2, <1>6, ReceiveMoves
<1>8. HandlerCalls(c)
  <2>1. CASE calls' = Answered(c, t, FALSE, 0, 0)
    BY <2>1, AnswerCalls
  <2>2. CASE ~PrevOk(c) /\ calls' = Answered(c, t, FALSE, ConflictTerm(c), ConflictIndex(c))
    BY <2>2, HintTypes, AnswerCalls
  <2>3. CASE listens /\ PrevOk(c) /\ ~copies /\ calls' = Answered(c, t, TRUE, 0, 0)
    <3>1. Skip(c) \in Nat /\ Skip(c) = tail[c.dst] - c.next /\ ~(Skip(c) < c.num)
      BY <1>4, <2>3, SkipIs
    <3>2. c.next + c.num <= tail'[c.dst]
      BY <1>1, <1>5, <3>1
    <3>. QED  BY <2>3, <3>2, AnswerCalls
  <2>4. CASE copies /\ calls' = (calls \ {c}) \cup
                        {[c EXCEPT !.pc = "copying", !.rsp.term = t,
                                   !.req.entries = SubSeq(@, Skip(c) + 1, c.num)]}
    <3>1. listens /\ PrevOk(c) /\ Skip(c) < c.num /\ ~Copying(c.dst)
      BY <1>4, <1>5, <2>4
    <3>2. c.term = t /\ (c.term > term[c.dst] \/ ~leading[c.dst])
      BY <1>3, <3>1
    <3>3. c.term <= term'[c.dst]
      BY <1>1, <1>7, <3>2
    <3>4. c.term > term[c.dst] => ~(c.term <= term[c.dst])
      BY <1>1
    <3>5. ~leading'[c.dst]
      BY <1>7, <3>2, <3>4, Zenon
    <3>. QED  BY <1>5, <2>4, <3>1, <3>3, <3>5, CopyCalls
  <2>. QED  BY <1>5, <2>1, <2>2, <2>3, <2>4
<1>. QED  BY <1>7, <1>8, HandlerKeeps

(* FinishCopy: the handler appends what it has copied. *)
LEMMA FinishCopyStep ==
    ASSUME Sheltered, ClusterInv, NEW c \in calls, FinishCopy(c)
    PROVE  ClusterInv'
<1>0. Typed /\ LogInv /\ CallInv /\ OneCopy
  BY DEF ClusterInv
<1>1. /\ c \in ACall /\ c.dst \in Server /\ c.next \in Nat /\ c.next >= 1 /\ c.num \in Nat
      /\ c.term \in Nat /\ tail[c.dst] \in Nat /\ term[c.dst] \in Nat /\ leading[c.dst] \in BOOLEAN
      /\ log[c.dst] \in Seq(Positive) /\ Len(log[c.dst]) \in Nat /\ tail[c.dst] = Len(log[c.dst]) + 1
      /\ Prev(c) = c.next - 1 /\ c.rsp.term \in Nat
  BY CallNumbers
<1>2. PICK m \in Seq(Positive) : m = c.req.entries
  BY <1>1 DEF ACall
<1>3. /\ c.pc = "copying"
      /\ log' = [log EXCEPT ![c.dst] = log[c.dst] \o m]
      /\ tail' = [tail EXCEPT ![c.dst] = Prev(c) + 1 + c.num]
      /\ FollowerCommit(c, log[c.dst] \o m, Prev(c) + 1 + c.num)
      /\ calls' = Answered(c, c.rsp.term, TRUE, 0, 0)
      /\ UNCHANGED <<term, leading, next, match, restarted>>
  BY <1>2 DEF FinishCopy
<1>4. FirstIndex(c) = tail[c.dst] /\ c.term <= term[c.dst] /\ ~leading[c.dst]
      /\ \A k \in 1..Len(m) : m[k] <= c.term
  BY <1>0, <1>2, <1>3 DEF CallInv
<1>5. PICK l \in Seq(Positive) :
         /\ l = log[c.dst] \o m /\ Len(l) = Len(log[c.dst]) + Len(m)
         /\ LogFacts(c.dst) \subseteq FactsOf(l)
         /\ FactsOf(l) \subseteq
               LogFacts(c.dst) \cup {[index |-> Len(log[c.dst]) + k, term |-> m[k]] : k \in 1..Len(m)}
  BY <1>1, ConcatFacts DEF LogFacts
<1>6. Len(m) \in Nat /\ Len(l) \in Nat /\ Prev(c) + 1 + c.num = Len(l) + 1 /\ c.next + c.num = Len(l) + 1
  <2>1. Len(m) \in Nat
    OBVIOUS
  <2>2. c.next + c.num - Len(m) = tail[c.dst]
    BY <1>2, <1>4 DEF FirstIndex
  <2>3. PICK a \in Nat, b \in Nat : a = Len(log[c.dst]) /\ b = Len(l)
    BY <1>1
  <2>4. b = a + Len(m) /\ c.next + c.num - Len(m) = a + 1
    BY <1>1, <1>5, <2>2, <2>3
  <2>5. Prev(c) + 1 + c.num = b + 1 /\ c.next + c.num = b + 1
    <3>1. PICK x \in Nat, y \in Nat, z \in Nat : x = Len(m) /\ y = c.next /\ z = c.num
      BY <1>1, <2>1
    <3>2. b = a + x /\ y + z - x = a + 1 /\ Prev(c) = y - 1
      BY <1>1, <2>4, <3>1
    <3>3. Prev(c) + 1 + z = b + 1 /\ y + z = b + 1
      BY <3>2
    <3>. QED  BY <3>1, <3>3
  <2>. QED  BY <2>1, <2>3, <2>5
<1>7. FactsOf(l) \subseteq Facts
  <2>1. ASSUME NEW k \in 1..Len(m)
        PROVE  [index |-> Len(log[c.dst]) + k, term |-> m[k]] \in Facts
    <3>1. [index |-> FirstIndex(c) + k - 1, term |-> c.req.entries[k]] \in Facts
      BY <1>2, CarriedFact
    <3>2. FirstIndex(c) + k - 1 = Len(log[c.dst]) + k
      BY <1>1, <1>4
    <3>. QED  BY <1>2, <3>1, <3>2
  <2>. QED  BY <1>1, <1>5, <2>1, PartsAreFacts
<1>8. /\ decided' = decided /\ commit' \in [Server -> Nat]
      /\ \A v \in Server \ {c.dst} : commit'[v] = commit[v]
      /\ DecidedUpTo(commit'[c.dst])
  BY <1>3, <1>5, <1>6, <1>7, FollowerCommits
<1>9. /\ log' \in [Server -> Seq(Positive)] /\ log'[c.dst] = l
      /\ \A v \in Server \ {c.dst} : log'[v] = log[v]
  <2>1. log \in [Server -> Seq(Positive)] /\ log' = [log EXCEPT ![c.dst] = l]
    BY <1>0, <1>3, <1>5 DEF Typed
  <2>. QED  BY <1>1, <2>1
<1>10. /\ tail' \in [Server -> Nat] /\ tail'[c.dst] = Len(l) + 1
       /\ \A v \in Server \ {c.dst} : tail'[v] = tail[v]
  BY <1>0, <1>1, <1>3, <1>6, SMTT(30) DEF Typed
<1>11. HandlerTypes
  BY <1>0, <1>3, <1>8, <1>9, <1>10 DEF HandlerTypes, Typed
<1>12. \A i \in 1..Len(l) : l[i] <= term[c.dst]
  <2>1. ASSUME NEW i \in 1..Len(l)
        PROVE  l[i] <= term[c.dst]
    <3>1. CASE i <= Len(log[c.dst])
      <4>1. i \in 1..Len(log[c.dst]) /\ l[i] = log[c.dst][i]
        BY <1>1, <1>5, <1>6, <3>1
      <4>. QED  BY <1>0, <1>1, <4>1 DEF LogInv
    <3>2. CASE i > Len(log[c.dst])
      <4>1. PICK k \in 1..Len(m) : i = Len(log[c.dst]) + k
        <5>1. i - Len(log[c.dst]) \in 1..Len(m) /\ i = Len(log[c.dst]) + (i - Len(log[c.dst]))
          BY <1>1, <1>5, <1>6, <3>2
        <5>. QED  BY <5>1
      <4>2. l[i] = m[k]
        <5>1. PICK u \in Seq(Positive) : u = log[c.dst] /\ l = u \o m /\ i = Len(u) + k
          BY <1>1, <1>5, <4>1
        <5>. QED  BY <5>1
      <4>3. m[k] \in Nat
        BY DEF Positive
      <4>. QED  BY <1>1, <1>4, <4>2, <4>3
    <3>. QED  BY <1>1, <1>6, <3>1, <3>2
  <2>. QED  BY <2>1
<1>13. HandlerMoves(c)
  <2>1. \A v \in Server \ {c.dst} :
          /\ term'[v] = term[v] /\ leading'[v] = leading[v] /\ log'[v] = log[v]
          /\ tail'[v] = tail[v] /\ commit'[v] = commit[v]
    BY <1>3, <1>8, <1>9, <1>10
  <2>2. tail'[c.dst] = Len(log'[c.dst]) + 1 /\ tail[c.dst] <= tail'[c.dst]
    BY <1>1, <1>5, <1>6, <1>9, <1>10
  <2>3. term[c.dst] <= term'[c.dst] /\ ~leading'[c.dst]
    BY <1>1, <1>3, <1>4
  <2>4. LogFacts(c.dst) \subseteq LogFacts(c.dst)' /\ LogFacts(c.dst)' \subseteq Facts
    <3>1. LogFacts(c.dst)' = FactsOf(l)
      BY <1>9 DEF LogFacts
    <3>. QED  BY <1>5, <1>7, <3>1
  <2>5. \A i \in 1..Len(log'[c.dst]) : log'[c.dst][i] <= term'[c.dst]
    BY <1>3, <1>9, <1>12
  <2>6. \A d \in calls \ {c} : ~(d.pc = "copying" /\ d.dst = c.dst)
    BY <1>0, <1>3 DEF OneCopy
  <2>7. UNCHANGED <<next, match, restarted, decided>>
    BY <1>3, <1>8
  <2>. QED  BY <1>8, <2>1, <2>2, <2>3, <2>4, <2>5, <2>6, <2>7 DEF HandlerMoves
<1>14. HandlerCalls(c)
  <2>1. c.next + c.num <= tail'[c.dst]
    BY <1>1, <1>6, <1>10
  <2>. QED  BY <1>1, <1>3, <2>1, AnswerCalls
<1>. QED  BY <1>11, <1>13, <1>14, HandlerKeeps

(* A handler that leaves its server alone. *)
LEMMA NothingMoves ==
    ASSUME ClusterInv, NEW c \in calls,
           UNCHANGED <<term, leading, log, tail, commit, next, match, restarted, decided>>
    PROVE  HandlerMoves(c) /\ HandlerTypes
<1>0. Typed /\ LogInv
  BY DEF ClusterInv
<1>1. c.dst \in Server /\ tail[c.dst] \in Nat /\ term[c.dst] \in Nat
  BY CallNumbers
<1>2. LogFacts(c.dst) \subseteq Facts /\ LogFacts(c.dst)' = LogFacts(c.dst)
  BY <1>1, PartsAreFacts DEF LogFacts
<1>3. HandlerTypes
  BY <1>0 DEF Typed, HandlerTypes
<1>4. /\ tail[c.dst] = Len(log[c.dst]) + 1 /\ DecidedUpTo(commit[c.dst])
      /\ \A i \in 1..Len(log[c.dst]) : log[c.dst][i] <= term[c.dst]
  BY <1>0, <1>1 DEF LogInv
<1>5. HandlerMoves(c)
  BY <1>1, <1>2, <1>4 DEF HandlerMoves
<1>. QED  BY <1>3, <1>5

(* CopyFails: the handler answers and has appended nothing. *)
LEMMA CopyFailsStep ==
    ASSUME Sheltered, ClusterInv, NEW c \in calls, CopyFails(c)
    PROVE  ClusterInv'
<1>1. /\ UNCHANGED <<term, leading, log, tail, commit, next, match, restarted, decided>>
      /\ calls' = Answered(c, c.rsp.term, FALSE, 0, 0)
  BY DEF CopyFails
<1>2. HandlerCalls(c)
  <2>1. c.rsp.term \in Nat
    BY CallNumbers
  <2>. QED  BY <1>1, <2>1, AnswerCalls
<1>. QED  BY <1>1, <1>2, NothingMoves, HandlerKeeps

(* Lose: the caller gives up a call that no handler copies for. *)
LEMMA LoseStep ==
    ASSUME Sheltered, ClusterInv, NEW c \in calls, Lose(c)
    PROVE  ClusterInv'
<1>1. /\ UNCHANGED <<term, leading, log, tail, commit, next, match, restarted, decided>>
      /\ calls' = (calls \ {c}) \cup {}
  BY DEF Lose, Sheltered
<1>2. HandlerCalls(c)
  BY <1>1 DEF HandlerCalls
<1>. QED  BY <1>1, <1>2, NothingMoves, HandlerKeeps

(* Where apply_ae_success and apply_ae_failure_backoff put next_index. *)
LEMMA NextIs ==
    ASSUME ClusterInv, NEW c \in calls
    PROVE  /\ NextOnSuccess(c.src, c) \in Nat /\ NextOnSuccess(c.src, c) >= 1
           /\ next[c.src][c.dst] = c.next => NextOnSuccess(c.src, c) = c.next + c.num
           /\ NextOnFailure(c.src, c) \in Nat /\ NextOnFailure(c.src, c) >= 1
<1>0. Typed
  BY DEF ClusterInv
<1>1. /\ c \in ACall /\ c.src \in Server /\ c.dst \in Server /\ c.next \in Nat /\ c.next >= 1
      /\ c.num \in Nat /\ Prev(c) = c.next - 1
  BY CallNumbers
<1>2. next[c.src][c.dst] \in Nat /\ match[c.src][c.dst] \in Nat
  BY <1>0, <1>1 DEF Typed
<1>3. PICK a \in Nat, m \in Nat, b \in Nat : a = next[c.src][c.dst] /\ m = match[c.src][c.dst] /\ b = c.next + c.num
  BY <1>1, <1>2
<1>4. \A x, y, z \in Int : /\ Max({x, y, z}) \in {x, y, z}
                           /\ Max({x, y, z}) >= x /\ Max({x, y, z}) >= y /\ Max({x, y, z}) >= z
  BY MaxOfThree
<1>5. \A x, y \in Int : /\ Max({x, y}) = IF x >= y THEN x ELSE y
                        /\ Min({x, y}) = IF x <= y THEN x ELSE y
  BY MaxOf
<1>6. /\ NextOnSuccess(c.src, c) \in Nat /\ NextOnSuccess(c.src, c) >= 1
      /\ a = c.next => NextOnSuccess(c.src, c) = b
  <2>1. NextOnSuccess(c.src, c) = Max({a, b, 1})
    BY <1>3 DEF NextOnSuccess
  <2>2. /\ Max({a, b, 1}) \in {a, b, 1}
        /\ Max({a, b, 1}) >= a /\ Max({a, b, 1}) >= b /\ Max({a, b, 1}) >= 1
    <3>1. a \in Int /\ b \in Int /\ 1 \in Int
      OBVIOUS
    <3>. QED  BY <1>4, <3>1, Zenon
  <2>3. a = c.next => b >= a /\ a >= 1
    BY <1>1, <1>3
  <2>. QED  BY <2>1, <2>2, <2>3
<1>7. c.rsp.conflictIndex \in Nat
  BY <1>1 DEF ACall
<1>8. PICK h \in Int : h = Hinted(c.src, c)
  <2>1. log[c.src] \in Seq(Positive) /\ Len(log[c.src]) \in Nat
    BY <1>0, <1>1 DEF Typed
  <2>2. Prev(c) \in Int
    BY <1>1
  <2>3. Min({Prev(c), Len(log[c.src])}) = IF Prev(c) <= Len(log[c.src]) THEN Prev(c) ELSE Len(log[c.src])
    <3>1. Len(log[c.src]) \in Int
      BY <2>1
    <3>. QED  BY <1>5, <2>2, <3>1, Zenon
  <2>4. SearchConflict(c.src, c) \in SUBSET (0..Len(log[c.src]))
    <3>1. SearchConflict(c.src, c) \subseteq 1..Min({Prev(c), Len(log[c.src])})
      BY DEF SearchConflict
    <3>2. 1..Min({Prev(c), Len(log[c.src])}) \subseteq 0..Len(log[c.src])
      BY <2>1, <2>2, <2>3
    <3>. QED  BY <3>1, <3>2
  <2>5. SearchConflict(c.src, c) # {} => Max(SearchConflict(c.src, c)) \in Nat
    <3>1. SearchConflict(c.src, c) # {} => Max(SearchConflict(c.src, c)) \in SearchConflict(c.src, c)
      BY <2>1, <2>4, MaxIs, Zenon
    <3>. QED  BY <2>1, <2>4, <3>1
  <2>6. Hinted(c.src, c) \in Int
    BY <1>2, <1>7, <2>5 DEF Hinted
  <2>. QED  BY <2>6
<1>9. NextOnFailure(c.src, c) \in Nat /\ NextOnFailure(c.src, c) >= 1
  <2>1. PICK k \in Int : k = Max({a - 1, 0})
    BY <1>5
  <2>2. PICK x \in Int : x = Min({h, k})
    BY <1>5
  <2>3. NextOnFailure(c.src, c) = Max({x, 1, m + 1})
    BY <1>3, <1>8, <2>1, <2>2 DEF NextOnFailure
  <2>4. Max({x, 1, m + 1}) \in {x, 1, m + 1} /\ Max({x, 1, m + 1}) >= 1
    <3>1. 1 \in Int /\ m + 1 \in Int
      OBVIOUS
    <3>. QED  BY <1>4, <3>1, Zenon
  <2>. QED  BY <2>3, <2>4
<1>. QED  BY <1>3, <1>6, <1>9

(* Lock C of append_entries_worker, whichever way it goes. *)
LEMMA ReturnStep ==
    ASSUME Sheltered, ClusterInv, NEW c \in calls, Return(c)
    PROVE  ClusterInv'
<1>0. Typed /\ Ordered /\ LogInv /\ CallInv /\ OneCopy /\ OpenInv /\ LeaderInv /\ DecidedInv
  BY DEF ClusterInv
<1>1. /\ UNCHANGED <<term, leading, log, tail, commit, restarted, decided>>
      /\ calls' = calls \ {c} /\ c.pc = "answered"
  BY DEF Return
<1>2. /\ c \in ACall /\ c.src \in Server /\ c.dst \in Server /\ c.next \in Nat /\ c.num \in Nat
  BY CallNumbers
<1>3. c.open
  BY <1>0, <1>1 DEF CallInv
<1>4. PICK s \in Server, p \in Server : s = c.src /\ p = c.dst
  BY <1>2
<1>5. /\ next \in [Server -> [Server -> Nat]] /\ match \in [Server -> [Server -> Nat]]
      /\ next[s] \in [Server -> Nat] /\ match[s] \in [Server -> Nat]
  BY <1>0 DEF Typed
<1>6. \/ UNCHANGED <<next, match>>
      \/ \E n \in Nat : /\ n >= 1
                        /\ next' = [next EXCEPT ![s][p] = n]
                        /\ \/ match' = match
                           \/ /\ c.rsp.success /\ match' = [match EXCEPT ![s][p] = n - 1]
                              /\ leading[s] => n = c.next + c.num
  <2>1. leading[s] => next[s][p] = c.next
    BY <1>0, <1>3, <1>4 DEF OpenInv
  <2>2. CASE c.rsp.success
    <3>1. PICK n \in Nat : n = NextOnSuccess(s, c) /\ n >= 1 /\ (next[s][p] = c.next => n = c.next + c.num)
      BY <1>4, NextIs
    <3>2. \/ UNCHANGED <<next, match>>
          \/ next' = [next EXCEPT ![s][p] = n] /\ match' = [match EXCEPT ![s][p] = n - 1]
      BY <1>4, <2>2, <3>1 DEF Return
    <3>. QED  BY <2>1, <2>2, <3>1, <3>2
  <2>3. CASE ~c.rsp.success
    <3>1. PICK n \in Nat : n = NextOnFailure(s, c) /\ n >= 1
      BY <1>4, NextIs
    <3>2. \/ UNCHANGED <<next, match>>
          \/ next' = [next EXCEPT ![s][p] = n] /\ match' = match
      BY <1>4, <2>3, <3>1 DEF Return
    <3>. QED  BY <3>1, <3>2
  <2>. QED  BY <2>2, <2>3
<1>7. /\ next' \in [Server -> [Server -> Nat]] /\ match' \in [Server -> [Server -> Nat]]
      /\ \A v, u \in Server : v # s \/ u # p => next'[v][u] = next[v][u] /\ match'[v][u] = match[v][u]
      /\ next'[s][p] = next[s][p] \/ next'[s][p] >= 1
      /\ \/ match'[s][p] = match[s][p]
         \/ c.rsp.success /\ (leading[s] => match'[s][p] = c.next + c.num - 1)
  <2>1. CASE UNCHANGED <<next, match>>
    BY <1>5, <2>1
  <2>2. ASSUME NEW n \in Nat, n >= 1, next' = [next EXCEPT ![s][p] = n],
               \/ match' = match
               \/ /\ c.rsp.success /\ match' = [match EXCEPT ![s][p] = n - 1]
                  /\ leading[s] => n = c.next + c.num
        PROVE  /\ next' \in [Server -> [Server -> Nat]] /\ match' \in [Server -> [Server -> Nat]]
               /\ \A v, u \in Server : v # s \/ u # p => next'[v][u] = next[v][u] /\ match'[v][u] = match[v][u]
               /\ next'[s][p] >= 1
               /\ \/ match'[s][p] = match[s][p]
                  \/ c.rsp.success /\ (leading[s] => match'[s][p] = c.next + c.num - 1)
    <3>1. next' = [next EXCEPT ![s] = [next[s] EXCEPT ![p] = n]] /\ [next[s] EXCEPT ![p] = n] \in [Server -> Nat]
      BY <1>5, <2>2
    <3>2. /\ next' \in [Server -> [Server -> Nat]] /\ next'[s][p] = n
          /\ \A v, u \in Server : v # s \/ u # p => next'[v][u] = next[v][u]
      BY <1>5, <3>1
    <3>3. CASE match' = match
      BY <1>5, <2>2, <3>2, <3>3
    <3>4. CASE c.rsp.success /\ match' = [match EXCEPT ![s][p] = n - 1] /\ (leading[s] => n = c.next + c.num)
      <4>1. PICK m \in Nat : m = n - 1
        BY <2>2
      <4>2. match' = [match EXCEPT ![s] = [match[s] EXCEPT ![p] = m]] /\ [match[s] EXCEPT ![p] = m] \in [Server -> Nat]
        BY <1>5, <3>4, <4>1
      <4>3. /\ match' \in [Server -> [Server -> Nat]] /\ match'[s][p] = m
            /\ \A v, u \in Server : v # s \/ u # p => match'[v][u] = match[v][u]
        BY <1>5, <4>2
      <4>4. leading[s] => match'[s][p] = c.next + c.num - 1
        BY <1>2, <3>4, <4>1, <4>3
      <4>. QED  BY <2>2, <3>2, <3>4, <4>3, <4>4
    <3>. QED  BY <2>2, <3>3, <3>4
  <2>. QED  BY <1>6, <2>1, <2>2
<1>8. Facts' \subseteq Facts
  <2>1. \A v \in Server : LogFacts(v)' \subseteq Facts
    BY <1>1, PartsAreFacts DEF LogFacts
  <2>2. \A d \in calls' : CallFacts(d) \subseteq Facts
    BY <1>1, PartsAreFacts
  <2>3. decided' \subseteq Facts
    BY <1>1, PartsAreFacts
  <2>. QED  BY <2>1, <2>2, <2>3, FactsRepeated
<1>9. Typed'
  BY <1>0, <1>1, <1>7 DEF Typed
<1>10. Ordered'
  BY <1>0, <1>8, OrderKept
<1>11. LogInv' /\ DecidedInv'
  BY <1>0, <1>1 DEF LogInv, DecidedInv, DecidedUpTo, Holders, LogFacts
<1>12. CallInv'
  BY <1>0, <1>1 DEF CallInv, DecidedUpTo, FirstIndex
<1>13. OneCopy'
  BY <1>0, <1>1 DEF OneCopy
<1>14. OpenInv'
  <2>1. ASSUME NEW d \in calls', d.open
        PROVE  next'[d.src][d.dst] = next[d.src][d.dst]
    <3>1. d \in calls /\ d # c /\ d.src \in Server /\ d.dst \in Server
      BY <1>0, <1>1 DEF Typed, ACall
    <3>2. ~(d.src = s /\ d.dst = p)
      BY <1>0, <1>3, <1>4, <2>1, <3>1 DEF OpenInv
    <3>. QED  BY <1>7, <3>1, <3>2
  <2>. QED  BY <1>0, <1>1, <2>1 DEF OpenInv
<1>15. LeaderInv'
  <2>1. ASSUME NEW v \in Server, leading[v], NEW u \in Server
        PROVE  /\ next'[v][u] > 0
               /\ match'[v][u] < tail[v]
               /\ u \notin restarted => match'[v][u] < tail[u]
    <3>1. /\ next[v][u] > 0 /\ match[v][u] < tail[v]
          /\ u \notin restarted => match[v][u] < tail[u]
      BY <1>0, <2>1 DEF LeaderInv
    <3>2. CASE v # s \/ u # p
      BY <1>7, <3>1, <3>2
    <3>3. CASE v = s /\ u = p
      <4>1. next'[v][u] > 0
        <5>1. next'[s][p] \in Nat
          BY <1>7
        <5>. QED  BY <1>7, <3>1, <3>3, <5>1
      <4>2. CASE match'[s][p] = match[s][p]
        BY <3>1, <3>3, <4>1, <4>2
      <4>3. CASE c.rsp.success /\ (leading[s] => match'[s][p] = c.next + c.num - 1)
        <5>1. c.next + c.num <= tail[s] /\ (p \notin restarted => c.next + c.num <= tail[p])
          BY <1>0, <1>1, <1>3, <1>4, <4>3 DEF OpenInv
        <5>2. tail[s] \in Nat /\ tail[p] \in Nat
          BY <1>0 DEF Typed
        <5>3. match'[s][p] = c.next + c.num - 1
          BY <2>1, <3>3, <4>3
        <5>. QED  BY <1>2, <3>3, <4>1, <5>1, <5>2, <5>3
      <4>. QED  BY <1>7, <4>2, <4>3
    <3>. QED  BY <3>2, <3>3
  <2>. QED  BY <1>0, <1>1, <1>8, <2>1 DEF LeaderInv
<1>. QED  BY <1>9, <1>10, <1>11, <1>12, <1>13, <1>14, <1>15 DEF ClusterInv

(* What advance_commit_index decides is in the leader's log, up to an      *)
(* index that a majority has reached.                                      *)
LEMMA AdvanceFacts ==
    ASSUME Sheltered, ClusterInv, NEW s \in Server, AdvanceCommitIndex(s)
    PROVE  \E i \in 1..Len(log[s]) :
              /\ i > commit[s]
              /\ commit' = [commit EXCEPT ![s] = i]
              /\ decided' = decided \cup EntriesUpTo(log[s], i)
              /\ EntriesUpTo(log[s], i) \subseteq LogFacts(s)
              /\ \A j \in 1..i : \E d \in EntriesUpTo(log[s], i) : d.index = j
              /\ \A d \in EntriesUpTo(log[s], i) :
                    d.index \in 1..i /\ IsMajority(Holders(d) \cup restarted)
<1>0. Typed /\ Ordered /\ LogInv /\ CallInv /\ LeaderInv
  BY DEF ClusterInv
<1>1. /\ log[s] \in Seq(Positive) /\ Len(log[s]) \in Nat /\ tail[s] = Len(log[s]) + 1 /\ commit[s] \in Nat
  BY <1>0 DEF Typed, LogInv
<1>2. PICK reached : reached = {i \in commit[s] + 1..tail[s] - 1 : MajorityReached(s, i)}
  OBVIOUS
<1>3. PICK i : i = Max(reached)
  OBVIOUS
<1>4. /\ leading[s] /\ reached # {} /\ commit' = [commit EXCEPT ![s] = i]
      /\ decided' = decided \cup EntriesUpTo(log[s], i)
  BY <1>2, <1>3 DEF AdvanceCommitIndex
<1>5. i \in reached
  <2>1. reached \in SUBSET (0..Len(log[s]))
    BY <1>1, <1>2
  <2>. QED  BY <1>1, <1>3, <1>4, <2>1, MaxIs
<1>6. i \in Nat /\ i > commit[s] /\ i \in 1..Len(log[s]) /\ MajorityReached(s, i)
  BY <1>1, <1>2, <1>5
<1>7. EntriesUpTo(log[s], i) = {[index |-> j, term |-> log[s][j]] : j \in 1..i}
  <2>1. Min({i, Len(log[s])}) = i
    <3>1. \A a, b \in Int : Min({a, b}) = IF a <= b THEN a ELSE b
      BY MaxOf
    <3>2. i \in Int /\ Len(log[s]) \in Int /\ i <= Len(log[s])
      BY <1>1, <1>6
    <3>. QED  BY <3>1, <3>2, Zenon
  <2>. QED  BY <2>1 DEF EntriesUpTo
<1>8. ASSUME NEW j \in 1..i
      PROVE  [index |-> j, term |-> log[s][j]] \in LogFacts(s)
  <2>1. j \in 1..Len(log[s])
    BY <1>1, <1>6
  <2>. QED  BY <1>1, <2>1, EntryFact DEF LogFacts
<1>9. ASSUME NEW d \in LogFacts(s), d.index \in 1..i
      PROVE  IsMajority(Holders(d) \cup restarted)
  <2>1. ASSUME NEW p \in Server, match[s][p] >= i, p \notin restarted
        PROVE  p \in Holders(d)
    <3>1. match[s][p] < tail[p] /\ match[s][p] \in Nat /\ tail[p] = Len(log[p]) + 1 /\ Len(log[p]) \in Nat
      BY <1>0, <1>4, <2>1 DEF LeaderInv, Typed, LogInv
    <3>2. d.index <= Len(log[p])
      BY <1>6, <1>9, <2>1, <3>1
    <3>3. d \in Facts
      BY <1>9, PartsAreFacts
    <3>. QED  BY <1>0, <3>2, <3>3, InLog DEF Holders
  <2>2. Reached(s, i) \subseteq Holders(d) \cup restarted
    BY <1>9, <2>1 DEF Reached, Holders
  <2>3. Holders(d) \cup restarted \in SUBSET Server
    BY <1>0 DEF Holders, Typed
  <2>. QED  BY <1>6, <2>2, <2>3, MajorityGrows DEF MajorityReached
<1>10. EntriesUpTo(log[s], i) \subseteq LogFacts(s)
  BY <1>7, <1>8
<1>11. \A j \in 1..i : \E d \in EntriesUpTo(log[s], i) : d.index = j
  <2>1. ASSUME NEW j \in 1..i
        PROVE  \E d \in EntriesUpTo(log[s], i) : d.index = j
    <3>1. [index |-> j, term |-> log[s][j]] \in EntriesUpTo(log[s], i)
      BY <1>7
    <3>. QED  BY <3>1
  <2>. QED  BY <2>1
<1>12. \A d \in EntriesUpTo(log[s], i) : d.index \in 1..i
  BY <1>7
<1>. QED  BY <1>4, <1>6, <1>9, <1>10, <1>11, <1>12

(* AdvanceCommitIndex keeps the invariant. *)
LEMMA AdvanceStep ==
    ASSUME Sheltered, ClusterInv, NEW s \in Server, AdvanceCommitIndex(s)
    PROVE  ClusterInv'
<1>0. Typed /\ Ordered /\ LogInv /\ CallInv /\ OneCopy /\ OpenInv /\ LeaderInv /\ DecidedInv
  BY DEF ClusterInv
<1>1. UNCHANGED <<term, leading, log, tail, next, match, calls, restarted>>
  BY DEF AdvanceCommitIndex
<1>2. PICK i \in 1..Len(log[s]) :
              /\ i > commit[s]
              /\ commit' = [commit EXCEPT ![s] = i]
              /\ decided' = decided \cup EntriesUpTo(log[s], i)
              /\ EntriesUpTo(log[s], i) \subseteq LogFacts(s)
              /\ \A j \in 1..i : \E d \in EntriesUpTo(log[s], i) : d.index = j
              /\ \A d \in EntriesUpTo(log[s], i) :
                    d.index \in 1..i /\ IsMajority(Holders(d) \cup restarted)
  BY AdvanceFacts
<1>3. PICK E : E = EntriesUpTo(log[s], i)
  OBVIOUS
<1>4. /\ decided' = decided \cup E /\ E \subseteq LogFacts(s)
      /\ \A j \in 1..i : \E d \in E : d.index = j
      /\ \A d \in E : d.index \in 1..i /\ IsMajority(Holders(d) \cup restarted)
  BY <1>2, <1>3
<1>5. E \subseteq Facts /\ E \subseteq Fact
  BY <1>0, <1>4, PartsAreFacts, FactType
<1>6. Facts' \subseteq Facts
  <2>1. \A v \in Server : LogFacts(v)' \subseteq Facts
    BY <1>1, PartsAreFacts DEF LogFacts
  <2>2. \A d \in calls' : CallFacts(d) \subseteq Facts
    BY <1>1, PartsAreFacts
  <2>3. decided' \subseteq Facts
    BY <1>4, <1>5, PartsAreFacts
  <2>. QED  BY <2>1, <2>2, <2>3, FactsRepeated
<1>7. /\ decided \subseteq decided' /\ i \in Nat
      /\ \A n : DecidedUpTo(n) => DecidedUpTo(n)'
      /\ DecidedUpTo(i)'
  BY <1>4 DEF DecidedUpTo
<1>8. commit' \in [Server -> Nat] /\ commit'[s] = i /\ \A v \in Server \ {s} : commit'[v] = commit[v]
  BY <1>0, <1>2, <1>7 DEF Typed
<1>9. Typed'
  <2>1. decided' \in SUBSET Fact
    BY <1>0, <1>4, <1>5 DEF Typed
  <2>. QED  BY <1>0, <1>1, <1>8, <2>1 DEF Typed
<1>10. Ordered'
  BY <1>0, <1>6, OrderKept
<1>11. LogInv'
  <2>1. ASSUME NEW v \in Server
        PROVE  \A j \in 1..commit'[v] : \E d \in decided' : d.index = j
    <3>1. CASE v = s
      BY <1>4, <1>8, <3>1
    <3>2. CASE v # s
      <4>1. \A j \in 1..commit[v] : \E d \in decided : d.index = j
        BY <1>0 DEF LogInv, DecidedUpTo
      <4>2. commit'[v] = commit[v]
        BY <1>8, <3>2
      <4>. QED  BY <1>7, <4>1, <4>2
    <3>. QED  BY <3>1, <3>2
  <2>. QED  BY <1>0, <1>1, <2>1 DEF LogInv, DecidedUpTo
<1>12. CallInv'
  <2>1. ASSUME NEW c \in calls'
        PROVE  \A j \in 1..c.req.commit : \E d \in decided' : d.index = j
    BY <1>0, <1>1, <1>7 DEF CallInv, DecidedUpTo
  <2>. QED  BY <1>0, <1>1, <2>1 DEF CallInv, DecidedUpTo, FirstIndex
<1>13. OneCopy' /\ OpenInv'
  BY <1>0, <1>1 DEF OneCopy, OpenInv
<1>14. LeaderInv'
  BY <1>0, <1>1, <1>6 DEF LeaderInv
<1>15. DecidedInv'
  <2>1. ASSUME NEW d \in decided'
        PROVE  \A j \in 1..d.index : \E e \in decided' : e.index = j
    <3>1. CASE d \in decided
      BY <1>0, <1>7, <3>1 DEF DecidedInv, DecidedUpTo
    <3>2. CASE d \in E
      <4>1. d.index \in 1..i
        BY <1>4, <3>2
      <4>2. \A j \in 1..d.index : j \in 1..i
        BY <1>7, <4>1
      <4>. QED  BY <1>4, <4>2
    <3>. QED  BY <1>4, <3>1, <3>2
  <2>2. \A d : Holders(d)' = Holders(d)
    BY <1>1 DEF Holders, LogFacts
  <2>3. \A d \in decided' : IsMajority(Holders(d) \cup restarted)
    BY <1>0, <1>4 DEF DecidedInv
  <2>. QED  BY <1>0, <1>1, <2>1, <2>2, <2>3 DEF DecidedInv, DecidedUpTo
<1>. QED  BY <1>9, <1>10, <1>11, <1>12, <1>13, <1>14, <1>15 DEF ClusterInv

(* Restart: a log less, and a server that no longer counts. *)
LEMMA RestartStep ==
    ASSUME Sheltered, ClusterInv, NEW s \in Server, Restart(s)
    PROVE  ClusterInv'
<1>0. Typed /\ Ordered /\ LogInv /\ CallInv /\ OneCopy /\ OpenInv /\ LeaderInv /\ DecidedInv
  BY DEF ClusterInv
<1>1. /\ ~IsMajority(restarted \cup {s})
      /\ restarted' = restarted \cup {s}
      /\ term' = [term EXCEPT ![s] = 0]
      /\ leading' = [leading EXCEPT ![s] = FALSE]
      /\ log' = [log EXCEPT ![s] = <<>>]
      /\ tail' = [tail EXCEPT ![s] = 1]
      /\ commit' = [commit EXCEPT ![s] = 0]
      /\ next' = [next EXCEPT ![s] = [p \in Server |-> 0]]
      /\ match' = [match EXCEPT ![s] = [p \in Server |-> 0]]
      /\ decided' = decided
  BY DEF Restart, Sheltered
<1>2. /\ term' \in [Server -> Nat] /\ leading' \in [Server -> BOOLEAN] /\ log' \in [Server -> Seq(Positive)]
      /\ tail' \in [Server -> Nat] /\ commit' \in [Server -> Nat]
      /\ next' \in [Server -> [Server -> Nat]] /\ match' \in [Server -> [Server -> Nat]]
      /\ restarted' \in SUBSET Server /\ decided' \in SUBSET Fact
  <2>1. <<>> \in Seq(Positive) /\ [p \in Server |-> 0] \in [Server -> Nat] /\ 0 \in Nat /\ 1 \in Nat
    OBVIOUS
  <2>2. /\ term \in [Server -> Nat] /\ leading \in [Server -> BOOLEAN] /\ log \in [Server -> Seq(Positive)]
        /\ tail \in [Server -> Nat] /\ commit \in [Server -> Nat]
        /\ next \in [Server -> [Server -> Nat]] /\ match \in [Server -> [Server -> Nat]]
        /\ restarted \in SUBSET Server /\ decided \in SUBSET Fact
    BY <1>0 DEF Typed
  <2>3. term' \in [Server -> Nat] /\ leading' \in [Server -> BOOLEAN]
    BY <1>1, <2>2
  <2>4. log' \in [Server -> Seq(Positive)]
    BY <1>1, <2>1, <2>2
  <2>5. tail' \in [Server -> Nat] /\ commit' \in [Server -> Nat]
    BY <1>1, <2>2
  <2>6. next' \in [Server -> [Server -> Nat]] /\ match' \in [Server -> [Server -> Nat]]
    BY <1>1, <2>1, <2>2
  <2>. QED  BY <1>1, <2>2, <2>3, <2>4, <2>5, <2>6
<1>3. /\ ~leading'[s] /\ log'[s] = <<>> /\ tail'[s] = 1 /\ commit'[s] = 0
  BY <1>0, <1>1 DEF Typed
<1>4. \A v \in Server \ {s} :
         /\ term'[v] = term[v] /\ leading'[v] = leading[v] /\ log'[v] = log[v]
         /\ tail'[v] = tail[v] /\ commit'[v] = commit[v]
         /\ next'[v] = next[v] /\ match'[v] = match[v]
  BY <1>0, <1>1 DEF Typed
<1>. DEFINE Closed(c) == IF c.src = s THEN [c EXCEPT !.open = FALSE] ELSE c
<1>5. \A d \in calls' : \E c \in calls :
         /\ d = Closed(c)
         /\ c.dst = s => c.pc # "copying"
         /\ c.src = s => c.pc # "answered"
  BY DEF Restart
<1>6. ASSUME NEW c \in calls
      PROVE  /\ Closed(c) \in ACall
             /\ Closed(c).src = c.src /\ Closed(c).dst = c.dst /\ Closed(c).pc = c.pc
             /\ Closed(c).term = c.term /\ Closed(c).next = c.next /\ Closed(c).num = c.num
             /\ Closed(c).req = c.req /\ Closed(c).rsp = c.rsp
             /\ Closed(c).open => c.src # s
             /\ c.src # s => Closed(c) = c
             /\ c.src \in Server /\ c.dst \in Server
  BY <1>0 DEF Typed, ACall
<1>7. \A d \in calls' : \E c \in calls :
         /\ d = Closed(c) /\ d \in ACall
         /\ c.src \in Server /\ c.dst \in Server
         /\ d.src = c.src /\ d.dst = c.dst /\ d.pc = c.pc
         /\ d.term = c.term /\ d.next = c.next /\ d.num = c.num
         /\ d.req = c.req /\ d.rsp = c.rsp
         /\ d.open => c.src # s /\ d = c
         /\ c.pc = "copying" => c.dst # s
         /\ c.pc = "answered" => c.src # s /\ d = c
  <2>. HIDE DEF Closed
  <2>. QED  BY <1>5, <1>6
<1>. HIDE DEF Closed
<1>8. Typed'
  <2>1. calls' \subseteq ACall
    BY <1>7
  <2>. QED  BY <1>2, <2>1 DEF Typed
<1>9. Facts' \subseteq Facts
  <2>1. ASSUME NEW v \in Server
        PROVE  LogFacts(v)' \subseteq Facts
    <3>1. CASE v = s
      <4>1. Len(log'[v]) = 0
        BY <1>3, <3>1
      <4>2. LogFacts(v)' = {}
        BY <4>1 DEF LogFacts, FactsOf
      <4>. QED  BY <4>2
    <3>2. CASE v # s
      BY <1>4, <3>2, PartsAreFacts DEF LogFacts
    <3>. QED  BY <3>1, <3>2
  <2>2. ASSUME NEW d \in calls'
        PROVE  CallFacts(d) \subseteq Facts
    <3>1. PICK c \in calls : d.req = c.req /\ d.next = c.next /\ d.num = c.num
      BY <1>7
    <3>2. CallFacts(d) = CallFacts(c)
      BY <3>1 DEF CallFacts, FirstIndex
    <3>. QED  BY <3>2, PartsAreFacts
  <2>3. decided' \subseteq Facts
    BY <1>1, PartsAreFacts
  <2>. QED  BY <2>1, <2>2, <2>3, FactsRepeated
<1>10. Ordered'
  BY <1>0, <1>9, OrderKept
<1>11. LogInv'
  <2>1. ASSUME NEW v \in Server
        PROVE  /\ tail'[v] = Len(log'[v]) + 1
               /\ \A i \in 1..Len(log'[v]) : log'[v][i] <= term'[v]
               /\ DecidedUpTo(commit'[v])
    <3>1. CASE v = s
      <4>1. tail'[v] = 1 /\ Len(log'[v]) = 0 /\ commit'[v] = 0
        BY <1>3, <3>1
      <4>. QED  BY <4>1 DEF DecidedUpTo
    <3>2. CASE v # s
      BY <1>0, <1>4, <3>2 DEF LogInv
    <3>. QED  BY <3>1, <3>2
  <2>. QED  BY <1>1, <2>1 DEF LogInv, DecidedUpTo
<1>12. CallInv'
  <2>1. ASSUME NEW d \in calls'
        PROVE  /\ d.pc = "sent" => Len(d.req.entries) = d.num
               /\ d.pc = "answered" => d.req = NoReq /\ d.open
               /\ d.pc = "copying" => /\ FirstIndex(d) = tail'[d.dst]
                                      /\ d.term <= term'[d.dst]
                                      /\ ~leading'[d.dst]
               /\ \A k \in 1..Len(d.req.entries) : d.req.entries[k] <= d.term
               /\ DecidedUpTo(d.req.commit)
    <3>1. PICK c \in calls :
             /\ c.src \in Server /\ c.dst \in Server
             /\ d.src = c.src /\ d.dst = c.dst /\ d.pc = c.pc
             /\ d.term = c.term /\ d.next = c.next /\ d.num = c.num
             /\ d.req = c.req /\ d.rsp = c.rsp
             /\ c.pc = "copying" => c.dst # s
             /\ c.pc = "answered" => c.src # s /\ d = c
      BY <1>7
    <3>2. FirstIndex(d) = FirstIndex(c)
      BY <3>1 DEF FirstIndex
    <3>3. /\ c.pc = "sent" => Len(c.req.entries) = c.num
          /\ c.pc = "answered" => c.req = NoReq /\ c.open
          /\ c.pc = "copying" => /\ FirstIndex(c) = tail[c.dst]
                                 /\ c.term <= term[c.dst]
                                 /\ ~leading[c.dst]
          /\ \A k \in 1..Len(c.req.entries) : c.req.entries[k] <= c.term
          /\ DecidedUpTo(c.req.commit)
      BY <1>0 DEF CallInv
    <3>. QED  BY <1>4, <3>1, <3>2, <3>3
  <2>. QED  BY <1>1, <2>1 DEF CallInv, DecidedUpTo, FirstIndex
<1>13. OneCopy'
  <2>1. ASSUME NEW d \in calls', NEW e \in calls', d.pc = "copying", e.pc = "copying", d.dst = e.dst
        PROVE  d = e
    <3>1. PICK b \in calls : d = Closed(b) /\ d.dst = b.dst /\ d.pc = b.pc
      BY <1>7
    <3>2. PICK c \in calls : e = Closed(c) /\ e.dst = c.dst /\ e.pc = c.pc
      BY <1>7
    <3>3. b = c
      BY <1>0, <2>1, <3>1, <3>2 DEF OneCopy
    <3>. QED  BY <3>1, <3>2, <3>3
  <2>. QED  BY <2>1 DEF OneCopy
<1>14. OpenInv'
  <2>1. ASSUME NEW d \in calls', d.open
        PROVE  d \in calls /\ d.src # s /\ d.src \in Server /\ d.dst \in Server
    BY <1>7, <2>1
  <2>2. ASSUME NEW d \in calls', d.open
        PROVE  /\ \A e \in calls' : e.open /\ e.src = d.src /\ e.dst = d.dst => e = d
               /\ d.next + d.num <= tail'[d.src]
               /\ leading'[d.src] => next'[d.src][d.dst] = d.next
               /\ d.pc = "answered" /\ d.rsp.success /\ d.dst \notin restarted'
                     => d.next + d.num <= tail'[d.dst]
    <3>1. d \in calls /\ d.src # s /\ d.src \in Server /\ d.dst \in Server
      BY <2>1, <2>2
    <3>2. /\ \A e \in calls : e.open /\ e.src = d.src /\ e.dst = d.dst => e = d
          /\ d.next + d.num <= tail[d.src]
          /\ leading[d.src] => next[d.src][d.dst] = d.next
          /\ d.pc = "answered" /\ d.rsp.success /\ d.dst \notin restarted
                => d.next + d.num <= tail[d.dst]
      BY <1>0, <2>2, <3>1 DEF OpenInv
    <3>3. \A e \in calls' : e.open /\ e.src = d.src /\ e.dst = d.dst => e = d
      BY <2>1, <3>2
    <3>4. /\ tail'[d.src] = tail[d.src] /\ leading'[d.src] = leading[d.src] /\ next'[d.src] = next[d.src]
          /\ d.dst \notin restarted' => d.dst \notin restarted /\ tail'[d.dst] = tail[d.dst]
      BY <1>1, <1>4, <3>1
    <3>. QED  BY <3>2, <3>3, <3>4
  <2>. QED  BY <2>2 DEF OpenInv
<1>15. LeaderInv'
  <2>1. ASSUME NEW v \in Server, leading'[v]
        PROVE  /\ v # s /\ leading[v] /\ term'[v] = term[v] /\ log'[v] = log[v] /\ tail'[v] = tail[v]
               /\ next'[v] = next[v] /\ match'[v] = match[v]
    BY <1>3, <1>4, <2>1
  <2>2. ASSUME NEW v \in Server, leading'[v]
        PROVE  /\ \A u \in Server : leading'[u] /\ term'[u] = term'[v] => u = v
               /\ Len(log'[v]) > 0 /\ log'[v][Len(log'[v])] = term'[v]
               /\ \A f \in Facts' : f.term = term'[v] => f.index <= Len(log'[v])
               /\ v \notin restarted'
    BY <1>0, <1>1, <1>9, <2>1, <2>2 DEF LeaderInv
  <2>3. ASSUME NEW v \in Server, leading'[v], NEW p \in Server
        PROVE  /\ next'[v][p] > 0 /\ match'[v][p] < tail'[v]
               /\ p \notin restarted' => match'[v][p] < tail'[p]
    <3>1. p \notin restarted' => p \notin restarted /\ tail'[p] = tail[p]
      BY <1>1, <1>4
    <3>. QED  BY <1>0, <2>1, <2>3, <3>1 DEF LeaderInv
  <2>. QED  BY <2>2, <2>3 DEF LeaderInv
<1>16. DecidedInv'
  <2>1. ASSUME NEW d \in decided
        PROVE  IsMajority(Holders(d)' \cup restarted')
    <3>1. \A v \in Server \ {s} : LogFacts(v)' = LogFacts(v)
      BY <1>4 DEF LogFacts
    <3>2. Holders(d) \cup restarted \subseteq Holders(d)' \cup restarted'
      BY <1>1, <3>1 DEF Holders
    <3>3. Holders(d)' \cup restarted' \in SUBSET Server
      BY <1>2 DEF Holders
    <3>4. IsMajority(Holders(d) \cup restarted)
      BY <1>0 DEF DecidedInv
    <3>. QED  BY <3>2, <3>3, <3>4, MajorityGrows
  <2>2. ~IsMajority(restarted')
    BY <1>1
  <2>. QED  BY <1>0, <1>1, <2>1, <2>2 DEF DecidedInv, DecidedUpTo
<1>. QED  BY <1>8, <1>10, <1>11, <1>12, <1>13, <1>14, <1>15, <1>16 DEF ClusterInv

-----------------------------------------------------------------------------
(* The invariant and what follows from it *)

(* The cluster starts in the invariant. *)
LEMMA InitInv ==
    ASSUME Init
    PROVE  ClusterInv
<1>1. /\ \A s \in Server : Len(log[s]) = 0 /\ log[s] = <<>> /\ tail[s] = 1 /\ commit[s] = 0 /\ ~leading[s]
      /\ calls = {} /\ restarted = {} /\ decided = {}
  BY DEF Init
<1>2. Facts = {}
  <2>1. \A s \in Server : LogFacts(s) = {}
    BY <1>1 DEF LogFacts, FactsOf
  <2>. QED  BY <1>1, <2>1, FactFrom
<1>3. Typed
  <2>1. log \in [Server -> Seq(Positive)]
    <3>1. <<>> \in Seq(Positive)
      OBVIOUS
    <3>. QED  BY <3>1 DEF Init
  <2>2. next \in [Server -> [Server -> Nat]] /\ match \in [Server -> [Server -> Nat]]
    BY DEF Init
  <2>3. /\ term \in [Server -> Nat] /\ leading \in [Server -> BOOLEAN]
        /\ tail \in [Server -> Nat] /\ commit \in [Server -> Nat]
    BY DEF Init
  <2>. QED  BY <1>1, <2>1, <2>2, <2>3 DEF Typed
<1>4. Ordered /\ CallInv /\ OneCopy /\ OpenInv /\ LeaderInv
  BY <1>1, <1>2 DEF Ordered, CallInv, OneCopy, OpenInv, LeaderInv
<1>5. LogInv
  BY <1>1 DEF LogInv, DecidedUpTo
<1>6. DecidedInv
  <2>1. Cardinality({}) = 0 /\ Cardinality(Server) \in Nat
    BY ServersFinite, FS_EmptySet
  <2>2. ~IsMajority({})
    BY <2>1 DEF IsMajority
  <2>. QED  BY <1>1, <2>2 DEF DecidedInv
<1>. QED  BY <1>3, <1>4, <1>5, <1>6 DEF ClusterInv

(* Every step keeps the invariant. *)
LEMMA NextInv ==
    ASSUME Sheltered, ClusterInv, [Next]_vars
    PROVE  ClusterInv'
<1>1. CASE UNCHANGED vars
  <2>1. /\ UNCHANGED <<term, leading, log, tail, commit, next, match, calls, restarted, decided>>
    BY <1>1 DEF vars
  <2>2. Facts' = Facts /\ \A d : Holders(d)' = Holders(d)
    BY <2>1 DEF Facts, Held, Carried, LogFacts, Holders
  <2>3. Typed' /\ Ordered'
    BY <2>1, <2>2 DEF ClusterInv, Typed, Ordered
  <2>4. LogInv' /\ CallInv'
    BY <2>1, <2>2 DEF ClusterInv, LogInv, CallInv, DecidedUpTo
  <2>5. OneCopy' /\ OpenInv'
    BY <2>1, <2>2 DEF ClusterInv, OneCopy, OpenInv
  <2>6. LeaderInv'
    BY <2>1, <2>2 DEF ClusterInv, LeaderInv
  <2>7. DecidedInv'
    <3>1. DecidedInv
      BY DEF ClusterInv
    <3>2. \A n : DecidedUpTo(n)' = DecidedUpTo(n)
      BY <2>1 DEF DecidedUpTo
    <3>3. restarted' = restarted /\ decided' = decided
      BY <2>1
    <3>4. \A d \in decided : IsMajority(Holders(d)' \cup restarted')
      BY <2>2, <3>1, <3>3, Zenon DEF DecidedInv
    <3>. QED  BY <3>1, <3>2, <3>3, <3>4, Zenon DEF DecidedInv
  <2>. QED  BY <2>3, <2>4, <2>5, <2>6, <2>7 DEF ClusterInv
<1>2. ASSUME NEW s \in Server, NEW H \in SUBSET Server, Campaign(s, H) \/ Elect(s, H)
      PROVE  ClusterInv'
  BY <1>2, CampaignStep, ElectStep
<1>3. ASSUME NEW s \in Server,
             Apply(s) \/ (\E p \in Server : Send(s, p)) \/ AdvanceCommitIndex(s) \/ Restart(s)
      PROVE  ClusterInv'
  BY <1>3, ApplyStep, SendStep, AdvanceStep, RestartStep
<1>4. ASSUME NEW c \in calls,
             Receive(c) \/ FinishCopy(c) \/ CopyFails(c) \/ Return(c) \/ Lose(c)
      PROVE  ClusterInv'
  BY <1>4, ReceiveStep, FinishCopyStep, CopyFailsStep, ReturnStep, LoseStep
<1>. QED  BY <1>1, <1>2, <1>3, <1>4 DEF Next

(* No step takes a decided entry back. *)
LEMMA DecidedGrows ==
    ASSUME [Next]_vars
    PROVE  decided \subseteq decided'
<1>1. CASE UNCHANGED vars
  BY <1>1 DEF vars
<1>2. ASSUME NEW s \in Server, NEW H \in SUBSET Server, Campaign(s, H) \/ Elect(s, H)
      PROVE  decided \subseteq decided'
  BY <1>2 DEF Campaign, Elect
<1>3. ASSUME NEW s \in Server,
             Apply(s) \/ (\E p \in Server : Send(s, p)) \/ AdvanceCommitIndex(s) \/ Restart(s)
      PROVE  decided \subseteq decided'
  BY <1>3 DEF Apply, Send, AdvanceCommitIndex, Restart
<1>4. ASSUME NEW c \in calls,
             Receive(c) \/ FinishCopy(c) \/ CopyFails(c) \/ Return(c) \/ Lose(c)
      PROVE  decided \subseteq decided'
  BY <1>4 DEF Receive, FinishCopy, CopyFails, Return, Lose, FollowerCommit
<1>. QED  BY <1>1, <1>2, <1>3, <1>4 DEF Next

(* Entries that are decided in addition stand behind the others. *)
LEMMA Decides ==
    ASSUME ClusterInv, ClusterInv', decided \subseteq decided'
    PROVE  Commands!Decide
<1>1. decided \subseteq Fact /\ decided' \subseteq Fact /\ decided' \subseteq Facts'
  BY DEF ClusterInv, Typed, Facts
<1>2. \A d \in decided' : d.index \in Nat /\ d.term \in Nat
  BY <1>1 DEF Fact, Positive
<1>3. \A d, e \in decided' : d.index <= e.index => d.term <= e.term
  BY <1>1 DEF ClusterInv, Ordered
<1>4. ASSUME NEW d \in decided', NEW e \in decided', d.index = e.index
      PROVE  d = e
  <2>1. d.term = e.term
    BY <1>2, <1>3, <1>4
  <2>. QED  BY <1>1, <1>4, <2>1 DEF Fact
<1>5. ASSUME NEW e \in decided' \ decided, NEW d \in decided
      PROVE  d.index < e.index
  <2>1. d.index \in Nat /\ e.index \in Nat
    BY <1>2, <1>5
  <2>2. ASSUME e.index <= d.index
        PROVE  FALSE
    <3>1. e.index \in 1..d.index
      BY <1>1, <2>1, <2>2 DEF Fact, Positive
    <3>2. PICK g \in decided : g.index = e.index
      BY <3>1 DEF ClusterInv, DecidedInv, DecidedUpTo
    <3>. QED  BY <1>4, <3>2
  <2>. QED  BY <2>1, <2>2
<1>6. \A d \in decided' : \A i \in 1..d.index : \E e \in decided' : e.index = i
  BY DEF ClusterInv, DecidedInv, DecidedUpTo
<1>. QED  BY <1>3, <1>4, <1>5, <1>6 DEF Commands!Decide, Commands!Agreed, Commands!Gapless, Commands!Ordered

(* The invariant holds in every reachable state, for every number of       *)
(* servers, terms, entries, calls and faults: elections, replication,      *)
(* commits, lost calls, failed copies and restarts of any minority keep    *)
(* the facts in order.                                                     *)
THEOREM ClusterInvariant == Sheltered => (Spec => []ClusterInv)
<1>. SUFFICES ASSUME Sheltered PROVE Spec => []ClusterInv
  OBVIOUS
<1>1. Init => ClusterInv
  BY InitInv
<1>2. ClusterInv /\ [Next]_vars => ClusterInv'
  BY NextInv
<1>. QED  BY <1>1, <1>2, PTL DEF Spec

(* A prefix, entry by entry. *)
LEMMA PrefixIs ==
    ASSUME NEW l \in Seq(Positive), NEW m \in Seq(Positive), Len(l) <= Len(m),
           \A i \in 1..Len(l) : l[i] = m[i]
    PROVE  IsPrefix(l, m)
<1>1. l = SubSeq(m, 1, Len(l))
  <2>1. Len(l) \in Nat /\ Len(m) \in Nat
    OBVIOUS
  <2>2. SubSeq(m, 1, Len(l)) = [i \in 1..Len(l) |-> m[i]]
    BY <2>1
  <2>3. l = [i \in 1..Len(l) |-> l[i]]
    OBVIOUS
  <2>. QED  BY <2>2, <2>3
<1>. QED  BY <1>1 DEF IsPrefix

(* handle_append_entries_request appends and skips by index and truncates  *)
(* nothing; still two logs never part.                                     *)
THEOREM LogsAgreeTheorem == Sheltered => (Spec => []LogsAgree)
<1>. SUFFICES ASSUME Sheltered PROVE Spec => []LogsAgree
  OBVIOUS
<1>1. Spec => []ClusterInv
  BY ClusterInvariant
<1>2. ClusterInv => LogsAgree
  <2>. SUFFICES ASSUME ClusterInv, NEW s \in Server, NEW p \in Server
                PROVE  IsPrefix(log[s], log[p]) \/ IsPrefix(log[p], log[s])
    BY DEF LogsAgree
  <2>1. /\ log[s] \in Seq(Positive) /\ log[p] \in Seq(Positive)
        /\ Len(log[s]) \in Nat /\ Len(log[p]) \in Nat
    BY DEF ClusterInv, Typed
  <2>2. ASSUME NEW u \in Server, NEW v \in Server, Len(log[u]) <= Len(log[v]),
               log[u] \in Seq(Positive), log[v] \in Seq(Positive)
        PROVE  IsPrefix(log[u], log[v])
    <3>1. Len(log[u]) \in Nat /\ Len(log[v]) \in Nat
      BY <2>2
    <3>2. \A i \in 1..Len(log[u]) : i <= Len(log[v])
      BY <2>2, <3>1
    <3>3. \A i \in 1..Len(log[u]) : log[u][i] = log[v][i]
      BY <3>2, SameEntry DEF ClusterInv
    <3>. QED  BY <2>2, <3>3, PrefixIs
  <2>. QED  BY <2>1, <2>2
<1>. QED  BY <1>1, <1>2, PTL

(* Whoever becomes leader has all that apply has returned, until a leader  *)
(* of a later term has committed entries of its own.                       *)
THEOREM LeaderCompleteTheorem == Sheltered => (Spec => []LeaderComplete)
<1>. SUFFICES ASSUME Sheltered PROVE Spec => []LeaderComplete
  OBVIOUS
<1>1. Spec => []ClusterInv
  BY ClusterInvariant
<1>2. ClusterInv => LeaderComplete
  <2>. SUFFICES ASSUME ClusterInv, NEW s \in Server, leading[s], \A d \in decided : d.term <= term[s],
                       NEW d \in decided
                PROVE  TermAt(log[s], d.index) = d.term
    BY DEF LeaderComplete
  <2>0. Typed /\ Ordered /\ LogInv /\ CallInv /\ LeaderInv
    BY DEF ClusterInv
  <2>1. /\ log[s] \in Seq(Positive) /\ Len(log[s]) \in Nat /\ Len(log[s]) > 0 /\ term[s] \in Nat
        /\ log[s][Len(log[s])] = term[s]
        /\ \A f \in Facts : f.term = term[s] => f.index <= Len(log[s])
    BY <2>0 DEF Typed, LeaderInv
  <2>2. d \in Facts /\ d \in Fact
    BY <2>0, PartsAreFacts, FactType
  <2>3. d.index \in Nat /\ d.index >= 1 /\ d.term \in Nat
    BY <2>2 DEF Fact, Positive
  <2>4. ASSUME d.index > Len(log[s])
        PROVE  FALSE
    <3>1. PICK f : f = [index |-> Len(log[s]), term |-> log[s][Len(log[s])]]
      OBVIOUS
    <3>2. f \in LogFacts(s) /\ f.index = Len(log[s]) /\ f.term = term[s]
      <4>1. Len(log[s]) \in 1..Len(log[s])
        BY <2>1
      <4>. QED  BY <2>1, <3>1, <4>1, EntryFact DEF LogFacts
    <3>3. f \in Facts
      BY <3>2, PartsAreFacts
    <3>4. f.index <= d.index
      BY <2>1, <2>3, <2>4, <3>2
    <3>5. term[s] <= d.term
      BY <2>0, <2>2, <3>2, <3>3, <3>4 DEF Ordered
    <3>6. d.term = term[s]
      BY <2>1, <2>3, <3>5
    <3>. QED  BY <2>1, <2>2, <2>3, <2>4, <3>6
  <2>5. d.index <= Len(log[s])
    BY <2>1, <2>3, <2>4
  <2>6. d \in LogFacts(s)
    BY <2>0, <2>2, <2>5, InLog
  <2>7. d.term = log[s][d.index]
    BY <2>1, <2>6, FactOf DEF LogFacts
  <2>. QED  BY <2>1, <2>3, <2>5, <2>7 DEF TermAt
<1>. QED  BY <1>1, <1>2, PTL

(* match_index never runs ahead of the peer, over late replies, retries    *)
(* and refused requests.                                                   *)
THEOREM MatchHeldTheorem == Sheltered => (Spec => []MatchHeld)
<1>. SUFFICES ASSUME Sheltered PROVE Spec => []MatchHeld
  OBVIOUS
<1>1. Spec => []ClusterInv
  BY ClusterInvariant
<1>2. ClusterInv => MatchHeld
  <2>. SUFFICES ASSUME ClusterInv, NEW s \in Server, NEW p \in Server \ restarted, leading[s]
                PROVE  /\ match[s][p] < tail[s]
                       /\ IsPrefix(SubSeq(log[s], 1, match[s][p]), log[p])
    BY DEF MatchHeld
  <2>0. Typed /\ Ordered /\ LogInv /\ CallInv /\ LeaderInv
    BY DEF ClusterInv
  <2>1. /\ match[s][p] \in Nat /\ match[s][p] < tail[s] /\ match[s][p] < tail[p]
        /\ log[s] \in Seq(Positive) /\ log[p] \in Seq(Positive)
        /\ tail[s] = Len(log[s]) + 1 /\ tail[p] = Len(log[p]) + 1
        /\ Len(log[s]) \in Nat /\ Len(log[p]) \in Nat
    <3>1. match[s][p] \in Nat
      BY <2>0 DEF Typed
    <3>2. match[s][p] < tail[s] /\ match[s][p] < tail[p]
      BY <2>0 DEF LeaderInv
    <3>. QED  BY <2>0, <3>1, <3>2, ServerTypes
  <2>2. PICK m \in Nat : m = match[s][p] /\ m <= Len(log[s]) /\ m <= Len(log[p])
    BY <2>1
  <2>3. PICK l \in Seq(Positive) : /\ l = SubSeq(log[s], 1, m) /\ Len(l) = m
                                   /\ \A j \in 1..m : j \in 1..Len(log[s]) /\ l[j] = log[s][j]
    <3>1. 1 \in Nat /\ 1 >= 1 /\ 1 + m <= Len(log[s]) + 1 /\ 1 + m - 1 = m /\ \A j \in 1..m : 1 + j - 1 = j
      BY <2>1, <2>2
    <3>2. PICK a \in Nat : a = 1 /\ a >= 1 /\ a + m <= Len(log[s]) + 1 /\ a + m - 1 = m /\ \A j \in 1..m : a + j - 1 = j
      BY <3>1
    <3>3. /\ SubSeq(log[s], a, a + m - 1) \in Seq(Positive)
          /\ Len(SubSeq(log[s], a, a + m - 1)) = m
          /\ \A j \in 1..m : /\ a + j - 1 \in 1..Len(log[s])
                             /\ SubSeq(log[s], a, a + m - 1)[j] = log[s][a + j - 1]
      BY <2>1, <3>2, PieceOf
    <3>4. PICK l : l = SubSeq(log[s], a, a + m - 1)
      OBVIOUS
    <3>5. l = SubSeq(log[s], 1, m)
      BY <3>2, <3>4
    <3>6. \A j \in 1..m : j \in 1..Len(log[s]) /\ l[j] = log[s][j]
      BY <3>2, <3>3, <3>4
    <3>. QED  BY <3>3, <3>4, <3>5, <3>6
  <2>4. \A j \in 1..m : l[j] = log[p][j]
    <3>1. ASSUME NEW j \in 1..m
          PROVE  l[j] = log[p][j]
      <4>1. j \in 1..Len(log[s]) /\ j <= Len(log[p]) /\ l[j] = log[s][j]
        BY <2>1, <2>2, <2>3
      <4>. QED  BY <2>0, <4>1, SameEntry
    <3>. QED  BY <3>1
  <2>5. IsPrefix(l, log[p])
    BY <2>1, <2>2, <2>3, <2>4, PrefixIs
  <2>. QED  BY <2>1, <2>2, <2>3, <2>5
<1>. QED  BY <1>1, <1>2, PTL

(* The cluster implements CommandLog: whichever server commits, as leader  *)
(* or as follower, there is one decided log, and it only grows at its end. *)
THEOREM CommandLogTheorem == Sheltered => (Spec => ImplementsCommandLog)
<1>. SUFFICES ASSUME Sheltered PROVE Spec => ImplementsCommandLog
  OBVIOUS
<1>1. Spec => []ClusterInv
  BY ClusterInvariant
<1>2. Init => Commands!Init
  BY DEF Init, Commands!Init
<1>3. ClusterInv /\ ClusterInv' /\ [Next]_vars => [Commands!Decide]_decided
  BY DecidedGrows, Decides
<1>. QED  BY <1>1, <1>2, <1>3, PTL DEF Spec, ImplementsCommandLog, Commands!Spec
=============================================================================
