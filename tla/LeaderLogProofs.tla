--------------------------- MODULE LeaderLogProofs --------------------------
(***************************************************************************)
(* Proofs about LeaderLog, for every set of peers and threads and every    *)
(* bound, when copies are timely (TimelyCopy): a promotion or a second     *)
(* batch during a handler's copy breaks them, as the code has it.          *)
(***************************************************************************)
EXTENDS LeaderLog, FiniteSetTheorems, TLAPS

(* Larger and Smaller pick one of their arguments. *)
LEMMA LargerSmaller ==
    ASSUME NEW a \in Int, NEW b \in Int
    PROVE  /\ Larger(a, b) \in Int
           /\ Larger(a, b) >= a /\ Larger(a, b) >= b
           /\ Larger(a, b) = a \/ Larger(a, b) = b
           /\ Smaller(a, b) \in Int
           /\ Smaller(a, b) <= a /\ Smaller(a, b) <= b
           /\ Smaller(a, b) = a \/ Smaller(a, b) = b
BY DEF Larger, Smaller

(* The search of apply_ae_failure_backoff yields an index. *)
LEMMA HintedInt ==
    ASSUME IndexInv, NEW c \in Call, NEW ct \in Nat, NEW ci \in Nat
    PROVE  Hinted(c, ct, ci) \in Int
<1>. DEFINE lo == Larger(oldest, 1)
            seen == {j \in lo..c.next - 1 : TermAt(j) <= ct}
<1>1. lo \in Int /\ c.next \in Nat /\ nextIndex[c.peer] \in Nat
  BY LargerSmaller DEF IndexInv, TypeOK, Call
<1>2. seen \subseteq Int
  BY <1>1
<1>3. SearchConflict(c.next - 1, ct, ci) \in Int
  <2>1. CASE \E j \in seen : TermAt(j) = ct /\ \A k \in seen : k <= j
    <3>1. (CHOOSE j \in seen : \A k \in seen : k <= j) \in seen
      BY <2>1
    <3>. QED  BY <3>1, <1>2, <2>1 DEF SearchConflict
  <2>2. CASE ~ \E j \in seen : TermAt(j) = ct /\ \A k \in seen : k <= j
    BY <2>2 DEF SearchConflict
  <2>. QED  BY <2>1, <2>2
<1>. QED  BY <1>1, <1>3 DEF Hinted

(* A refusal leaves next_index between match_index and its old value. *)
LEMMA BackoffBounds ==
    ASSUME IndexInv, ledTerm > 0, NEW c \in Call, NEW ct \in Nat, NEW ci \in Nat
    PROVE  /\ NextOnFailure(c, ct, ci) \in Nat
           /\ NextOnFailure(c, ct, ci) > matchIndex[c.peer]
           /\ NextOnFailure(c, ct, ci) <= nextIndex[c.peer]
<1>. DEFINE prev == nextIndex[c.peer]
            hint == Hinted(c, ct, ci)
            back == IF hint >= prev THEN (IF prev > 0 THEN prev - 1 ELSE 0) ELSE hint
<1>1. /\ hint \in Int
      /\ prev \in Nat
      /\ matchIndex[c.peer] \in Nat
      /\ matchIndex[c.peer] < prev
  BY HintedInt DEF IndexInv, TypeOK, NextAboveMatch, Call
<1>2. back \in Int /\ back <= prev
  BY <1>1
<1>3. NextOnFailure(c, ct, ci) = Larger(Larger(back, 1), matchIndex[c.peer] + 1)
  BY DEF NextOnFailure
<1>. QED  BY <1>1, <1>2, <1>3 DEF Larger

(* The same for every hint a refusal may carry. *)
LEMMA BackedOffBounds ==
    ASSUME IndexInv, ledTerm > 0, NEW c \in Call, NEW next \in BackedOff(c)
    PROVE  /\ next \in Nat
           /\ next > matchIndex[c.peer]
           /\ next <= nextIndex[c.peer]
<1>1. PICK ct \in 0..MaxTerm, ci \in 0..MaxIndex : next = NextOnFailure(c, ct, ci)
  BY DEF BackedOff
<1>2. ct \in Nat /\ ci \in Nat
  BY LeaderLogAssumptions
<1>. QED  BY <1>1, <1>2, BackoffBounds

(* A success never moves next_index back, and keeps it inside the log. *)
LEMMA SuccessBounds ==
    ASSUME IndexInv, NEW t \in Thread, calls[t] # NoCall
    PROVE  /\ calls[t] \in Call
           /\ NextOnSuccess(calls[t]) \in Nat
           /\ NextOnSuccess(calls[t]) >= nextIndex[calls[t].peer]
           /\ NextOnSuccess(calls[t]) >= 1
           /\ NextOnSuccess(calls[t]) <= LastIndex + 1
<1>. DEFINE c == calls[t]
<1>1. c \in Call
  BY DEF IndexInv, TypeOK
<1>2. /\ c.peer \in Peer /\ c.next \in Nat /\ c.len \in Nat
      /\ nextIndex[c.peer] \in Nat
      /\ LastIndex \in Nat
      /\ nextIndex[c.peer] <= LastIndex + 1
      /\ c.next >= 1
      /\ c.next + c.len <= LastIndex + 1
  BY <1>1 DEF IndexInv, TypeOK, NextAboveMatch, CallsInsideLog, Call, LastIndex
<1>3. Larger(c.next + c.len, 1) = c.next + c.len
  BY <1>2 DEF Larger
<1>. QED  BY <1>1, <1>2, <1>3 DEF NextOnSuccess, Larger

-----------------------------------------------------------------------------
(* IndexInv is inductive: one lemma per group of actions. *)

LEMMA InitIndexInv == Init => IndexInv
<1>. SUFFICES ASSUME Init PROVE IndexInv
  OBVIOUS
<1>1. /\ terms = <<>> /\ terms \in Seq(Nat) /\ Len(terms) = 0
      /\ tail = 1 /\ LastIndex = 0 /\ copy = NoCopy
  BY DEF Init, LastIndex
<1>2. /\ slotMap \in SUBSET (Nat \ {0})
      /\ calls \in [Thread -> Call \cup {NoCall}]
      /\ nextIndex \in [Peer -> Nat] /\ matchIndex \in [Peer -> Nat]
      /\ inflight \in [Peer -> BOOLEAN] /\ acked \in [Peer -> Nat]
  BY DEF Init
<1>3. /\ state \in {"Follower", "Candidate", "Leader"}
      /\ gcHasRun \in BOOLEAN /\ fresh \in BOOLEAN
      /\ stood \in BOOLEAN /\ rightful \in BOOLEAN
  BY Zenon DEF Init
<1>4. /\ term \in Nat /\ commitIndex \in Nat /\ gcUpTo \in Nat
      /\ ledTerm \in Nat /\ noopIndex \in Nat
      /\ oldest \in Nat \ {0} /\ lastApplied \in Nat \ {0} /\ tail \in Nat \ {0}
  BY DEF Init
<1>5. TypeOK
  BY <1>1, <1>2, <1>4, <1>3, Zenon DEF TypeOK
<1>6. NextAboveMatch /\ GcBehindNext /\ IndicesOrdered
  BY <1>1 DEF Init, NextAboveMatch, GcBehindNext, IndicesOrdered, LastIndex
<1>7. CallsInsideLog /\ RoleTerms /\ Aligned
  BY <1>1 DEF Init, CallsInsideLog, RoleTerms, Aligned
<1>. QED  BY <1>6, <1>7, <1>5 DEF IndexInv

(* An index bounded by another stays so when the other one grows. *)
LEMMA Raised ==
    ASSUME NEW a \in Nat, NEW b \in Nat, NEW c \in Nat, a <= b + 1, c >= b
    PROVE  a <= c + 1
OBVIOUS

(* Appending keeps the log a sequence of terms and lengthens it. *)
LEMMA AppendLength ==
    ASSUME TypeOK, NEW t \in Nat
    PROVE  /\ Append(terms, t) \in Seq(Nat)
           /\ Len(Append(terms, t)) = Len(terms) + 1
           /\ Len(terms) \in Nat
BY DEF TypeOK

(* So does a batch of n entries of the current term. *)
LEMMA BatchLength ==
    ASSUME TypeOK, NEW n \in Nat
    PROVE  /\ terms \o [i \in 1..n |-> term] \in Seq(Nat)
           /\ Len(terms \o [i \in 1..n |-> term]) = Len(terms) + n
<1>. DEFINE batch == [i \in 1..n |-> term]
<1>1. batch \in Seq(Nat) /\ Len(batch) = n
  BY DEF TypeOK
<1>. QED  BY <1>1 DEF TypeOK

LEMMA RoleSteps ==
    ASSUME IndexInv, Timeout \/ \E t \in 1..MaxTerm : StepDown(t)
    PROVE  IndexInv'
<1>1. /\ noopIndex' \in Nat /\ acked' \in [Peer -> Nat] /\ fresh' \in BOOLEAN
      /\ rightful' \in BOOLEAN /\ stood' \in BOOLEAN
      /\ UNCHANGED <<copy, logVars, peerVars, slotVars, ledTerm>>
  <2>1. CASE Timeout
    BY <2>1 DEF Timeout, ghostVars, IndexInv, TypeOK
  <2>2. CASE \E t \in 1..MaxTerm : StepDown(t)
    <3>1. /\ noopIndex' = 0 /\ acked' = [p \in Peer |-> 0] /\ fresh' = TRUE
          /\ rightful' = TRUE /\ stood' = stood
          /\ UNCHANGED <<copy, logVars, peerVars, slotVars, ledTerm>>
      BY <2>2 DEF StepDown
    <3>. QED  BY <3>1 DEF IndexInv, TypeOK
  <2>. QED  BY <2>1, <2>2
<1>2. UNCHANGED <<copy, terms, tail, oldest, commitIndex, lastApplied, nextIndex, matchIndex,
                  inflight, calls, slotMap, gcUpTo, gcHasRun, ledTerm>>
  BY <1>1 DEF logVars, peerVars, slotVars
<1>3. /\ state' \in {"Follower", "Candidate"}
      /\ term' \in Nat /\ term' >= term
      /\ state' = "Candidate" \/ stood' => term' > 0
  BY LeaderLogAssumptions DEF IndexInv, TypeOK, RoleTerms, Timeout, StepDown
<1>4. TypeOK'
  BY <1>1, <1>2, <1>3 DEF IndexInv, TypeOK
<1>5. NextAboveMatch' /\ GcBehindNext' /\ IndicesOrdered'
  BY <1>2, <1>3 DEF IndexInv, NextAboveMatch, GcBehindNext, IndicesOrdered, LastIndex
<1>6. CallsInsideLog' /\ RoleTerms'
  BY <1>2, <1>3 DEF IndexInv, CallsInsideLog, RoleTerms, LastIndex
<1>7. Aligned'
  <2>1. copy # NoCopy => copy.first = tail /\ copy.term <= term /\ copy.term \in Nat /\ term \in Nat
    BY DEF IndexInv, Aligned, TypeOK
  <2>. QED  BY <1>2, <1>3, <2>1 DEF IndexInv, Aligned, LastIndex
<1>. QED  BY <1>4, <1>5, <1>6, <1>7 DEF IndexInv

LEMMA BecomeLeaderStep ==
    ASSUME TimelyCopy, IndexInv, BecomeLeader
    PROVE  IndexInv'
<1>1. /\ terms' \in Seq(Nat) /\ Len(terms') = Len(terms) + 1 /\ Len(terms) \in Nat
      /\ LastIndex' = LastIndex + 1 /\ tail' \in Nat \ {0}
      /\ LastIndex \in Nat
  BY AppendLength DEF IndexInv, TypeOK, BecomeLeader, LastIndex
<1>0. term > 0 /\ copy' = NoCopy /\ rightful' \in BOOLEAN /\ fresh' \in BOOLEAN
  BY DEF IndexInv, RoleTerms, BecomeLeader
<1>2. lastApplied' \in Nat \ {0} /\ lastApplied' >= lastApplied
      /\ lastApplied' <= commitIndex + 1
  BY <1>1 DEF IndexInv, TypeOK, IndicesOrdered, BecomeLeader, AppliedThrough,
              Larger, Smaller
<1>7. /\ slotMap' \in SUBSET (Nat \ {0})
      /\ nextIndex' \in [Peer -> Nat]
      /\ matchIndex' \in [Peer -> Nat]
      /\ acked' \in [Peer -> Nat]
      /\ noopIndex' \in Nat
  BY <1>1 DEF IndexInv, TypeOK, BecomeLeader
<1>3. TypeOK'
  BY <1>0, <1>1, <1>2, <1>7 DEF IndexInv, TypeOK, BecomeLeader
<1>4. NextAboveMatch' /\ GcBehindNext'
  BY <1>1, <1>3 DEF IndexInv, TypeOK, NextAboveMatch, GcBehindNext, BecomeLeader
<1>5. IndicesOrdered'
  BY <1>1, <1>2 DEF IndexInv, TypeOK, IndicesOrdered, BecomeLeader
<1>6. CallsInsideLog' /\ RoleTerms'
  BY <1>0, <1>1, <1>3 DEF IndexInv, TypeOK, CallsInsideLog, RoleTerms, BecomeLeader, Call
<1>8. Aligned'
  BY <1>0, <1>1 DEF IndexInv, Aligned
<1>. QED  BY <1>3, <1>4, <1>5, <1>6, <1>8 DEF IndexInv

(* An entry of another leader, pushed at the end of the log. *)
LEMMA PushedStep ==
    ASSUME IndexInv, NEW t \in Nat, NEW c \in 0..MaxIndex, Pushed(tail, t, c), copy' = NoCopy,
           state # "Leader"
    PROVE  IndexInv'
<1>0. UNCHANGED <<state, term, stood, lastApplied, nextIndex, matchIndex, inflight, calls,
                  slotMap, gcUpTo, gcHasRun, ledTerm, noopIndex, rightful, acked, fresh>>
  BY DEF Pushed, peerVars, slotVars, ghostVars
<1>1. /\ terms' \in Seq(Nat) /\ Len(terms') = Len(terms) + 1 /\ Len(terms) \in Nat
      /\ LastIndex' = LastIndex + 1 /\ tail' \in Nat \ {0}
      /\ LastIndex \in Nat
  BY AppendLength DEF IndexInv, TypeOK, Pushed, LastIndex
<1>2. commitIndex' \in Nat /\ commitIndex' >= commitIndex /\ commitIndex' <= LastIndex'
  BY <1>1, LeaderLogAssumptions
     DEF IndexInv, TypeOK, IndicesOrdered, Pushed, CommitAfter, Smaller, LastIndex
<1>7. oldest' = oldest
  BY DEF Pushed, IndexInv, TypeOK
<1>3. TypeOK'
  BY <1>0, <1>1, <1>2, <1>7 DEF IndexInv, TypeOK
<1>4. NextAboveMatch' /\ GcBehindNext'
  BY <1>0, <1>1, <1>3 DEF IndexInv, TypeOK, NextAboveMatch, GcBehindNext
<1>5. IndicesOrdered'
  <2>1. oldest <= lastApplied /\ lastApplied <= commitIndex + 1
    BY DEF IndexInv, IndicesOrdered
  <2>2. oldest \in Nat /\ lastApplied \in Nat /\ commitIndex \in Nat
    BY DEF IndexInv, TypeOK
  <2>3. lastApplied <= commitIndex' + 1
    BY <1>2, <2>1, <2>2, Raised
  <2>. QED  BY <1>0, <1>2, <1>7, <2>1, <2>3 DEF IndicesOrdered
<1>6. CallsInsideLog' /\ RoleTerms'
  BY <1>0, <1>1, <1>3, SMTT(30) DEF IndexInv, TypeOK, CallsInsideLog, RoleTerms, Call
<1>8. Aligned'
  BY <1>1 DEF IndexInv, Aligned
<1>. QED  BY <1>3, <1>4, <1>5, <1>6, <1>8 DEF IndexInv

LEMMA FollowerStep ==
    ASSUME TimelyCopy, IndexInv, NEW c \in 0..MaxIndex, NEW t \in 1..MaxTerm,
           FollowerAppend(t, c) \/ FinishCopy(t, c)
    PROVE  IndexInv'
<1>1. t \in Nat
  BY LeaderLogAssumptions
<1>2. Pushed(tail, t, c) /\ copy' = NoCopy /\ state # "Leader"
  BY DEF FollowerAppend, FinishCopy, IndexInv, Aligned
<1>. QED  BY <1>1, <1>2, PushedStep

(* A heartbeat, and the steps of a copy that change nothing but the copy. *)
LEMMA FollowerRests ==
    ASSUME IndexInv, (\E c \in 0..MaxIndex : FollowerCommit(c)) \/ BeginCopy \/ CopyFails
    PROVE  IndexInv'
<1>1. UNCHANGED <<state, term, stood, terms, tail, oldest, lastApplied, nextIndex, matchIndex,
                  inflight, calls, slotMap, gcUpTo, gcHasRun, ledTerm, noopIndex, rightful,
                  acked, fresh>>
  BY DEF FollowerCommit, BeginCopy, CopyFails, logVars, peerVars, slotVars, ghostVars
<1>2. LastIndex' = LastIndex /\ LastIndex \in Nat
  BY <1>1 DEF LastIndex, IndexInv, TypeOK
<1>3. commitIndex' \in Nat /\ commitIndex' >= commitIndex /\ commitIndex' <= LastIndex
  <2>1. CASE \E c \in 0..MaxIndex : FollowerCommit(c)
    BY <1>2, <2>1, LeaderLogAssumptions
       DEF FollowerCommit, CommitAfter, Smaller, IndexInv, TypeOK, IndicesOrdered, LastIndex
  <2>2. CASE BeginCopy \/ CopyFails
    BY <2>2 DEF BeginCopy, CopyFails, logVars, IndexInv, TypeOK, IndicesOrdered
  <2>. QED  BY <2>1, <2>2
<1>4. /\ copy' \in [first : Nat, term : Nat] \cup {NoCopy}
      /\ copy' # NoCopy => copy'.first = tail /\ copy'.term <= term /\ state # "Leader"
  <2>1. CASE copy' \in {copy, NoCopy}
    BY <2>1 DEF IndexInv, TypeOK, Aligned
  <2>2. CASE BeginCopy
    BY <2>2 DEF BeginCopy, IndexInv, TypeOK
  <2>. QED  BY <2>1, <2>2 DEF FollowerCommit, CopyFails
<1>5. TypeOK'
  BY <1>1, <1>3, <1>4 DEF IndexInv, TypeOK
<1>6. NextAboveMatch' /\ GcBehindNext' /\ CallsInsideLog' /\ RoleTerms'
  BY <1>1, <1>2 DEF IndexInv, NextAboveMatch, GcBehindNext, CallsInsideLog, RoleTerms
<1>7. IndicesOrdered'
  <2>1. oldest <= lastApplied /\ lastApplied <= commitIndex + 1
    BY DEF IndexInv, IndicesOrdered
  <2>2. oldest \in Nat /\ lastApplied \in Nat /\ commitIndex \in Nat
    BY DEF IndexInv, TypeOK
  <2>3. lastApplied <= commitIndex' + 1
    BY <1>3, <2>1, <2>2, Raised
  <2>. QED  BY <1>1, <1>2, <1>3, <2>1, <2>3 DEF IndicesOrdered
<1>8. Aligned'
  BY <1>1, <1>2, <1>4 DEF IndexInv, Aligned
<1>. QED  BY <1>5, <1>6, <1>7, <1>8 DEF IndexInv

LEMMA ApplyStep ==
    ASSUME IndexInv, NEW n \in 1..MaxIndex, Apply(n)
    PROVE  IndexInv'
<1>1. /\ terms' \in Seq(Nat) /\ Len(terms') = Len(terms) + n /\ Len(terms) \in Nat
      /\ LastIndex' = LastIndex + n /\ tail' \in Nat \ {0}
      /\ LastIndex \in Nat
      /\ n \in Nat
  BY BatchLength, LeaderLogAssumptions DEF IndexInv, TypeOK, Apply, LastIndex
<1>2. slotMap' \in SUBSET (Nat \ {0})
  BY <1>1 DEF IndexInv, TypeOK, Apply
<1>3. TypeOK'
  BY <1>1, <1>2 DEF IndexInv, TypeOK, Apply, peerVars, ghostVars
<1>4. NextAboveMatch' /\ GcBehindNext'
  BY <1>1, <1>3 DEF IndexInv, TypeOK, NextAboveMatch, GcBehindNext, Apply,
                    peerVars, ghostVars
<1>5. IndicesOrdered'
  BY <1>1 DEF IndexInv, TypeOK, IndicesOrdered, Apply
<1>6. CallsInsideLog' /\ RoleTerms'
  BY <1>1, <1>3 DEF IndexInv, TypeOK, CallsInsideLog, RoleTerms, Apply,
                    peerVars, ghostVars, Call
<1>7. Aligned'
  BY <1>1 DEF IndexInv, Aligned, Apply
<1>. QED  BY <1>3, <1>4, <1>5, <1>6, <1>7 DEF IndexInv

LEMMA ApplyPersistFailsStep ==
    ASSUME IndexInv, NEW n \in 1..MaxIndex, ApplyPersistFails(n)
    PROVE  IndexInv'
<1>2. LastIndex \in Nat /\ n \in Nat
  BY LeaderLogAssumptions DEF IndexInv, TypeOK, LastIndex
<1>1. slotMap' \in SUBSET (Nat \ {0})
  BY <1>2 DEF IndexInv, TypeOK, ApplyPersistFails
<1>. QED
  BY <1>1 DEF IndexInv, TypeOK, NextAboveMatch, GcBehindNext, IndicesOrdered,
              CallsInsideLog, RoleTerms, Aligned, LastIndex, ApplyPersistFails,
              logVars, peerVars, ghostVars

-----------------------------------------------------------------------------
(* Lock B builds a request inside the log. *)
LEMMA LockBStep ==
    ASSUME IndexInv, NEW t \in Thread, NEW p \in Peer, LockB(t, p)
    PROVE  IndexInv'
<1>. DEFINE next == Smaller(nextIndex[p], LastIndex + 1)
<1>1. /\ ledTerm > 0
      /\ nextIndex' = [nextIndex EXCEPT ![p] = next]
      /\ UNCHANGED <<state, term, stood, copy, terms, tail, oldest, commitIndex, lastApplied, matchIndex,
                     slotMap, gcUpTo, gcHasRun, ledTerm, noopIndex, rightful, acked, fresh>>
  BY DEF LockB, logVars, slotVars, ghostVars
<1>2. /\ LastIndex \in Nat /\ LastIndex' = LastIndex
      /\ nextIndex[p] \in Nat /\ matchIndex[p] \in Nat
      /\ matchIndex[p] < nextIndex[p]
      /\ nextIndex[p] <= LastIndex + 1
  BY <1>1 DEF IndexInv, TypeOK, NextAboveMatch, LastIndex
<1>3. next = nextIndex[p]
  BY <1>2 DEF Smaller
<1>4. nextIndex' = nextIndex
  BY <1>1, <1>3 DEF IndexInv, TypeOK
<1>5. PICK len \in 0..Smaller(LastIndex + 1 - next, MaxBatch) :
        /\ calls' = [calls EXCEPT ![t] = [peer |-> p, next |-> next,
                                          len |-> len, term |-> term]]
        /\ inflight' = [inflight EXCEPT ![p] = @ \/ len > 0]
  BY DEF LockB
<1>6. len \in Nat /\ next \in Nat /\ next >= 1 /\ next + len <= LastIndex + 1
  BY <1>2, <1>3, LeaderLogAssumptions DEF Smaller
<1>. DEFINE c == [peer |-> p, next |-> next, len |-> len, term |-> term]
<1>7. c \in Call /\ c.next = next /\ c.len = len
  BY <1>6 DEF Call, IndexInv, TypeOK
<1>8. calls' = [calls EXCEPT ![t] = c]
  BY <1>5
<1>. HIDE DEF c, next
<1>9. calls' \in [Thread -> Call \cup {NoCall}]
  BY <1>7, <1>8 DEF IndexInv, TypeOK
<1>10. inflight' \in [Peer -> BOOLEAN]
  BY <1>5 DEF IndexInv, TypeOK
<1>11. TypeOK'
  BY <1>1, <1>4, <1>9, <1>10 DEF IndexInv, TypeOK
<1>12. NextAboveMatch' /\ GcBehindNext' /\ IndicesOrdered' /\ RoleTerms' /\ Aligned'
  BY <1>1, <1>2, <1>4 DEF IndexInv, NextAboveMatch, GcBehindNext, IndicesOrdered,
                          RoleTerms, Aligned
<1>13. CallsInsideLog'
  <2>. SUFFICES ASSUME NEW u \in Thread, calls'[u] # NoCall
                PROVE  /\ ledTerm' > 0
                       /\ calls'[u].next >= 1
                       /\ calls'[u].next + calls'[u].len <= LastIndex' + 1
    BY DEF CallsInsideLog
  <2>1. CASE u = t
    <3>1. calls'[u] = c
      BY <1>8, <2>1 DEF IndexInv, TypeOK
    <3>. QED  BY <1>1, <1>2, <1>6, <1>7, <3>1
  <2>2. CASE u # t
    <3>1. calls'[u] = calls[u]
      BY <1>8, <2>2 DEF IndexInv, TypeOK
    <3>. QED  BY <1>1, <1>2, <3>1 DEF IndexInv, CallsInsideLog
  <2>. QED  BY <2>1, <2>2
<1>. QED  BY <1>11, <1>12, <1>13 DEF IndexInv

LEMMA LockBSkipsStep ==
    ASSUME IndexInv, NEW p \in Peer, LockBSkips(p)
    PROVE  IndexInv'
<1>1. UNCHANGED <<state, term, stood, copy, terms, tail, oldest, commitIndex, lastApplied, matchIndex,
                  inflight, calls, slotMap, gcUpTo, gcHasRun, ledTerm, noopIndex, rightful, acked, fresh>>
  BY DEF LockBSkips, logVars, slotVars, ghostVars
<1>2. Smaller(nextIndex[p], LastIndex + 1) = nextIndex[p]
  BY DEF LockBSkips, IndexInv, TypeOK, NextAboveMatch, LastIndex, Smaller
<1>3. nextIndex' = nextIndex
  BY <1>2 DEF LockBSkips, IndexInv, TypeOK
<1>. QED
  BY <1>1, <1>3 DEF IndexInv, TypeOK, NextAboveMatch, GcBehindNext, IndicesOrdered,
                    CallsInsideLog, RoleTerms, Aligned, LastIndex

(* Every Lock C ends its call and leaves the other calls alone. *)
LEMMA EndCallFacts ==
    ASSUME IndexInv, NEW t \in Thread, EndCall(t)
    PROVE  /\ calls[t] \in Call
           /\ calls[t].peer \in Peer
           /\ ledTerm > 0
           /\ calls' \in [Thread -> Call \cup {NoCall}]
           /\ \A u \in Thread : calls'[u] # NoCall => u # t /\ calls'[u] = calls[u]
           /\ inflight' \in [Peer -> BOOLEAN]
<1>1. calls[t] \in Call
  BY DEF EndCall, IndexInv, TypeOK
<1>2. calls[t].peer \in Peer
  BY <1>1 DEF Call
<1>3. ledTerm > 0
  BY DEF EndCall, IndexInv, CallsInsideLog
<1>4. /\ calls' \in [Thread -> Call \cup {NoCall}]
      /\ \A u \in Thread : calls'[u] # NoCall => u # t /\ calls'[u] = calls[u]
  BY DEF EndCall, IndexInv, TypeOK
<1>5. inflight' \in [Peer -> BOOLEAN]
  BY DEF EndCall, IndexInv, TypeOK
<1>. QED  BY <1>1, <1>2, <1>3, <1>4, <1>5

LEMMA CallDroppedStep ==
    ASSUME IndexInv, NEW t \in Thread, CallDropped(t)
    PROVE  IndexInv'
<1>1. UNCHANGED <<state, term, stood, copy, terms, tail, oldest, commitIndex, lastApplied, nextIndex,
                  matchIndex, slotMap, gcUpTo, gcHasRun, ledTerm, noopIndex, rightful, acked, fresh>>
  BY DEF CallDropped, logVars, slotVars, ghostVars
<1>2. /\ calls' \in [Thread -> Call \cup {NoCall}]
      /\ \A u \in Thread : calls'[u] # NoCall => u # t /\ calls'[u] = calls[u]
      /\ inflight' \in [Peer -> BOOLEAN]
  BY EndCallFacts DEF CallDropped
<1>3. TypeOK' /\ NextAboveMatch' /\ GcBehindNext' /\ IndicesOrdered' /\ RoleTerms' /\ Aligned'
  BY <1>1, <1>2 DEF IndexInv, TypeOK, NextAboveMatch, GcBehindNext, IndicesOrdered,
                    RoleTerms, Aligned, LastIndex
<1>4. CallsInsideLog'
  BY <1>1, <1>2 DEF IndexInv, CallsInsideLog, LastIndex
<1>. QED  BY <1>3, <1>4 DEF IndexInv

LEMMA ReplySuccessStep ==
    ASSUME IndexInv, NEW t \in Thread, ReplySuccess(t)
    PROVE  IndexInv'
<1>. DEFINE c == calls[t]
            next == NextOnSuccess(c)
<1>1. /\ UNCHANGED <<state, term, stood, copy, terms, tail, oldest, commitIndex, lastApplied,
                     slotMap, gcUpTo, gcHasRun, ledTerm, noopIndex, rightful, fresh>>
      /\ nextIndex' = [nextIndex EXCEPT ![c.peer] = next]
      /\ matchIndex' = [matchIndex EXCEPT ![c.peer] = next - 1]
      /\ EndCall(t)
  BY DEF ReplySuccess, logVars, slotVars
<1>2. /\ c \in Call
      /\ c.peer \in Peer
      /\ ledTerm > 0
      /\ calls' \in [Thread -> Call \cup {NoCall}]
      /\ \A u \in Thread : calls'[u] # NoCall => u # t /\ calls'[u] = calls[u]
      /\ inflight' \in [Peer -> BOOLEAN]
  BY <1>1, EndCallFacts
<1>3. /\ next \in Nat
      /\ next >= nextIndex[c.peer]
      /\ next >= 1
      /\ next <= LastIndex + 1
  BY <1>1, SuccessBounds DEF EndCall
<1>4. acked' \in [Peer -> Nat]
  <2>1. c.next \in Nat /\ c.len \in Nat /\ c.next >= 1
    BY <1>1, <1>2 DEF Call, IndexInv, CallsInsideLog, EndCall
  <2>2. Larger(acked[c.peer], c.next + c.len - 1) \in Nat
    BY <1>2, <2>1 DEF Larger, IndexInv, TypeOK
  <2>. HIDE DEF c
  <2>3. acked' = [acked EXCEPT ![c.peer] = Larger(acked[c.peer], c.next + c.len - 1)]
        \/ acked' = acked
    BY DEF ReplySuccess, c
  <2>. QED  BY <1>2, <2>2, <2>3 DEF IndexInv, TypeOK
<1>. HIDE DEF c, next
<1>5. /\ nextIndex' \in [Peer -> Nat] /\ matchIndex' \in [Peer -> Nat]
      /\ nextIndex'[c.peer] = next /\ matchIndex'[c.peer] = next - 1
      /\ \A p \in Peer : p # c.peer => /\ nextIndex'[p] = nextIndex[p]
                                       /\ matchIndex'[p] = matchIndex[p]
  BY <1>1, <1>2, <1>3 DEF IndexInv, TypeOK
<1>6. TypeOK'
  BY <1>1, <1>2, <1>4, <1>5 DEF IndexInv, TypeOK
<1>7. LastIndex' = LastIndex /\ LastIndex \in Nat
  BY <1>1 DEF LastIndex, IndexInv, TypeOK
<1>8. NextAboveMatch'
  BY <1>1, <1>2, <1>3, <1>5, <1>7 DEF IndexInv, TypeOK, NextAboveMatch
<1>9. GcBehindNext'
  <2>. SUFFICES ASSUME state = "Leader", NEW p \in Peer
                PROVE  gcUpTo <= matchIndex'[p] /\ gcUpTo < nextIndex'[p]
    BY <1>1 DEF GcBehindNext
  <2>1. gcUpTo \in Nat /\ gcUpTo <= matchIndex[p] /\ gcUpTo < nextIndex[p]
        /\ nextIndex[p] \in Nat
    BY DEF IndexInv, TypeOK, GcBehindNext
  <2>. QED  BY <1>3, <1>5, <2>1
<1>10. IndicesOrdered' /\ RoleTerms' /\ Aligned'
  BY <1>1, <1>7 DEF IndexInv, IndicesOrdered, RoleTerms, Aligned
<1>11. CallsInsideLog'
  BY <1>1, <1>2, <1>7 DEF IndexInv, CallsInsideLog
<1>. QED  BY <1>6, <1>8, <1>9, <1>10, <1>11 DEF IndexInv

LEMMA ReplyFailureStep ==
    ASSUME IndexInv, NEW t \in Thread, ReplyFailure(t)
    PROVE  IndexInv'
<1>. DEFINE c == calls[t]
<1>1. PICK next \in BackedOff(c) :
      /\ UNCHANGED <<state, term, stood, copy, terms, tail, oldest, commitIndex, lastApplied, matchIndex,
                     slotMap, gcUpTo, gcHasRun, ledTerm, noopIndex, rightful, acked, fresh>>
      /\ nextIndex' = [nextIndex EXCEPT ![c.peer] = next]
      /\ EndCall(t)
  BY DEF ReplyFailure, logVars, slotVars, ghostVars
<1>2. /\ c \in Call
      /\ c.peer \in Peer
      /\ ledTerm > 0
      /\ calls' \in [Thread -> Call \cup {NoCall}]
      /\ \A u \in Thread : calls'[u] # NoCall => u # t /\ calls'[u] = calls[u]
      /\ inflight' \in [Peer -> BOOLEAN]
  BY <1>1, EndCallFacts
<1>4. next \in Nat /\ next > matchIndex[c.peer] /\ next <= nextIndex[c.peer]
  BY <1>2, BackedOffBounds
<1>. HIDE DEF c
<1>5. /\ nextIndex' \in [Peer -> Nat]
      /\ nextIndex'[c.peer] = next
      /\ \A p \in Peer : p # c.peer => nextIndex'[p] = nextIndex[p]
  BY <1>1, <1>2, <1>4 DEF IndexInv, TypeOK
<1>6. TypeOK'
  BY <1>1, <1>2, <1>5 DEF IndexInv, TypeOK
<1>7. LastIndex' = LastIndex /\ LastIndex \in Nat
  BY <1>1 DEF LastIndex, IndexInv, TypeOK
<1>8. NextAboveMatch'
  <2>. SUFFICES ASSUME NEW p \in Peer
                PROVE  matchIndex[p] < nextIndex'[p] /\ nextIndex'[p] <= LastIndex + 1
    BY <1>1, <1>7 DEF NextAboveMatch
  <2>1. /\ matchIndex[p] < nextIndex[p] /\ nextIndex[p] <= LastIndex + 1
        /\ matchIndex[p] \in Nat /\ nextIndex[p] \in Nat
    BY <1>2 DEF IndexInv, TypeOK, NextAboveMatch
  <2>. QED  BY <1>4, <1>5, <1>7, <2>1
<1>9. GcBehindNext'
  <2>. SUFFICES ASSUME state = "Leader", NEW p \in Peer
                PROVE  gcUpTo <= matchIndex[p] /\ gcUpTo < nextIndex'[p]
    BY <1>1 DEF GcBehindNext
  <2>1. gcUpTo \in Nat /\ gcUpTo <= matchIndex[p] /\ gcUpTo < nextIndex[p]
        /\ matchIndex[p] \in Nat
    BY DEF IndexInv, TypeOK, GcBehindNext
  <2>. QED  BY <1>4, <1>5, <2>1
<1>10. IndicesOrdered' /\ RoleTerms' /\ Aligned'
  BY <1>1, <1>7 DEF IndexInv, IndicesOrdered, RoleTerms, Aligned
<1>11. CallsInsideLog'
  BY <1>1, <1>2, <1>7 DEF IndexInv, CallsInsideLog
<1>. QED  BY <1>6, <1>8, <1>9, <1>10, <1>11 DEF IndexInv

(* Committing and applying stay inside the log. *)
LEMMA CommitStep ==
    ASSUME IndexInv, AdvanceCommitIndex \/ ApplyPending
    PROVE  IndexInv'
<1>1. UNCHANGED <<state, term, stood, copy, terms, tail, oldest, nextIndex, matchIndex, inflight, calls,
                  slotMap, gcUpTo, gcHasRun, ledTerm, noopIndex, rightful, acked, fresh>>
  BY DEF AdvanceCommitIndex, ApplyPending, peerVars, slotVars, ghostVars
<1>2. LastIndex' = LastIndex /\ LastIndex \in Nat
  BY <1>1 DEF LastIndex, IndexInv, TypeOK
<1>3. /\ commitIndex' \in Nat /\ commitIndex' <= LastIndex
      /\ lastApplied' \in Nat \ {0}
      /\ oldest <= lastApplied' /\ lastApplied' <= commitIndex' + 1
  <2>1. CASE AdvanceCommitIndex
    BY <1>2, <2>1 DEF AdvanceCommitIndex, IndexInv, TypeOK, IndicesOrdered
  <2>2. CASE ApplyPending
    BY <1>2, <2>2 DEF ApplyPending, AppliedThrough, Larger, Smaller,
                      IndexInv, TypeOK, IndicesOrdered
  <2>. QED  BY <2>1, <2>2
<1>4. TypeOK'
  BY <1>1, <1>3 DEF IndexInv, TypeOK
<1>5. NextAboveMatch' /\ GcBehindNext' /\ CallsInsideLog' /\ RoleTerms' /\ Aligned'
  BY <1>1, <1>2 DEF IndexInv, NextAboveMatch, GcBehindNext, CallsInsideLog, RoleTerms, Aligned
<1>6. IndicesOrdered'
  BY <1>1, <1>2, <1>3 DEF IndicesOrdered
<1>. QED  BY <1>4, <1>5, <1>6 DEF IndexInv

(* The garbage collector stays behind every match_index. *)
LEMMA DoSlotGcStep ==
    ASSUME IndexInv, DoSlotGc
    PROVE  IndexInv'
<1>1. /\ UNCHANGED <<state, term, stood, copy, terms, tail, commitIndex, lastApplied, nextIndex, matchIndex,
                     inflight, calls, ledTerm, noopIndex, rightful, acked, fresh>>
      /\ gcHasRun' = TRUE
      /\ state = "Leader"
  BY DEF DoSlotGc, peerVars, ghostVars
<1>2. LastIndex' = LastIndex /\ LastIndex \in Nat
  BY <1>1 DEF LastIndex, IndexInv, TypeOK
<1>3. PICK m \in 0..LastIndex : /\ IsMinMatch(m)
                                /\ slotMap' = slotMap \ (gcUpTo + 1..m)
                                /\ gcUpTo' = m
                                /\ oldest' = TrimmedOldest(m)
  BY DEF DoSlotGc
<1>4. m \in Nat
  BY <1>2
<1>5. /\ oldest' \in Nat \ {0} /\ oldest' <= lastApplied
  BY <1>2, <1>3, <1>4, LeaderLogAssumptions
     DEF TrimmedOldest, Smaller, IndexInv, TypeOK, IndicesOrdered
<1>6. slotMap' \in SUBSET (Nat \ {0})
  BY <1>3 DEF IndexInv, TypeOK
<1>7. TypeOK'
  BY <1>1, <1>3, <1>4, <1>5, <1>6 DEF IndexInv, TypeOK
<1>8. NextAboveMatch' /\ CallsInsideLog' /\ RoleTerms' /\ Aligned'
  BY <1>1, <1>2 DEF IndexInv, NextAboveMatch, CallsInsideLog, RoleTerms, Aligned
<1>9. GcBehindNext'
  <2>. SUFFICES ASSUME NEW p \in Peer
                PROVE  m <= matchIndex[p] /\ m < nextIndex[p]
    BY <1>1, <1>3 DEF GcBehindNext
  <2>1. /\ matchIndex[p] < nextIndex[p]
        /\ matchIndex[p] \in Nat /\ nextIndex[p] \in Nat
    BY <1>1 DEF IndexInv, TypeOK, NextAboveMatch, RoleTerms
  <2>. QED  BY <1>3, <1>4, <2>1 DEF IsMinMatch
<1>10. IndicesOrdered'
  BY <1>1, <1>2, <1>5 DEF IndexInv, IndicesOrdered
<1>. QED  BY <1>7, <1>8, <1>9, <1>10 DEF IndexInv

LEMMA NextIndexInv ==
    ASSUME TimelyCopy, IndexInv, [Next]_vars
    PROVE  IndexInv'
<1>1. CASE Timeout \/ \E t \in 1..MaxTerm : StepDown(t)
  BY <1>1, RoleSteps
<1>2. CASE BecomeLeader
  BY <1>2, BecomeLeaderStep
<1>3. CASE \E t \in 1..MaxTerm, c \in 0..MaxIndex : FollowerAppend(t, c) \/ FinishCopy(t, c)
  BY <1>3, FollowerStep
<1>13. CASE (\E c \in 0..MaxIndex : FollowerCommit(c)) \/ BeginCopy \/ CopyFails
  BY <1>13, FollowerRests
<1>4. CASE \E n \in 1..MaxIndex : Apply(n) \/ ApplyPersistFails(n)
  BY <1>4, ApplyStep, ApplyPersistFailsStep
<1>5. CASE \E t \in Thread, p \in Peer : LockB(t, p)
  BY <1>5, LockBStep
<1>6. CASE \E p \in Peer : LockBSkips(p)
  BY <1>6, LockBSkipsStep
<1>7. CASE \E t \in Thread : CallDropped(t)
  BY <1>7, CallDroppedStep
<1>8. CASE \E t \in Thread : ReplySuccess(t)
  BY <1>8, ReplySuccessStep
<1>9. CASE \E t \in Thread : ReplyFailure(t)
  BY <1>9, ReplyFailureStep
<1>10. CASE AdvanceCommitIndex \/ ApplyPending
  BY <1>10, CommitStep
<1>11. CASE DoSlotGc
  BY <1>11, DoSlotGcStep
<1>12. CASE UNCHANGED vars
  <2>1. UNCHANGED <<state, term, stood, copy, terms, tail, oldest, commitIndex, lastApplied, nextIndex,
                    matchIndex, inflight, calls, slotMap, gcUpTo, gcHasRun, ledTerm,
                    noopIndex, rightful, acked, fresh>>
    BY <1>12 DEF vars, logVars, peerVars, slotVars, ghostVars
  <2>. QED
    BY <2>1 DEF IndexInv, TypeOK, NextAboveMatch, GcBehindNext, IndicesOrdered,
                CallsInsideLog, RoleTerms, Aligned, LastIndex
<1>. QED
  BY <1>1, <1>2, <1>3, <1>4, <1>5, <1>6, <1>7, <1>8, <1>9, <1>10, <1>11, <1>12, <1>13 DEF Next

-----------------------------------------------------------------------------
(* IndexInv, and with it type correctness, the order of next_index and     *)
(* match_index, the bound on garbage collection, and the order of the log  *)
(* indices, hold for every cluster, any number of worker threads and any   *)
(* replies in any order, also replies to requests of earlier leaderships.  *)
THEOREM IndexInvariant == TimelyCopy => (Spec => []IndexInv)
<1>1. ASSUME TimelyCopy
      PROVE  Spec => []IndexInv
  <2>1. IndexInv /\ [Next]_vars => IndexInv'
    BY <1>1, NextIndexInv
  <2>. QED  BY <2>1, InitIndexInv, PTL DEF Spec
<1>. QED  BY <1>1

(* No index leaves the natural numbers, so no uint64_t of the code wraps   *)
(* below zero: in the back-off, in the clamp, in the trimming.             *)
COROLLARY TypeCorrect == TimelyCopy => (Spec => []TypeOK)
<1>1. ASSUME TimelyCopy
      PROVE  Spec => []TypeOK
  <2>1. IndexInv => TypeOK
    BY DEF IndexInv
  <2>2. Spec => []IndexInv
    BY <1>1, IndexInvariant
  <2>. QED  BY <2>1, <2>2, PTL
<1>. QED  BY <1>1

(* next_index stays above match_index and inside the log. *)
COROLLARY NextStaysAboveMatch == TimelyCopy => (Spec => []NextAboveMatch)
<1>1. ASSUME TimelyCopy
      PROVE  Spec => []NextAboveMatch
  <2>1. IndexInv => NextAboveMatch
    BY DEF IndexInv
  <2>2. Spec => []IndexInv
    BY <1>1, IndexInvariant
  <2>. QED  BY <2>1, <2>2, PTL
<1>. QED  BY <1>1

(* The collector stays behind every peer. *)
COROLLARY GcStaysBehind == TimelyCopy => (Spec => []GcBehindNext)
<1>1. ASSUME TimelyCopy
      PROVE  Spec => []GcBehindNext
  <2>1. IndexInv => GcBehindNext
    BY DEF IndexInv
  <2>2. Spec => []IndexInv
    BY <1>1, IndexInvariant
  <2>. QED  BY <2>1, <2>2, PTL
<1>. QED  BY <1>1

(* Trimmed, applied, committed and present entries keep their order. *)
COROLLARY IndicesStayOrdered == TimelyCopy => (Spec => []IndicesOrdered)
<1>1. ASSUME TimelyCopy
      PROVE  Spec => []IndicesOrdered
  <2>1. IndexInv => IndicesOrdered
    BY DEF IndexInv
  <2>2. Spec => []IndexInv
    BY <1>1, IndexInvariant
  <2>. QED  BY <2>1, <2>2, PTL
<1>. QED  BY <1>1

-----------------------------------------------------------------------------
(* What has been committed, applied or credited is not taken back.         *)

(* Applying moves last_applied forward only. *)
LEMMA AppliedThroughUp ==
    ASSUME IndexInv
    PROVE  AppliedThrough >= lastApplied
BY DEF IndexInv, TypeOK, AppliedThrough, Larger, Smaller, LastIndex

(* commit_index and last_applied never decrease, in any role, and during a *)
(* leadership no reply, late or out of order, lowers a match_index.        *)
THEOREM NothingIsTakenBack == TimelyCopy => (Spec => NothingTakenBack)
<1>. DEFINE Kept == /\ commitIndex' >= commitIndex
                    /\ lastApplied' >= lastApplied
                    /\ state = "Leader" /\ state' = "Leader" =>
                          \A p \in Peer : matchIndex'[p] >= matchIndex[p]
<1>1. ASSUME TimelyCopy, IndexInv, Next PROVE Kept
  <2>. /\ commitIndex \in Nat /\ lastApplied \in Nat
       /\ matchIndex \in [Peer -> Nat] /\ nextIndex \in [Peer -> Nat]
    BY <1>1 DEF IndexInv, TypeOK
  <2>1. CASE \/ Timeout \/ (\E t \in 1..MaxTerm : StepDown(t))
             \/ (\E n \in 1..MaxIndex : Apply(n) \/ ApplyPersistFails(n))
             \/ (\E t \in Thread, p \in Peer : LockB(t, p))
             \/ (\E p \in Peer : LockBSkips(p))
             \/ (\E t \in Thread : CallDropped(t))
             \/ (\E t \in Thread : ReplyFailure(t))
             \/ DoSlotGc \/ BeginCopy \/ CopyFails
    <3>1. UNCHANGED <<commitIndex, lastApplied, matchIndex>>
      BY <2>1 DEF BeginCopy, CopyFails, Timeout, StepDown, Apply, ApplyPersistFails, LockB, LockBSkips,
                  CallDropped, ReplyFailure, DoSlotGc, logVars, peerVars
    <3>. QED  BY <3>1
  <2>2. CASE BecomeLeader
    <3>1. state # "Leader"
      BY <1>1, <2>2 DEF BecomeLeader, IndexInv, RoleTerms
    <3>. QED  BY <1>1, <2>2, <3>1, AppliedThroughUp DEF BecomeLeader
  <2>3. CASE \E t \in 1..MaxTerm, c \in 0..MaxIndex : FollowerAppend(t, c) \/ FinishCopy(t, c)
    <3>1. PICK t \in 1..MaxTerm, c \in 0..MaxIndex : Pushed(tail, t, c)
      BY <1>1, <2>3 DEF FollowerAppend, FinishCopy, IndexInv, Aligned
    <3>2. commitIndex' >= commitIndex
      BY <1>1, <3>1, LeaderLogAssumptions
         DEF Pushed, CommitAfter, Smaller, IndexInv, TypeOK, IndicesOrdered, LastIndex
    <3>3. UNCHANGED <<lastApplied, matchIndex>>
      BY <3>1 DEF Pushed, peerVars
    <3>. QED  BY <3>2, <3>3
  <2>7. CASE \E c \in 0..MaxIndex : FollowerCommit(c)
    <3>1. commitIndex' >= commitIndex
      BY <1>1, <2>7, LeaderLogAssumptions
         DEF FollowerCommit, CommitAfter, Smaller, IndexInv, TypeOK, IndicesOrdered, LastIndex
    <3>2. UNCHANGED <<lastApplied, matchIndex>>
      BY <2>7 DEF FollowerCommit, peerVars
    <3>. QED  BY <3>1, <3>2
  <2>4. CASE \E t \in Thread : ReplySuccess(t)
    <3>1. PICK t \in Thread : ReplySuccess(t)
      BY <2>4
    <3>. DEFINE c == calls[t]
    <3>2. UNCHANGED <<commitIndex, lastApplied>>
      BY <3>1 DEF ReplySuccess, logVars
    <3>3. /\ c.peer \in Peer /\ ledTerm > 0
          /\ NextOnSuccess(c) \in Nat
          /\ NextOnSuccess(c) >= nextIndex[c.peer]
      BY <1>1, <3>1, EndCallFacts, SuccessBounds DEF ReplySuccess, EndCall
    <3>4. matchIndex[c.peer] < nextIndex[c.peer]
      BY <1>1, <3>3 DEF IndexInv, NextAboveMatch
    <3>5. matchIndex' = [matchIndex EXCEPT ![c.peer] = NextOnSuccess(c) - 1]
      BY <3>1 DEF ReplySuccess
    <3>. HIDE DEF c
    <3>. QED  BY <3>2, <3>3, <3>4, <3>5
  <2>5. CASE AdvanceCommitIndex
    BY <2>5 DEF AdvanceCommitIndex, peerVars
  <2>6. CASE ApplyPending
    BY <1>1, <2>6, AppliedThroughUp DEF ApplyPending, peerVars
  <2>. QED
    BY <1>1, <2>1, <2>2, <2>3, <2>4, <2>5, <2>6, <2>7 DEF Next
<1>2. ASSUME TimelyCopy
      PROVE  Spec => NothingTakenBack
  <2>1. IndexInv /\ [Next]_vars => [Kept]_vars
    BY <1>1, <1>2
  <2>2. Spec => []IndexInv
    BY <1>2, IndexInvariant
  <2>. QED  BY <2>1, <2>2, PTL DEF Spec, NothingTakenBack
<1>. QED  BY <1>2

-----------------------------------------------------------------------------
(* Slot records                                                            *)

(* Every entry of this leadership above the collector's mark has a record. *)
SlotsKept ==
    /\ state = "Leader" => /\ gcUpTo <= LastIndex
                           /\ noopIndex >= 1
                           /\ \A i \in noopIndex..LastIndex : i > gcUpTo => i \in slotMap

LEMMA SlotsKeptStep ==
    ASSUME IndexInv, SlotsKept, [Next]_vars
    PROVE  SlotsKept'
<1>. /\ LastIndex \in Nat /\ gcUpTo \in Nat /\ noopIndex \in Nat
  BY DEF IndexInv, TypeOK, LastIndex
<1>1. CASE \/ (\E t \in Thread, p \in Peer : LockB(t, p))
           \/ (\E p \in Peer : LockBSkips(p))
           \/ (\E t \in Thread : CallDropped(t) \/ ReplySuccess(t))
           \/ (\E t \in Thread : ReplyFailure(t))
           \/ AdvanceCommitIndex
           \/ ApplyPending
           \/ BeginCopy \/ CopyFails \/ (\E c \in 0..MaxIndex : FollowerCommit(c))
           \/ UNCHANGED vars
  <2>1. UNCHANGED <<state, tail, slotMap, gcUpTo, noopIndex>>
    BY <1>1 DEF BeginCopy, CopyFails, FollowerCommit, LockB, LockBSkips, CallDropped, ReplySuccess, ReplyFailure,
                AdvanceCommitIndex, ApplyPending, vars, logVars, slotVars, ghostVars
  <2>. QED  BY <2>1 DEF SlotsKept, LastIndex
<1>2. CASE Timeout \/ (\E t \in 1..MaxTerm : StepDown(t))
  BY <1>2 DEF Timeout, StepDown, SlotsKept
<1>3. CASE \E t \in 1..MaxTerm, c \in 0..MaxIndex : FollowerAppend(t, c) \/ FinishCopy(t, c)
  <2>1. state # "Leader" /\ state' = state
    BY <1>3 DEF FollowerAppend, FinishCopy, Pushed, IndexInv, Aligned
  <2>. QED  BY <2>1 DEF SlotsKept
<1>4. CASE BecomeLeader
  <2>1. LastIndex' = LastIndex + 1
    BY <1>4 DEF BecomeLeader, IndexInv, TypeOK, LastIndex
  <2>. QED  BY <1>4, <2>1 DEF BecomeLeader, SlotsKept
<1>5. CASE \E n \in 1..MaxIndex : Apply(n)
  <2>1. PICK n \in 1..MaxIndex : Apply(n)
    BY <1>5
  <2>2. n \in Nat /\ LastIndex' = LastIndex + n
    BY <2>1, LeaderLogAssumptions DEF Apply, IndexInv, TypeOK, LastIndex
  <2>3. /\ slotMap' = slotMap \cup LastIndex + 1..LastIndex + n
        /\ UNCHANGED <<state, gcUpTo, noopIndex>>
        /\ state = "Leader"
    BY <2>1 DEF Apply, ghostVars
  <2>. QED  BY <2>2, <2>3 DEF SlotsKept
<1>6. CASE \E n \in 1..MaxIndex : ApplyPersistFails(n)
  <2>1. UNCHANGED <<state, gcUpTo, noopIndex, tail>> /\ slotMap \subseteq slotMap'
    BY <1>6 DEF ApplyPersistFails, logVars, ghostVars
  <2>. QED  BY <2>1 DEF SlotsKept, LastIndex
<1>7. CASE DoSlotGc
  <2>1. PICK m \in 0..LastIndex : /\ IsMinMatch(m)
                                  /\ slotMap' = slotMap \ (gcUpTo + 1..m)
                                  /\ gcUpTo' = m
    BY <1>7 DEF DoSlotGc
  <2>2. state = "Leader" /\ UNCHANGED <<state, tail, noopIndex>>
    BY <1>7 DEF DoSlotGc, ghostVars
  <2>3. gcUpTo <= m
    BY <2>1, <2>2 DEF IsMinMatch, IndexInv, TypeOK, GcBehindNext, SlotsKept
  <2>4. LastIndex' = LastIndex
    BY <2>2 DEF LastIndex
  <2>. QED  BY <2>1, <2>2, <2>3, <2>4 DEF SlotsKept
<1>. QED
  BY <1>1, <1>2, <1>3, <1>4, <1>5, <1>6, <1>7 DEF Next

(* An entry of this leadership that some peer still lacks has its slot     *)
(* record, so Lock B can send it: the collector never strands a peer.  A   *)
(* promotion on a stale reading of the state does not change that.         *)
THEOREM UnmatchedSlotsAreKept == TimelyCopy => (Spec => []UnmatchedSlotsKept)
<1>1. Init => SlotsKept
  BY DEF Init, SlotsKept
<1>2. IndexInv /\ SlotsKept => UnmatchedSlotsKept
  <2>. SUFFICES ASSUME IndexInv, SlotsKept, state = "Leader",
                       NEW i \in noopIndex..LastIndex,
                       NEW p \in Peer, matchIndex[p] < i
                PROVE  i \in slotMap
    BY DEF UnmatchedSlotsKept
  <2>1. /\ gcUpTo <= matchIndex[p]
        /\ gcUpTo \in Nat /\ matchIndex[p] \in Nat /\ noopIndex \in Nat
        /\ LastIndex \in Nat
    BY DEF IndexInv, TypeOK, GcBehindNext, LastIndex
  <2>. QED  BY <2>1 DEF SlotsKept
<1>3. ASSUME TimelyCopy
      PROVE  Spec => []UnmatchedSlotsKept
  <2>1. IndexInv /\ SlotsKept /\ [Next]_vars => SlotsKept'
    BY SlotsKeptStep
  <2>2. Spec => []IndexInv
    BY <1>3, IndexInvariant
  <2>. QED  BY <1>1, <1>2, <2>1, <2>2, PTL DEF Spec
<1>. QED  BY <1>3

-----------------------------------------------------------------------------
(* One data request per peer.                                              *)

(* Lock B opens a data request only where none is in flight. *)
LEMMA OneDataCallLockB ==
    ASSUME IndexInv, OneDataCall, NEW t \in Thread, NEW p \in Peer, LockB(t, p)
    PROVE  OneDataCall'
<1>. DEFINE next == Smaller(nextIndex[p], LastIndex + 1)
<1>1. PICK len \in 0..Smaller(LastIndex + 1 - next, MaxBatch) :
         /\ len = 0 \/ ~inflight[p]
         /\ calls' = [calls EXCEPT ![t] = [peer |-> p, next |-> next,
                                           len |-> len, term |-> term]]
         /\ inflight' = [inflight EXCEPT ![p] = @ \/ len > 0]
  BY DEF LockB
<1>2. /\ calls \in [Thread -> Call \cup {NoCall}]
      /\ inflight \in [Peer -> BOOLEAN]
      /\ LastIndex \in Nat /\ nextIndex[p] \in Nat /\ term \in Nat
  BY DEF IndexInv, TypeOK, LastIndex
<1>3. len \in Nat /\ next \in Nat
  BY <1>2, LeaderLogAssumptions DEF Smaller
<1>. DEFINE c == [peer |-> p, next |-> next, len |-> len, term |-> term]
<1>4. c \in Call /\ c # NoCall
  BY <1>2, <1>3, LeaderLogAssumptions DEF Call
<1>5. calls[t] = NoCall
  BY DEF LockB
<1>. HIDE DEF c, next
<1>6. calls'[t] = c /\ \A u \in Thread : u # t => calls'[u] = calls[u]
  BY <1>1, <1>2 DEF c
<1>7. c.peer = p /\ c.len = len
  BY DEF c
<1>8. \A q \in Peer : \A u \in Thread :
         DataCall(u, q)' <=> IF u = t THEN q = p /\ len > 0 ELSE DataCall(u, q)
  BY <1>4, <1>6, <1>7 DEF DataCall
<1>9. \A q \in Peer : ~DataCall(t, q)
  BY <1>5 DEF DataCall
<1>10. \A q \in Peer : inflight'[q] <=> inflight[q] \/ (q = p /\ len > 0)
  BY <1>1, <1>2
<1>. HIDE DEF DataCall
<1>11. SUFFICES ASSUME NEW q \in Peer
                PROVE  /\ inflight'[q] <=> \E u \in Thread : DataCall(u, q)'
                       /\ \A u, v \in Thread :
                             DataCall(u, q)' /\ DataCall(v, q)' => u = v
  BY DEF OneDataCall
<1>12. /\ inflight[q] <=> \E u \in Thread : DataCall(u, q)
       /\ \A u, v \in Thread : DataCall(u, q) /\ DataCall(v, q) => u = v
  BY DEF OneDataCall
<1>13. len > 0 => ~inflight[p]
  BY <1>1, <1>3
<1>. QED
  BY <1>8, <1>9, <1>10, <1>12, <1>13

(* Lock C of a data request clears the flag of its peer, and that of a     *)
(* heartbeat leaves it as it is.                                           *)
LEMMA OneDataCallEnd ==
    ASSUME IndexInv, OneDataCall, NEW t \in Thread, EndCall(t)
    PROVE  OneDataCall'
<1>1. calls[t] \in Call /\ calls[t].peer \in Peer /\ calls[t] # NoCall
  BY EndCallFacts DEF EndCall
<1>2. calls[t].len \in Nat
  BY <1>1 DEF Call
<1>3. /\ calls \in [Thread -> Call \cup {NoCall}]
      /\ inflight \in [Peer -> BOOLEAN]
  BY DEF IndexInv, TypeOK
<1>4. \A q \in Peer : \A u \in Thread : DataCall(u, q)' <=> u # t /\ DataCall(u, q)
  BY <1>3 DEF EndCall, DataCall
<1>5. \A q \in Peer : inflight'[q] <=> inflight[q] /\ ~DataCall(t, q)
  <2>1. \A q \in Peer : DataCall(t, q) <=> q = calls[t].peer /\ ~(calls[t].len = 0)
    BY <1>1, <1>2 DEF DataCall
  <2>2. \A q \in Peer :
           inflight'[q] = IF q = calls[t].peer THEN inflight[q] /\ calls[t].len = 0
                          ELSE inflight[q]
    BY <1>1, <1>3, Zenon DEF EndCall
  <2>. QED  BY <2>1, <2>2, Zenon
<1>6. SUFFICES ASSUME NEW q \in Peer
               PROVE  /\ inflight'[q] <=> \E u \in Thread : DataCall(u, q)'
                      /\ \A u, v \in Thread :
                            DataCall(u, q)' /\ DataCall(v, q)' => u = v
  BY DEF OneDataCall
<1>7. /\ inflight[q] <=> \E u \in Thread : DataCall(u, q)
      /\ \A u, v \in Thread : DataCall(u, q) /\ DataCall(v, q) => u = v
  BY DEF OneDataCall
<1>. QED
  BY <1>4, <1>5, <1>7

(* A peer has at most one request with entries in flight and the flag      *)
(* tells exactly when, however leaderships change under the open calls     *)
(* (inflight in append_entries_worker, which become_leader does not reset).*)
THEOREM OneDataCallOnly == TimelyCopy => (Spec => []OneDataCall)
<1>1. Init => OneDataCall
  BY DEF Init, OneDataCall, DataCall
<1>2. IndexInv /\ OneDataCall /\ [Next]_vars => OneDataCall'
  <2>. SUFFICES ASSUME IndexInv, OneDataCall, [Next]_vars
                PROVE  OneDataCall'
    OBVIOUS
  <2>1. CASE \E t \in Thread, p \in Peer : LockB(t, p)
    BY <2>1, OneDataCallLockB
  <2>2. CASE \E t \in Thread :
               \/ CallDropped(t)
               \/ ReplySuccess(t)
               \/ ReplyFailure(t)
    <3>1. PICK t \in Thread : EndCall(t)
      BY <2>2 DEF CallDropped, ReplySuccess, ReplyFailure
    <3>. QED  BY <3>1, OneDataCallEnd
  <2>3. CASE \/ Timeout
             \/ \E t \in 1..MaxTerm : StepDown(t)
             \/ BecomeLeader
             \/ \E c \in 0..MaxIndex : FollowerCommit(c)
             \/ \E t \in 1..MaxTerm, c \in 0..MaxIndex : FollowerAppend(t, c) \/ FinishCopy(t, c)
             \/ BeginCopy \/ CopyFails
             \/ \E n \in 1..MaxIndex : Apply(n) \/ ApplyPersistFails(n)
             \/ \E p \in Peer : LockBSkips(p)
             \/ AdvanceCommitIndex
             \/ ApplyPending
             \/ DoSlotGc
             \/ UNCHANGED vars
    <3>1. UNCHANGED <<calls, inflight>>
      BY <2>3 DEF Timeout, StepDown, BecomeLeader, FollowerCommit, FollowerAppend, FinishCopy,
                  Pushed, BeginCopy, CopyFails, Apply,
                  ApplyPersistFails, LockBSkips, AdvanceCommitIndex, ApplyPending,
                  DoSlotGc, peerVars, vars
    <3>. QED  BY <3>1 DEF OneDataCall, DataCall
  <2>. QED  BY <2>1, <2>2, <2>3 DEF Next
<1>3. ASSUME TimelyCopy
      PROVE  Spec => []OneDataCall
  <2>1. Spec => []IndexInv
    BY <1>3, IndexInvariant
  <2>. QED  BY <1>1, <1>2, <2>1, PTL DEF Spec
<1>. QED  BY <1>3

-----------------------------------------------------------------------------
(* What a leader's match_index and commit_index stand for *)

(* Why MatchConfirmed is inductive.  A leadership that began fresh has     *)
(* open requests of its own term only, and next_index exceeds the start of *)
(* an open request only as far as later replies have confirmed entries.    *)
OwnCalls ==
    \A t \in Thread : calls[t] # NoCall =>
        /\ calls[t].term = ledTerm
        /\ \/ nextIndex[calls[t].peer] <= calls[t].next
           \/ nextIndex[calls[t].peer] <= acked[calls[t].peer] + 1

MatchInv == state = "Leader" /\ fresh => OwnCalls /\ MatchConfirmed

(* The terms in the log: none above the server's own, and only the         *)
(* leadership's entries carry its term, if it began in a candidacy.        *)
TermInv ==
    /\ \A i \in 1..LastIndex : terms[i] <= term
    /\ state = "Candidate" =>
          /\ \A i \in 1..LastIndex : terms[i] < term
          /\ copy # NoCopy => copy.term < term
    /\ state = "Leader" =>
          /\ noopIndex <= LastIndex
          /\ rightful => \A i \in 1..LastIndex : i < noopIndex => terms[i] < term

-----------------------------------------------------------------------------
LEMMA MatchInvSuccess ==
    ASSUME IndexInv, MatchInv, NEW t \in Thread, ReplySuccess(t)
    PROVE  MatchInv'
<1>. SUFFICES ASSUME state' = "Leader", fresh' PROVE OwnCalls' /\ MatchConfirmed'
  BY DEF MatchInv
<1>. DEFINE c == calls[t]
            next == NextOnSuccess(c)
            ack == Larger(acked[c.peer], c.next + c.len - 1)
<1>1. /\ UNCHANGED <<state, ledTerm, fresh>>
      /\ nextIndex' = [nextIndex EXCEPT ![c.peer] = next]
      /\ matchIndex' = [matchIndex EXCEPT ![c.peer] = next - 1]
      /\ EndCall(t)
  BY DEF ReplySuccess
<1>2. state = "Leader" /\ fresh /\ OwnCalls /\ MatchConfirmed
  BY <1>1 DEF MatchInv
<1>3. /\ c \in Call /\ c # NoCall
      /\ c.peer \in Peer /\ c.next \in Nat /\ c.len \in Nat /\ c.next >= 1
      /\ c.term = ledTerm
      /\ c.next \in Nat /\ nextIndex[c.peer] \in Nat /\ acked[c.peer] \in Nat
      /\ \A u \in Thread : calls'[u] # NoCall => u # t /\ calls'[u] = calls[u]
      /\ \/ nextIndex[c.peer] <= c.next
         \/ nextIndex[c.peer] <= acked[c.peer] + 1
  BY <1>1, <1>2, EndCallFacts
     DEF Call, EndCall, IndexInv, TypeOK, CallsInsideLog, OwnCalls
<1>4. acked' = [acked EXCEPT ![c.peer] = ack]
  BY <1>3 DEF ReplySuccess
<1>5. next = Larger(nextIndex[c.peer], Larger(c.next + c.len, 1))
  BY DEF NextOnSuccess
<1>6. /\ next \in Nat /\ ack \in Nat
      /\ ack >= acked[c.peer]
      /\ next - 1 <= ack
  BY <1>3, <1>5 DEF Larger
<1>. HIDE DEF c, next, ack
<1>7. /\ \A p \in Peer : p # c.peer => /\ nextIndex'[p] = nextIndex[p]
                                       /\ matchIndex'[p] = matchIndex[p]
                                       /\ acked'[p] = acked[p]
      /\ nextIndex'[c.peer] = next
      /\ matchIndex'[c.peer] = next - 1
      /\ acked'[c.peer] = ack
  BY <1>1, <1>3, <1>4 DEF IndexInv, TypeOK
<1>8. MatchConfirmed'
  BY <1>2, <1>6, <1>7 DEF MatchConfirmed
<1>9. OwnCalls'
  <2>. SUFFICES ASSUME NEW u \in Thread, calls'[u] # NoCall
                PROVE  /\ calls'[u].term = ledTerm'
                       /\ \/ nextIndex'[calls'[u].peer] <= calls'[u].next
                          \/ nextIndex'[calls'[u].peer] <= acked'[calls'[u].peer] + 1
    BY DEF OwnCalls
  <2>1. calls'[u] = calls[u] /\ calls[u] # NoCall /\ calls[u] \in Call
    BY <1>3 DEF IndexInv, TypeOK
  <2>2. calls[u].peer \in Peer
    BY <2>1 DEF Call
  <2>3. CASE calls[u].peer = c.peer
    BY <1>1, <1>2, <1>6, <1>7, <2>1, <2>3 DEF OwnCalls
  <2>4. CASE calls[u].peer # c.peer
    BY <1>1, <1>2, <1>7, <2>1, <2>2, <2>4 DEF OwnCalls
  <2>. QED  BY <2>3, <2>4
<1>. QED  BY <1>8, <1>9

LEMMA MatchInvFailure ==
    ASSUME IndexInv, MatchInv, NEW t \in Thread, ReplyFailure(t)
    PROVE  MatchInv'
<1>. SUFFICES ASSUME state' = "Leader", fresh' PROVE OwnCalls' /\ MatchConfirmed'
  BY DEF MatchInv
<1>. DEFINE c == calls[t]
<1>1. PICK next \in BackedOff(c) :
      /\ UNCHANGED <<state, matchIndex, ledTerm, acked, fresh>>
      /\ nextIndex' = [nextIndex EXCEPT ![c.peer] = next]
      /\ EndCall(t)
  BY DEF ReplyFailure, ghostVars
<1>2. state = "Leader" /\ fresh /\ OwnCalls /\ MatchConfirmed
  BY <1>1 DEF MatchInv
<1>3. /\ c \in Call /\ c.peer \in Peer /\ ledTerm > 0
      /\ \A u \in Thread : calls'[u] # NoCall => u # t /\ calls'[u] = calls[u]
  BY <1>1, EndCallFacts
<1>4. next \in Nat /\ next <= nextIndex[c.peer]
  BY <1>3, BackedOffBounds
<1>. HIDE DEF c
<1>5. /\ \A p \in Peer : p # c.peer => nextIndex'[p] = nextIndex[p]
      /\ nextIndex'[c.peer] = next
  BY <1>1, <1>3 DEF IndexInv, TypeOK
<1>6. MatchConfirmed'
  BY <1>1, <1>2 DEF MatchConfirmed
<1>7. OwnCalls'
  <2>. SUFFICES ASSUME NEW u \in Thread, calls'[u] # NoCall
                PROVE  /\ calls'[u].term = ledTerm'
                       /\ \/ nextIndex'[calls'[u].peer] <= calls'[u].next
                          \/ nextIndex'[calls'[u].peer] <= acked'[calls'[u].peer] + 1
    BY DEF OwnCalls
  <2>1. calls'[u] = calls[u] /\ calls[u] # NoCall /\ calls[u] \in Call
    BY <1>3 DEF IndexInv, TypeOK
  <2>2. /\ calls[u].peer \in Peer /\ calls[u].next \in Nat
        /\ nextIndex[calls[u].peer] \in Nat /\ acked[calls[u].peer] \in Nat
    BY <2>1 DEF Call, IndexInv, TypeOK
  <2>3. nextIndex'[calls[u].peer] \in Nat
        /\ nextIndex'[calls[u].peer] <= nextIndex[calls[u].peer]
    BY <1>4, <1>5, <2>2
  <2>. QED  BY <1>1, <1>2, <2>1, <2>2, <2>3 DEF OwnCalls
<1>. QED  BY <1>6, <1>7

LEMMA MatchInvLockB ==
    ASSUME IndexInv, MatchInv, NEW t \in Thread, NEW p \in Peer, LockB(t, p)
    PROVE  MatchInv'
<1>. SUFFICES ASSUME state' = "Leader", fresh' PROVE OwnCalls' /\ MatchConfirmed'
  BY DEF MatchInv
<1>. DEFINE next == Smaller(nextIndex[p], LastIndex + 1)
<1>1. /\ ledTerm > 0
      /\ nextIndex' = [nextIndex EXCEPT ![p] = next]
      /\ UNCHANGED <<state, term, matchIndex, ledTerm, acked, fresh>>
  BY DEF LockB, ghostVars
<1>2. state = "Leader" /\ fresh /\ OwnCalls /\ MatchConfirmed /\ ledTerm = term
  BY <1>1 DEF MatchInv, IndexInv, RoleTerms
<1>3. next = nextIndex[p] /\ nextIndex[p] \in Nat
  BY <1>1 DEF IndexInv, TypeOK, NextAboveMatch, LastIndex, Smaller
<1>4. nextIndex' = nextIndex
  BY <1>1, <1>3 DEF IndexInv, TypeOK
<1>5. PICK len \in 0..Smaller(LastIndex + 1 - next, MaxBatch) :
        calls' = [calls EXCEPT ![t] = [peer |-> p, next |-> next,
                                       len |-> len, term |-> term]]
  BY DEF LockB
<1>. DEFINE c == [peer |-> p, next |-> next, len |-> len, term |-> term]
<1>6. c.peer = p /\ c.next = nextIndex[p] /\ c.term = term
  BY <1>3
<1>7. calls'[t] = c /\ \A u \in Thread : u # t => calls'[u] = calls[u]
  BY <1>5 DEF IndexInv, TypeOK
<1>. HIDE DEF c, next
<1>8. OwnCalls'
  BY <1>1, <1>2, <1>3, <1>4, <1>6, <1>7 DEF OwnCalls
<1>9. MatchConfirmed'
  BY <1>1, <1>2 DEF MatchConfirmed
<1>. QED  BY <1>8, <1>9

LEMMA MatchInvStep ==
    ASSUME IndexInv, MatchInv, [Next]_vars
    PROVE  MatchInv'
<1>1. CASE Timeout \/ (\E t \in 1..MaxTerm : StepDown(t))
  BY <1>1 DEF Timeout, StepDown, MatchInv
<1>2. CASE \E t \in 1..MaxTerm, c \in 0..MaxIndex : FollowerAppend(t, c) \/ FinishCopy(t, c)
  <2>1. state # "Leader" /\ state' = state
    BY <1>2 DEF FollowerAppend, FinishCopy, Pushed, IndexInv, Aligned
  <2>. QED  BY <2>1 DEF MatchInv
<1>7. CASE BeginCopy \/ CopyFails \/ (\E c \in 0..MaxIndex : FollowerCommit(c))
  <2>1. UNCHANGED <<state, nextIndex, matchIndex, calls, ledTerm, acked, fresh>>
    BY <1>7 DEF BeginCopy, CopyFails, FollowerCommit, peerVars, ghostVars
  <2>. QED  BY <2>1 DEF MatchInv, OwnCalls, MatchConfirmed
<1>3. CASE BecomeLeader
  <2>1. fresh' => \A t \in Thread : calls[t] = NoCall
    BY <1>3, Zenon DEF BecomeLeader
  <2>2. calls' = calls
    BY <1>3 DEF BecomeLeader
  <2>3. fresh' => OwnCalls'
    BY <2>1, <2>2 DEF OwnCalls
  <2>4. \A p \in Peer : matchIndex'[p] <= acked'[p]
    BY <1>3 DEF BecomeLeader
  <2>. QED  BY <2>3, <2>4 DEF MatchInv, MatchConfirmed
<1>4. CASE \/ (\E n \in 1..MaxIndex : Apply(n) \/ ApplyPersistFails(n))
           \/ AdvanceCommitIndex \/ ApplyPending \/ DoSlotGc \/ UNCHANGED vars
  <2>1. UNCHANGED <<state, nextIndex, matchIndex, calls, ledTerm, acked, fresh>>
    BY <1>4 DEF Apply, ApplyPersistFails, AdvanceCommitIndex, ApplyPending, DoSlotGc,
                vars, peerVars, ghostVars
  <2>. QED  BY <2>1 DEF MatchInv, OwnCalls, MatchConfirmed
<1>5. CASE \E p \in Peer : LockBSkips(p)
  <2>1. PICK p \in Peer : LockBSkips(p)
    BY <1>5
  <2>2. UNCHANGED <<state, matchIndex, calls, ledTerm, acked, fresh>>
    BY <2>1 DEF LockBSkips, ghostVars
  <2>3. Smaller(nextIndex[p], LastIndex + 1) = nextIndex[p]
    BY <2>1 DEF LockBSkips, IndexInv, TypeOK, NextAboveMatch, LastIndex, Smaller
  <2>4. nextIndex' = nextIndex
    BY <2>1, <2>3 DEF LockBSkips, IndexInv, TypeOK
  <2>. QED  BY <2>2, <2>4 DEF MatchInv, OwnCalls, MatchConfirmed
<1>6. CASE \E t \in Thread : CallDropped(t)
  <2>1. PICK t \in Thread : CallDropped(t)
    BY <1>6
  <2>2. UNCHANGED <<state, nextIndex, matchIndex, ledTerm, acked, fresh>>
    BY <2>1 DEF CallDropped, ghostVars
  <2>3. \A u \in Thread : calls'[u] # NoCall => calls'[u] = calls[u]
    BY <2>1, EndCallFacts DEF CallDropped
  <2>. QED  BY <2>2, <2>3 DEF MatchInv, OwnCalls, MatchConfirmed
<1>. QED
  BY <1>1, <1>2, <1>3, <1>4, <1>5, <1>6, <1>7, MatchInvSuccess, MatchInvFailure, MatchInvLockB
     DEF Next

(* In a leadership that began with no request of an earlier one open,      *)
(* match_index is never above what the peer has confirmed, in whatever     *)
(* order its replies are booked.                                           *)
THEOREM MatchIsConfirmed == TimelyCopy => (Spec => []MatchConfirmed)
<1>1. Init => MatchInv
  BY DEF Init, MatchInv
<1>2. MatchInv => MatchConfirmed
  BY DEF MatchInv, MatchConfirmed
<1>3. ASSUME TimelyCopy
      PROVE  Spec => []MatchConfirmed
  <2>1. IndexInv /\ MatchInv /\ [Next]_vars => MatchInv'
    BY MatchInvStep
  <2>2. Spec => []IndexInv
    BY <1>3, IndexInvariant
  <2>. QED  BY <1>1, <1>2, <2>1, <2>2, PTL DEF Spec
<1>. QED  BY <1>3

-----------------------------------------------------------------------------
(* The terms of the log                                                    *)

(* Append leaves what was there and puts the new entry behind it. *)
LEMMA AppendAt ==
    ASSUME NEW s \in Seq(Nat), NEW x \in Nat, NEW n \in Nat, n = Len(s)
    PROVE  /\ \A i \in 1..n : Append(s, x)[i] = s[i]
           /\ Append(s, x)[n + 1] = x
OBVIOUS

LEMMA TermInvStep ==
    ASSUME TimelyCopy, IndexInv, TermInv, [Next]_vars
    PROVE  TermInv'
<1>. /\ term \in Nat /\ terms \in Seq(Nat) /\ LastIndex \in Nat
     /\ \A i \in 1..LastIndex : terms[i] \in Nat
  BY DEF IndexInv, TypeOK, Aligned, LastIndex
<1>0. LastIndex = Len(terms) /\ LastIndex = tail - 1 /\ tail \in Nat
  BY DEF IndexInv, TypeOK, Aligned, LastIndex
<1>1. CASE \/ (\E t \in Thread, p \in Peer : LockB(t, p))
           \/ (\E p \in Peer : LockBSkips(p))
           \/ (\E t \in Thread : CallDropped(t) \/ ReplySuccess(t))
           \/ (\E t \in Thread : ReplyFailure(t))
           \/ (\E n \in 1..MaxIndex : ApplyPersistFails(n))
           \/ AdvanceCommitIndex \/ ApplyPending \/ DoSlotGc \/ UNCHANGED vars
           \/ (\E c \in 0..MaxIndex : FollowerCommit(c))
  <2>1. UNCHANGED <<state, term, copy, terms, tail, noopIndex, rightful>>
    BY <1>1 DEF FollowerCommit, LockB, LockBSkips, CallDropped, ReplySuccess, ReplyFailure,
                ApplyPersistFails, AdvanceCommitIndex, ApplyPending, DoSlotGc,
                vars, logVars, ghostVars
  <2>. QED  BY <2>1 DEF TermInv, LastIndex
<1>7. CASE BeginCopy \/ CopyFails
  <2>1. /\ UNCHANGED <<state, term, terms, tail, noopIndex, rightful>>
        /\ copy' = NoCopy \/ state = "Follower"
    BY <1>7 DEF BeginCopy, CopyFails, logVars, ghostVars
  <2>. QED  BY <2>1 DEF TermInv, LastIndex
<1>2. CASE Timeout
  <2>1. state' = "Candidate" /\ term' = term + 1 /\ terms' = terms /\ tail' = tail /\ copy' = copy
    BY <1>2 DEF Timeout, logVars
  <2>2. copy # NoCopy => copy.term <= term /\ copy.term \in Nat
    BY DEF IndexInv, Aligned, TypeOK
  <2>. QED  BY <2>1, <2>2 DEF TermInv, LastIndex
<1>3. CASE \E t \in 1..MaxTerm : StepDown(t)
  <2>1. state' = "Follower" /\ term' \in Nat /\ term' >= term /\ terms' = terms /\ tail' = tail
    BY <1>3, LeaderLogAssumptions DEF StepDown, logVars
  <2>. QED  BY <2>1 DEF TermInv, LastIndex
<1>4. CASE BecomeLeader
  <2>1. /\ rightful' => state = "Candidate"
        /\ state' = "Leader" /\ term' = term
        /\ terms' = Append(terms, term) /\ tail' = tail + 1
        /\ noopIndex' = LastIndex + 1
    BY <1>4 DEF BecomeLeader
  <2>2. /\ LastIndex' = LastIndex + 1
        /\ \A i \in 1..LastIndex : terms'[i] = terms[i]
        /\ terms'[LastIndex + 1] = term
    <3>1. LastIndex' = LastIndex + 1
      BY <1>0, <2>1 DEF LastIndex
    <3>2. /\ \A i \in 1..LastIndex : Append(terms, term)[i] = terms[i]
          /\ Append(terms, term)[LastIndex + 1] = term
      BY <1>0, AppendAt, ZenonT(30)
    <3>3. terms' = Append(terms, term)
      BY <2>1
    <3>. QED  BY <3>1, <3>2, <3>3, Zenon
  <2>3. \A i \in 1..LastIndex' : i \in 1..LastIndex \/ i = LastIndex + 1
    BY <2>2
  <2>4. \A i \in 1..LastIndex' : terms'[i] <= term
    BY <2>2, <2>3 DEF TermInv
  <2>5. rightful' => \A i \in 1..LastIndex' : i < noopIndex' => terms'[i] < term
    BY <2>1, <2>2, <2>3 DEF TermInv
  <2>6. noopIndex' <= LastIndex'
    BY <2>1, <2>2
  <2>. QED  BY <1>4, <2>1, <2>4, <2>5, <2>6 DEF TermInv, IndexInv, Aligned, BecomeLeader
<1>5. CASE \E t \in 1..MaxTerm, c \in 0..MaxIndex : FollowerAppend(t, c) \/ FinishCopy(t, c)
  <2>1. PICK t \in Nat :
            /\ terms' = Append(terms, t) /\ tail' = tail + 1 /\ t <= term
            /\ state = "Candidate" => t < term
            /\ copy' = NoCopy
            /\ state # "Leader" /\ UNCHANGED <<state, term>>
    <3>1. CASE \E t \in 1..MaxTerm, c \in 0..MaxIndex : FollowerAppend(t, c)
      BY <3>1, LeaderLogAssumptions DEF FollowerAppend, Pushed
    <3>2. CASE \E t \in 1..MaxTerm, c \in 0..MaxIndex : FinishCopy(t, c)
      <4>1. PICK t \in 1..MaxTerm, c \in 0..MaxIndex : FinishCopy(t, c)
        BY <3>2
      <4>2. copy # NoCopy /\ copy' = NoCopy /\ t \in 1..copy.term /\ Pushed(copy.first, t, c)
        BY <4>1 DEF FinishCopy
      <4>3. /\ copy.first = tail /\ copy.term <= term /\ copy.term \in Nat /\ state # "Leader"
            /\ state = "Candidate" => copy.term < term
        BY <4>2 DEF IndexInv, Aligned, TypeOK, TermInv
      <4>. QED  BY <4>2, <4>3 DEF Pushed
    <3>. QED  BY <1>5, <3>1, <3>2
  <2>2. /\ LastIndex' = LastIndex + 1
        /\ \A i \in 1..LastIndex : terms'[i] = terms[i]
        /\ terms'[LastIndex + 1] = t
    <3>1. LastIndex' = LastIndex + 1
      BY <1>0, <2>1 DEF LastIndex
    <3>2. /\ \A i \in 1..LastIndex : Append(terms, t)[i] = terms[i]
          /\ Append(terms, t)[LastIndex + 1] = t
      BY <1>0, AppendAt, ZenonT(30)
    <3>3. terms' = Append(terms, t)
      BY <2>1
    <3>. QED  BY <3>1, <3>2, <3>3, Zenon
  <2>3. \A i \in 1..LastIndex' : i \in 1..LastIndex \/ i = LastIndex + 1
    BY <2>2
  <2>4. \A i \in 1..LastIndex' : terms'[i] <= term
    <3>. SUFFICES ASSUME NEW i \in 1..LastIndex' PROVE terms'[i] <= term
      OBVIOUS
    <3>1. CASE i \in 1..LastIndex
      BY <2>2, <3>1 DEF TermInv
    <3>2. CASE i = LastIndex + 1
      BY <2>1, <2>2, <3>2
    <3>. QED  BY <2>3, <3>1, <3>2
  <2>5. state = "Candidate" => \A i \in 1..LastIndex' : terms'[i] < term
    <3>. SUFFICES ASSUME state = "Candidate", NEW i \in 1..LastIndex' PROVE terms'[i] < term
      OBVIOUS
    <3>1. CASE i \in 1..LastIndex
      BY <2>2, <3>1 DEF TermInv
    <3>2. CASE i = LastIndex + 1
      BY <2>1, <2>2, <3>2
    <3>. QED  BY <2>3, <3>1, <3>2
  <2>6. UNCHANGED <<state, term>> /\ copy' = NoCopy /\ state' # "Leader"
    BY <2>1
  <2>. QED  BY <2>4, <2>5, <2>6 DEF TermInv
<1>6. CASE \E n \in 1..MaxIndex : Apply(n)
  <2>1. PICK n \in 1..MaxIndex : Apply(n)
    BY <1>6
  <2>. DEFINE batch == [i \in 1..n |-> term]
  <2>2. /\ state = "Leader" /\ UNCHANGED <<state, term, noopIndex, rightful>>
        /\ terms' = terms \o batch /\ tail' = tail + n
    BY <2>1 DEF Apply, ghostVars
  <2>3. n \in Nat /\ batch \in Seq(Nat) /\ Len(batch) = n
    BY LeaderLogAssumptions
  <2>4. /\ LastIndex' = LastIndex + n
        /\ \A i \in 1..LastIndex : terms'[i] = terms[i]
        /\ \A i \in LastIndex + 1..LastIndex + n : terms'[i] = term
    BY <1>0, <2>2, <2>3 DEF LastIndex
  <2>5. noopIndex \in Nat /\ noopIndex <= LastIndex
    BY <2>2 DEF TermInv, IndexInv, TypeOK
  <2>. HIDE DEF batch
  <2>6. \A i \in 1..LastIndex + n : i \in 1..LastIndex \/ i \in LastIndex + 1..LastIndex + n
    BY <2>3
  <2>7. \A i \in 1..LastIndex' : terms'[i] <= term
    BY <2>4, <2>6 DEF TermInv
  <2>8. rightful => \A i \in 1..LastIndex' : i < noopIndex => terms'[i] < term
    <3>. SUFFICES ASSUME rightful, NEW i \in 1..LastIndex', i < noopIndex PROVE terms'[i] < term
      OBVIOUS
    <3>1. i \in 1..LastIndex
      BY <2>3, <2>4, <2>5
    <3>. QED  BY <2>2, <2>4, <3>1 DEF TermInv
  <2>9. noopIndex <= LastIndex'
    BY <2>3, <2>4, <2>5
  <2>. QED  BY <2>2, <2>7, <2>8, <2>9 DEF TermInv
<1>. QED
  BY <1>1, <1>2, <1>3, <1>4, <1>5, <1>6, <1>7 DEF Next

-----------------------------------------------------------------------------
(* A leader commits only through an entry of its own leadership, if it     *)
(* began in a candidacy, and only what a majority has confirmed to it, if  *)
(* the leadership began fresh.                                             *)
THEOREM CommitIsConfirmed == TimelyCopy => (Spec => CommitConfirmed)
<1>. DEFINE Confirmed ==
              state = "Leader" /\ commitIndex' # commitIndex =>
                 /\ fresh => 2 * (Cardinality({p \in Peer : acked[p] >= commitIndex'}) + 1)
                                 > Cardinality(Peer) + 1
                 /\ rightful => commitIndex' >= noopIndex
<1>1. ASSUME IndexInv, MatchInv, TermInv, Next PROVE Confirmed
  <2>. SUFFICES ASSUME state = "Leader", commitIndex' # commitIndex PROVE Confirmed
    OBVIOUS
  <2>1. AdvanceCommitIndex
    <3>1. /\ ~ \E t \in 1..MaxTerm, c \in 0..MaxIndex : FollowerAppend(t, c) \/ FinishCopy(t, c)
          /\ ~ \E c \in 0..MaxIndex : FollowerCommit(c)
          /\ ~BeginCopy /\ ~CopyFails
      BY <1>1 DEF FollowerAppend, FinishCopy, FollowerCommit, BeginCopy, CopyFails, IndexInv, Aligned,
                  logVars
    <3>2. /\ ~Timeout /\ ~BecomeLeader /\ ~ApplyPending /\ ~DoSlotGc
          /\ ~ \E t \in 1..MaxTerm : StepDown(t)
      BY DEF Timeout, BecomeLeader, ApplyPending, DoSlotGc, StepDown, logVars
    <3>3. ~ \E n \in 1..MaxIndex : Apply(n) \/ ApplyPersistFails(n)
      BY DEF Apply, ApplyPersistFails, logVars
    <3>4. /\ ~ \E t \in Thread, p \in Peer : LockB(t, p)
          /\ ~ \E p \in Peer : LockBSkips(p)
          /\ ~ \E t \in Thread : CallDropped(t) \/ ReplySuccess(t)
          /\ ~ \E t \in Thread : ReplyFailure(t)
      BY DEF LockB, LockBSkips, CallDropped, ReplySuccess, ReplyFailure, logVars
    <3>. QED  BY <1>1, <3>1, <3>2, <3>3, <3>4 DEF Next
  <2>2. PICK m \in 0..LastIndex : /\ IsMajorityIndex(m)
                                  /\ m > commitIndex
                                  /\ TermAt(m) = term
                                  /\ commitIndex' = m
    BY <2>1 DEF AdvanceCommitIndex
  <2>3. LastIndex \in Nat /\ m \in Nat /\ commitIndex \in Nat /\ noopIndex \in Nat
        /\ term \in Nat
    BY <1>1 DEF IndexInv, TypeOK, LastIndex
  <2>6. terms[m] = term
    BY <1>1, <2>2, <2>3 DEF TermAt, IndexInv, Aligned
  <2>4. rightful => m >= noopIndex
    BY <1>1, <2>2, <2>3, <2>6 DEF TermInv
  <2>5. ASSUME fresh
        PROVE  2 * (Cardinality({p \in Peer : acked[p] >= m}) + 1) > Cardinality(Peer) + 1
    <3>. DEFINE M == {p \in Peer : matchIndex[p] >= m}
                A == {p \in Peer : acked[p] >= m}
    <3>1. M \subseteq A
      BY <1>1, <2>3, <2>5 DEF MatchInv, MatchConfirmed, IndexInv, TypeOK
    <3>2. IsFiniteSet(A) /\ IsFiniteSet(Peer)
      BY FS_Subset, LeaderLogAssumptions
    <3>3. Cardinality(M) <= Cardinality(A) /\ Cardinality(A) \in Nat
          /\ Cardinality(M) \in Nat /\ Cardinality(Peer) \in Nat
      BY <3>1, <3>2, FS_Subset, FS_CardinalityType
    <3>4. 2 * (Cardinality(M) + 1) > Cardinality(Peer) + 1
      BY <2>2 DEF IsMajorityIndex, Reached
    <3>. HIDE DEF M, A
    <3>. QED  BY <3>3, <3>4 DEF A
  <2>. QED  BY <2>2, <2>4, <2>5
<1>2. IndexInv /\ MatchInv /\ TermInv /\ [Next]_vars => [Confirmed]_vars
  BY <1>1
<1>3. Init => MatchInv
  BY DEF Init, MatchInv
<1>4. Init => TermInv
  BY DEF Init, TermInv, LastIndex
<1>5. ASSUME TimelyCopy
      PROVE  Spec => CommitConfirmed
  <2>1. IndexInv /\ MatchInv /\ [Next]_vars => MatchInv'
    BY MatchInvStep
  <2>2. IndexInv /\ TermInv /\ [Next]_vars => TermInv'
    BY <1>5, TermInvStep
  <2>3. Spec => []IndexInv
    BY <1>5, IndexInvariant
  <2>. QED  BY <1>2, <1>3, <1>4, <2>1, <2>2, <2>3, PTL DEF Spec, CommitConfirmed
<1>. QED  BY <1>5
=============================================================================
