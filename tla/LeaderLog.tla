------------------------------ MODULE LeaderLog -----------------------------
(***************************************************************************)
(* The bookkeeping by which one server leads: its log, next_index and      *)
(* match_index for every peer, the commit and apply indices, and the slot  *)
(* records it may free (core/src/raft_append_entries.cpp, raft_commit.cpp, *)
(* become_leader in raft_election.cpp, the append in raft_apply.cpp).      *)
(*                                                                         *)
(* The rest of the cluster is left open: a reply may be a success, any     *)
(* refusal with any hint, or no reply, and may come back at any time.  So  *)
(* whatever holds here holds for every peer, also for one that restarted   *)
(* or lost its log.                                                        *)
(*                                                                         *)
(* append_entries_worker takes mu twice: "Lock B" builds the request,      *)
(* "Lock C" books the reply.  Threads stand between the two while the RPC  *)
(* runs, so replies of several requests interleave with appends, garbage   *)
(* collection, and changes of leadership.                                  *)
(*                                                                         *)
(* As a follower the server takes the entries of other leaders             *)
(* (raft_handle_append_entries.cpp), also in two critical sections, with   *)
(* a copy between them during which its role may change.                   *)
(***************************************************************************)
EXTENDS Integers, Sequences, FiniteSets

CONSTANTS
    Peer,           \* the other members of raft.cluster
    Thread,         \* append_entries_worker threads, a bound on open calls
    NoCall,         \* an idle thread
    NoCopy,         \* no handler copies
    TimelyCopy,     \* TRUE: while a handler copies no second batch arrives
                    \*   and the server is not promoted.  No code enforces
                    \*   it; it holds when the storage node answers before
                    \*   the election timeout and the leader's RPC timeout
    MaxIndex,       \* bound on the log's last index
    MaxTerm,        \* bound on terms
    MaxBatch,       \* max_ae_batch
    MaxLate,        \* bound: threads that come to Lock B after the server
                    \*   ceased to lead do so with fewer requests open
    TrimThreshold   \* ring.log_trim_threshold, 0 switches trimming off

(* What append_entries_worker keeps on its stack over the RPC: peer,        *)
(* next_snapshot, count and the request's term.                            *)
Call == [peer : Peer, next : Nat, len : Nat, term : Nat]

ASSUME LeaderLogAssumptions ==
    /\ IsFiniteSet(Peer)
    /\ NoCall \notin Call
    /\ TimelyCopy \in BOOLEAN
    /\ MaxIndex \in Nat
    /\ MaxTerm \in Nat
    /\ MaxBatch \in Nat
    /\ MaxLate \in Nat
    /\ TrimThreshold \in Nat

VARIABLES
    state,        \* raft.state
    term,         \* raft.current_term
    stood,        \* timeout() has made it a candidate since it last led: the
                  \*   main loop may have read so and be about to call
                  \*   become_leader, whatever the state is now
    terms,        \* raft.log: the terms, the trimmed entries included
    tail,         \* ring.tail_log_index
    oldest,       \* oldest_log_index(): tail less the entries not trimmed
    copy,         \* what a handler keeps on its stack over do_pba_copy
    nextIndex,    \* cluster[p].next_index
    matchIndex,   \* cluster[p].match_index
    inflight,     \* cluster[p].inflight
    commitIndex,  \* raft.commit_index
    lastApplied,  \* raft.last_applied, the next index to apply
    slotMap,      \* the indices that have a record in ring.log_slot_map
    gcUpTo,       \* ring.gc_up_to
    gcHasRun,     \* ring.gc_has_run
    calls,        \* what each thread carries from Lock B to Lock C
    ledTerm,      \* history: the term last led, 0 before the first
    noopIndex,    \* history: where the no-op of the current leadership
                  \*   stands, 0 in the other roles
    rightful,     \* history: it was a candidate still when it was promoted
    acked,        \* history: the highest index each peer has confirmed to
                  \*   this leadership by a successful reply
    fresh         \* history: when this leadership began, no request of an
                  \*   earlier one was open

logVars == <<terms, tail, oldest, commitIndex, lastApplied>>
peerVars == <<nextIndex, matchIndex, inflight, calls>>
slotVars == <<slotMap, gcUpTo, gcHasRun>>
ghostVars == <<ledTerm, noopIndex, rightful, acked, fresh>>
vars == <<state, term, stood, copy, logVars, peerVars, slotVars, ghostVars>>

(* init_storage: an empty log whose first entry will have index 1. *)
Init ==
    /\ state = "Follower"
    /\ term = 0
    /\ stood = FALSE
    /\ copy = NoCopy
    /\ terms = <<>>
    /\ tail = 1
    /\ oldest = 1
    /\ nextIndex = [p \in Peer |-> 0]
    /\ matchIndex = [p \in Peer |-> 0]
    /\ inflight = [p \in Peer |-> FALSE]
    /\ commitIndex = 0
    /\ lastApplied = 1
    /\ slotMap = {}
    /\ gcUpTo = 0
    /\ gcHasRun = FALSE
    /\ calls = [t \in Thread |-> NoCall]
    /\ ledTerm = 0
    /\ noopIndex = 0
    /\ rightful = TRUE
    /\ acked = [p \in Peer |-> 0]
    /\ fresh = TRUE

-----------------------------------------------------------------------------
(* Helpers *)

Larger(a, b) == IF a >= b THEN a ELSE b
Smaller(a, b) == IF a <= b THEN a ELSE b
LastIndex == tail - 1

(* log_slice: the vector holds oldest..LastIndex behind its sentinel. *)
TermAt(i) == terms[i - LastIndex + Len(terms)]

(* A data request of p is open. *)
DataCall(t, p) == calls[t] # NoCall /\ calls[t].peer = p /\ calls[t].len > 0

(* The bound on late threads. *)
RoomForLate ==
    state = "Leader" \/ Cardinality({t \in Thread : calls[t] # NoCall}) < MaxLate

(* The entry that apply_pending and become_leader stop at: everything      *)
(* committed and present is applied.                                       *)
AppliedThrough ==
    IF lastApplied >= oldest
    THEN Larger(lastApplied, Smaller(commitIndex, LastIndex) + 1)
    ELSE lastApplied

(* advance_commit_index, the peers that count for index m. *)
Reached(m) == Cardinality({p \in Peer : matchIndex[p] >= m}) + 1

(* Mutant: the index one step further up in the sorted list. *)
IsMajorityIndexOffByOne(m) ==
    /\ m \in 0..LastIndex
    /\ 2 * Reached(m) > Cardinality(Peer) - 1
    /\ \A k \in m + 1..LastIndex : 2 * Reached(k) <= Cardinality(Peer) - 1

(* advance_commit_index sorts the match indices, its own being the last    *)
(* index, and takes the one in the middle: the largest index that a        *)
(* majority has reached.                                                   *)
IsMajorityIndex(m) ==
    /\ m \in 0..LastIndex
    /\ 2 * Reached(m) > Cardinality(Peer) + 1
    /\ \A k \in m + 1..LastIndex : 2 * Reached(k) <= Cardinality(Peer) + 1

(* Mutant: the fastest peer decides. *)
IsMinMatchFastest(m) ==
    /\ m = LastIndex \/ \E p \in Peer : m = matchIndex[p]
    /\ m <= LastIndex
    /\ \E p \in Peer : m <= matchIndex[p]

(* do_slot_gc: min_match over the last index and every peer. *)
IsMinMatch(m) ==
    /\ m = LastIndex \/ \E p \in Peer : m = matchIndex[p]
    /\ m <= LastIndex
    /\ \A p \in Peer : m <= matchIndex[p]

(* Mutant: one past the end of the batch too many. *)
NextOnSuccessOffByOne(c) == Larger(nextIndex[c.peer], Larger(c.next + c.len + 1, 1))

(* Mutant: a late reply moves next_index back. *)
NextOnSuccessMayRetreat(c) == Larger(c.next + c.len, 1)

(* apply_ae_success: next_index moves up to the end of the batch, never    *)
(* back.                                                                   *)
NextOnSuccess(c) == Larger(nextIndex[c.peer], Larger(c.next + c.len, 1))

(* apply_ae_failure_backoff, the search for the conflicting term: the last *)
(* entry up to prev whose term is not above it decides.                    *)
SearchConflict(prev, ct, ci) ==
    LET seen == {j \in Larger(oldest, 1)..prev : TermAt(j) <= ct}
    IN  IF \E j \in seen : TermAt(j) = ct /\ \A k \in seen : k <= j
        THEN 1 + CHOOSE j \in seen : \A k \in seen : k <= j
        ELSE ci

(* apply_ae_failure_backoff: where the hints send next_index. *)
Hinted(c, ct, ci) ==
    IF ct = 0 /\ ci = 0 THEN nextIndex[c.peer] - 1
    ELSE IF ct = 0 THEN ci
    ELSE SearchConflict(c.next - 1, ct, ci)

(* Mutant: no lower bound at all. *)
NextOnFailureUnbounded(c, ct, ci) ==
    LET prev == nextIndex[c.peer]
        hint == Hinted(c, ct, ci)
    IN  IF hint >= prev THEN prev - 1 ELSE hint

(* Mutant: the floor at match_index + 1 is dropped. *)
NextOnFailureNoFloor(c, ct, ci) ==
    LET prev == nextIndex[c.peer]
        hint == Hinted(c, ct, ci)
        back == IF hint >= prev THEN (IF prev > 0 THEN prev - 1 ELSE 0) ELSE hint
    IN  Larger(back, 1)

(* ... always at least one step back, and never to what the peer has       *)
(* already confirmed.                                                      *)
NextOnFailure(c, ct, ci) ==
    LET prev == nextIndex[c.peer]
        hint == Hinted(c, ct, ci)
        back == IF hint >= prev THEN (IF prev > 0 THEN prev - 1 ELSE 0) ELSE hint
    IN  Larger(Larger(back, 1), matchIndex[c.peer] + 1)

(* ... for any hints conflict_term and conflict_index. *)
BackedOff(c) == {NextOnFailure(c, ct, ci) : ct \in 0..MaxTerm, ci \in 0..MaxIndex}

(* Mutant: unapplied entries are not protected. *)
TrimmedOldestUnapplied(minMatch) ==
    IF TrimThreshold > 0 /\ minMatch > oldest /\ minMatch - oldest >= TrimThreshold
    THEN Smaller(minMatch, LastIndex + 1)
    ELSE oldest

(* trim_log_locked: entries below both the slowest peer and the next entry *)
(* to apply are erased, in batches of TrimThreshold.                       *)
TrimmedOldest(minMatch) ==
    LET upto == Smaller(minMatch, lastApplied)
    IN  IF TrimThreshold > 0 /\ upto > oldest /\ upto - oldest >= TrimThreshold
        THEN Smaller(upto, LastIndex + 1)
        ELSE oldest

-----------------------------------------------------------------------------
(* Roles *)

(* timeout(): a new term as candidate. *)
Timeout ==
    /\ state # "Leader"
    /\ term < MaxTerm
    /\ state' = "Candidate"
    /\ term' = term + 1
    /\ stood' = TRUE
    /\ UNCHANGED <<copy, logVars, peerVars, slotVars, ghostVars>>

(* update_term: a message of a higher term; or an AppendEntries of this    *)
(* candidate's own term.                                                   *)
StepDown(t) ==
    /\ t > term \/ (t = term /\ state = "Candidate")
    /\ state' = "Follower"
    /\ term' = t
    /\ noopIndex' = 0
    /\ rightful' = TRUE
    /\ acked' = [p \in Peer |-> 0]
    /\ fresh' = TRUE
    /\ UNCHANGED <<stood, copy, logVars, peerVars, slotVars, ledTerm>>

(* become_leader with a quorum of votes.  It does not look at the state    *)
(* again: the main loop has, without mu.                                   *)
BecomeLeader ==
    /\ stood
    /\ LastIndex < MaxIndex
    /\ TimelyCopy => copy = NoCopy
    /\ state' = "Leader"
    /\ stood' = FALSE
    /\ gcUpTo' = 0
    /\ gcHasRun' = FALSE
    /\ lastApplied' = AppliedThrough
    /\ terms' = Append(terms, term)
    /\ tail' = tail + 1
    /\ slotMap' = slotMap \cup {LastIndex + 1}
    /\ nextIndex' = [p \in Peer |-> LastIndex + 1]
    /\ matchIndex' = [p \in Peer |-> 0]
    /\ ledTerm' = term
    /\ noopIndex' = LastIndex + 1
    /\ rightful' = (state = "Candidate")
    /\ acked' = [p \in Peer |-> 0]
    /\ fresh' = \A t \in Thread : calls[t] = NoCall
    /\ UNCHANGED <<term, copy, oldest, inflight, commitIndex, calls>>

-----------------------------------------------------------------------------
(* handle_append_entries_request, in the follower role *)

(* The commit index after a request that carries leader_commit c. *)
CommitAfter(c, newTail) ==
    IF c > commitIndex THEN Smaller(c, newTail - 1) ELSE commitIndex

(* The second critical section, which checks neither state nor term: an    *)
(* entry of term t is pushed, its index first is not looked at again.      *)
Pushed(first, t, c) ==
    /\ terms' = Append(terms, t)
    /\ tail' = first + 1
    /\ oldest' = oldest + tail' - tail - 1
    /\ commitIndex' = CommitAfter(c, first + 1)
    /\ UNCHANGED <<state, term, stood, lastApplied, peerVars, slotVars, ghostVars>>

(* A heartbeat, or a batch that is all there already. *)
FollowerCommit(c) ==
    /\ state = "Follower"
    /\ c > commitIndex
    /\ commitIndex' = CommitAfter(c, tail)
    /\ UNCHANGED <<state, term, stood, copy, terms, tail, oldest, lastApplied,
                   peerVars, slotVars, ghostVars>>

(* data_already_copied: one more entry of the leader's log, mu is kept. *)
FollowerAppend(t, c) ==
    /\ state = "Follower"
    /\ LastIndex < MaxIndex
    /\ TimelyCopy => copy = NoCopy
    /\ t \in 1..term
    /\ Pushed(tail, t, c)
    /\ UNCHANGED copy

(* One more entry has to be copied first: mu is released. *)
BeginCopy ==
    /\ state = "Follower" /\ term > 0
    /\ LastIndex < MaxIndex
    /\ copy = NoCopy
    /\ copy' = [first |-> tail, term |-> term]
    /\ UNCHANGED <<state, term, stood, logVars, peerVars, slotVars, ghostVars>>

(* do_pba_copy throws: the batch is refused. *)
CopyFails ==
    /\ copy # NoCopy
    /\ copy' = NoCopy
    /\ UNCHANGED <<state, term, stood, logVars, peerVars, slotVars, ghostVars>>

(* The copy is done, mu is taken again. *)
FinishCopy(t, c) ==
    /\ copy # NoCopy
    /\ t \in 1..copy.term
    /\ Pushed(copy.first, t, c)
    /\ copy' = NoCopy

-----------------------------------------------------------------------------
(* Client requests *)

(* apply_internal under Lock A: n commands are appended and persisted. *)
Apply(n) ==
    /\ state = "Leader"
    /\ LastIndex + n <= MaxIndex
    /\ terms' = terms \o [i \in 1..n |-> term]
    /\ tail' = tail + n
    /\ slotMap' = slotMap \cup LastIndex + 1..LastIndex + n
    /\ UNCHANGED <<state, term, stood, copy, oldest, commitIndex, lastApplied,
                   peerVars, gcUpTo, gcHasRun, ghostVars>>

(* ... or persist_circular throws after placing some of them: the entries  *)
(* are popped again, their slot records are not.                           *)
ApplyPersistFails(n) ==
    /\ state = "Leader"
    /\ LastIndex + n <= MaxIndex
    /\ slotMap' = slotMap \cup LastIndex + 1..LastIndex + n
    /\ UNCHANGED <<state, term, stood, copy, logVars, peerVars, gcUpTo, gcHasRun,
                   ghostVars>>

-----------------------------------------------------------------------------
(* append_entries_worker *)

(* Lock B for peer p in thread t.  The server need not lead any more: a    *)
(* thread started by a leader may come to its lock late.  The batch may be *)
(* any prefix of what is pending, as the byte cap, the ring's end and the  *)
(* extent boundaries cut it.                                               *)
LockB(t, p) ==
    LET next == Smaller(nextIndex[p], LastIndex + 1)
        pending == LastIndex >= next
        sendable == /\ pending
                    /\ ~(gcHasRun /\ next <= gcUpTo)
                    /\ next \in slotMap
    IN  /\ ledTerm > 0
        /\ RoomForLate
        /\ calls[t] = NoCall
        /\ ~(pending /\ inflight[p])
        /\ \E len \in 0..Smaller(LastIndex + 1 - next, MaxBatch) :
              /\ ~sendable => len = 0
              /\ calls' = [calls EXCEPT ![t] = [peer |-> p, next |-> next,
                                                len |-> len, term |-> term]]
              /\ inflight' = [inflight EXCEPT ![p] = @ \/ len > 0]
        /\ nextIndex' = [nextIndex EXCEPT ![p] = next]
        /\ UNCHANGED <<state, term, stood, copy, logVars, matchIndex, slotVars, ghostVars>>

(* Lock B gives up: entries are pending but a data request is in flight. *)
LockBSkips(p) ==
    LET next == Smaller(nextIndex[p], LastIndex + 1)
    IN  /\ ledTerm > 0
        /\ LastIndex >= next /\ inflight[p]
        /\ nextIndex' = [nextIndex EXCEPT ![p] = next]
        /\ UNCHANGED <<state, term, stood, copy, logVars, matchIndex, inflight, calls,
                       slotVars, ghostVars>>

(* Mutant: every finished request clears the flag. *)
EndCallAlways(t) ==
    /\ calls[t] # NoCall
    /\ calls' = [calls EXCEPT ![t] = NoCall]
    /\ inflight' = [inflight EXCEPT ![calls[t].peer] = FALSE]

(* What every Lock C does first: the thread ends, a data request is no     *)
(* longer in flight.                                                       *)
EndCall(t) ==
    /\ calls[t] # NoCall
    /\ calls' = [calls EXCEPT ![t] = NoCall]
    /\ inflight' = [inflight EXCEPT ![calls[t].peer] = @ /\ calls[t].len = 0]

(* Lock C without effect: no reply, a failed leader-side copy, a reply of  *)
(* another term, or a refusal that next_index has overtaken.               *)
CallDropped(t) ==
    /\ EndCall(t)
    /\ UNCHANGED <<state, term, stood, copy, logVars, nextIndex, matchIndex,
                   slotVars, ghostVars>>

(* Lock C, success.  The reply carries the request's own term; the current *)
(* term may have moved on.                                                 *)
ReplySuccess(t) ==
    LET c == calls[t]
    IN  /\ EndCall(t)
        /\ nextIndex' = [nextIndex EXCEPT ![c.peer] = NextOnSuccess(c)]
        /\ matchIndex' = [matchIndex EXCEPT ![c.peer] = NextOnSuccess(c) - 1]
        /\ acked' = IF state = "Leader" /\ c.term = ledTerm
                    THEN [acked EXCEPT ![c.peer] = Larger(@, c.next + c.len - 1)]
                    ELSE acked
        /\ UNCHANGED <<state, term, stood, copy, logVars, slotVars, ledTerm, noopIndex,
                       rightful, fresh>>

(* Lock C, refusal. *)
ReplyFailure(t) ==
    LET c == calls[t]
    IN  /\ EndCall(t)
        /\ nextIndex[c.peer] = c.next
        /\ \E next \in BackedOff(c) :
              nextIndex' = [nextIndex EXCEPT ![c.peer] = next]
        /\ UNCHANGED <<state, term, stood, copy, logVars, matchIndex, slotVars, ghostVars>>

-----------------------------------------------------------------------------
(* Commit, apply, garbage collection *)

(* advance_commit_index on a leader. *)
AdvanceCommitIndex ==
    /\ state = "Leader"
    /\ \E m \in 0..LastIndex :
          /\ IsMajorityIndex(m)
          /\ m > commitIndex
          /\ TermAt(m) = term
          /\ commitIndex' = m
    /\ UNCHANGED <<state, term, stood, copy, terms, tail, oldest, lastApplied,
                   peerVars, slotVars, ghostVars>>

(* apply_pending: the whole backlog, without giving the lock away. *)
ApplyPending ==
    /\ state = "Leader"
    /\ lastApplied' = AppliedThrough
    /\ UNCHANGED <<state, term, stood, copy, terms, tail, oldest, commitIndex,
                   peerVars, slotVars, ghostVars>>

(* do_slot_gc with its trim_log_locked. *)
DoSlotGc ==
    /\ state = "Leader"
    /\ \E m \in 0..LastIndex :
          /\ IsMinMatch(m)
          /\ slotMap' = slotMap \ (gcUpTo + 1..m)
          /\ gcUpTo' = m
          /\ oldest' = TrimmedOldest(m)
    /\ gcHasRun' = TRUE
    /\ UNCHANGED <<state, term, stood, copy, terms, tail, commitIndex, lastApplied,
                   peerVars, ghostVars>>

-----------------------------------------------------------------------------
Next ==
    \/ Timeout
    \/ \E t \in 1..MaxTerm : StepDown(t)
    \/ BecomeLeader
    \/ \E c \in 0..MaxIndex : FollowerCommit(c)
    \/ \E t \in 1..MaxTerm, c \in 0..MaxIndex : FollowerAppend(t, c) \/ FinishCopy(t, c)
    \/ BeginCopy \/ CopyFails
    \/ \E n \in 1..MaxIndex : Apply(n) \/ ApplyPersistFails(n)
    \/ \E t \in Thread, p \in Peer : LockB(t, p)
    \/ \E p \in Peer : LockBSkips(p)
    \/ \E t \in Thread :
          \/ CallDropped(t)
          \/ ReplySuccess(t)
          \/ ReplyFailure(t)
    \/ AdvanceCommitIndex
    \/ ApplyPending
    \/ DoSlotGc

Spec == Init /\ [][Next]_vars
-----------------------------------------------------------------------------
(* Properties *)

(* Every variable keeps the shape the code's types give it; no index is    *)
(* ever negative, which in the code would be a wrapped uint64_t.           *)
TypeOK ==
    /\ state \in {"Follower", "Candidate", "Leader"}
    /\ term \in Nat
    /\ stood \in BOOLEAN
    /\ copy \in [first : Nat, term : Nat] \cup {NoCopy}
    /\ terms \in Seq(Nat)
    /\ tail \in Nat \ {0}
    /\ oldest \in Nat \ {0}
    /\ nextIndex \in [Peer -> Nat]
    /\ matchIndex \in [Peer -> Nat]
    /\ inflight \in [Peer -> BOOLEAN]
    /\ commitIndex \in Nat
    /\ lastApplied \in Nat \ {0}
    /\ slotMap \in SUBSET (Nat \ {0})
    /\ gcUpTo \in Nat
    /\ gcHasRun \in BOOLEAN
    /\ calls \in [Thread -> Call \cup {NoCall}]
    /\ ledTerm \in Nat
    /\ noopIndex \in Nat
    /\ rightful \in BOOLEAN
    /\ acked \in [Peer -> Nat]
    /\ fresh \in BOOLEAN

(* Once the server has led, next_index lies above match_index and at most  *)
(* one past the log, for every order of replies (the floor in              *)
(* apply_ae_failure_backoff, the clamp in Lock B).                         *)
NextAboveMatch ==
    ledTerm > 0 =>
        \A p \in Peer : matchIndex[p] < nextIndex[p] /\ nextIndex[p] <= LastIndex + 1

(* Slots are freed only up to what every peer has been credited with, so   *)
(* no request starts inside the freed range (do_slot_gc against the        *)
(* back-off in Lock C).                                                    *)
GcBehindNext ==
    state = "Leader" => \A p \in Peer : gcUpTo <= matchIndex[p] /\ gcUpTo < nextIndex[p]

(* Every entry of this leadership that some peer still lacks keeps its     *)
(* slot record: Lock B can always send it.                                 *)
UnmatchedSlotsKept ==
    state = "Leader" =>
        \A i \in noopIndex..LastIndex :
            (\E p \in Peer : matchIndex[p] < i) => i \in slotMap

(* A peer has at most one request with entries in flight, across changes   *)
(* of leadership too, and the flag tells so (inflight is not reset by      *)
(* become_leader).                                                         *)
OneDataCall ==
    \A p \in Peer :
        /\ inflight[p] <=> \E t \in Thread : DataCall(t, p)
        /\ \A t, u \in Thread : DataCall(t, p) /\ DataCall(u, p) => t = u

(* Nothing uncommitted is applied, nothing unapplied is trimmed, nothing   *)
(* missing is committed (apply_pending, trim_log_locked, the min in the    *)
(* follower's commit update).                                              *)
IndicesOrdered ==
    /\ oldest <= lastApplied
    /\ lastApplied <= commitIndex + 1
    /\ commitIndex <= LastIndex

(* The inductive invariant behind the index properties: beside them, every *)
(* open request lies inside the log, and a leader leads its current term.  *)
CallsInsideLog ==
    \A t \in Thread : calls[t] # NoCall =>
        /\ ledTerm > 0
        /\ calls[t].next >= 1
        /\ calls[t].next + calls[t].len <= LastIndex + 1

RoleTerms ==
    /\ state = "Candidate" \/ stood => term > 0
    /\ state = "Leader" => ledTerm > 0 /\ ledTerm = term /\ ~stood

(* The vector and tail_log_index agree, and a copy under way will be       *)
(* appended where it was meant to be, on a server that does not lead.      *)
Aligned ==
    /\ LastIndex = Len(terms)
    /\ copy # NoCopy => copy.first = tail /\ copy.term <= term /\ state # "Leader"

IndexInv ==
    /\ TypeOK
    /\ NextAboveMatch
    /\ GcBehindNext
    /\ IndicesOrdered
    /\ CallsInsideLog
    /\ RoleTerms
    /\ Aligned

(* match_index is what the peer has confirmed to this leadership, in any   *)
(* order of its replies, provided the requests of earlier leaderships were *)
(* over when it began (apply_ae_success, apply_ae_failure_backoff).        *)
MatchConfirmed ==
    state = "Leader" /\ fresh => \A p \in Peer : matchIndex[p] <= acked[p]

(* With the same proviso the leader commits only what a majority has       *)
(* confirmed to it; and, when it was still a candidate as it became        *)
(* leader, only through an entry of its own leadership                     *)
(* (advance_commit_index).  A follower promoted on a stale reading may     *)
(* hold entries of its term that are another leader's.                     *)
CommitConfirmed ==
    [][state = "Leader" /\ commitIndex' # commitIndex =>
          /\ fresh => 2 * (Cardinality({p \in Peer : acked[p] >= commitIndex'}) + 1)
                          > Cardinality(Peer) + 1
          /\ rightful => commitIndex' >= noopIndex]_vars

(* Commit and apply indices never move back, and no reply takes back what  *)
(* a peer was credited with during a leadership.                           *)
NothingTakenBack ==
    [][/\ commitIndex' >= commitIndex
       /\ lastApplied' >= lastApplied
       /\ state = "Leader" /\ state' = "Leader" =>
             \A p \in Peer : matchIndex'[p] >= matchIndex[p]]_vars
=============================================================================
