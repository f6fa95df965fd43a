----------------------------- MODULE FollowerLog -----------------------------
(***************************************************************************)
(* One follower's log under handle_append_entries_request                  *)
(* (core/src/raft_handle_append_entries.cpp).                              *)
(*                                                                         *)
(* A request with entries takes mu twice: the first critical section       *)
(* checks the request and decides how many of its entries are already      *)
(* present, then mu is released while do_pba_copy moves the blocks, and    *)
(* the second critical section appends with the numbers of the first.      *)
(* Other handlers and elections run in the window between the two.         *)
(*                                                                         *)
(* The leaders are given by their logs.  A leader may send any slice of    *)
(* its log at any time and any number of times, with any commit index:     *)
(* lost, repeated and reordered requests are all included.  Leaders of     *)
(* both replication modes may follow each other.                           *)
(* The server itself is not elected here (Election and LeaderLog show that *)
(* part), so it is a follower or a candidate.                              *)
(*                                                                         *)
(* Slots tell where a copy went and where the follower will look for it:   *)
(* a batch lies in a row on the leader's ring and is copied as it lies,    *)
(* while the follower counts the slots from the lengths it is sent.  That  *)
(* a batch lies in a row is RingSlots' concern.                            *)
(***************************************************************************)
EXTENDS Integers, Sequences

CONSTANTS
    MaxTerm,     \* bound on terms
    LeaderLog,   \* LeaderLog[t]: the terms of the entries of term t's leader
    LeaderSlot,  \* LeaderSlot[t][i]: the slot its entry i begins at; one
                 \*   more, for the end of the last entry
    Thread,      \* handler threads that copy at the same time
    NoCopy,      \* an idle thread
    TimelyCopy   \* TRUE: while a copy runs no second request with entries
                 \*   arrives.  No code enforces it; it holds when the
                 \*   storage node answers before the leader's RPC times out

ASSUME FollowerLogAssumptions ==
    /\ MaxTerm \in Nat
    /\ LeaderLog \in [1..MaxTerm -> Seq(1..MaxTerm)]
    /\ LeaderSlot \in [1..MaxTerm -> Seq(Nat)]
    /\ \A t \in 1..MaxTerm :
          /\ Len(LeaderSlot[t]) = Len(LeaderLog[t]) + 1
          /\ \A i, j \in 1..Len(LeaderSlot[t]) :
                i < j => LeaderSlot[t][i] < LeaderSlot[t][j]
    /\ TimelyCopy \in BOOLEAN

VARIABLES
    state,        \* raft.state
    term,         \* raft.current_term
    log,          \* raft.log without its sentinel: slot is ring_slot;
                  \*   data (history) is the slot the blocks were copied to,
                  \*   told (history) that the batch carried true lengths
    tail,         \* ring.tail_log_index
    tailSlot,     \* ring.tail_slot
    commitIndex,  \* raft.commit_index
    copies,       \* what a handler keeps on its stack during its copy
    acks          \* history: the highest index a success has confirmed to
                  \*   the leader of each term

vars == <<state, term, log, tail, tailSlot, commitIndex, copies, acks>>

(* AppendEntriesRequest: num entries after prev of the log of term's       *)
(* leader, which has applied the entries up to applied.                    *)
RequestOf(t) ==
    LET index == 0..Len(LeaderLog[t])
    IN  {r \in [term : {t}, prev : index, num : index, commit : index, applied : index] :
            r.prev + r.num <= Len(LeaderLog[t]) /\ r.applied <= r.commit}

Request == UNION {RequestOf(t) : t \in 1..MaxTerm}

(* init_storage: nothing but the sentinel. *)
Init ==
    /\ state = "Follower"
    /\ term = 0
    /\ log = <<>>
    /\ tail = 1
    /\ tailSlot = 1
    /\ commitIndex = 0
    /\ copies = [h \in Thread |-> NoCopy]
    /\ acks = [t \in 1..MaxTerm |-> 0]

-----------------------------------------------------------------------------
(* Helpers *)

(* oldest_log_index and log_slice: absolute indices against the vector. *)
OldestLogIndex == tail - Len(log)
TermAt(i) == log[i - OldestLogIndex + 1].term

(* Mutant: the check is left out. *)
PrevOkAlways(r) == TRUE

(* The request passes the prevLog consistency check. *)
PrevOk(r) ==
    \/ r.prev = 0
    \/ /\ r.prev < tail
       /\ r.prev >= OldestLogIndex => TermAt(r.prev) = LeaderLog[r.term][r.prev]

(* Mutant: the entry at new_tail itself is forgotten. *)
SkipEntriesOneShort(r) == IF r.prev + 2 < tail THEN tail - r.prev - 2 ELSE 0

(* skip_entries: how many of the batch the follower already has. *)
SkipEntries(r) == IF r.prev + 1 < tail THEN tail - (r.prev + 1) ELSE 0

(* Mutant: the leader's commit index is taken as it is. *)
CommitFromLeader(c, newTail) == IF c > commitIndex THEN c ELSE commitIndex

(* The commit index after a request that carries leader_commit c. *)
CommitAfter(c, newTail) ==
    IF c <= commitIndex THEN commitIndex
    ELSE IF c <= newTail - 1 THEN c ELSE newTail - 1

(* update_term, and the candidate that hears from its term's leader. *)
Received(r) ==
    /\ term' = IF r.term > term THEN r.term ELSE term
    /\ state' = IF r.term > term \/ (r.term = term /\ state = "Candidate")
                THEN "Follower" ELSE state

(* The request is not of an old term; every other one finds a follower. *)
Listens(r) == r.term >= term

(* Where entry j lies in the batch, from the start of the batch on. *)
Lies(r, j) == LeaderSlot[r.term][j] - LeaderSlot[r.term][r.prev + 1]

(* Where slots_for_entry puts it, from the cmd_len of the entries before   *)
(* it: apply_pending has cleared the command of an applied entry and its   *)
(* ring_slot, so the leader sends the length 0, which is one slot.         *)
Counted(r, j) ==
    LET upto == IF r.applied < j THEN r.applied ELSE j - 1
        a == IF upto < r.prev THEN r.prev ELSE upto
    IN  a - r.prev + LeaderSlot[r.term][j] - LeaderSlot[r.term][a + 1]

(* No entry of the batch was applied by the leader. *)
LengthsTrue(r) == r.applied <= r.prev

(* Mutant: the slots of skipped entries are not stepped over. *)
PushedKeepsTailSlot(c, first) ==
    [i \in 1..c.req.num - c.skip |->
        LET j == c.req.prev + c.skip + i
        IN  [term |-> LeaderLog[c.req.term][j],
             slot |-> first + Counted(c.req, j) - Counted(c.req, c.req.prev + c.skip + 1),
             data |-> c.slot + Lies(c.req, j), told |-> LengthsTrue(c.req)]]

(* The entries that are pushed when tail_slot is first.  The copy went to  *)
(* the tail_slot of the first critical section, c.slot.                    *)
Pushed(c, first) ==
    [i \in 1..c.req.num - c.skip |->
        LET j == c.req.prev + c.skip + i
        IN  [term |-> LeaderLog[c.req.term][j], slot |-> first + Counted(c.req, j),
             data |-> c.slot + Lies(c.req, j), told |-> LengthsTrue(c.req)]]

(* No copy is disturbed by another batch. *)
Undisturbed == TimelyCopy => \A g \in Thread : copies[g] = NoCopy

(* start_slot, the leader's slot of the first entry. *)
StartSlot(r) == LeaderSlot[r.term][r.prev + 1]

(* What the first critical section hands to the second. *)
CopyOf(r) == [req |-> r, skip |-> SkipEntries(r), slot |-> StartSlot(r)]

(* The reply is a success: it confirms all of r. *)
Success(r) ==
    acks' = [acks EXCEPT ![r.term] = IF r.prev + r.num > @ THEN r.prev + r.num ELSE @]

(* The second critical section: nothing of the first is checked again. *)
AppendBatch(c, first) ==
    /\ log' = log \o Pushed(c, first)
    /\ tailSlot' = first + Counted(c.req, c.req.prev + c.req.num + 1)
    /\ tail' = c.req.prev + 1 + c.req.num
    /\ commitIndex' = CommitAfter(c.req.commit, tail')
    /\ Success(c.req)

-----------------------------------------------------------------------------
(* handle_append_entries_request *)

(* Refused: an old term, or no match at prev. *)
Refuse(r) ==
    /\ Received(r)
    /\ ~(Listens(r) /\ PrevOk(r))
    /\ UNCHANGED <<log, tail, tailSlot, commitIndex, copies, acks>>

(* A heartbeat, or a batch that is entirely present already. *)
NothingNew(r) ==
    /\ Received(r)
    /\ Listens(r) /\ PrevOk(r)
    /\ SkipEntries(r) >= r.num
    /\ commitIndex' = CommitAfter(r.commit, tail)
    /\ Success(r)
    /\ UNCHANGED <<log, tail, tailSlot, copies>>

(* A batch with new entries: tail_slot follows the leader, mu is released  *)
(* for do_pba_copy.                                                        *)
BeginCopy(h, r) ==
    /\ copies[h] = NoCopy
    /\ Undisturbed
    /\ Received(r)
    /\ Listens(r) /\ PrevOk(r)
    /\ SkipEntries(r) < r.num
    /\ tailSlot' = StartSlot(r)
    /\ copies' = [copies EXCEPT ![h] = CopyOf(r)]
    /\ UNCHANGED <<log, tail, commitIndex, acks>>

(* do_pba_copy throws: the batch is refused without hints. *)
CopyFails(h) ==
    /\ copies[h] # NoCopy
    /\ copies' = [copies EXCEPT ![h] = NoCopy]
    /\ UNCHANGED <<state, term, log, tail, tailSlot, commitIndex, acks>>

(* The copy is done and mu is taken again. *)
FinishCopy(h) ==
    /\ copies[h] # NoCopy
    /\ AppendBatch(copies[h], tailSlot)
    /\ copies' = [copies EXCEPT ![h] = NoCopy]
    /\ UNCHANGED <<state, term>>

(* data_already_copied: a leader in the leader-side mode has copied the    *)
(* blocks itself, so the handler keeps mu.                                 *)
AppendAtOnce(r) ==
    /\ Undisturbed
    /\ Received(r)
    /\ Listens(r) /\ PrevOk(r)
    /\ SkipEntries(r) < r.num
    /\ AppendBatch(CopyOf(r), StartSlot(r))
    /\ UNCHANGED copies

-----------------------------------------------------------------------------
(* Elections, as far as they reach this server *)

(* timeout() *)
Timeout ==
    /\ term < MaxTerm
    /\ state' = "Candidate"
    /\ term' = term + 1
    /\ UNCHANGED <<log, tail, tailSlot, commitIndex, copies, acks>>

(* update_term for a RequestVote of a higher term. *)
HigherTerm(t) ==
    /\ t > term
    /\ state' = "Follower"
    /\ term' = t
    /\ UNCHANGED <<log, tail, tailSlot, commitIndex, copies, acks>>

-----------------------------------------------------------------------------
Next ==
    \/ \E r \in Request :
          \/ Refuse(r)
          \/ NothingNew(r)
          \/ AppendAtOnce(r)
          \/ \E h \in Thread : BeginCopy(h, r)
    \/ \E h \in Thread : CopyFails(h) \/ FinishCopy(h)
    \/ Timeout
    \/ \E t \in 1..MaxTerm : HigherTerm(t)

Spec == Init /\ [][Next]_vars
-----------------------------------------------------------------------------
(* Properties *)

Copy == [req : Request, skip : Nat, slot : Nat]

(* Every variable keeps the shape the code's types give it; tail_log_index *)
(* never falls below the number of entries, where oldest_log_index would   *)
(* wrap around.                                                            *)
TypeOK ==
    /\ state \in {"Follower", "Candidate"}
    /\ term \in Nat
    /\ log \in Seq([term : Nat, slot : Nat, data : Nat, told : BOOLEAN])
    /\ tail \in Nat
    /\ tailSlot \in Nat
    /\ commitIndex \in Nat
    /\ copies \in [Thread -> Copy \cup {NoCopy}]
    /\ acks \in [1..MaxTerm -> Nat]

(* The first entry has index 1: the vector and tail_log_index agree, so    *)
(* log_slice finds every entry (init_storage, the push loop).              *)
IndexFromOne == OldestLogIndex = 1

(* The follower's log repeats a leader's log from its start, whatever was  *)
(* lost, repeated or late (the prevLog check and skip_entries).            *)
PrefixOfLeader ==
    \E t \in 1..MaxTerm :
        /\ Len(log) <= Len(LeaderLog[t])
        /\ \A i \in 1..Len(log) : log[i].term = LeaderLog[t][i]

(* A success promises the leader that the follower holds its log up to the *)
(* end of the batch; the promise is kept for ever.  "Entire batch already  *)
(* in follower's log" says the handler where it skips the copy.            *)
AckedPresent ==
    \A t \in 1..MaxTerm :
        \A i \in 1..acks[t] : i < tail /\ TermAt(i) = LeaderLog[t][i]

(* The ring_slot of an entry is the slot its blocks were copied to, also   *)
(* when a part of its batch was there already, provided the leader had not *)
(* applied an entry of the batch before it sent it (the push loop, D11).   *)
ReadsWhatWasCopied == \A i \in 1..Len(log) : log[i].told => log[i].slot = log[i].data

(* The metadata is enough for the follower to find every entry of its log  *)
(* on its device: what the comment on MetaBuild says of it                 *)
(* (raft_append_entries.cpp), applied entries included.                    *)
MetadataFindsEntries == \A i \in 1..Len(log) : log[i].slot = log[i].data

(* The follower never commits an entry it does not have, and never takes a *)
(* commit back (the min with tail_log_index - 1).                          *)
CommitInsideLog ==
    [][commitIndex' >= commitIndex /\ commitIndex' < tail']_vars
=============================================================================
