# TLA+ specification of Raft-oF

Raft-oF replicates a log whose entries live in a ring file on an NVMe device.
An AppendEntries request carries no commands: it names a physical block range of
the leader's ring file, and the blocks are copied on the storage node, either on
the follower's behalf (destination side) or by the leader beforehand (leader
side). This directory models the servers, their clients, the storage node's
copies and the RPC layer in TLA+, checks them with TLC on small instances, and
proves with TLAPS what voting, the leader's bookkeeping, the follower's handler,
client requests, the ring, the storage node's copies, shared connections and the
cluster as a whole guarantee for every instance.

Paths below are relative to the repository's root.

## 1. Inventory

Every server is one `Server` object. All its Raft and ring state is guarded by
one mutex, `mu`; a *step* of the models is one critical section. What makes the
system hard is what happens between two critical sections of one thread: an RPC,
a block copy, a wait on a condition variable, or the gap between the main loop's
read and its branch.

| Part | State | Operations | What can go wrong | What makes it correct |
|---|---|---|---|---|
| Elections (`core/src/raft_election.cpp`, `main_loop` in `raft_lifecycle.cpp`) | `current_term`, `state`, `cluster[i].voted_for` (own vote and tally in one array), the header on the device | `timeout`, `request_vote(_worker)`, `handle_request_vote_request`, `become_leader`, `heartbeat`, `update_term`, `init_storage` | replies that come after the next timeout; a role that changed since the loop read it; restarts | one vote per term, on the device before the answer; one leader per term |
| Leader bookkeeping (`raft_append_entries.cpp`, `raft_commit.cpp`) | `next_index`, `match_index`, `inflight`, `commit_index`, `last_applied`, `gc_up_to` | `append_entries_worker` (Lock B, RPC, Lock C), `apply_ae_success`, `apply_ae_failure_backoff`, `advance_commit_index`, `apply_pending`, `do_slot_gc`, `trim_log_locked` | replies in any order and of an earlier leadership; slots freed under an open request | indices ordered, nothing credited or committed that was not confirmed |
| Follower handler (`raft_handle_append_entries.cpp`) | `log`, `tail_log_index`, `tail_slot`, `commit_index` | `handle_append_entries_request`, `do_pba_copy` | the lock is free during the copy; repeated requests; conflicting suffixes; lengths the leader no longer has | what was acknowledged stays, and is read where it was copied |
| Ring (`raft_persist.cpp`, `raft_ring_helpers.cpp`, `raft_pba.cpp`) | `tail_slot`, `head_slot`, `log_slot_map`, the device | `persist_circular`, `can_write_all`, `recompute_head_slot`, `leader_pba_for_range` | full ring, repeated wraps, extents, stale records | no live slot overwritten, every entry can be sent, room returns |
| Extent map (`blockio/cached_fd.cpp`) | extents of the ring file | `lookup`, `remaining_at`, `create_ring_file` | boundaries inside a batch | an entry lies in one extent; a request's range is contiguous (it is not always) |
| Client requests (`raft_apply.cpp`, `apps/raft_client_main.cpp`) | waiting clients, commit signals, result collectors | `apply_internal`: wait for room, append, replicate, wait for commit and result; the client's probe and repetitions | waits across a change of leader, persist failure, repetition of what was done | what is counted is committed, nothing is applied twice, everyone is answered |
| Lifecycle (`raft_lifecycle.cpp`, `apps/raft_node_main.cpp`) | threads | `start`, `stop`, worker loops | stop against waiting threads | the shutdown ends |
| Storage node (`storage/`) | buffer pool, volumes | `handle_write_pba_batch` with its workers | concurrent requests, failing workers, copies whose caller is gone | a success leaves the batch's blocks in place |
| Transport (`net/`) | cached connections, back-off, `call_mu` | `call_peer`, `rpc_invoke`, `rdma_invoke`, TCP and RDMA servers, the codec and the conversions | time limits, late replies, reconnects, peers of another version | a call gets its own reply, unchanged, or ends at its time limit; a broken connection is replaced |
| State machines, timings, statistics, scripts | | | not part of the protocol | |

How they interact: the main loop calls elections, heartbeat and commit; clients
append and start replication workers; workers call the peers' handlers through
the transport; handlers call the storage node; replies change the leader's
indices, which drive commit, apply and the slot collector; the collector wakes
clients that wait for room, the commit wakes those that wait for an answer.

The hazards this comes down to, each at its line, with the properties that would
catch it, are listed in `PROJECT.json`.

## 2. Modules

| Module | Models | State and actions |
|---|---|---|
| `VoteLedger` | abstract: ballots are cast once per term, majorities elect | `Cast`, `Elect` |
| `Election` | elections of several servers, with every worker thread, the device header and restarts | one action per critical section: `ReadState`, `Timeout`, `BecomeLeader`, `Heartbeat`, `SendRequestVote`, `HandleRequestVote`, `HandleVoteReply`, `RpcFails`, `SendAppendEntries`, `HandleAppendEntries`, `Restart` |
| `LeaderLog` | one server's bookkeeping while it leads, follows and leads again, against peers that may answer anything | `LockB`, `LockBSkips`, `ReplySuccess`, `ReplyFailure`, `CallDropped`, `Apply`, `ApplyPersistFails`, `AdvanceCommitIndex`, `ApplyPending`, `DoSlotGc`; `Timeout`, `StepDown`, `BecomeLeader`; in the follower role `FollowerCommit`, `FollowerAppend`, `BeginCopy`, `CopyFails`, `FinishCopy` |
| `FollowerLog` | one follower against leaders given by their logs, with requests lost, repeated and reordered | `Refuse`, `NothingNew`, `BeginCopy`, `FinishCopy`, `CopyFails`, `AppendAtOnce`, elections |
| `RingSlots` | the ring on the device: placement, occupancy, batches, freeing | `BecomeLeader`, `StepDown`, `Apply`, `FollowerAppend`, `Confirm`, `DoSlotGc` |
| `ApplyClient` | requests at one server, the client program, the server's threads and its shutdown | `Enter`, `RoomWakes`, `RoomTimeout`, `Spawn`, `PollSignal`, `Recheck`, `Result`, `GiveUp`; the main loop, apply worker and collector; changes of role; `SignalStop`, `Stop`, `JoinWorkers`, `JoinReplication` |
| `BlockCopy` | the storage node: chunks of a batch, buffer pool, copy workers, volumes | `Request`, `AcquirePooled`, `AcquireNew`, `AcquireFails`, `Read`, `Write`, `CopyFails`, `Finish`, `CallerGivesUp`, `LeaderWrites` |
| `WireMessages` | every message: struct, conversion, numbered fields and back | operators only; one table per function |
| `RpcConnection` | one client's threads, its cached connection, the server's threads; TCP and RDMA | `Begin`, `DialOk`, `DialFails`, `Invoke`, `Receive`, `Returns`, `InvokeFails`, `GiveUp`, `RunAgain`; `Reads`, `Handled`, `Ends`, `ThreadEnds`; `Breaks`, `Crashes` |
| `CommandLog` | abstract: one log of decided entries that grows at its end | `Decide` |
| `Cluster` | elections, leaders, followers, lost calls, failed copies and restarts together | `Campaign`, `Elect`, `Apply`, `Send`, `Return`, `AdvanceCommitIndex`, `Receive`, `FinishCopy`, `CopyFails`, `Lose`, `Restart` |
| `LeaderLogProofs` | theorems about `LeaderLog` | |
| `ElectionProofs` | theorems about `Election`, and that it implements `VoteLedger` | |
| `FollowerLogProofs` | theorems about `FollowerLog` | |
| `ApplyClientProofs` | theorems about `ApplyClient` | |
| `BlockCopyProofs` | theorems about `BlockCopy` | |
| `RpcConnectionProofs` | theorems about `RpcConnection` | |
| `RingSlotsProofs` | theorems about `RingSlots` | |
| `ClusterProofs` | theorems about `Cluster`, and that it implements `CommandLog` | |
| `MC*` | constants and symmetries for TLC | |

`Cluster` is the composition. It puts together what the other modules look at one
at a time, each step coarser than there: an election is one step, and a worker
sends only while its server leads. What the coarser steps leave out is exactly
what the finer modules are for, and where a finer module shows that something
may go wrong, `Cluster` names it in `Excluded` or keeps it (lost calls, failed
copies, refusals with their hints, restarts).

Two refinements are stated with `INSTANCE ... WITH`: `Election` implements
`VoteLedger` (ballots and leaders are its history variables), and `Cluster`
implements `CommandLog` (with `decided`, all that any server has ever committed).

Abstractions. Commands, metadata and timings carry no content: an entry is its
term (LeaderLog, FollowerLog, Cluster), its slot count (RingSlots) or its sender
(ApplyClient). Time is left out: a timer may expire whenever its branch of the
main loop runs, and a bounded wait may end at any time. `slot_offset` and byte
counts are counted in slots of one sector. In `FollowerLog` a leader is given by its
log and by the slots its entries begin at, so entries have any lengths and a slot
number tells where a copy went; the follower counts its own slots from the lengths
it is sent, which are those of one-slot entries for what the leader has applied.
That a batch lies in a row is `RingSlots`' concern, which has the wrap and the
extents. In `ApplyClient` the command of an entry is in memory, on the device, or at
slot 0, where `become_leader` does not look for it. In `LeaderLog` `terms`
keeps trimmed entries as history; no step reads below `oldest`. In
`RpcConnection` TCP and RDMA both deliver whole frames in order until the
connection breaks; a field of a message is a number, and 0 is the default that
protobuf does not write.

History variables (`ballots`, `elected`, `ledTerm`, `noopIndex`, `rightful`, `acked`,
`fresh`, `acks`, `decided`, `promised`, `unsure`, `counted`, `given`, `again`, the
`data` and `told` fields of an entry) are written and not read by a guard, but for
`ledTerm > 0` in Lock B: a worker thread exists only once the server has led.
`noopIndex`, `rightful`, `acked` and `fresh` describe the current leadership and are
cleared when it ends. `LeaderLog`'s `stood` stands for the main loop's own reading:
`timeout` has run and `become_leader` may follow, whatever the state is by then. `device`, `volume`
and `content` are what the ring files hold.

Operators whose comment begins with "Mutant" are variants with a plausible bug;
no specification uses them. Each property is known to fail when one of them
replaces the definition it varies.

## 3. Assumptions that no code enforces

Each is a constant, so that every run says which ones it makes; what happens
without them is in section 4.

- `LateCalls = 0` (Election): every RequestVote call has returned when the
  election timer expires again. Socket time limits of 2 s make it likely.
- `QuietLoop = TRUE` (Election): no other thread takes `mu` between the main
  loop's read of the state and the end of that iteration.
- `TimelyCopy = TRUE` (FollowerLog): no second request with entries arrives while
  a copy runs, that is, the storage node answers before the leader's RPC times out
  (`inflight` keeps one leader from sending two).
- `TimelyCopy = TRUE` (LeaderLog): besides, the server is not promoted while one of
  its handlers copies. `mu` is free during the copy and the second critical section
  looks at neither state nor term; only an election timeout longer than a copy keeps
  the two apart.
- `Excluded` (RingSlots): six situations in which a write runs into live entries. Of
  `apply_internal` and `become_leader` (`Roomy`): `exactFill`, a write that ends
  exactly at `head_slot`; `secondWrap`, a wrapped ring that wraps again;
  `uncheckedNoop`, a no-op where there is no room for it; `extentSkip`, slots skipped
  at the end of an extent that take the write past `head_slot`; `lapped`, a batch that
  comes round to where it began. Of the follower (`Aside`): `copyOver`, a copy into
  slots that a record of an earlier leadership still names, or that leaves
  `tail_slot` in or right before one.
- The persist that fails halfway (`raft_apply.cpp:163`) leaves its records and
  `tail_slot` behind. `LeaderLog` and `ApplyClient` have the records; `RingSlots`
  leaves the failure out, so what it says is of rings without failed writes.
- `BlockCopy` and `FollowerLog` take the source range of a batch to be in a row, as
  the comment in `do_pba_copy` does; `ring_extents` shows that it need not be
  (`raft_pba.cpp:38`).
- `PollsInTime = TRUE` (ApplyClient): a client that waits for its commit polls
  once between the loss of the leadership and the same server's next election; it
  polls every 20 ms, an election takes 20 heartbeats or more.
- `LateReplies = FALSE` (RpcConnection): a call may pass its time limit at any time,
  but nothing arrives on its connection afterwards. In the code the caller unlocks
  `call_mu` before it gives the connection up; a thread that waits for the lock
  uses the connection once more and would read a reply that comes then.
- `Excluded` (BlockCopy): `ringEnd`, the rounded last page of a batch does not
  reach past the ring's end; `lateCopy`, a copy ends with its caller.
- `Excluded` (Cluster): `lostTail`, a server is elected while some log, or some
  request under way, has entries that no majority holds, or a deposed leader takes
  commands after its successor has written (nothing is ever truncated, so a tail
  that lost stays); `amnesia`, a restarted server, whose log is empty, votes or
  runs, or a majority of the servers has restarted; `lateCopy` and `lateReply`, as
  above for a whole cluster.

Fairness:

- `RingSlots.FairSpec`: the collector keeps running (`slot_gc_worker_loop` does
  until `stop`), and every peer confirms what it is sent in the end. The second is
  about the environment; without it a full ring rightly stays full.
  `apply_internal` waits a limited time only, so what `RoomReturns` says is that a
  client which tries again is served.
- `ApplyClient`: a client's thread runs on (every wait of `apply_internal` has a
  time limit or polls), replication threads end (an RPC has a time limit), and the
  thread in `stop` goes on. Elections, the apply worker, the collector and other
  clients are owed to nobody, and neither are the answers of a majority: where one
  is needed, the property says so. `ClientAnswered` needs it, as `apply_internal`
  waits for the commit without limit; `StopEnds` needs it on RDMA before `done` is
  set, and not on TCP.
- `RpcConnection`: a client's threads run on, to the reply or to the time limit,
  callers call again (the heartbeat does so for ever), the back-off of a dial
  expires, and a dial that is tried for ever succeeds some time, hence `SF`. Of the
  server only this is assumed, that its thread ends on a connection the client has
  closed; while a call waits it may be silent for ever. A connection may break, and a
  server's thread end with its connection left up, at any time. The client program
  ends when a call fails, and is owed to nobody.
- `Cluster`: the worker of a leader for a peer and the handlers of its calls run
  on (`heartbeat` starts workers for ever). `SF` rather than `WF` because workers
  compete for `MaxCalls` in the model, and for nothing in the code. Elections,
  commands and faults are bounded and owed to nobody.

Some more are provisos of properties and do not restrict the model. The
history flag `fresh` of `LeaderLog` says whether, when the leadership began, no
AppendEntries call of an earlier leadership was open. `MatchConfirmed` and the
majority part of `CommitConfirmed` are about such leaderships. `rightful` says whether
the server was a candidate still when it was promoted; a follower promoted on a stale
reading may hold entries of its term that another leader wrote, so the other part of
`CommitConfirmed`, no commit below the own no-op, is about the rightful. Likewise
`ReadsWhatWasCopied` is about entries whose batch carried true lengths (`told`),
`AppliedOnce` promises the application only of commands this server wrote,
`VoteOnce` is about servers that have not restarted, `MatchHeld` about such peers,
and `CatchesUp` leaves out restarted and `Stranded` peers.

## 4. Runs

Passing runs:

| Run | Question |
|---|---|
| `election_assured` | With timely calls and a quiet loop: at most one leader per term (`ElectionSafety`), and `Election` implements `VoteLedger` (`ImplementsLedger`). |
| `election_races` | Without the quiet loop, and with a restart: a server that has not restarted votes once per term (`VoteOnce`), no vote is answered before it is on the device (`VoteDurable`), no tally slot counts a vote that was never given (`NoForgedVotes`), terms do not go back (`TermsAdvance`). |
| `leader_any_reply` | Any replies at any time: indices ordered (`NextAboveMatch`, `IndicesOrdered`), records kept while a peer needs them (`UnmatchedSlotsKept`), one data request per peer (`OneDataCall`), nothing taken back (`NothingTakenBack`); for `fresh` leaderships `match_index` is confirmed (`MatchConfirmed`) and a commit has a majority of confirmations, and for `rightful` ones it reaches the leadership's own no-op (`CommitConfirmed`). |
| `follower_timely` | In both replication modes: the follower's log repeats a leader's (`PrefixOfLeader`) with entry i at index i (`IndexFromOne`), acknowledged entries stay (`AckedPresent`), entries sent with true lengths are read where they were copied (`ReadsWhatWasCopied`), commits stay inside the log (`CommitInsideLog`). |
| `ring_slots` | Three extents, a copy received as a follower, none of the six excluded situations: live entries intact (`LiveSlotsIntact`), an entry lies in one extent if it can (`EntryInOneExtent`), Lock B finds something to send for every record (`AlwaysSomethingToSend`), room returns (`RoomReturns`). |
| `client_requests` | What the client counts is committed (`CountedCommitted`), its repetitions write nothing twice (`NothingTwice`), the state machine gets no command twice and every one this server wrote (`AppliedOnce`), a request counts its own results (`ResultsOnce`), with a majority every request is answered (`ClientAnswered`), and the shutdown ends (`StopEnds`). |
| `storage_copies` | A buffer has one user and is large enough (`BuffersSound`), chunks tile a batch inside extents (`ChunksTile`), after a success the follower's volume holds the batch and goes on holding it (`PromiseKept`). |
| `rpc_calls` | All methods, peers of two versions, connections that break, servers that die or fall silent: messages arrive as meant and at the right caller (`MessagesArrive`), a node replaces a connection that is broken or not served (`Recovers`), no call keeps its lock (`CallMuReleased`). Deadlock is checked. |
| `cluster` | Away from four situations the code does not handle: logs never part (`LogsAgree`), a leader has all that was committed (`LeaderComplete`), `match_index` is what the peer holds (`MatchHeld`), there is one decided log (`ImplementsCommandLog`), and peers catch up (`CatchesUp`). |

Three runs show the code disagreeing with its own comments (quoted in `PROJECT.json`,
"findings"):

- `election_late_vote`: a vote read one election late is counted again, and two
  servers lead one term.
- `follower_lengths`: `apply_pending` clears an entry's command and `ring_slot`, so the
  metadata of a batch sent later gives it the length 0. A follower that lags behind
  the leader's `last_applied` then steps one slot on instead of the entry's length,
  and looks for the entries behind it where they were not copied
  (`MetadataFindsEntries`).
- `ring_extents`: `leader_pba_for_range` rounds the length of a cut extent up to a
  page. Entries on both sides of an extent boundary pass for contiguous, and the
  range the request names does not hold the last of them (`BatchReadsItsEntries`).
  The run excludes the same six situations as `ring_slots`, so this is a matter of
  extents alone.

Also seen with TLC while the assumptions were worked out, and not kept as runs of
their own; each is reached by the change named:

- `Election`, `VoteOnce` without its proviso for restarted servers: `create_ring_file`
  (`blockio/cached_fd.cpp:195`) zeroes the header at every start, so a restarted
  server votes again in a term it has voted in; `core/include/raft_state.h:188` says
  the vote is recovered from the header.
- `QuietLoop = FALSE`: a server that stepped down after the main loop's read is
  promoted from Follower; `become_leader` does not look at the state.
- An append worker of a deposed leader stamps its request with the term it finds
  (`MaxAppend > 0`).
- `LeaderLog`, `MatchConfirmed` without `fresh`: a reply of an earlier leadership
  raises `match_index` (compare the comment at `raft_append_entries.cpp:511`).
- After a re-election a refusal moves `next_index` below `oldest` (the clamp in
  `append_entries_worker` is commented out as impossible).
- `FollowerLog` with leaders' logs that disagree, as `<<1, 1>>` and `<<1, 2, 2>>`: a
  conflicting batch is skipped by its indices and acknowledged, and `AckedPresent`
  fails (`raft_handle_append_entries.cpp:197`).
- `FollowerLog`, `TimelyCopy = FALSE`: two handlers append one batch twice and
  `IndexFromOne` fails. A batch checked in one term is appended in the next
  (`FinishCopy` does not look at the term).
- `LeaderLog`, `TimelyCopy = FALSE`: a server is promoted during its copy; the second
  critical section then sets `tail_log_index` to what it was before the no-op, and its
  `leader_commit` raises the new leader's `commit_index` (`CommitConfirmed` fails in
  six steps).
- `RingSlots`, `Excluded` without any one of `exactFill`, `secondWrap`,
  `uncheckedNoop`, `extentSkip` and `copyOver`: `LiveSlotsIntact` fails in five or six
  steps. With `exactFill` allowed a write ends at `head_slot`, and `can_write_all` takes
  the full ring for an empty one (compare `tests/test_ring_helpers.cpp:134`). Without
  `lapped` it takes a batch of more than half the ring, as `<<2, 5>>` in a ring of
  seven: `can_write_all` lets everything into an empty ring, and the entry that wraps
  overwrites the one before it. With a command longer than a page in a ring of
  several extents `AlwaysSomethingToSend` fails.
- `ApplyClient`: `become_leader` passes a committed entry that was copied to slot 0
  (`raft_election.cpp:191`) or that it could not read (`:197`), and no later step
  applies it.
- `ApplyClient`, `StopEnds` without a majority on RDMA: `main` joins the listener
  (`raft_node_main.cpp:392`), which joins the request threads, before `stop` sets
  `done`; a request that waits for its commit (`raft_apply.cpp:198`) keeps the node
  from ending.
- `PollsInTime = FALSE`: a client that misses the gap between two leaderships waits
  for ever, since an entry committed while the server followed is never signalled
  (`raft_apply.cpp:54`).
- `joins = FALSE` (TCP): a detached connection thread may start replication after
  `stop` has returned.
- `LateReplies = TRUE`: the reply to a call that was given up is read by the
  next caller of the same connection as its own.
- `Recovers` holds for the storage client too: `net/README.md:36`,
  `E2E_EXPERIMENT.md:478`, `BLKCOPY_EXPERIMENT.md:316` and DECISIONS.md U6 say that a
  storage connection that died once fails for ever, which was true of the client
  before `RpcBlockCopyClient`.
- `BlockCopy`, `Excluded` without `ringEnd`: the rounding of the last page to a whole
  page writes over what the follower holds at the ring's beginning; without
  `lateCopy`: an abandoned copy overwrites a later batch.
- `Cluster`, `Excluded` without `lostTail`: after two elections `LogsAgree` fails,
  as no handler truncates; without `amnesia`: a majority of voters without logs
  elects a leader without the committed entries; without `lateCopy`: a batch is
  appended behind entries that came meanwhile and the indices drift; without
  `lateReply`, with a third term: `MatchHeld` fails.
- `Cluster`, `CatchesUp` without `Stranded`: a new leader has no slot records for
  what it received as a follower, so a peer that lacks such an entry gets
  heartbeats for ever (DECISIONS.md U2).

Bounds. Elections: three servers, two of which time out, two terms: two rival
candidates, a third that decides, and an election after the first, which is what
late replies and stale reads need; a third candidate or term adds no new kind of
interleaving. `election_races` has one restart and no late reply, the two together
being too many states; its four properties are proved for both. Leader: two peers,
two worker threads, three entries, three terms, batches of up to two: a data request
and a heartbeat open at once, replies overtaking each other, two leaderships of one
server with a term in between; a thread may come to Lock B when the server no longer
leads, one at a time (`MaxLate` 1, any number in the theorems); and
trimming (`TrimThreshold` 1). Follower: three leaders with logs of two to four
entries of one or two slots, the last leader's at other slots, two handlers. Ring:
seven slots in three extents, pages of two slots, commands of one or two slots, alone
or two in one `apply()`, up to seven entries, two elections and one copied entry, so
that the ring wraps, skips and is taken over. Client: a probe and a batch of two commands against a ring of
three slots, so that the batch must wait for room, two leaderships and an entry
of another client or another leader; further clients are seen by what they write. Storage: two
requests at a time with two workers each, chunks smaller than a batch, batches
across an extent and pages longer than a batch, a slot used again by the leader.
RPC: two threads, two connections (one being given up, one being used), every
method in the first thread. Cluster: three servers, a leader for each of two terms,
logs of a no-op, a command and the second no-op, two calls open, one fault: a lost
call, a failed copy or a restart of the first leader (305,492 states). What these
bounds leave out for safety (more servers, several restarts, a third term with the
first leader elected again) is covered by the theorems of `ClusterProofs`.

Deadlock is checked only where the system cannot stop (`rpc_calls`): elsewhere the
model may, with its counters at their bounds. Symmetry over interchangeable peers,
servers and threads is used in runs without liveness. Every module has a `TypeOK`
that TLC has checked as well; it is listed for `LeaderLog`, where it means that no
unsigned subtraction wraps.

## 5. Proofs

The theorems hold for every value of the constants that satisfies the module's
named assumption (`LeaderLogAssumptions`, `ElectionAssumptions`,
`FollowerLogAssumptions`, `ClusterAssumptions` and so on: bounds are natural
numbers, sets are finite where they are counted, null values are not members), and
under the conditions named below.

`LeaderLogProofs`, under `TimelyCopy`, for promotions on a stale reading of the state
too. The peers of the model may answer anything, so no theorem assumes anything of
another server.

- `IndexInvariant`: `IndexInv` is inductive. `NextAboveMatch`, `GcBehindNext` and
  `IndicesOrdered` are not, taken alone: a success reply sets `next_index` from what
  its thread kept on the stack, so `CallsInsideLog` must say that every open request,
  of whichever leadership, lies inside the log (the log never shrinks); the
  collector's bound needs `RoleTerms` to know that a leader has initialised the
  indices of its peers; and `Aligned` that a copy under way will still be appended at
  the tail, on a server that does not lead. There is one lemma per action. `TypeCorrect`,
  `NextStaysAboveMatch`, `GcStaysBehind` and `IndicesStayOrdered` are its
  corollaries.
- `NothingIsTakenBack`: an action property; a late refusal stops at the floor
  `match_index + 1`, a late success at the larger `next_index`.
- `UnmatchedSlotsAreKept`, through `SlotsKept`: every entry of this leadership above
  the collector's mark has a record, and the mark is below every `match_index`.
- `OneDataCallOnly`: inductive together with `TypeOK`; Lock B opens a data request
  only where the flag is off, and a heartbeat's Lock C does not clear it.
- `MatchIsConfirmed`, through `MatchInv`: in a `fresh` leadership every open call is
  of its own term, and `next_index` exceeds the start of an open call only as far
  as later replies have confirmed entries (`OwnCalls`); so when a success raises
  `match_index` to the larger of the two, that much is confirmed.
- `CommitIsConfirmed`: terms in the log do not exceed the current term and
  entries of the term led stand at the no-op or above, if the server was a candidate
  when it was promoted (`TermInv`); the peers that
  reach the chosen index are a subset of those that confirmed it, so their number
  is no larger (finite-set theorems on cardinality).

`ElectionProofs`, with restarts, replies that come any number of elections late and
stale reads of the main loop, so without either assumption of section 3:

- `VoteInvariant`: the header on the device is what the server remembers, and no
  ballot of a living server is of a later term than its own or, in its own
  term, for another candidate than the one it remembers. `VoteOnce` alone is not
  inductive: it says nothing of the memory that a second vote is checked against.
- `VotesOnce`, `VotesDurable`, `TermsNeverBack` follow from it. `NoVoteForged` adds
  what replies under way carry: a granted reply has its ballot.

`ElectionProofs`, second part, under `Calm` (no vote call outlives its election, quiet loop,
no restart):

- `CandidateInvariant`: a counted slot of a candidate's tally stands for a ballot in
  its *current* term, because every open vote call is of that term; without `Calm`
  the same slot stands for a ballot of some term, which is what
  `election_late_vote` shows.
- `ElectionImplementsLedger`: every step is a `Cast`, an `Elect` or leaves the ledger
  alone. `OneLeaderPerTerm` then needs that two majorities of one finite set of
  servers meet, and that the voter in both has one ballot.

`FollowerLogProofs`, under `Timely` (`TimelyCopy`):

- `HandlerInvariant`: the vector and `tail_log_index` agree, and the batch of a copy
  under way still fits: nobody has moved the tail or the slot since the first
  critical section (`CopiesCurrent`). The second critical section checks nothing
  again, so the two properties fail without it. For a batch of true lengths the slots
  the follower counts are those the batch lies in. `IndicesFromOne`, `ReadsItsCopies`
  and `CommitsInsideLog` follow.
- `RepeatsALeader` and `AcksStayPresent`, if also the leaders' logs agree pairwise
  (`Agreeing`). This is what `LogsAgreeTheorem` of `ClusterProofs` provides: the
  handler skips by index and compares no terms, so it keeps an agreement and cannot
  restore one.

`ApplyClientProofs`, with `PollsInTime` or without, as no safety depends on it:

- `RequestInvariant`: a request holds its batch exactly from the append to the
  answer, the entries of the batch stay its own, and once it is signalled all of
  them are committed. `CountedCommitted` is not inductive: what a client counts is
  added long after the signal it relies on, and only `RequestInv` connects the two.
- `CountedCommittedTheorem`, through `CountInv`: a client has counted at most its
  entries before the request under way; the success of that request adds a batch
  that is committed as a whole.
- `NothingTwiceTheorem`, `ResultsOnceTheorem`: each step either leaves the log alone,
  appends to it, ends a request, commits or applies (`StepKind`); appending adds
  exactly one batch to the number of entries from that client, and applying hands
  the results of the drained entries to the request they belong to.
- `AppliedOnceTheorem`, through `AppliedInv`: what was given lies below `last_applied`
  and is a command, and both places where commands are applied, `apply_pending` and
  `become_leader`, give just what lies between `last_applied` and the commit index
  and is in memory; an entry whose command is not in memory was copied.

`ClusterProofs`, under `Sheltered` (none of the four situations of `Excluded`
happens), for every number of servers, terms, entries, open calls and faults, and
for restarts of any minority:

- `ClusterInvariant`. The invariant is about *facts*: an entry of a certain term at
  a certain index, wherever it is: in a log, in a request under way, or once
  committed by anyone. All facts are ordered by term as they are by index
  (`Ordered`), hence one index has one entry anywhere. Replication only repeats
  facts; new ones come from an election and from a command. These stand behind all
  others: a majority held each log and each request when the leader was elected, a
  voter is in that majority, and the vote went to a log that covers the voter's.
  None of the four properties is inductive without the requests under way, which
  may be delivered by a server that has since been deposed.
- `LogsAgreeTheorem`, `LeaderCompleteTheorem`, `MatchHeldTheorem` follow; the last
  needs that a success reply under way speaks of entries its sender still has.
- `CommandLogTheorem`: the refinement of `CommandLog`. A commit of a leader or of a
  follower adds facts to `decided` without a gap and without a second entry for an
  index.

`RpcConnectionProofs`, if nothing arrives on a connection after a call on it has passed
its time limit (`~LateReplies`), for every number of threads and connections:

- `OneCallAtATime`: the thread that holds `call_mu` finds exactly one frame of its
  call, as a request, at the handler or as a reply, and a working connection nobody
  uses is empty. This is what `MessagesArrive` lacks to be inductive: it looks at
  the reply only once it has been taken. A caller that gives up leaves its frame
  behind; if the reply still came the next caller would read it, so the assumption is
  needed.
- `MessagesArriveTheorem` follows, given `TablesRight`: what every conversion makes
  of every message, a formula without variables. TLC computes it at the start of
  `rpc_calls` (`Conversions` in `MCRpcConnection`); the prover takes it as a
  hypothesis, as it would have to compute with the tables.

`BlockCopyProofs`, for every ring, page size, list of extents, set of batches, and
any number of requests at a time, workers, buffers and volumes:

- `ChunksTileTheorem`. `do_pba_copy`'s loop is the recursive function `Cut` over the
  loop's variables. That such a function exists, and that its result is a tiling
  (`Tiling`), are both shown by induction over what is left to copy: the least
  number for which it failed would be no number, as a round leaves less than it
  found and its chunk is not empty (`ChunkIs`). The induction is spelled out with
  the least element of a set of naturals (`LeastExists`).
- `ServerInvariant` and `BuffersSoundTheorem`. `BuffersSound` counts the places of a
  buffer; the invariant says instead that pool, requests and heap have no buffer in
  common and none twice, and together have all (`Sound`), with one lemma for each
  thing acquire and release do to them. It needs in addition that a request's
  buffers are as large as its largest chunk: the size is compared when a buffer
  is taken, the read comes later.
- `PromiseKeptTheorem`, under `Excluded = Situation`, as in `storage_copies`.
  `PromiseKept` looks at a volume when the request ends; `CopyInv` says what the
  workers have done by then: what a worker has read agrees with the leader wherever
  a block is promised or belongs to the batch (`DataRight`), so an overlapping page
  writes what is there already; a worker that has not failed is at a chunk of its
  own remainder modulo the number of workers (`InStep`), and the chunks of that
  remainder behind it are on the volume (`DoneRight`). When all workers are past the
  end, every chunk is behind some worker, and the chunks cover the batch.

`RingSlotsProofs`, for every ring, page size, list of extents and set of commands.
The tail after each entry of a batch, the slots of the entries from an index on and
the loop of `can_write_all` are recursive functions; `Iteration` and `Climb` give
their existence and induction along them, again from the least element of a set.

- `TypeInvariant`, through `RecordInv`: a record is of an entry of the log, has its
  size and lies in the ring, whatever the extents are (`StartIs`).
- `RequestNotEmpty`: `AlwaysSomethingToSend`, if the ring is one extent or no command
  is longer than a page (`PageBatches`). Lock B looks at three limits in turn; the
  first entry passes each of them, the last because the length of a cut extent is
  rounded up to pages, so that it is never less than one.
- `EntriesInOneExtent`, without any condition: the placement of `persist_circular`
  skips to the next extent when an entry does not fit (`StartIs`).
- `LiveEntriesKept`, under `Excluded = Situation`: the six situations are the only ways
  to lose a live entry, for any ring, extents, commands and copies. `LiveSlotsIntact`
  says nothing of where the entries lie. `RingInv` adds that each of them lies before
  the tail or strictly after it (`AroundTail`), and that on a leader no live entry begins
  before `head_slot`, unless the tail has wrapped and the entry lies before the tail
  (`HeadFits`). A batch rises from the
  old tail, and with at most one wrap from slot 0 on (`Laid`, `Rising`); if it does not
  wrap, it lies between the old tail and the new one; if it does, each of its entries
  is after the old tail or before the new one, and the new tail before the old
  (`Lanes`). `CanWriteIs` unfolds the loop of `can_write_all`, `BatchStart` compares its
  slots with those of `persist_circular`, which differ by the extent skips. Together
  the new entries are apart from everything live (`Clear`). A copy received as a
  follower keeps the invariant when it is not `copyOver` (`CopyKeepsRing`), and
  `become_leader` finds the head again (`HeadFound`).

Every invariant and action property that a run expects to hold is stated by a theorem.
Only model-checked: liveness under fairness (`RoomReturns`, `ClientAnswered`,
`StopEnds`, `Recovers`, `CallMuReleased`, `CatchesUp`), which is out of this prover's
reach.

## 6. Not modelled

- What `read_entry_direct` reads (`ApplyClient` has whether it is called and whether it
  fails), the byte layout of entries and of the header, direct I/O, and FIEMAP. `RingSlots` and
  `FollowerLog` say in which slot an entry is looked for.
- `handle_write_pba` for a single range and the time query of the storage node,
  which no client of the repository calls.
- RDMA dialing, work requests, completion polling and memory registration, which are
  one step each; the RDMA listener keeps ended connections until it stops.
- `SIGPIPE` is ignored by `raft_node` alone: another program that writes to a
  broken connection ends; `RpcConnection` has servers that die, not clients.
- Error paths that throw between `mu.lock()` and `mu.unlock()`.
- Log trimming together with a follower that lacks what was trimmed: trimming is
  in `LeaderLog`, the receiver in `FollowerLog` and `Cluster`.
- Accessors, arenas, merging and reflection of the generated protocol code;
  `WireMessages` has what it writes and reads.
- State machines, timings, statistics, option parsing, benchmarks and scripts:
  nothing in the protocol depends on them.

## 7. What is left

1. Slot records, trimming and restarts of a leader in `Cluster` at the level of
   `RingSlots`, so that a stranded peer and a freed slot meet in one module.
2. A persist that fails halfway in `RingSlots`, with the `tail_slot` it leaves behind.
3. What a follower reads from a slot it counted wrong (`follower_lengths`) when it is
   promoted: the slots are in `FollowerLog`, the loading in `ApplyClient`.
