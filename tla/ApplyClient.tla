----------------------------- MODULE ApplyClient -----------------------------
(***************************************************************************)
(* Client requests at one server, and the end of that server.              *)
(*                                                                         *)
(* apply_internal (core/src/raft_apply.cpp) runs in the thread of the      *)
(* client's connection: it appends a batch under mu, starts the            *)
(* replication threads without mu, then polls for the commit signal of its *)
(* last entry and at last waits for the state machine's results.  The main *)
(* loop commits and signals (raft_commit.cpp), the apply worker calls the  *)
(* result sinks, the slot collector makes room, and elections take the     *)
(* leadership away and give it back, all in threads of their own           *)
(* (raft_lifecycle.cpp).  stop() joins these threads while requests may    *)
(* still be under way.                                                     *)
(*                                                                         *)
(* The clients are raft_client (apps/raft_client_main.cpp): a probe that   *)
(* finds the leader, then batch after batch, each repeated while the       *)
(* answer is busy.                                                         *)
(*                                                                         *)
(* How far the peers have come is LeaderLog's subject: here a commit and a *)
(* collection reach as far as any peers allow.  A slot is one entry, and   *)
(* room is a number of slots (RingSlots has their positions).              *)
(***************************************************************************)
EXTENDS Integers, Sequences, FiniteSets

CONSTANTS
    Client,       \* raft_client processes, one connection each; further
                  \*   clients are seen by what they write (OtherRequest)
    Batch,        \* Batch[c]: the commands of one request; FALSE is an empty
                  \*   command, which no state machine is called for
    Requests,     \* Requests[c]: how many batches c wants applied
    RingSize,     \* slots in the ring
    MaxLog,       \* bound on the log
    MaxReigns,    \* bound on become_leader
    MaxOther,     \* bound on entries from other leaders and other clients
    PollsInTime   \* TRUE: a client polls at least once between the loss of
                  \*   the leadership and the next election.  No code
                  \*   enforces it; 20 ms against an election timeout of 20
                  \*   heartbeats or more

Other == "other"    \* an entry of another client
Copied == "copied"  \* an entry of another leader, copied by the storage node
Noop == "noop"      \* an entry of become_leader

ASSUME ApplyClientAssumptions ==
    /\ IsFiniteSet(Client)
    /\ {Other, Copied, Noop} \cap Client = {}
    /\ Batch \in [Client -> Seq(BOOLEAN)]
    /\ \A c \in Client : Batch[c] # <<>>
    /\ Requests \in [Client -> Nat]
    /\ {RingSize, MaxLog, MaxReigns, MaxOther} \subseteq Nat
    /\ PollsInTime \in BOOLEAN

VARIABLES
    \* the server
    leading,      \* raft.state == Leader
    log,          \* raft.log: who sent the entry, and is it a command
    noop,         \* index of this leadership's no-op: current_term starts here
    commitIndex,  \* raft.commit_index
    lastApplied,  \* raft.last_applied, the next index to apply
    onDevice,     \* entries whose command is on the device only: Entry.command
                  \*   is empty and Entry.ring_slot is not 0
    atSlotZero,   \* entries copied to slot 0: the same, but ring_slot 0 says
                  \*   that there is nothing to load
    given,        \* history: entries whose command the state machine was given
    again,        \* history: those it was given more than once
    slots,        \* ring.log_slot_map: indices that hold a slot
    reigns,       \* become_leader so far
    \* a client's request
    pc,           \* where apply_internal is
    first,        \* index of the batch's first entry, 0 before the append
    signaled,     \* last_signal->signaled
    received,     \* collector->received
    \* a client's program
    phase,        \* "probe", "apply" or "end"
    todo,         \* batches still to be applied
    counted,      \* what it prints: commands applied
    unsure,       \* history: commands of requests whose answer was an error
                  \*   after the append
    \* threads
    inflight,     \* workers.inflight: are there replication threads that run
    stopping,     \* how far the shutdown is
    joins         \* the listener joins its connections' threads (RDMA) or
                  \*   leaves them detached (TCP)

commands == <<onDevice, atSlotZero, given, again>>
server == <<leading, log, noop, commitIndex, lastApplied, commands, slots, reigns>>
request == <<pc, first, signaled, received>>
program == <<phase, todo, counted, unsure>>
lifecycle == <<inflight, stopping, joins>>
vars == <<server, request, program, lifecycle>>

(* A follower: start() has created the main loop, the apply worker and the *)
(* slot collector.                                                         *)
Init ==
    /\ leading = FALSE
    /\ log = <<>>
    /\ noop = 0
    /\ commitIndex = 0
    /\ lastApplied = 1
    /\ onDevice = {} /\ atSlotZero = {}
    /\ given = {} /\ again = {}
    /\ slots = {}
    /\ reigns = 0
    /\ pc = [c \in Client |-> "idle"]
    /\ first = [c \in Client |-> 0]
    /\ signaled = [c \in Client |-> FALSE]
    /\ received = [c \in Client |-> 0]
    /\ phase = [c \in Client |-> "probe"]
    /\ todo = Requests
    /\ counted = [c \in Client |-> 0]
    /\ unsure = [c \in Client |-> 0]
    /\ inflight = FALSE
    /\ stopping = "no"
    /\ joins \in BOOLEAN

-----------------------------------------------------------------------------
(* Helpers *)

(* The commands of c's current request: find_leader probes with one. *)
Commands(c) == IF phase[c] = "probe" THEN <<TRUE>> ELSE Batch[c]
Size(c) == Len(Commands(c))
LastOf(c) == first[c] + Size(c) - 1

(* The main loop, the apply worker and the slot collector are not joined   *)
(* yet.  One that has ended already is one that takes no further step.     *)
Working == stopping \in {"no", "listener", "workers"}

Done == stopping \in {"workers", "replication", "stopped"}

(* can_write_all *)
CanWriteAll(n) == slots = {} \/ Cardinality(slots) + n <= RingSize

(* The indices a drain of the committed entries goes through. *)
Drained == lastApplied..commitIndex

From(c, I) == Cardinality({i \in I : log[i].from = c})
Foreigners == From(Other, 1..Len(log)) + From(Copied, 1..Len(log))
CommandsIn(I) == Cardinality({i \in I : log[i].command})

(* The drained entries go through `if (!log_entry.command.empty())`: the   *)
(* state machine is given the commands that are in memory, when those of   *)
(* the entries in missing are not.                                         *)
GiveCommands(missing) ==
    LET commandsNow == {i \in Drained : log[i].command /\ i \notin missing}
    IN  /\ given' = given \cup commandsNow
        /\ again' = again \cup (given \cap commandsNow)

(* The client program reads the answer: ok is counted, busy is repeated,   *)
(* any other answer ends the program, but a probe goes on.                 *)
Answer(c, a) ==
    /\ pc' = [pc EXCEPT ![c] = "idle"]
    /\ first' = [first EXCEPT ![c] = 0]
    /\ signaled' = [signaled EXCEPT ![c] = FALSE]
    /\ received' = [received EXCEPT ![c] = 0]
    /\ counted' = [counted EXCEPT ![c] = IF a = "ok" THEN @ + Size(c) ELSE @]
    /\ unsure' = [unsure EXCEPT ![c] = IF a \in {"lost", "shutdown"} THEN @ + Size(c) ELSE @]
    /\ todo' = [todo EXCEPT ![c] = IF a = "ok" /\ phase[c] = "apply" THEN @ - 1 ELSE @]
    /\ phase' = [phase EXCEPT ![c] =
                    IF a \in {"ok", "busy"} THEN IF todo'[c] > 0 THEN "apply" ELSE "end"
                    ELSE IF @ = "probe" THEN "probe" ELSE "end"]

-----------------------------------------------------------------------------
(* apply_internal *)

(* The append under Lock A: entries, persist_circular, log_slot_map. *)
AppendBatch(c) ==
    /\ log' = log \o [k \in 1..Size(c) |-> [from |-> c, command |-> Commands(c)[k]]]
    /\ slots' = slots \cup Len(log) + 1 .. Len(log) + Size(c)
    /\ first' = [first EXCEPT ![c] = Len(log) + 1]
    /\ pc' = [pc EXCEPT ![c] = "spawn"]
    /\ UNCHANGED <<leading, noop, commitIndex, lastApplied, commands, reigns,
                   signaled, received, program, lifecycle>>

(* Mutant: the entries stay in the log. *)
PersistFailsKeeps(c) ==
    /\ log' = log \o [k \in 1..Size(c) |-> [from |-> c, command |-> Commands(c)[k]]]
    /\ Answer(c, "failed")
    /\ UNCHANGED <<leading, noop, commitIndex, lastApplied, commands, slots, reigns,
                   lifecycle>>

(* persist_circular throws at a write: the entries are taken back, the     *)
(* slots recorded up to that write stay in log_slot_map.                   *)
PersistFails(c) ==
    /\ \E k \in 1..Size(c) : slots' = slots \cup Len(log) + 1 .. Len(log) + k
    /\ Answer(c, "failed")
    /\ UNCHANGED <<leading, log, noop, commitIndex, lastApplied, commands, reigns, lifecycle>>

(* A request arrives.  The listener accepts none while it stops, but the   *)
(* detached threads of TCP connections go on.                              *)
Enter(c) ==
    /\ pc[c] = "idle" /\ phase[c] # "end"
    /\ stopping = "no" \/ (~joins /\ stopping # "stopped")
    /\ Len(log) + Size(c) <= MaxLog
    /\ \/ /\ ~leading
          /\ Answer(c, "not leader")
          /\ UNCHANGED <<server, lifecycle>>
       \/ leading /\ CanWriteAll(Size(c)) /\ (AppendBatch(c) \/ PersistFails(c))
       \/ /\ leading /\ ~CanWriteAll(Size(c))
          /\ pc' = [pc EXCEPT ![c] = "room"]
          /\ UNCHANGED <<server, first, signaled, received, program, lifecycle>>

(* ring_not_full: the predicate holds. *)
RoomWakes(c) ==
    /\ pc[c] = "room"
    /\ Done \/ ~leading \/ CanWriteAll(Size(c))
    /\ IF Done \/ ~leading
       THEN /\ Answer(c, IF Done THEN "busy" ELSE "not leader")
            /\ UNCHANGED <<server, lifecycle>>
       ELSE AppendBatch(c) \/ PersistFails(c)

(* 200 ms without room. *)
RoomTimeout(c) ==
    /\ pc[c] = "room"
    /\ ~(Done \/ ~leading \/ CanWriteAll(Size(c)))
    /\ Answer(c, "busy")
    /\ UNCHANGED <<server, lifecycle>>

(* append_entries starts the replication threads; join_all holds           *)
(* inflight_mu, which spawn_replication_thread needs.                      *)
Spawn(c) ==
    /\ pc[c] = "spawn"
    /\ stopping # "replication"
    /\ pc' = [pc EXCEPT ![c] = "wait"]
    /\ inflight' = TRUE
    /\ UNCHANGED <<server, first, signaled, received, program,
                   stopping, joins>>

(* The wait for the signal ends after 20 ms at the latest. *)
PollSignal(c) ==
    /\ pc[c] = "wait"
    /\ pc' = [pc EXCEPT ![c] = IF signaled[c] THEN "result" ELSE "recheck"]
    /\ UNCHANGED <<server, first, signaled, received, program, lifecycle>>

(* Mutant: the shutdown is overlooked. *)
RecheckOnlyLeader(c) ==
    /\ pc[c] = "recheck"
    /\ IF ~leading
       THEN Answer(c, "lost")
       ELSE /\ pc' = [pc EXCEPT ![c] = "wait"]
            /\ UNCHANGED <<first, signaled, received, program>>
    /\ UNCHANGED <<server, lifecycle>>

(* Mutant: the loss of the leadership is overlooked. *)
RecheckOnlyDone(c) ==
    /\ pc[c] = "recheck"
    /\ IF Done
       THEN Answer(c, "shutdown")
       ELSE /\ pc' = [pc EXCEPT ![c] = "wait"]
            /\ UNCHANGED <<first, signaled, received, program>>
    /\ UNCHANGED <<server, lifecycle>>

(* Without a lock: is the server still there, is it still the leader? *)
Recheck(c) ==
    /\ pc[c] = "recheck"
    /\ IF Done \/ ~leading
       THEN Answer(c, IF Done THEN "shutdown" ELSE "lost")
       ELSE /\ pc' = [pc EXCEPT ![c] = "wait"]
            /\ UNCHANGED <<first, signaled, received, program>>
    /\ UNCHANGED <<server, lifecycle>>

(* The results are there, or 200 ms have passed: either way a success. *)
Result(c) ==
    /\ pc[c] = "result"
    /\ Answer(c, "ok")
    /\ UNCHANGED <<server, lifecycle>>

-----------------------------------------------------------------------------
(* The client program *)

(* find_leader gives up after its timeout. *)
GiveUp(c) ==
    /\ pc[c] = "idle" /\ phase[c] = "probe"
    /\ phase' = [phase EXCEPT ![c] = "end"]
    /\ UNCHANGED <<server, request, todo, counted, unsure, lifecycle>>

(* The append of a request of another client, of one command. *)
OtherRequest ==
    /\ leading /\ CanWriteAll(1)
    /\ Len(log) < MaxLog /\ Foreigners < MaxOther
    /\ log' = Append(log, [from |-> Other, command |-> TRUE])
    /\ slots' = slots \cup {Len(log) + 1}
    /\ UNCHANGED <<leading, noop, commitIndex, lastApplied, commands, reigns,
                   request, program, lifecycle>>

-----------------------------------------------------------------------------
(* The server's threads *)

(* Mutant: the request waits for its first entry. *)
SignaledEarly(m) == [c \in Client |->
    signaled[c] \/ (first[c] > 0 /\ first[c] \in commitIndex + 1..m)]

(* signal_committed for the entries that are newly committed. *)
Signaled(m) == [c \in Client |->
    signaled[c] \/ (first[c] > 0 /\ LastOf(c) \in commitIndex + 1..m)]

(* advance_commit_index: a majority has come to m, an entry of this term. *)
AdvanceCommitIndex ==
    /\ Working /\ leading
    /\ \E m \in commitIndex + 1..Len(log) :
        /\ m >= noop
        /\ commitIndex' = m
        /\ signaled' = Signaled(m)
    /\ UNCHANGED <<leading, log, noop, lastApplied, commands, slots, reigns,
                   pc, first, received, program, lifecycle>>

(* heartbeat: append_entries from the main loop. *)
Heartbeat ==
    /\ Working /\ leading
    /\ inflight' = TRUE
    /\ UNCHANGED <<server, request, program, stopping, joins>>

(* append_entries_worker has ended (LeaderLog tells what it does). *)
ReplicationEnds ==
    /\ inflight
    /\ inflight' = FALSE
    /\ UNCHANGED <<server, request, program, stopping, joins>>

(* Mutant: a sink takes the results of the whole drain. *)
ResultsOfDrain(c) == CommandsIn(Drained)

(* How often apply_pending calls the sink of c's request. *)
ResultsOf(c) == IF first[c] = 0 THEN 0 ELSE CommandsIn(Drained \cap first[c]..LastOf(c))

(* apply_pending: each command in memory goes to the state machine and its *)
(* result to the sink of its request, once.                                *)
ApplyPending ==
    /\ Working /\ leading
    /\ Drained # {}
    /\ GiveCommands(onDevice \cup atSlotZero)
    /\ received' = [c \in Client |-> received[c] + ResultsOf(c)]
    /\ lastApplied' = commitIndex + 1
    /\ UNCHANGED <<leading, log, noop, commitIndex, onDevice, atSlotZero, slots, reigns,
                   pc, first, signaled, program, lifecycle>>

(* do_slot_gc, when every peer has come to the commit index; a slower peer  *)
(* keeps the room as it is.                                                 *)
DoSlotGc ==
    /\ Working /\ leading
    /\ slots # {}
    /\ slots' = {i \in slots : i > commitIndex}
    /\ UNCHANGED <<leading, log, noop, commitIndex, lastApplied, commands, reigns,
                   request, program, lifecycle>>

(* update_term, in whichever handler or reply a higher term is met. *)
StepDown ==
    /\ leading
    /\ leading' = FALSE
    /\ UNCHANGED <<log, noop, commitIndex, lastApplied, commands, slots, reigns,
                   request, program, lifecycle>>

(* Mutant: the entries are applied and last_applied stays behind. *)
AppliedAfterElectionForgotten == lastApplied

(* last_applied after the drain in become_leader. *)
AppliedAfterElection == IF Drained = {} THEN lastApplied ELSE commitIndex + 1

(* The waiting requests have noticed that the leadership was lost. *)
Noticed == \A c \in Client : pc[c] \notin {"spawn", "wait", "recheck"}

(* become_leader: the commands on the device are loaded, except where      *)
(* read_entry_direct throws; the committed entries are applied without     *)
(* their sinks, and passed where the command is missing; the no-op takes a *)
(* slot whether there is one or not.                                       *)
BecomeLeader ==
    /\ Working /\ ~leading
    /\ reigns < MaxReigns /\ Len(log) < MaxLog
    /\ PollsInTime => Noticed
    /\ leading' = TRUE
    /\ onDevice' \in SUBSET onDevice
    /\ GiveCommands(onDevice' \cup atSlotZero)
    /\ lastApplied' = AppliedAfterElection
    /\ log' = Append(log, [from |-> Noop, command |-> FALSE])
    /\ noop' = Len(log) + 1
    /\ slots' = slots \cup {Len(log) + 1}
    /\ reigns' = reigns + 1
    /\ UNCHANGED <<commitIndex, atSlotZero, request, program, lifecycle>>

(* handle_append_entries_request: a batch of another leader, or its commit *)
(* index.  Nothing here signals anyone.  The entry's command stays on the  *)
(* device, at a slot that may be slot 0.                                   *)
FollowerAppend ==
    /\ ~leading
    /\ Len(log) < MaxLog /\ Foreigners < MaxOther
    /\ log' = Append(log, [from |-> Copied, command |-> TRUE])
    /\ \/ onDevice' = onDevice \cup {Len(log) + 1} /\ UNCHANGED atSlotZero
       \/ atSlotZero' = atSlotZero \cup {Len(log) + 1} /\ UNCHANGED onDevice
    /\ UNCHANGED <<leading, noop, commitIndex, lastApplied, given, again, slots, reigns,
                   request, program, lifecycle>>

FollowerCommit ==
    /\ ~leading
    /\ commitIndex' \in commitIndex + 1..Len(log)
    /\ UNCHANGED <<leading, log, noop, lastApplied, commands, slots, reigns,
                   request, program, lifecycle>>

-----------------------------------------------------------------------------
(* Shutdown *)

(* The accept loop has returned; its connections' threads too, if joined. *)
ListenerEnds ==
    /\ stopping = "listener"
    /\ joins => \A c \in Client : pc[c] = "idle"

Advance(from, to) ==
    /\ stopping = from
    /\ stopping' = to
    /\ UNCHANGED <<server, request, program, inflight, joins>>

(* main(): the signal, then listener.join(). *)
SignalStop == Advance("no", "listener")

(* stop(): done, and the notifications that wake every waiter. *)
Stop == ListenerEnds /\ Advance("listener", "workers")

(* The three loops have read done and are joined; then                     *)
(* join_all_replication_threads takes inflight_mu.                         *)
JoinWorkers == Advance("workers", "replication")

(* join_all_replication_threads *)
JoinReplication == ~inflight /\ Advance("replication", "stopped")

-----------------------------------------------------------------------------
ClientStep(c) ==
    RoomWakes(c) \/ RoomTimeout(c) \/ Spawn(c) \/ PollSignal(c) \/ Recheck(c) \/ Result(c)

StopStep == Stop \/ JoinWorkers \/ JoinReplication

Next ==
    \/ \E c \in Client : Enter(c) \/ ClientStep(c) \/ GiveUp(c)
    \/ OtherRequest
    \/ AdvanceCommitIndex \/ Heartbeat \/ ApplyPending \/ DoSlotGc
    \/ ReplicationEnds
    \/ StepDown \/ BecomeLeader \/ FollowerAppend \/ FollowerCommit
    \/ SignalStop \/ StopStep

(* Threads run: a client's waits are bounded, the workers poll, an RPC has *)
(* a timeout.  Elections, the entries of other leaders and the answers of  *)
(* a majority are owed to no one.                                          *)
Fairness ==
    /\ \A c \in Client : WF_vars(ClientStep(c))
    /\ WF_vars(ReplicationEnds)
    /\ WF_vars(StopStep)

Spec == Init /\ [][Next]_vars /\ Fairness
-----------------------------------------------------------------------------
(* Properties *)

Entry == [from : Client \cup {Other, Copied, Noop}, command : BOOLEAN]

(* Every variable keeps its shape, and last_applied is never past the      *)
(* entry behind the commit index.                                          *)
TypeOK ==
    /\ leading \in BOOLEAN
    /\ log \in Seq(Entry)
    /\ noop \in 0..Len(log)
    /\ commitIndex \in 0..Len(log)
    /\ lastApplied \in 1..commitIndex + 1
    /\ onDevice \subseteq 1..Len(log)
    /\ atSlotZero \subseteq 1..Len(log)
    /\ given \subseteq 1..Len(log)
    /\ again \subseteq given
    /\ slots \subseteq Nat \ {0}
    /\ reigns \in Nat
    /\ pc \in [Client -> {"idle", "room", "spawn", "wait", "recheck", "result"}]
    /\ first \in [Client -> Nat]
    /\ signaled \in [Client -> BOOLEAN]
    /\ received \in [Client -> Nat]
    /\ phase \in [Client -> {"probe", "apply", "end"}]
    /\ todo \in [Client -> Nat]
    /\ counted \in [Client -> Nat]
    /\ unsure \in [Client -> Nat]
    /\ inflight \in BOOLEAN
    /\ stopping \in {"no", "listener", "workers", "replication", "stopped"}
    /\ joins \in BOOLEAN

(* Every command raft_client counts as applied is in the log and           *)
(* committed: the signal of the last entry covers the batch, and a success *)
(* without results is a success nevertheless (kResultWaitMs).              *)
CountedCommitted == \A c \in Client : counted[c] <= From(c, 1..commitIndex)

(* A command is in the log once for each request that was not refused: the *)
(* repetition after busy, after a persist error or after "not leader" never*)
(* writes a batch a second time.                                           *)
NothingTwice ==
    \A c \in Client :
        From(c, 1..Len(log)) =
            counted[c] + unsure[c] + IF first[c] = 0 THEN 0 ELSE Size(c)

(* The state machine is given no command twice, none before it is          *)
(* committed, and every committed one this server has written itself,      *)
(* whether apply_pending or become_leader is the one to apply it and       *)
(* however often the leadership changes.  A command that was copied here   *)
(* may never be given to it: last_applied passes entries become_leader     *)
(* could not load.                                                         *)
AppliedOnce ==
    /\ again = {}
    /\ given \subseteq {i \in 1..lastApplied - 1 : log[i].command}
    /\ \A i \in 1..lastApplied - 1 :
          log[i].command /\ log[i].from # Copied => i \in given

(* A request never counts more results than it has commands, so the wait   *)
(* for received >= n never ends on another request's results.              *)
ResultsOnce ==
    \A c \in Client : first[c] > 0 =>
        received[c] <= CommandsIn({i \in first[c]..LastOf(c) : i < lastApplied})

(* No request hangs: whatever happens to the leadership and the server, a  *)
(* client gets an answer, provided that a majority answers a leader (a     *)
(* leader without one never answers: apply_internal waits without limit).  *)
ClientAnswered ==
    WF_vars(AdvanceCommitIndex) => \A c \in Client : (pc[c] # "idle") ~> (pc[c] = "idle")

(* The shutdown ends, also with requests and replication under way: on TCP *)
(* always, on RDMA once stop() has set done.  Before that, RDMA's listener *)
(* joins the requests' threads (raft_node_main.cpp:392), which takes a     *)
(* majority that answers.                                                  *)
StopEnds ==
    /\ (Done \/ (stopping = "listener" /\ ~joins)) ~> (stopping = "stopped")
    /\ WF_vars(AdvanceCommitIndex) => ((stopping # "no") ~> (stopping = "stopped"))
=============================================================================
