------------------------------ MODULE BlockCopy ------------------------------
(***************************************************************************)
(* Copies between the volumes of a storage node.                           *)
(*                                                                         *)
(* do_pba_copy (core/src/raft_handle_append_entries.cpp) cuts a batch of   *)
(* slots into chunks, at the extents of the destination, at the ring's end *)
(* and at the largest chunk, and sends them as one WritePBABatch.  The     *)
(* storage server (storage/raft_blockcopy_server.cpp) serves several such  *)
(* requests at a time: each borrows its workers' buffers from one pool,    *)
(* and each worker reads and writes every w-th chunk through its buffer.   *)
(* A caller whose RPC times out is gone, its copy goes on.                 *)
(*                                                                         *)
(* Offsets are in slots of one sector; a follower keeps an entry in the    *)
(* slot it has at the leader.  What a slot of the leader holds is a number *)
(* of its own, which changes whenever the leader uses the slot again.  The *)
(* batch is taken to lie in one extent of the leader's file, as the        *)
(* handler's comment has it; RingSlots shows a batch that does not         *)
(* (BatchReadsItsEntries).                                                 *)
(***************************************************************************)
EXTENDS Integers, Sequences, FiniteSets, SequencesExt

CONSTANTS
    Call,         \* handler threads of the storage server
    Volume,       \* the followers' volumes
    RingSize,     \* ring.ring_slots
    PageSlots,    \* slots per page, the unit of a copy and of a buffer
    ExtentStart,  \* the slots, but 0, at which an extent of a volume begins
    MaxChunk,     \* MaxPBACopyChunkBytes
    MaxSize,      \* INT_MAX, the largest size the server accepts
    Workers,      \* copy_workers_
    Batches,      \* Batches[v]: the batches that are sent to v: [start, len]
    Reused,       \* the slots that the leader uses again
    MaxVersion,   \* bound on how often it does
    MaxBuffers,   \* bound on buffers that are ever allocated
    Excluded      \* the situations assumed not to occur, see Situation

(* Situations in which a copy destroys blocks that are in use.  No code    *)
(* excludes them.                                                          *)
(*   ringEnd   the last page of a batch reaches past the ring's end        *)
(*   lateCopy  a copy goes on after its caller has given up                *)
Situation == {"ringEnd", "lateCopy"}

ASSUME BlockCopyAssumptions ==
    /\ {RingSize, PageSlots, MaxChunk, MaxSize, Workers} \subseteq Nat \ {0}
    /\ ExtentStart \subseteq 1..RingSize - 1
    /\ MaxChunk <= MaxSize
    /\ Batches \in [Volume -> SUBSET [start : 0..RingSize - 1, len : 1..RingSize]]
    /\ \A v \in Volume : \A b \in Batches[v] : b.start + b.len <= RingSize
    /\ Reused \subseteq 0..RingSize - 1
    /\ {MaxVersion, MaxBuffers} \subseteq Nat
    /\ Excluded \subseteq Situation

VARIABLES
    content,   \* the leader's ring: slot -> what it holds
    volume,    \* volume[v]: a follower's ring
    promised,  \* promised[v]: slots of batches whose copy was a success, and
               \*   that the leader has not used again
    pool,      \* AlignedBufPool::free_
    buffer,    \* every buffer ever allocated: its capacity and what it holds
    freed,     \* buffers given back to the heap
    call,      \* the requests: what a handler and its caller know
    worker     \* worker[c][w]: the next chunk, and whether it has been read

vars == <<content, volume, promised, pool, buffer, freed, call, worker>>

Slot == 0..RingSize - 1
Garbage == -1     \* what lies behind the leader's ring file
Idle == [pc |-> "idle"]

Init ==
    /\ content = [s \in Slot |-> s]
    /\ volume = [v \in Volume |-> [s \in Slot |-> Garbage]]
    /\ promised = [v \in Volume |-> {}]
    /\ pool = <<>>
    /\ buffer = <<>>
    /\ freed = {}
    /\ call = [c \in Call |-> Idle]
    /\ worker = [c \in Call |-> <<>>]

-----------------------------------------------------------------------------
(* do_pba_copy, pass 1 *)

AlignUp(n) == ((n + PageSlots - 1) \div PageSlots) * PageSlots

(* CachedFD::get_pba: slots from s to the end of its extent. *)
RemainingAt(s) == Min({b \in ExtentStart \cup {RingSize} : b > s}) - s

(* Mutant: the extents of the destination are not looked at. *)
ChunkAcrossExtents(s, remaining) == Min({remaining, RingSize - s, MaxChunk})

(* The length of the chunk at slot s. *)
ChunkAt(s, remaining) == Min({RemainingAt(s), remaining, RingSize - s, MaxChunk})

(* The loop's variables, and what one round makes of them: a chunk, and the *)
(* rest.  The source is contiguous, the destination wraps around at the     *)
(* ring's end.                                                              *)
Loop == [remaining : 0..RingSize + PageSlots, cur_slot : 0..RingSize, cur_src : Nat]

Chunk(k) ==
    LET s == IF k.cur_slot >= RingSize THEN 0 ELSE k.cur_slot
    IN  [src |-> k.cur_src, dst |-> s, n |-> ChunkAt(s, k.remaining)]

After(k) ==
    [remaining |-> k.remaining - Chunk(k).n, cur_slot |-> Chunk(k).dst + Chunk(k).n,
     cur_src |-> k.cur_src + Chunk(k).n]

Cut[k \in Loop] == IF k.remaining = 0 THEN <<>> ELSE <<Chunk(k)>> \o Cut[After(k)]

(* The chunks of a batch: whole pages from its first slot on. *)
Chunks(b) == Cut[[remaining |-> AlignUp(b.len), cur_slot |-> b.start, cur_src |-> b.start]]

OwnSlots(b) == b.start..b.start + b.len - 1

-----------------------------------------------------------------------------
(* handle_write_pba_batch, before the copy *)

MaxSizeOf(chunks) == Max({chunks[i].n : i \in DOMAIN chunks})

(* The server refuses a request with a chunk it cannot pass on as an int.  *)
Accepted(chunks) == MaxSizeOf(chunks) <= MaxSize

(* One worker per chunk is enough. *)
WorkerCount(chunks) == IF Workers < Len(chunks) THEN Workers ELSE Len(chunks)

(* A batch for volume v: the leader has one batch under way per follower.  *)
(* The blocks it is about to write promise nothing any more.               *)
Request(c, v, b) ==
    /\ call[c] = Idle
    /\ \A d \in Call : call[d].pc # "idle" /\ call[d].vol = v =>
           call[d].late /\ "lateCopy" \notin Excluded
    /\ "ringEnd" \in Excluded => b.start + AlignUp(b.len) <= RingSize
    /\ Accepted(Chunks(b))
    /\ call' = [call EXCEPT ![c] =
                   [pc |-> "acquire", vol |-> v, batch |-> b, chunks |-> Chunks(b),
                    bufs |-> <<>>, error |-> FALSE, late |-> FALSE]]
    /\ promised' = [promised EXCEPT ![v] = @ \ OwnSlots(b)]
    /\ UNCHANGED <<content, volume, pool, buffer, freed, worker>>

(* AlignedBufPool::acquire takes the buffer that was released last; one    *)
(* that is too small is freed.                                             *)
Popped == IF pool = <<>> THEN {} ELSE {pool[Len(pool)]}
Rest == IF pool = <<>> THEN <<>> ELSE Front(pool)

(* Mutant: the buffer is used whatever its size. *)
BigEnoughAlways(n) == Popped

BigEnough(n) == {p \in Popped : buffer[p].cap >= n}

TooSmall(n) == Popped \ BigEnough(n)

(* The buffers are taken one after the other; with the last of them the    *)
(* workers are started.                                                    *)
Take(c, p) ==
    LET bufs == Append(call[c].bufs, p)
        full == Len(bufs) = WorkerCount(call[c].chunks)
    IN  /\ call' = [call EXCEPT ![c].bufs = bufs, ![c].pc = IF full THEN "copy" ELSE @]
        /\ worker' = IF full
                     THEN [worker EXCEPT ![c] = [w \in 1..Len(bufs) |->
                                                    [next |-> w, read |-> FALSE]]]
                     ELSE worker
        /\ UNCHANGED <<content, volume, promised>>

AcquirePooled(c) ==
    /\ call[c].pc = "acquire"
    /\ \E p \in BigEnough(MaxSizeOf(call[c].chunks)) :
        /\ Take(c, p)
        /\ pool' = Rest
    /\ UNCHANGED <<buffer, freed>>

(* The capacity of a new buffer: whole pages, as O_DIRECT needs. *)
Capacity(n) == AlignUp(n)

AcquireNew(c) ==
    LET n == MaxSizeOf(call[c].chunks) IN
    /\ call[c].pc = "acquire"
    /\ BigEnough(n) = {}
    /\ Len(buffer) < MaxBuffers
    /\ buffer' = Append(buffer, [cap |-> Capacity(n), data |-> <<>>])
    /\ Take(c, Len(buffer) + 1)
    /\ freed' = freed \cup TooSmall(n)
    /\ pool' = Rest

(* AlignedBufPool::release for every buffer of the request. *)
Released(p, c) == p \o call[c].bufs

(* posix_memalign fails: the buffers so far go back, the request fails. *)
AcquireFails(c) ==
    LET n == MaxSizeOf(call[c].chunks) IN
    /\ call[c].pc = "acquire"
    /\ BigEnough(n) = {}
    /\ freed' = freed \cup TooSmall(n)
    /\ pool' = Released(Rest, c)
    /\ call' = [call EXCEPT ![c] = Idle]
    /\ UNCHANGED <<content, volume, promised, buffer, worker>>

-----------------------------------------------------------------------------
(* The workers *)

Ready(c, w) == call[c].pc = "copy" /\ worker[c][w].next <= Len(call[c].chunks)
BufferOf(c, w) == call[c].bufs[w]
ChunkOf(c, w) == call[c].chunks[worker[c][w].next]

(* pread *)
Read(c, w) ==
    /\ Ready(c, w) /\ ~worker[c][w].read
    /\ LET k == ChunkOf(c, w) IN
        buffer' = [buffer EXCEPT ![BufferOf(c, w)].data =
                      [i \in 1..k.n |-> IF k.src + i - 1 \in Slot
                                        THEN content[k.src + i - 1] ELSE Garbage]]
    /\ worker' = [worker EXCEPT ![c][w].read = TRUE]
    /\ UNCHANGED <<content, volume, promised, pool, freed, call>>

(* Mutant: one chunk too far. *)
StrideOneMore(c) == Len(call[c].bufs) + 1

(* A worker takes every w-th chunk. *)
Stride(c) == Len(call[c].bufs)

(* pwrite *)
Write(c, w) ==
    /\ Ready(c, w) /\ worker[c][w].read
    /\ LET k == ChunkOf(c, w)
           data == buffer[BufferOf(c, w)].data IN
        volume' = [volume EXCEPT ![call[c].vol] =
                      [s \in Slot |-> IF s \in k.dst..k.dst + k.n - 1
                                      THEN data[s - k.dst + 1] ELSE @[s]]]
    /\ worker' = [worker EXCEPT ![c][w] = [next |-> @.next + Stride(c), read |-> FALSE]]
    /\ UNCHANGED <<content, promised, pool, buffer, freed, call>>

(* A short pread or pwrite: this worker ends, the others go on. *)
CopyFails(c, w) ==
    /\ Ready(c, w)
    /\ call' = [call EXCEPT ![c].error = TRUE]
    /\ worker' = [worker EXCEPT ![c][w].next = Len(call[c].chunks) + 1]
    /\ UNCHANGED <<content, volume, promised, pool, buffer, freed>>

(* The caller is told of a success. *)
Succeeded(c) == ~call[c].error /\ ~call[c].late

(* The workers are joined, the buffers released, the answer is sent.  What *)
(* the buffers hold is not looked at again.                                *)
Finish(c) ==
    /\ call[c].pc = "copy"
    /\ \A w \in DOMAIN worker[c] : ~Ready(c, w)
    /\ pool' = Released(pool, c)
    /\ promised' = IF Succeeded(c)
                   THEN [promised EXCEPT ![call[c].vol] = @ \cup OwnSlots(call[c].batch)]
                   ELSE promised
    /\ call' = [call EXCEPT ![c] = Idle]
    /\ worker' = [worker EXCEPT ![c] = <<>>]
    /\ buffer' = [b \in DOMAIN buffer |->
                     IF b \in Range(call[c].bufs) THEN [buffer[b] EXCEPT !.data = <<>>]
                     ELSE buffer[b]]
    /\ UNCHANGED <<content, volume, freed>>

-----------------------------------------------------------------------------
(* Outside the storage server *)

(* The caller's RPC times out: its connection is dropped and the batch is  *)
(* sent again.                                                             *)
CallerGivesUp(c) ==
    /\ call[c].pc # "idle" /\ ~call[c].late
    /\ call' = [call EXCEPT ![c].late = TRUE]
    /\ UNCHANGED <<content, volume, promised, pool, buffer, freed, worker>>

(* The leader uses slot s again: it holds no batch that is still under way *)
(* (do_slot_gc waits for the followers).                                   *)
LeaderWrites(s) ==
    /\ content[s] < MaxVersion * RingSize
    /\ \A c \in Call : call[c].pc # "idle" /\ ~call[c].late => s \notin OwnSlots(call[c].batch)
    /\ content' = [content EXCEPT ![s] = @ + RingSize]
    /\ promised' = [v \in Volume |-> promised[v] \ {s}]
    /\ UNCHANGED <<volume, pool, buffer, freed, call, worker>>

-----------------------------------------------------------------------------
ServerStep(c) ==
    \/ AcquirePooled(c) \/ AcquireNew(c) \/ AcquireFails(c) \/ Finish(c)
    \/ \E w \in DOMAIN worker[c] : Read(c, w) \/ Write(c, w) \/ CopyFails(c, w)

Next ==
    \/ \E c \in Call :
          \/ ServerStep(c)
          \/ CallerGivesUp(c)
          \/ \E v \in Volume : \E b \in Batches[v] : Request(c, v, b)
    \/ \E s \in Reused : LeaderWrites(s)

Spec == Init /\ [][Next]_vars
-----------------------------------------------------------------------------
(* Properties *)

Buffers == 1..Len(buffer)
Held(c) == IF call[c].pc = "idle" THEN <<>> ELSE call[c].bufs

(* The shape of the state; a volume never holds what no leader's slot held.*)
TypeOK ==
    /\ content \in [Slot -> Nat]
    /\ volume \in [Volume -> [Slot -> Nat \cup {Garbage}]]
    /\ promised \in [Volume -> SUBSET Slot]
    /\ pool \in Seq(Buffers)
    /\ freed \subseteq Buffers
    /\ \A i \in Buffers : buffer[i].cap % PageSlots = 0
    /\ \A c \in Call : call[c] = Idle => worker[c] = <<>>

(* A buffer is in the pool once, or belongs to one worker of one request,  *)
(* or has been freed, and no worker reads more into it than it can hold,   *)
(* in whatever order requests of different sizes come and fail (acquire    *)
(* once returned "the freed pointer with the old capacity").               *)
BuffersSound ==
    \A b \in Buffers :
        /\ Cardinality({i \in DOMAIN pool : pool[i] = b})
             + Cardinality({x \in Call \X (1..Workers) :
                               x[2] \in DOMAIN Held(x[1]) /\ Held(x[1])[x[2]] = b})
             + (IF b \in freed THEN 1 ELSE 0) = 1
        /\ Len(buffer[b].data) <= buffer[b].cap

(* The chunks of a request are a seamless tiling of its pages, and none    *)
(* leaves an extent of the destination or exceeds the largest chunk.       *)
ChunksTile ==
    \A c \in Call : call[c].pc # "idle" =>
        LET k == call[c].chunks IN
        /\ k[1].src = call[c].batch.start
        /\ \A i \in DOMAIN k :
              /\ k[i].n \in 1..MaxChunk
              /\ k[i].dst + k[i].n <= RingSize
              /\ \A e \in ExtentStart : ~(k[i].dst < e /\ e < k[i].dst + k[i].n)
        /\ \A i \in 1..Len(k) - 1 : k[i + 1].src = k[i].src + k[i].n
        /\ k[Len(k)].src + k[Len(k)].n = call[c].batch.start + AlignUp(call[c].batch.len)

(* After a success the follower's volume holds every block of the batch,   *)
(* and goes on holding it, whatever other batches, pages that reach past a *)
(* batch, failed workers and late copies write, until the leader has used  *)
(* the slot again.                                                         *)
PromiseKept == \A v \in Volume : \A s \in promised[v] : volume[v][s] = content[s]
=============================================================================
