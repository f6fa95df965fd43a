------------------------------ MODULE RingSlots ------------------------------
(***************************************************************************)
(* The ring of slots that holds the log on the device                      *)
(* (core/src/raft_ring_helpers.cpp, the placement in raft_persist.cpp, the *)
(* batch limits in raft_append_entries.cpp with raft_pba.cpp and           *)
(* ExtentCache, the freeing in raft_commit.cpp).                           *)
(*                                                                         *)
(* Offsets are counted in slots of one sector.  The ring file is a header  *)
(* slot followed by ring slots 0..RingSize-1; its extents begin at page    *)
(* boundaries of the file, so an extent boundary b (the first ring slot of *)
(* an extent) has b + 1 divisible by PageSlots.                            *)
(***************************************************************************)
EXTENDS Integers, Sequences, FiniteSets, SequencesExt

CONSTANTS
    RingSize,       \* ring.ring_slots
    PageSlots,      \* SLOTS_PER_PAGE
    ExtentStart,    \* the ring slots, but 0, at which an extent begins
    Batches,        \* the slot counts of the commands of one apply()
    MaxBatchSlots,  \* max_ae_batch_bytes
    MaxIndex,       \* bound on the log's last index
    MaxElections,   \* bound on become_leader
    MaxCopied,      \* bound on entries received as a follower
    Excluded        \* the situations assumed not to occur, see Roomy, Aside

(* Situations in which can_write_all, or the lack of it, lets a write run  *)
(* into live entries.  No code excludes them; a collector that keeps the   *)
(* ring far from full makes all but the last rare.                         *)
Situation == {"exactFill", "secondWrap", "uncheckedNoop", "extentSkip", "lapped",
              "copyOver"}

ASSUME RingSlotsAssumptions ==
    /\ RingSize \in Nat \ {0}
    /\ PageSlots \in Nat \ {0}
    /\ ExtentStart \subseteq {b \in 1..RingSize - 1 : (b + 1) % PageSlots = 0}
    /\ Batches \subseteq Seq(1..RingSize)
    /\ MaxBatchSlots \in Nat
    /\ {MaxIndex, MaxElections, MaxCopied} \subseteq Nat
    /\ Excluded \subseteq Situation

VARIABLES
    leading,    \* raft.state == Leader
    sizes,      \* entry_slots of every entry; tail_log_index is Len(sizes) + 1
    tailSlot,   \* ring.tail_slot
    headSlot,   \* ring.head_slot
    slotMap,    \* ring.log_slot_map: index -> [start, num]
    gcUpTo,     \* ring.gc_up_to
    minMatch,   \* the smallest match_index of the peers
    device,     \* what the ring file holds: slot -> index of an entry, 0 none
    elections,  \* become_leader so far
    copied      \* entries received as a follower so far

vars == <<leading, sizes, tailSlot, headSlot, slotMap, gcUpTo, minMatch, device,
          elections, copied>>

Slot == 0..RingSize - 1
LastIndex == Len(sizes)

(* init_storage with init_slot_states. *)
Init ==
    /\ leading = FALSE
    /\ sizes = <<>>
    /\ tailSlot = 0
    /\ headSlot = 0
    /\ slotMap = <<>>
    /\ gcUpTo = 0
    /\ minMatch = 0
    /\ device = [s \in Slot |-> 0]
    /\ elections = 0
    /\ copied = 0

-----------------------------------------------------------------------------
(* Extents *)

(* ExtentCache::remaining_at: slots from s to the end of its extent. *)
RemainingAt(s) == Min({b \in ExtentStart \cup {RingSize} : b > s}) - s

AlignUp(n) == ((n + PageSlots - 1) \div PageSlots) * PageSlots

(* Mutant: the length of a cut extent is rounded down. *)
ContiguousDown(s, total) ==
    IF RemainingAt(s) < AlignUp(total)
    THEN (RemainingAt(s) \div PageSlots) * PageSlots ELSE AlignUp(total)

(* leader_pba_for_range: how many slots from s are taken to be physically  *)
(* contiguous.  The length of a cut extent is rounded up to pages.         *)
ContiguousFrom(s, total) ==
    IF RemainingAt(s) < AlignUp(total) THEN AlignUp(RemainingAt(s)) ELSE AlignUp(total)

(* Mutant: an entry may cross into the next extent. *)
StartSlotNoSkip(tail, n) == IF tail + n > RingSize THEN 0 ELSE tail

(* persist_circular, the placement of an entry of n slots: at the tail, at *)
(* slot 0 if it does not fit before the ring's end, and at the next extent *)
(* if it does not fit into this one.                                       *)
StartSlot(tail, n) ==
    LET s == IF tail + n > RingSize THEN 0 ELSE tail
        rem == RemainingAt(s)
    IN  IF s < RingSize /\ rem < n
        THEN IF s + rem + n > RingSize THEN 0 ELSE s + rem
        ELSE s

-----------------------------------------------------------------------------
(* Occupancy *)

(* can_write_all: one command after the other from tail_slot on, none of   *)
(* them past head_slot once the write has wrapped.                         *)
CanWriteAll(batch, head) ==
    LET slot[k \in 0..Len(batch)] ==
            IF k = 0 THEN tailSlot
            ELSE (IF slot[k - 1] + batch[k] > RingSize THEN 0 ELSE slot[k - 1]) + batch[k]
        Wrapped(k) == \/ tailSlot < head
                      \/ \E j \in 1..k : slot[j - 1] + batch[j] > RingSize
    IN  slotMap = <<>> \/ \A k \in 1..Len(batch) : Wrapped(k) => slot[k] <= head

(* Mutant: the smallest start slot, wrapped or not. *)
RecomputeHeadSmallest(map, tail) ==
    IF map = <<>> THEN tail ELSE Min({map[i].start : i \in DOMAIN map})

(* recompute_head_slot: the first live entry at or after the tail, else    *)
(* the first of the ring.                                                  *)
RecomputeHead(map, tail) ==
    LET starts == {map[i].start : i \in DOMAIN map}
        ahead == {s \in starts : s >= tail}
    IN  IF starts = {} THEN tail
        ELSE IF ahead # {} THEN Min(ahead) ELSE Min(starts)

(* Mutant: one index too few. *)
UnfreedOneMore == [i \in {j \in DOMAIN slotMap : j <= gcUpTo \/ j >= minMatch} |-> slotMap[i]]

(* do_slot_gc: the records that survive. *)
Unfreed == [i \in {j \in DOMAIN slotMap : j <= gcUpTo \/ j > minMatch} |-> slotMap[i]]

(* persist_circular: tail_slot after the first k entries of a batch. *)
TailAfter(batch) ==
    LET tail[k \in 0..Len(batch)] ==
            IF k = 0 THEN tailSlot ELSE StartSlot(tail[k - 1], batch[k]) + batch[k]
    IN  tail

(* The records of a batch's entries. *)
NewRecords(batch) ==
    [k \in 1..Len(batch) |-> [start |-> StartSlot(TailAfter(batch)[k - 1], batch[k]),
                              num |-> batch[k]]]

SlotsOf(record) == record.start..record.start + record.num - 1

(* The ring after persist_circular has placed the entries of a batch, the  *)
(* later ones over the earlier ones.                                       *)
Placed(batch) ==
    LET new == NewRecords(batch)
        Writers(s) == {k \in 1..Len(batch) : s \in SlotsOf(new[k])}
    IN  [tail |-> TailAfter(batch)[Len(batch)],
         sizes |-> sizes \o batch,
         map |-> [i \in DOMAIN slotMap \cup LastIndex + 1..LastIndex + Len(batch) |->
                     IF i > LastIndex THEN new[i - LastIndex] ELSE slotMap[i]],
         dev |-> [s \in Slot |-> IF Writers(s) = {} THEN device[s]
                                 ELSE LastIndex + Max(Writers(s))]]

(* The entries of a batch that persist_circular places before the tail. *)
Wraps(batch) ==
    {k \in 1..Len(batch) : NewRecords(batch)[k].start < TailAfter(batch)[k - 1]}

(* An entry goes to the next extent, which can_write_all does not foresee. *)
SkipsExtent(batch) ==
    \E k \in 1..Len(batch) :
        LET tail == TailAfter(batch)[k - 1]
        IN  NewRecords(batch)[k].start # IF tail + batch[k] > RingSize THEN 0 ELSE tail

(* None of the excluded situations is at hand when batch is written while  *)
(* head_slot is head:                                                      *)
(*   exactFill: the write ends exactly at head_slot, where the full ring   *)
(*     looks like one that has not wrapped;                                *)
(*   secondWrap: the ring has wrapped and the write wraps again;           *)
(*   uncheckedNoop: become_leader writes where can_write_all would not;    *)
(*   extentSkip: slots skipped at the end of an extent take the write past *)
(*     head_slot;                                                          *)
(*   lapped: the batch comes round the ring to where it began.             *)
Roomy(batch, head) ==
    /\ "lapped" \in Excluded =>
          /\ \A j, k \in Wraps(batch) : j = k
          /\ Wraps(batch) # {} => Placed(batch).tail < tailSlot
    /\ slotMap # <<>> =>
          /\ "exactFill" \in Excluded => Placed(batch).tail # head
          /\ "secondWrap" \in Excluded => ~(tailSlot < head /\ Wraps(batch) # {})
          /\ "uncheckedNoop" \in Excluded => CanWriteAll(batch, head)
          /\ "extentSkip" \in Excluded /\ SkipsExtent(batch) =>
                (tailSlot < head \/ Wraps(batch) # {} => Placed(batch).tail <= head)

(* tail_slot after the copy of an entry to s..s + n - 1. *)
CopyTail(s, n) == IF s + n >= RingSize THEN 0 ELSE s + n

(*   copyOver: as a follower the server takes entries into the slots that  *)
(*     entries of its earlier leadership still have a record of, or its    *)
(*     tail_slot ends up in or right before one of them.                   *)
Aside(s, n) ==
    "copyOver" \in Excluded => \A i \in DOMAIN slotMap :
        LET start == slotMap[i].start
            end == slotMap[i].start + slotMap[i].num
        IN  /\ end <= s \/ s + n <= start
            /\ end <= CopyTail(s, n) \/ CopyTail(s, n) < start

WriteBatch(batch) ==
    LET r == Placed(batch)
    IN  /\ Len(r.sizes) <= MaxIndex
        /\ sizes' = r.sizes
        /\ tailSlot' = r.tail
        /\ slotMap' = r.map
        /\ device' = r.dev

-----------------------------------------------------------------------------
(* Batches of append_entries_worker *)

(* The slots of the first k of the entries from next on. *)
Sums(slots, next) ==
    LET sum[k \in 0..Len(slots) - next + 1] ==
            IF k = 0 THEN 0 ELSE sum[k - 1] + slots[next + k - 1]
    IN  sum

SlotsFrom(next, k) == Sums(sizes, next)[k]

(* Lock B: the entries from next on that one request carries: as many as   *)
(* the byte cap allows but at least one, as lie before the ring's end, and *)
(* as leader_pba_for_range calls contiguous.                               *)
BatchLen(next) ==
    LET pending == LastIndex - next + 1
        start == slotMap[next].start
        Within(limit) == {k \in 0..pending : SlotsFrom(next, k) <= limit}
        capped == Max({1} \cup Within(MaxBatchSlots))
        ending == Max({k \in Within(RingSize - start) : k <= capped})
        covered == ContiguousFrom(start, SlotsFrom(next, ending))
    IN  Max({k \in Within(covered) : k <= ending})

-----------------------------------------------------------------------------
(* Actions *)

(* become_leader: the map is kept, the head found again, and a no-op of    *)
(* one slot written without asking for room.                               *)
BecomeLeader ==
    /\ ~leading
    /\ elections < MaxElections
    /\ leading' = TRUE
    /\ headSlot' = RecomputeHead(slotMap, tailSlot)
    /\ Roomy(<<1>>, headSlot')
    /\ gcUpTo' = 0
    /\ minMatch' = 0
    /\ WriteBatch(<<1>>)
    /\ elections' = elections + 1
    /\ UNCHANGED copied

StepDown ==
    /\ leading
    /\ leading' = FALSE
    /\ UNCHANGED <<sizes, tailSlot, headSlot, slotMap, gcUpTo, minMatch, device,
                   elections, copied>>

(* apply_internal: waits until can_write_all, then persists. *)
Apply(batch) ==
    /\ leading
    /\ CanWriteAll(batch, headSlot)
    /\ Roomy(batch, headSlot)
    /\ WriteBatch(batch)
    /\ UNCHANGED <<leading, headSlot, gcUpTo, minMatch, elections, copied>>

(* A follower's entry: its slot is the one the leader's entry has, and no  *)
(* record is made.                                                         *)
FollowerAppend(s, n) ==
    /\ ~leading
    /\ copied < MaxCopied
    /\ LastIndex < MaxIndex
    /\ s + n <= RingSize
    /\ Aside(s, n)
    /\ copied' = copied + 1
    /\ sizes' = Append(sizes, n)
    /\ device' = [t \in Slot |-> IF t \in s..s + n - 1 THEN LastIndex + 1 ELSE device[t]]
    /\ tailSlot' = CopyTail(s, n)
    /\ UNCHANGED <<leading, headSlot, slotMap, gcUpTo, minMatch, elections>>

(* Successful replies: every peer has been credited with m. *)
Confirm(m) ==
    /\ leading
    /\ minMatch < m
    /\ minMatch' = m
    /\ UNCHANGED <<leading, sizes, tailSlot, headSlot, slotMap, gcUpTo, device,
                   elections, copied>>

(* do_slot_gc *)
DoSlotGc ==
    /\ leading
    /\ slotMap' = Unfreed
    /\ headSlot' = IF slotMap' # slotMap THEN RecomputeHead(slotMap', tailSlot)
                   ELSE headSlot
    /\ gcUpTo' = minMatch
    /\ UNCHANGED <<leading, sizes, tailSlot, minMatch, device, elections, copied>>

Next ==
    \/ BecomeLeader
    \/ StepDown
    \/ \E batch \in Batches : Apply(batch)
    \/ \E s \in Slot, n \in 1..RingSize : FollowerAppend(s, n)
    \/ \E m \in 1..LastIndex : Confirm(m)
    \/ DoSlotGc

Spec == Init /\ [][Next]_vars

(* The collector thread runs for ever, and every peer answers in the end. *)
FairSpec ==
    /\ Spec
    /\ WF_vars(DoSlotGc)
    /\ WF_vars(\E m \in 1..LastIndex : Confirm(m))

-----------------------------------------------------------------------------
(* Properties *)

(* Every variable keeps the shape the code's types give it; every record   *)
(* lies inside the ring.                                                   *)
TypeOK ==
    /\ leading \in BOOLEAN
    /\ sizes \in Seq(1..RingSize)
    /\ {headSlot, gcUpTo, minMatch, elections, copied} \subseteq Nat
    /\ tailSlot \in 0..RingSize
    /\ DOMAIN slotMap \subseteq 1..LastIndex
    /\ \A i \in DOMAIN slotMap :
          slotMap[i].num > 0 /\ slotMap[i].start + slotMap[i].num <= RingSize
    /\ device \in [Slot -> 0..LastIndex]

(* No live entry is overwritten: the slots of every record still hold its  *)
(* entry ("can_write_all: refuses what would overwrite a live entry", as   *)
(* the test says).                                                         *)
LiveSlotsIntact ==
    leading => \A i \in DOMAIN slotMap :
        \A s \in slotMap[i].start..slotMap[i].start + slotMap[i].num - 1 : device[s] = i

(* An entry lies inside one extent, if the extents are long enough for it  *)
(* at all (the extent skip in persist_circular): a request can name it by  *)
(* one physical address.                                                   *)
EntryInOneExtent ==
    \A i \in DOMAIN slotMap :
        (\A b \in ExtentStart \cup {0} : slotMap[i].num <= RemainingAt(b)) =>
            slotMap[i].num <= RemainingAt(slotMap[i].start)

(* The physically contiguous range that a request names holds just the     *)
(* entries it announces ("the source range is contiguous (EXTENT CLAMP     *)
(* guarantee)", says do_pba_copy).                                         *)
BatchReadsItsEntries ==
    leading => \A next \in DOMAIN slotMap :
        LET start == slotMap[next].start
        IN  \A i \in next..next + BatchLen(next) - 1 :
                /\ i \in DOMAIN slotMap
                /\ slotMap[i].start = start + SlotsFrom(next, i - next)
                /\ slotMap[i].start + slotMap[i].num - start <= RemainingAt(start)

(* Lock B finds at least one entry to send for every record. *)
AlwaysSomethingToSend ==
    leading => \A next \in DOMAIN slotMap : BatchLen(next) >= 1

(* A client that waits for room gets it, or the leadership ends (do_slot_gc *)
(* wakes ring_not_full).                                                   *)
RoomReturns ==
    \A batch \in Batches : leading ~> (~leading \/ CanWriteAll(batch, headSlot))
=============================================================================
