-------------------------- MODULE ApplyClientProofs --------------------------
(***************************************************************************)
(* What a client may count on, for every number of clients, every size of  *)
(* request and of ring, and every number of leaderships: its counted       *)
(* commands are committed, none is written twice, the state machine is     *)
(* given no command twice, and no result is counted that is another       *)
(* request's.  Nothing here needs PollsInTime.                             *)
(***************************************************************************)
EXTENDS ApplyClient, FiniteSetTheorems, SequenceTheorems, TLAPS

(* The request has appended its batch. *)
Appended == {"spawn", "wait", "recheck", "result"}

(* What is known of the request of c: it holds its batch exactly from the  *)
(* append to the answer, and a signal means that all of it is committed.   *)
RequestOf(c) ==
    /\ first[c] > 0 <=> pc[c] \in Appended
    /\ first[c] = 0 => ~signaled[c] /\ received[c] = 0
    /\ pc[c] = "result" => signaled[c]
    /\ first[c] > 0 => /\ LastOf(c) <= Len(log)
                       /\ \A i \in first[c]..LastOf(c) : log[i].from = c
    /\ signaled[c] => LastOf(c) <= commitIndex
    /\ phase[c] = "apply" => todo[c] > 0

RequestInv == TypeOK /\ \A c \in Client : RequestOf(c)

-----------------------------------------------------------------------------
(* Counting entries *)

(* The entries of l among I that c has sent, or that are commands. *)
Sent(l, c, I) == {i \in I : l[i].from = c}
Given(l, I) == {i \in I : l[i].command}

(* A set of indices is finite. *)
LEMMA Indices ==
    ASSUME NEW a \in Nat, NEW b \in Nat, NEW S \in SUBSET (a..b)
    PROVE  IsFiniteSet(S) /\ Cardinality(S) \in Nat
<1>1. IsFiniteSet(a..b)
  BY FS_Interval
<1>2. IsFiniteSet(S)
  BY <1>1, FS_Subset
<1>. QED  BY <1>2, FS_CardinalityType

(* More indices, no fewer entries. *)
LEMMA MoreIndices ==
    ASSUME NEW a \in Nat, NEW b \in Nat, NEW S \in SUBSET (a..b), NEW T \in SUBSET S
    PROVE  Cardinality(T) <= Cardinality(S)
BY Indices, FS_Subset

(* Two disjoint sets of indices. *)
LEMMA TwoParts ==
    \A b \in Nat : \A S, T \in SUBSET (1..b) :
        S \cap T = {} => Cardinality(S \cup T) = Cardinality(S) + Cardinality(T)
<1>. SUFFICES ASSUME NEW b \in Nat, NEW S \in SUBSET (1..b), NEW T \in SUBSET (1..b),
                     S \cap T = {}
              PROVE  Cardinality(S \cup T) = Cardinality(S) + Cardinality(T)
  OBVIOUS
<1>1. IsFiniteSet(S) /\ IsFiniteSet(T) /\ Cardinality(S) \in Nat /\ Cardinality(T) \in Nat
  BY Indices
<1>2. Cardinality(S \cap T) = 0
  BY FS_EmptySet
<1>. QED  BY <1>1, <1>2, FS_Union

-----------------------------------------------------------------------------
(* Types *)

(* A request has at least one command. *)
LEMMA SizeType ==
    ASSUME NEW c \in Client
    PROVE  /\ Commands(c) \in Seq(BOOLEAN)
           /\ Size(c) \in Nat /\ Size(c) > 0
<1>1. Batch[c] \in Seq(BOOLEAN) /\ Batch[c] # <<>>
  BY ApplyClientAssumptions
<1>2. <<TRUE>> \in Seq(BOOLEAN) /\ Len(<<TRUE>>) = 1
  OBVIOUS
<1>3. Len(Batch[c]) \in Nat /\ Len(Batch[c]) > 0
  BY <1>1
<1>4. CASE phase[c] = "probe"
  BY <1>2, <1>4 DEF Commands, Size
<1>5. CASE phase[c] # "probe"
  BY <1>1, <1>3, <1>5 DEF Commands, Size
<1>. QED  BY <1>4, <1>5

(* The batch AppendBatch writes for c. *)
BatchOf(c) == [k \in 1..Size(c) |-> [from |-> c, command |-> Commands(c)[k]]]

(* A batch is a sequence of entries of its client. *)
LEMMA BatchType ==
    ASSUME NEW c \in Client
    PROVE  /\ BatchOf(c) \in Seq(Entry)
           /\ Len(BatchOf(c)) = Size(c)
           /\ \A k \in 1..Size(c) : BatchOf(c)[k].from = c
<1>1. Size(c) \in Nat /\ Commands(c) \in Seq(BOOLEAN)
  BY SizeType
<1>2. \A k \in 1..Size(c) : Commands(c)[k] \in BOOLEAN
  BY <1>1 DEF Size
<1>3. \A k \in 1..Size(c) : [from |-> c, command |-> Commands(c)[k]] \in Entry
  BY <1>2 DEF Entry
<1>4. BatchOf(c) \in Seq(Entry)
  BY <1>1, <1>3, IsASeq DEF BatchOf
<1>5. Len(BatchOf(c)) = Size(c)
  BY <1>1 DEF BatchOf
<1>. QED  BY <1>4, <1>5 DEF BatchOf

(* A log that grows keeps its entries. *)
LEMMA Grows ==
    ASSUME NEW l \in Seq(Entry), NEW m \in Seq(Entry)
    PROVE  /\ l \o m \in Seq(Entry)
           /\ Len(l \o m) = Len(l) + Len(m)
           /\ \A i \in 1..Len(l) : (l \o m)[i] = l[i]
           /\ \A k \in 1..Len(m) : (l \o m)[Len(l) + k] = m[k]
OBVIOUS

(* The same for one entry. *)
LEMMA GrowsByOne ==
    ASSUME NEW l \in Seq(Entry), NEW e \in Entry
    PROVE  /\ Append(l, e) \in Seq(Entry)
           /\ Len(Append(l, e)) = Len(l) + 1
           /\ \A i \in 1..Len(l) : Append(l, e)[i] = l[i]
           /\ Append(l, e)[Len(l) + 1] = e
OBVIOUS

-----------------------------------------------------------------------------
(* What a step does to the counted state *)

(* The entries whose command is not in memory. *)
Missing == onDevice \cup atSlotZero

(* Nothing: a wait, a poll, a thread, the slot collector, the shutdown. *)
Quiet ==
    /\ UNCHANGED <<log, commitIndex, lastApplied, commands, first, received, counted, unsure>>
    /\ \A c \in Client : first[c] > 0 => phase'[c] = phase[c]

(* The request of c is answered: with success, or without one after the    *)
(* append, or before it.                                                   *)
Ends(c) ==
    /\ UNCHANGED <<log, commitIndex, lastApplied, commands>>
    /\ first' = [first EXCEPT ![c] = 0]
    /\ received' = [received EXCEPT ![c] = 0]
    /\ \/ /\ pc[c] = "result"
          /\ counted' = [counted EXCEPT ![c] = @ + Size(c)]
          /\ UNCHANGED unsure
       \/ /\ first[c] > 0
          /\ unsure' = [unsure EXCEPT ![c] = @ + Size(c)]
          /\ UNCHANGED counted
       \/ /\ first[c] = 0
          /\ UNCHANGED <<counted, unsure>>
    /\ \A d \in Client \ {c} : phase'[d] = phase[d]

(* The request of c appends its batch. *)
Appends(c) ==
    /\ first[c] = 0
    /\ log' = log \o BatchOf(c)
    /\ first' = [first EXCEPT ![c] = Len(log) + 1]
    /\ UNCHANGED <<commitIndex, lastApplied, commands, received, counted, unsure, phase>>

(* An entry of nobody here: another client's, another leader's, a no-op.   *)
(* become_leader also applies what is committed.                           *)
Foreign ==
    /\ \E e \in Entry :
          /\ e.from \notin Client /\ log' = Append(log, e)
          /\ e.from # Copied => Missing' \subseteq Missing
    /\ Missing' \subseteq Missing \cup {Len(log) + 1}
    /\ \/ UNCHANGED <<lastApplied, given, again>>
       \/ /\ GiveCommands(Missing')
          /\ lastApplied' = AppliedAfterElection
    /\ UNCHANGED <<commitIndex, first, received, counted, unsure, phase>>

(* The commit index moves. *)
Commits ==
    /\ commitIndex' \in commitIndex + 1..Len(log)
    /\ UNCHANGED <<log, lastApplied, commands, first, received, counted, unsure, phase>>

(* apply_pending *)
Applies ==
    /\ Drained # {}
    /\ GiveCommands(Missing)
    /\ UNCHANGED <<onDevice, atSlotZero>>
    /\ received' = [c \in Client |-> received[c] + ResultsOf(c)]
    /\ lastApplied' = commitIndex + 1
    /\ UNCHANGED <<log, commitIndex, first, counted, unsure, phase>>

StepKind ==
    \/ Quiet
    \/ \E c \in Client : Ends(c) \/ Appends(c)
    \/ Foreign \/ Commits \/ Applies

(* How the requests look from pc. *)
LEMMA Waiting ==
    ASSUME RequestInv, NEW c \in Client
    PROVE  /\ pc[c] \in {"idle", "room"} => first[c] = 0
           /\ pc[c] \in Appended => first[c] > 0
<1>1. RequestOf(c) /\ first[c] \in Nat
  BY DEF RequestInv, TypeOK
<1>. QED  BY <1>1 DEF RequestOf, Appended

(* An answer ends the request. *)
LEMMA AnswerEnds ==
    ASSUME RequestInv, NEW c \in Client, NEW a, Answer(c, a),
           UNCHANGED <<log, commitIndex, lastApplied, commands>>,
           a = "ok" => pc[c] = "result",
           a \in {"lost", "shutdown"} => pc[c] \in Appended,
           a \notin {"ok", "lost", "shutdown"} => pc[c] \in {"idle", "room"}
    PROVE  Ends(c)
<1>1. /\ counted \in [Client -> Nat] /\ unsure \in [Client -> Nat]
      /\ phase \in [Client -> {"probe", "apply", "end"}]
  BY DEF RequestInv, TypeOK
<1>2. UNCHANGED <<log, commitIndex, lastApplied, commands>>
  OBVIOUS
<1>3. \A d \in Client \ {c} : phase'[d] = phase[d]
  BY <1>1 DEF Answer
<1>4. CASE a = "ok"
  <2>1. counted' = [counted EXCEPT ![c] = @ + Size(c)] /\ unsure' = unsure
    BY <1>1, <1>4 DEF Answer
  <2>. QED  BY <1>2, <1>3, <1>4, <2>1 DEF Ends, Answer
<1>5. CASE a \in {"lost", "shutdown"}
  <2>1. unsure' = [unsure EXCEPT ![c] = @ + Size(c)] /\ counted' = counted
    BY <1>1, <1>5 DEF Answer
  <2>. QED  BY <1>2, <1>3, <1>5, <2>1, Waiting DEF Ends, Answer
<1>6. CASE a \notin {"ok", "lost", "shutdown"}
  <2>1. counted' = counted /\ unsure' = unsure
    BY <1>1, <1>6 DEF Answer
  <2>. QED  BY <1>2, <1>3, <1>6, <2>1, Waiting DEF Ends, Answer
<1>. QED  BY <1>4, <1>5, <1>6

(* An append is one, from wherever it is made. *)
LEMMA AppendAppends ==
    ASSUME RequestInv, NEW c \in Client, pc[c] \in {"idle", "room"}, AppendBatch(c)
    PROVE  Appends(c)
BY Waiting DEF AppendBatch, Appends, BatchOf, program

(* Every step is of one of these kinds. *)
LEMMA Kinds ==
    ASSUME RequestInv, [Next]_vars
    PROVE  StepKind
<1>0. /\ pc \in [Client -> {"idle", "room", "spawn", "wait", "recheck", "result"}]
      /\ phase \in [Client -> {"probe", "apply", "end"}]
  BY DEF RequestInv, TypeOK
<1>1. ASSUME NEW c \in Client, Enter(c)
      PROVE  StepKind
  <2>1. CASE ~leading
    <3>1. Answer(c, "not leader") /\ UNCHANGED <<log, commitIndex, lastApplied, commands>>
      BY <1>1, <2>1 DEF Enter, server
    <3>2. Ends(c)
      BY <1>1, <3>1, AnswerEnds DEF Enter
    <3>. QED  BY <3>2 DEF StepKind
  <2>2. CASE AppendBatch(c)
    <3>1. Appends(c)
      BY <1>1, <2>2, AppendAppends DEF Enter
    <3>. QED  BY <3>1 DEF StepKind
  <2>3. CASE PersistFails(c)
    <3>1. Answer(c, "failed") /\ UNCHANGED <<log, commitIndex, lastApplied, commands>>
      BY <2>3 DEF PersistFails
    <3>2. Ends(c)
      BY <1>1, <3>1, AnswerEnds DEF Enter
    <3>. QED  BY <3>2 DEF StepKind
  <2>4. CASE UNCHANGED <<server, first, signaled, received, program, lifecycle>>
    BY <2>4 DEF StepKind, Quiet, server, program
  <2>. QED  BY <1>1, <2>1, <2>2, <2>3, <2>4 DEF Enter
<1>2. ASSUME NEW c \in Client, RoomWakes(c)
      PROVE  StepKind
  <2>1. CASE Done \/ ~leading
    <3>1. PICK a \in {"busy", "not leader"} : Answer(c, a) /\ UNCHANGED <<log, commitIndex, lastApplied, commands>>
      BY <1>2, <2>1 DEF RoomWakes, server
    <3>2. Ends(c)
      BY <1>2, <3>1, AnswerEnds DEF RoomWakes
    <3>. QED  BY <3>2 DEF StepKind
  <2>2. CASE AppendBatch(c)
    <3>1. Appends(c)
      BY <1>2, <2>2, AppendAppends DEF RoomWakes
    <3>. QED  BY <3>1 DEF StepKind
  <2>3. CASE PersistFails(c)
    <3>1. Answer(c, "failed") /\ UNCHANGED <<log, commitIndex, lastApplied, commands>>
      BY <2>3 DEF PersistFails
    <3>2. Ends(c)
      BY <1>2, <3>1, AnswerEnds DEF RoomWakes
    <3>. QED  BY <3>2 DEF StepKind
  <2>. QED  BY <1>2, <2>1, <2>2, <2>3 DEF RoomWakes
<1>3. ASSUME NEW c \in Client, RoomTimeout(c)
      PROVE  StepKind
  <2>1. Answer(c, "busy") /\ UNCHANGED <<log, commitIndex, lastApplied, commands>> /\ pc[c] = "room"
    BY <1>3 DEF RoomTimeout, server
  <2>2. Ends(c)
    BY <2>1, AnswerEnds
  <2>. QED  BY <2>2 DEF StepKind
<1>4. ASSUME NEW c \in Client, Spawn(c) \/ PollSignal(c)
      PROVE  StepKind
  BY <1>4 DEF Spawn, PollSignal, StepKind, Quiet, server, program
<1>5. ASSUME NEW c \in Client, Recheck(c)
      PROVE  StepKind
  <2>1. CASE Done \/ ~leading
    <3>1. PICK a \in {"shutdown", "lost"} : Answer(c, a) /\ UNCHANGED <<log, commitIndex, lastApplied, commands>>
      BY <1>5, <2>1 DEF Recheck, server
    <3>2. Ends(c)
      BY <1>5, <3>1, AnswerEnds DEF Recheck, Appended
    <3>. QED  BY <3>2 DEF StepKind
  <2>2. CASE ~(Done \/ ~leading)
    BY <1>5, <2>2 DEF Recheck, StepKind, Quiet, server, program
  <2>. QED  BY <2>1, <2>2
<1>6. ASSUME NEW c \in Client, Result(c)
      PROVE  StepKind
  <2>1. Answer(c, "ok") /\ UNCHANGED <<log, commitIndex, lastApplied, commands>> /\ pc[c] = "result"
    BY <1>6 DEF Result, server
  <2>2. Ends(c)
    BY <2>1, AnswerEnds
  <2>. QED  BY <2>2 DEF StepKind
<1>7. ASSUME NEW c \in Client, GiveUp(c)
      PROVE  StepKind
  <2>1. first[c] = 0
    BY <1>7, Waiting DEF GiveUp
  <2>2. \A d \in Client : first[d] > 0 => phase'[d] = phase[d]
    BY <1>0, <1>7, <2>1 DEF GiveUp
  <2>. QED  BY <1>7, <2>2 DEF GiveUp, StepKind, Quiet, server, request
<1>8. CASE OtherRequest
  <2>. DEFINE e == [from |-> Other, command |-> TRUE]
  <2>1. e \in Entry
    BY DEF Entry
  <2>2. e.from \notin Client /\ log' = Append(log, e)
    BY <1>8, ApplyClientAssumptions DEF OtherRequest
  <2>3. Missing' = Missing /\ given' = given /\ again' = again
    BY <1>8 DEF OtherRequest, Missing, commands
  <2>. HIDE DEF e
  <2>. QED  BY <1>8, <2>1, <2>2, <2>3 DEF OtherRequest, StepKind, Foreign, request, program
<1>14. CASE FollowerAppend
  <2>. DEFINE e == [from |-> Copied, command |-> TRUE]
  <2>1. e \in Entry /\ e.from = Copied
    BY DEF Entry
  <2>2. e.from \notin Client /\ log' = Append(log, e)
    BY <1>14, ApplyClientAssumptions DEF FollowerAppend
  <2>3. Missing' \subseteq Missing \cup {Len(log) + 1} /\ given' = given /\ again' = again
    BY <1>14 DEF FollowerAppend, Missing
  <2>. HIDE DEF e
  <2>. QED  BY <1>14, <2>1, <2>2, <2>3 DEF FollowerAppend, StepKind, Foreign, request, program
<1>9. CASE BecomeLeader
  <2>. DEFINE e == [from |-> Noop, command |-> FALSE]
  <2>1. e \in Entry
    BY DEF Entry
  <2>2. e.from \notin Client /\ log' = Append(log, e)
    BY <1>9, ApplyClientAssumptions DEF BecomeLeader
  <2>3. Missing' \subseteq Missing /\ GiveCommands(Missing')
    BY <1>9 DEF BecomeLeader, Missing, GiveCommands
  <2>. HIDE DEF e
  <2>. QED  BY <1>9, <2>1, <2>2, <2>3 DEF BecomeLeader, StepKind, Foreign, request, program
<1>10. CASE AdvanceCommitIndex \/ FollowerCommit
  BY <1>10 DEF AdvanceCommitIndex, FollowerCommit, StepKind, Commits, request, program
<1>11. CASE ApplyPending
  BY <1>11 DEF ApplyPending, StepKind, Applies, Missing, program
<1>12. CASE Heartbeat \/ ReplicationEnds \/ DoSlotGc \/ StepDown \/ SignalStop \/ StopStep
  BY <1>12 DEF Heartbeat, ReplicationEnds, DoSlotGc, StepDown, SignalStop, StopStep, Stop,
     JoinWorkers, JoinReplication, Advance, StepKind, Quiet, server, request, program
<1>13. CASE UNCHANGED vars
  BY <1>13 DEF vars, StepKind, Quiet, server, request, program
<1>. QED
  BY <1>1, <1>2, <1>3, <1>4, <1>5, <1>6, <1>7, <1>8, <1>9, <1>10, <1>11, <1>12, <1>13, <1>14
     DEF Next, ClientStep

-----------------------------------------------------------------------------
(* The requests *)

(* The size of a request changes with its phase only. *)
LEMMA SameSize ==
    ASSUME NEW c \in Client, phase'[c] = phase[c]
    PROVE  /\ Size(c)' = Size(c)
           /\ first'[c] = first[c] => LastOf(c)' = LastOf(c)
BY DEF Size, Commands, LastOf

(* What a request knows stays so while log and commit index grow. *)
LEMMA RequestStays ==
    ASSUME TypeOK, NEW c \in Client, RequestOf(c),
           phase'[c] = phase[c], todo'[c] = todo[c], first'[c] = first[c], pc'[c] = pc[c],
           signaled'[c] = signaled[c], first[c] = 0 => received'[c] = received[c],
           Len(log') \in Nat, Len(log) <= Len(log'), \A i \in 1..Len(log) : log'[i] = log[i],
           commitIndex' \in Nat, commitIndex <= commitIndex'
    PROVE  RequestOf(c)'
<1>1. LastOf(c)' = LastOf(c)
  BY SameSize
<1>2. first[c] \in Nat /\ LastOf(c) \in Int /\ Len(log) \in Nat /\ commitIndex \in Nat
  <2>1. Size(c) \in Nat
    BY SizeType
  <2>. QED  BY <2>1 DEF TypeOK, LastOf
<1>. QED  BY <1>1, <1>2, SMTT(30) DEF RequestOf

(* What the proofs use of TypeOK. *)
LEMMA TypeFacts ==
    ASSUME TypeOK
    PROVE  /\ log \in Seq(Entry) /\ Len(log) \in Nat
           /\ commitIndex \in Nat /\ commitIndex <= Len(log)
           /\ lastApplied \in Nat /\ lastApplied >= 1 /\ lastApplied <= commitIndex + 1
           /\ first \in [Client -> Nat] /\ received \in [Client -> Nat]
           /\ counted \in [Client -> Nat] /\ unsure \in [Client -> Nat]
           /\ given \subseteq 1..Len(log) /\ again \subseteq given
BY DEF TypeOK

(* The sets of entries, in a log of n entries. *)
SetsIn(n) == /\ onDevice \subseteq 1..n /\ atSlotZero \subseteq 1..n
             /\ given \subseteq 1..n /\ again \subseteq given

(* A longer log holds them too. *)
LEMMA SetsGrow ==
    ASSUME TypeOK, NEW n \in Nat, Len(log) <= n
    PROVE  SetsIn(n)
<1>1. Len(log) \in Nat
  BY TypeFacts
<1>2. 1..Len(log) \subseteq 1..n
  BY <1>1
<1>. QED  BY <1>2 DEF TypeOK, SetsIn

(* What the state machine is given is in the log. *)
LEMMA GiveType ==
    ASSUME TypeOK, NEW missing, GiveCommands(missing)
    PROVE  given' \subseteq 1..Len(log) /\ again' \subseteq given'
<1>1. Drained \subseteq 1..Len(log)
  BY TypeFacts DEF Drained
<1>. QED  BY <1>1 DEF GiveCommands, TypeOK

(* An answer ends the request of c and touches no other. *)
LEMMA AnswerKeeps ==
    ASSUME RequestInv, NEW c \in Client, NEW a, Answer(c, a),
           UNCHANGED <<leading, log, noop, commitIndex, lastApplied, commands, reigns, lifecycle>>,
           slots' \subseteq Nat \ {0}
    PROVE  RequestInv'
<1>1. Size(c) \in Nat
  BY SizeType
<1>2. phase[c] = "apply" => todo[c] \in Nat \ {0}
  BY DEF RequestInv, TypeOK, RequestOf
<1>3. todo' \in [Client -> Nat]
  BY <1>2 DEF Answer, RequestInv, TypeOK
<1>4. phase' \in [Client -> {"probe", "apply", "end"}] /\ (phase'[c] = "apply" => todo'[c] > 0)
  <2>1. phase \in [Client -> {"probe", "apply", "end"}]
    BY DEF RequestInv, TypeOK
  <2>2. phase'[c] \in {"probe", "apply", "end"} /\ (phase'[c] = "apply" => todo'[c] > 0)
    BY <2>1 DEF Answer
  <2>. QED  BY <2>1, <2>2 DEF Answer
<1>5. counted' \in [Client -> Nat] /\ unsure' \in [Client -> Nat]
  BY <1>1 DEF Answer, RequestInv, TypeOK
<1>6. signaled' \in [Client -> BOOLEAN] /\ ~signaled'[c]
  BY DEF Answer, RequestInv, TypeOK
<1>7. /\ pc' \in [Client -> {"idle", "room", "spawn", "wait", "recheck", "result"}]
      /\ first' \in [Client -> Nat] /\ received' \in [Client -> Nat]
      /\ pc'[c] = "idle" /\ first'[c] = 0 /\ received'[c] = 0
  BY DEF Answer, RequestInv, TypeOK
<1>8. TypeOK'
  BY <1>3, <1>4, <1>5, <1>6, <1>7 DEF RequestInv, TypeOK, commands, lifecycle
<1>9. RequestOf(c)'
  BY <1>4, <1>6, <1>7 DEF RequestOf, Appended
<1>10. ASSUME NEW d \in Client \ {c}
       PROVE  RequestOf(d)'
  <2>1. /\ phase'[d] = phase[d] /\ todo'[d] = todo[d] /\ first'[d] = first[d] /\ pc'[d] = pc[d]
        /\ signaled'[d] = signaled[d] /\ received'[d] = received[d]
    BY DEF Answer, RequestInv, TypeOK
  <2>. QED  BY <2>1, RequestStays, TypeFacts DEF RequestInv
<1>. QED  BY <1>8, <1>9, <1>10 DEF RequestInv

(* The same, with everything of the server left alone. *)
LEMMA AnswerQuiet ==
    ASSUME RequestInv, NEW c \in Client, NEW a, Answer(c, a), UNCHANGED <<server, lifecycle>>
    PROVE  RequestInv'
BY AnswerKeeps DEF server, RequestInv, TypeOK

(* The entries are taken back, the recorded slots stay. *)
LEMMA PersistFailsKeepsIt ==
    ASSUME RequestInv, NEW c \in Client, PersistFails(c)
    PROVE  RequestInv'
<1>1. PICK k \in 1..Size(c) : slots' = slots \cup Len(log) + 1 .. Len(log) + k
  BY DEF PersistFails
<1>2. slots \subseteq Nat \ {0} /\ Len(log) \in Nat /\ Size(c) \in Nat
  BY SizeType, TypeFacts DEF RequestInv, TypeOK
<1>3. Len(log) + 1 .. Len(log) + k \subseteq Nat \ {0}
  BY <1>2
<1>4. slots' \subseteq Nat \ {0}
  BY <1>1, <1>2, <1>3
<1>. QED  BY <1>4, AnswerKeeps DEF PersistFails

(* The append gives the request its entries. *)
LEMMA AppendKeeps ==
    ASSUME RequestInv, NEW c \in Client, pc[c] \in {"idle", "room"}, AppendBatch(c)
    PROVE  RequestInv'
<1>1. log' = log \o BatchOf(c)
  BY DEF AppendBatch, BatchOf
<1>2. /\ log' \in Seq(Entry) /\ Len(log') = Len(log) + Size(c) /\ Size(c) \in Nat /\ Size(c) > 0
      /\ \A i \in 1..Len(log) : log'[i] = log[i]
      /\ \A k \in 1..Size(c) : log'[Len(log) + k].from = c
  <2>1. log \in Seq(Entry) /\ BatchOf(c) \in Seq(Entry) /\ Len(BatchOf(c)) = Size(c)
    BY BatchType, TypeFacts DEF RequestInv
  <2>2. \A k \in 1..Size(c) : BatchOf(c)[k].from = c
    BY BatchType
  <2>3. /\ log' \in Seq(Entry) /\ Len(log') = Len(log) + Len(BatchOf(c))
        /\ \A i \in 1..Len(log) : log'[i] = log[i]
        /\ \A k \in 1..Len(BatchOf(c)) : log'[Len(log) + k] = BatchOf(c)[k]
    BY <1>1, <2>1, Grows
  <2>4. Size(c) \in Nat /\ Size(c) > 0
    BY SizeType
  <2>. QED  BY <2>1, <2>2, <2>3, <2>4
<1>3. Len(log) \in Nat /\ commitIndex \in Nat /\ commitIndex <= Len(log)
  BY TypeFacts DEF RequestInv
<1>4. noop' \in 0..Len(log') /\ commitIndex' \in 0..Len(log')
  BY <1>2, <1>3 DEF AppendBatch, RequestInv, TypeOK
<1>5. slots' \subseteq Nat \ {0}
  <2>1. slots \subseteq Nat \ {0} /\ slots' = slots \cup (Len(log) + 1..Len(log) + Size(c))
    BY DEF AppendBatch, RequestInv, TypeOK
  <2>2. ASSUME NEW i \in slots'
        PROVE  i \in Nat \ {0}
    <3>1. Len(log) \in Nat /\ Size(c) \in Nat
      BY <1>2, <1>3
    <3>2. CASE i \in slots
      BY <2>1, <3>1, <3>2
    <3>3. CASE i \in Len(log) + 1..Len(log) + Size(c)
      BY <3>1, <3>3
    <3>. QED  BY <2>1, <3>2, <3>3
  <2>. QED  BY <2>2
<1>10. /\ onDevice' \subseteq 1..Len(log') /\ atSlotZero' \subseteq 1..Len(log')
       /\ given' \subseteq 1..Len(log') /\ again' \subseteq given'
  <2>1. SetsIn(Len(log')) /\ UNCHANGED commands
    BY <1>2, <1>3, SetsGrow DEF AppendBatch, RequestInv
  <2>. QED  BY <2>1 DEF SetsIn, commands
<1>6. /\ pc' \in [Client -> {"idle", "room", "spawn", "wait", "recheck", "result"}]
      /\ first' \in [Client -> Nat]
      /\ pc'[c] = "spawn" /\ first'[c] = Len(log) + 1
  BY <1>3 DEF AppendBatch, RequestInv, TypeOK
<1>7. TypeOK'
  BY <1>2, <1>4, <1>5, <1>6, <1>10 DEF AppendBatch, RequestInv, TypeOK, program, lifecycle
<1>8. RequestOf(c)'
  <2>1. ~signaled'[c] /\ (phase'[c] = "apply" => todo'[c] > 0)
    BY Waiting DEF RequestInv, RequestOf, AppendBatch, program
  <2>2. LastOf(c)' = Len(log) + Size(c)
    <3>1. Size(c)' = Size(c)
      BY SameSize DEF AppendBatch, program
    <3>. QED  BY <1>2, <1>3, <1>6, <3>1 DEF LastOf
  <2>3. \A i \in first'[c]..LastOf(c)' : log'[i].from = c
    <3>1. ASSUME NEW i \in Len(log) + 1..Len(log) + Size(c)
          PROVE  log'[i].from = c
      <4>1. i - Len(log) \in 1..Size(c) /\ Len(log) + (i - Len(log)) = i
        BY <1>2, <1>3
      <4>. QED  BY <1>2, <4>1
    <3>. QED  BY <1>6, <2>2, <3>1
  <2>. QED  BY <1>2, <1>3, <1>6, <2>1, <2>2, <2>3 DEF RequestOf, Appended
<1>9. ASSUME NEW d \in Client \ {c}
      PROVE  RequestOf(d)'
  <2>1. /\ phase'[d] = phase[d] /\ todo'[d] = todo[d] /\ first'[d] = first[d] /\ pc'[d] = pc[d]
        /\ signaled'[d] = signaled[d] /\ received'[d] = received[d]
    BY DEF AppendBatch, RequestInv, TypeOK, program
  <2>2. commitIndex' = commitIndex /\ Len(log') \in Nat /\ Len(log) <= Len(log')
    BY <1>2, <1>3 DEF AppendBatch
  <2>. QED  BY <1>2, <1>3, <2>1, <2>2, RequestStays DEF RequestInv
<1>. QED  BY <1>7, <1>8, <1>9 DEF RequestInv

(* An entry of nobody here. *)
LEMMA ForeignKeeps ==
    ASSUME RequestInv, NEW e \in Entry, log' = Append(log, e), UNCHANGED <<request, program, lifecycle>>,
           UNCHANGED commitIndex,
           leading' \in BOOLEAN, noop' \in 0..Len(log) + 1, lastApplied' \in 1..commitIndex + 1,
           onDevice' \subseteq 1..Len(log) + 1, atSlotZero' \subseteq 1..Len(log) + 1,
           given' \subseteq 1..Len(log) + 1, again' \subseteq given',
           slots' \subseteq Nat \ {0}, reigns' \in Nat
    PROVE  RequestInv'
<1>1. /\ log' \in Seq(Entry) /\ Len(log') = Len(log) + 1
      /\ \A i \in 1..Len(log) : log'[i] = log[i]
  BY GrowsByOne, TypeFacts DEF RequestInv
<1>2. Len(log) \in Nat /\ commitIndex \in Nat /\ commitIndex <= Len(log)
  BY TypeFacts DEF RequestInv
<1>3. TypeOK'
  BY <1>1, <1>2, SMTT(30) DEF RequestInv, TypeOK, request, program, lifecycle
<1>4. ASSUME NEW d \in Client
      PROVE  RequestOf(d)'
  BY <1>1, <1>2, RequestStays DEF RequestInv, request, program
<1>. QED  BY <1>3, <1>4 DEF RequestInv

(* How many entries of a set of indices are commands. *)
LEMMA CommandsType ==
    ASSUME TypeOK, NEW I \in SUBSET (1..Len(log))
    PROVE  CommandsIn(I) \in Nat
BY Indices, TypeFacts DEF CommandsIn

(* A drain goes through entries of the log. *)
LEMMA DrainedInside ==
    ASSUME TypeOK
    PROVE  Drained \in SUBSET (1..Len(log)) /\ CommandsIn(Drained) \in Nat
<1>1. Drained \in SUBSET (1..Len(log))
  BY TypeFacts DEF Drained
<1>. QED  BY <1>1, CommandsType

(* The commit index moves to m, in both roles. *)
LEMMA CommitKeeps ==
    ASSUME RequestInv, NEW m \in commitIndex + 1..Len(log), commitIndex' = m,
           UNCHANGED <<leading, log, noop, lastApplied, commands, slots, reigns,
                       pc, first, received, program, lifecycle>>,
           UNCHANGED signaled \/ signaled' = Signaled(m)
    PROVE  RequestInv'
<1>1. /\ commitIndex \in Nat /\ Len(log) \in Nat /\ m \in Nat /\ commitIndex < m /\ m <= Len(log)
      /\ log \in Seq(Entry)
  BY TypeFacts DEF RequestInv
<1>2. signaled' \in [Client -> BOOLEAN]
  BY DEF RequestInv, TypeOK, Signaled
<1>3. TypeOK'
  BY <1>1, <1>2 DEF RequestInv, TypeOK, commands, program, lifecycle
<1>4. ASSUME NEW d \in Client
      PROVE  RequestOf(d)'
  <2>1. CASE signaled'[d] = signaled[d]
    BY <1>1, <2>1, RequestStays DEF RequestInv, program
  <2>2. CASE signaled'[d] # signaled[d]
    <3>1. signaled' = Signaled(m)
      BY <2>2
    <3>2. signaled'[d] /\ first[d] > 0 /\ LastOf(d) \in commitIndex + 1..m
      BY <2>2, <3>1 DEF Signaled, RequestInv, TypeOK
    <3>3. LastOf(d)' = LastOf(d)
      BY SameSize DEF program
    <3>. QED  BY <1>1, <3>2, <3>3 DEF RequestInv, RequestOf, TypeOK, program
  <2>. QED  BY <2>1, <2>2
<1>. QED  BY <1>3, <1>4 DEF RequestInv

(* No request is under way at the start. *)
LEMMA RequestInit == Init => RequestInv
<1>. SUFFICES ASSUME Init PROVE RequestInv
  OBVIOUS
<1>1. log = <<>> /\ Len(log) = 0 /\ log \in Seq(Entry)
  BY DEF Init
<1>2. TypeOK
  <2>1. signaled \in [Client -> BOOLEAN]
    BY DEF Init
  <2>2. Requests \in [Client -> Nat]
    BY ApplyClientAssumptions
  <2>3. /\ noop \in 0..Len(log) /\ commitIndex \in 0..Len(log)
        /\ lastApplied \in 1..commitIndex + 1 /\ slots \subseteq Nat \ {0}
    BY <1>1 DEF Init
  <2>4. /\ pc \in [Client -> {"idle", "room", "spawn", "wait", "recheck", "result"}]
        /\ first \in [Client -> Nat] /\ received \in [Client -> Nat]
        /\ phase \in [Client -> {"probe", "apply", "end"}]
        /\ todo \in [Client -> Nat] /\ counted \in [Client -> Nat]
        /\ unsure \in [Client -> Nat]
    BY <2>2 DEF Init
  <2>5. leading \in BOOLEAN /\ inflight \in BOOLEAN /\ joins \in BOOLEAN
    BY DEF Init
  <2>7. SetsIn(Len(log))
    BY DEF Init, SetsIn
  <2>6. reigns \in Nat
        /\ stopping \in {"no", "listener", "workers", "replication", "stopped"}
    BY DEF Init
  <2>. QED  BY <1>1, <2>1, <2>3, <2>4, <2>5, <2>6, <2>7 DEF TypeOK, SetsIn
<1>3. \A c \in Client : RequestOf(c)
  BY DEF Init, RequestOf, Appended
<1>. QED  BY <1>2, <1>3 DEF RequestInv

(* Every step keeps what the requests know. *)
LEMMA RequestStep == RequestInv /\ [Next]_vars => RequestInv'
<1>. SUFFICES ASSUME RequestInv, [Next]_vars PROVE RequestInv'
  OBVIOUS
<1>0. TypeOK /\ \A c \in Client : RequestOf(c)
  BY DEF RequestInv
<1>1. ASSUME NEW c \in Client, Enter(c)
      PROVE  RequestInv'
  <2>1. CASE ~leading
    BY <1>1, <2>1, AnswerQuiet DEF Enter
  <2>2. CASE AppendBatch(c)
    BY <1>1, <2>2, AppendKeeps DEF Enter
  <2>3. CASE PersistFails(c)
    BY <2>3, PersistFailsKeepsIt
  <2>4. CASE /\ pc' = [pc EXCEPT ![c] = "room"]
             /\ UNCHANGED <<server, first, signaled, received, program, lifecycle>>
    <3>1. TypeOK'
      BY <1>0, <2>4 DEF TypeOK, server, commands, program, lifecycle
    <3>2. ASSUME NEW d \in Client
          PROVE  RequestOf(d)'
      <4>1. Size(d)' = Size(d) /\ LastOf(d)' = LastOf(d)
        BY <2>4, SameSize DEF program
      <4>2. pc[c] = "idle" /\ pc'[d] = IF d = c THEN "room" ELSE pc[d]
        BY <1>0, <1>1, <2>4 DEF Enter, TypeOK
      <4>. QED  BY <1>0, <2>4, <4>1, <4>2 DEF RequestOf, Appended, server, program
    <3>. QED  BY <3>1, <3>2 DEF RequestInv
  <2>. QED  BY <1>1, <2>1, <2>2, <2>3, <2>4 DEF Enter
<1>2. ASSUME NEW c \in Client, RoomWakes(c)
      PROVE  RequestInv'
  <2>1. CASE Done \/ ~leading
    <3>1. PICK a \in {"busy", "not leader"} : Answer(c, a) /\ UNCHANGED <<server, lifecycle>>
      BY <1>2, <2>1 DEF RoomWakes
    <3>. QED  BY <3>1, AnswerQuiet
  <2>2. CASE AppendBatch(c)
    BY <1>2, <2>2, AppendKeeps DEF RoomWakes
  <2>3. CASE PersistFails(c)
    BY <2>3, PersistFailsKeepsIt
  <2>. QED  BY <1>2, <2>1, <2>2, <2>3 DEF RoomWakes
<1>3. ASSUME NEW c \in Client, RoomTimeout(c)
      PROVE  RequestInv'
  BY <1>3, AnswerQuiet DEF RoomTimeout
<1>4. ASSUME NEW c \in Client, NEW p \in Appended, pc[c] \in Appended, pc' = [pc EXCEPT ![c] = p],
             p = "result" => signaled[c],
             UNCHANGED <<server, first, signaled, received, program>>,
             inflight' \in BOOLEAN, UNCHANGED <<stopping, joins>>
      PROVE  RequestInv'
  <2>1. TypeOK'
    BY <1>0, <1>4 DEF TypeOK, server, commands, program, Appended
  <2>2. ASSUME NEW d \in Client
        PROVE  RequestOf(d)'
    <3>1. LastOf(d)' = LastOf(d)
      BY <1>4, SameSize DEF program
    <3>2. pc'[d] = IF d = c THEN p ELSE pc[d]
      BY <1>0, <1>4 DEF TypeOK
    <3>. QED  BY <1>0, <1>4, <3>1, <3>2 DEF RequestOf, server, program
  <2>. QED  BY <2>1, <2>2 DEF RequestInv
<1>5. ASSUME NEW c \in Client, Spawn(c)
      PROVE  RequestInv'
  BY <1>4, <1>5 DEF Spawn, Appended
<1>6. ASSUME NEW c \in Client, PollSignal(c)
      PROVE  RequestInv'
  <2>1. inflight' \in BOOLEAN /\ UNCHANGED <<stopping, joins>>
    BY <1>0, <1>6 DEF PollSignal, lifecycle, TypeOK
  <2>2. CASE signaled[c]
    BY <1>4, <1>6, <2>1, <2>2 DEF PollSignal, Appended
  <2>3. CASE ~signaled[c]
    BY <1>4, <1>6, <2>1, <2>3 DEF PollSignal, Appended
  <2>. QED  BY <2>2, <2>3
<1>7. ASSUME NEW c \in Client, Recheck(c)
      PROVE  RequestInv'
  <2>1. CASE Done \/ ~leading
    <3>1. PICK a \in {"shutdown", "lost"} : Answer(c, a) /\ UNCHANGED <<server, lifecycle>>
      BY <1>7, <2>1 DEF Recheck
    <3>. QED  BY <3>1, AnswerQuiet
  <2>2. CASE ~(Done \/ ~leading)
    <3>1. inflight' \in BOOLEAN /\ UNCHANGED <<stopping, joins>>
      BY <1>0, <1>7 DEF Recheck, lifecycle, TypeOK
    <3>. QED  BY <1>4, <1>7, <2>2, <3>1 DEF Recheck, Appended
  <2>. QED  BY <2>1, <2>2
<1>8. ASSUME NEW c \in Client, Result(c)
      PROVE  RequestInv'
  BY <1>8, AnswerQuiet DEF Result
<1>9. ASSUME NEW c \in Client, GiveUp(c)
      PROVE  RequestInv'
  <2>1. TypeOK'
    BY <1>0, <1>9 DEF GiveUp, TypeOK, server, commands, request, lifecycle
  <2>2. ASSUME NEW d \in Client
        PROVE  RequestOf(d)'
    <3>1. CASE d = c
      <4>1. first[c] = 0 /\ ~signaled[c] /\ phase'[c] = "end"
        BY <1>0, <1>9, Waiting DEF GiveUp, RequestOf, TypeOK
      <4>. QED  BY <1>0, <1>9, <3>1, <4>1 DEF GiveUp, RequestOf, server, request
    <3>2. CASE d # c
      <4>1. phase'[d] = phase[d]
        BY <1>0, <1>9, <3>2 DEF GiveUp, TypeOK
      <4>. QED  BY <1>0, <1>9, <4>1, RequestStays, TypeFacts DEF GiveUp, server, request
    <3>. QED  BY <3>1, <3>2
  <2>. QED  BY <2>1, <2>2 DEF RequestInv
<1>10. CASE OtherRequest
  <2>. DEFINE e == [from |-> Other, command |-> TRUE]
  <2>1. e \in Entry /\ log' = Append(log, e)
    BY <1>10 DEF Entry, OtherRequest
  <2>2. Len(log) \in Nat
    BY <1>0, TypeFacts
  <2>3. onDevice' \subseteq 1..Len(log) + 1 /\ atSlotZero' \subseteq 1..Len(log) + 1
        /\ given' \subseteq 1..Len(log) + 1 /\ again' \subseteq given'
    <3>1. SetsIn(Len(log) + 1)
      BY <1>0, <2>2, SetsGrow
    <3>. QED  BY <1>10, <3>1 DEF OtherRequest, SetsIn, commands
  <2>4. /\ leading' \in BOOLEAN /\ noop' \in 0..Len(log) + 1 /\ lastApplied' \in 1..commitIndex + 1
        /\ slots' \subseteq Nat \ {0} /\ reigns' \in Nat
    <3>1. slots \subseteq Nat \ {0} /\ slots' = slots \cup {Len(log) + 1}
      BY <1>0, <1>10 DEF OtherRequest, TypeOK
    <3>2. Len(log) + 1 \in Nat \ {0}
      BY <2>2
    <3>3. slots' \subseteq Nat \ {0}
      BY <3>1, <3>2, Zenon
    <3>. QED  BY <1>0, <1>10, <2>2, <3>3 DEF OtherRequest, TypeOK
  <2>. HIDE DEF e
  <2>. QED  BY <1>10, <2>1, <2>3, <2>4, ForeignKeeps DEF OtherRequest
<1>19. CASE FollowerAppend
  <2>. DEFINE e == [from |-> Copied, command |-> TRUE]
  <2>1. e \in Entry /\ log' = Append(log, e)
    BY <1>19 DEF Entry, FollowerAppend
  <2>2. Len(log) \in Nat
    BY <1>0, TypeFacts
  <2>3. onDevice' \subseteq 1..Len(log) + 1 /\ atSlotZero' \subseteq 1..Len(log) + 1
        /\ given' \subseteq 1..Len(log) + 1 /\ again' \subseteq given'
    <3>1. SetsIn(Len(log) + 1) /\ Len(log) + 1 \in 1..Len(log) + 1
      BY <1>0, <2>2, SetsGrow
    <3>. QED  BY <1>19, <3>1 DEF FollowerAppend, SetsIn
  <2>4. /\ leading' \in BOOLEAN /\ noop' \in 0..Len(log) + 1 /\ lastApplied' \in 1..commitIndex + 1
        /\ slots' \subseteq Nat \ {0} /\ reigns' \in Nat
    BY <1>0, <1>19, <2>2 DEF FollowerAppend, TypeOK
  <2>. HIDE DEF e
  <2>. QED  BY <1>19, <2>1, <2>3, <2>4, ForeignKeeps DEF FollowerAppend
<1>11. CASE BecomeLeader
  <2>. DEFINE e == [from |-> Noop, command |-> FALSE]
  <2>1. e \in Entry /\ log' = Append(log, e)
    BY <1>11 DEF Entry, BecomeLeader
  <2>2. Len(log) \in Nat
    BY <1>0, TypeFacts
  <2>3. onDevice' \subseteq 1..Len(log) + 1 /\ atSlotZero' \subseteq 1..Len(log) + 1
        /\ given' \subseteq 1..Len(log) + 1 /\ again' \subseteq given'
    <3>1. SetsIn(Len(log) + 1)
      BY <1>0, <2>2, SetsGrow
    <3>2. given' \subseteq 1..Len(log) /\ again' \subseteq given'
      BY <1>0, <1>11, GiveType DEF BecomeLeader
    <3>3. 1..Len(log) \subseteq 1..Len(log) + 1
      BY <2>2
    <3>. QED  BY <1>11, <3>1, <3>2, <3>3 DEF BecomeLeader, SetsIn
  <2>4. /\ leading' \in BOOLEAN /\ noop' \in 0..Len(log) + 1
        /\ slots' \subseteq Nat \ {0} /\ reigns' \in Nat
    <3>1. slots \subseteq Nat \ {0} /\ slots' = slots \cup {Len(log) + 1}
      BY <1>0, <1>11 DEF BecomeLeader, TypeOK
    <3>2. Len(log) + 1 \in Nat \ {0}
      BY <2>2
    <3>3. slots' \subseteq Nat \ {0}
      BY <3>1, <3>2, Zenon
    <3>. QED  BY <1>0, <1>11, <2>2, <3>3 DEF BecomeLeader, TypeOK
  <2>5. lastApplied' \in 1..commitIndex + 1
    BY <1>0, <1>11, TypeFacts DEF BecomeLeader, AppliedAfterElection
  <2>. HIDE DEF e
  <2>. QED  BY <1>11, <2>1, <2>3, <2>4, <2>5, ForeignKeeps DEF BecomeLeader
<1>12. CASE AdvanceCommitIndex
  <2>1. PICK m \in commitIndex + 1..Len(log) : commitIndex' = m /\ signaled' = Signaled(m)
    BY <1>12 DEF AdvanceCommitIndex
  <2>. QED  BY <1>12, <2>1, CommitKeeps DEF AdvanceCommitIndex
<1>13. CASE FollowerCommit
  <2>1. PICK m \in commitIndex + 1..Len(log) : commitIndex' = m
    BY <1>13 DEF FollowerCommit
  <2>. QED  BY <1>13, <2>1, CommitKeeps DEF FollowerCommit, request
<1>14. CASE ApplyPending
  <2>1. \A c \in Client : ResultsOf(c) \in Nat /\ (first[c] = 0 => ResultsOf(c) = 0)
    <3>1. ASSUME NEW c \in Client
          PROVE  CommandsIn(Drained \cap first[c]..LastOf(c)) \in Nat
      BY <1>0, DrainedInside, CommandsType
    <3>. QED  BY <3>1 DEF ResultsOf
  <2>2. given' \subseteq 1..Len(log) /\ again' \subseteq given'
    BY <1>0, <1>14, GiveType DEF ApplyPending
  <2>3. received' \in [Client -> Nat] /\ \A c \in Client : first[c] = 0 => received'[c] = received[c]
    BY <1>0, <1>14, <2>1 DEF ApplyPending, TypeOK
  <2>4. TypeOK'
    BY <1>0, <1>14, <2>2, <2>3 DEF ApplyPending, TypeOK, program, lifecycle
  <2>5. ASSUME NEW d \in Client
        PROVE  RequestOf(d)'
    <3>1. /\ phase'[d] = phase[d] /\ todo'[d] = todo[d] /\ first'[d] = first[d] /\ pc'[d] = pc[d]
          /\ signaled'[d] = signaled[d] /\ log' = log /\ commitIndex' = commitIndex
      BY <1>14 DEF ApplyPending, program
    <3>. QED  BY <1>0, <2>3, <3>1, RequestStays, TypeFacts
  <2>. QED  BY <2>4, <2>5 DEF RequestInv
<1>15. CASE /\ UNCHANGED <<log, noop, commitIndex, lastApplied, commands, reigns, request, program>>
            /\ leading' \in BOOLEAN /\ slots' \subseteq slots
            /\ inflight' \in BOOLEAN /\ UNCHANGED joins
            /\ stopping' \in {"no", "listener", "workers", "replication", "stopped"}
  <2>1. TypeOK'
    BY <1>0, <1>15 DEF TypeOK, commands, request, program
  <2>2. ASSUME NEW d \in Client
        PROVE  RequestOf(d)'
    BY <1>0, <1>15, RequestStays, TypeFacts DEF request, program
  <2>. QED  BY <2>1, <2>2 DEF RequestInv
<1>16. CASE Heartbeat \/ ReplicationEnds \/ DoSlotGc \/ StepDown
  BY <1>0, <1>15, <1>16 DEF Heartbeat, ReplicationEnds, DoSlotGc, StepDown, TypeOK, server,
     lifecycle
<1>17. CASE SignalStop \/ StopStep
  BY <1>0, <1>15, <1>17 DEF SignalStop, StopStep, Stop, JoinWorkers, JoinReplication, Advance,
     TypeOK, server
<1>18. CASE UNCHANGED vars
  BY <1>0, <1>15, <1>18 DEF vars, server, lifecycle, TypeOK
<1>. QED
  BY <1>1, <1>2, <1>3, <1>5, <1>6, <1>7, <1>8, <1>9, <1>10, <1>11, <1>12, <1>13, <1>14,
     <1>16, <1>17, <1>18, <1>19 DEF Next, ClientStep

(* What a request knows of its batch is so at all times: the inductive     *)
(* invariant behind the results below (apply_internal).                    *)
THEOREM RequestInvariant == Spec => []RequestInv
BY RequestInit, RequestStep, PTL DEF Spec

-----------------------------------------------------------------------------
(* The state machine *)

(* become_leader applies all that is committed. *)
LEMMA DrainCompletes ==
    ASSUME TypeOK
    PROVE  AppliedAfterElection = commitIndex + 1
<1>1. /\ Len(log) \in Nat /\ commitIndex \in Nat /\ commitIndex <= Len(log)
      /\ lastApplied \in Nat /\ lastApplied >= 1 /\ lastApplied <= commitIndex + 1
  BY TypeFacts
<1>2. CASE Drained = {}
  <2>1. ~(lastApplied <= commitIndex)
    BY <1>1, <1>2 DEF Drained
  <2>. QED  BY <1>1, <1>2, <2>1 DEF AppliedAfterElection
<1>3. CASE Drained # {}
  BY <1>3 DEF AppliedAfterElection
<1>. QED  BY <1>2, <1>3

(* No step changes an entry of the log. *)
LEMMA LogGrows ==
    ASSUME TypeOK, StepKind
    PROVE  /\ log' \in Seq(Entry) /\ Len(log') \in Nat /\ Len(log) <= Len(log')
           /\ \A i \in 1..Len(log) : log'[i] = log[i]
<1>1. log \in Seq(Entry) /\ Len(log) \in Nat
  BY TypeFacts
<1>2. CASE log' = log
  BY <1>1, <1>2
<1>3. ASSUME NEW m \in Seq(Entry), log' = log \o m
      PROVE  /\ log' \in Seq(Entry) /\ Len(log') \in Nat /\ Len(log) <= Len(log')
             /\ \A i \in 1..Len(log) : log'[i] = log[i]
  BY <1>1, <1>3, Grows
<1>4. ASSUME NEW c \in Client, Appends(c)
      PROVE  /\ log' \in Seq(Entry) /\ Len(log') \in Nat /\ Len(log) <= Len(log')
             /\ \A i \in 1..Len(log) : log'[i] = log[i]
  BY <1>3, <1>4, BatchType DEF Appends
<1>5. ASSUME NEW e \in Entry, log' = Append(log, e)
      PROVE  /\ log' \in Seq(Entry) /\ Len(log') \in Nat /\ Len(log) <= Len(log')
             /\ \A i \in 1..Len(log) : log'[i] = log[i]
  BY <1>1, <1>5, GrowsByOne
<1>6. \/ log' = log
      \/ \E c \in Client : Appends(c)
      \/ \E e \in Entry : log' = Append(log, e)
  BY DEF StepKind, Quiet, Ends, Foreign, Commits, Applies
<1>. QED  BY <1>2, <1>4, <1>5, <1>6

(* The commands that are not in memory are other leaders', copied by the   *)
(* storage node: the inductive form of AppliedOnce.                        *)
AppliedInv ==
    /\ \A i \in Missing : i \in 1..Len(log) /\ log[i].from = Copied
    /\ AppliedOnce

(* What a drain gives, when the missing commands are copied ones. *)
LEMMA GiveOnce ==
    ASSUME TypeOK, AppliedOnce, NEW missing, GiveCommands(missing),
           \A i \in missing : i \in 1..Len(log) => log[i].from = Copied
    PROVE  /\ again' = {}
           /\ given' \subseteq {i \in 1..commitIndex : log[i].command}
           /\ \A i \in 1..commitIndex : log[i].command /\ log[i].from # Copied => i \in given'
<1>1. /\ Len(log) \in Nat /\ commitIndex \in Nat /\ commitIndex <= Len(log)
      /\ lastApplied \in Nat /\ lastApplied >= 1 /\ lastApplied <= commitIndex + 1
  BY TypeFacts
<1>. DEFINE now == {i \in Drained : log[i].command /\ i \notin missing}
<1>2. given' = given \cup now /\ again' = again \cup (given \cap now)
  BY DEF GiveCommands
<1>3. \A i \in given : i \in 1..lastApplied - 1 /\ log[i].command
  BY DEF AppliedOnce
<1>4. \A i : i \in Drained <=> i \in 1..commitIndex /\ ~(i \in 1..lastApplied - 1)
  BY <1>1 DEF Drained
<1>5. 1..lastApplied - 1 \subseteq 1..commitIndex /\ 1..commitIndex \subseteq 1..Len(log)
  BY <1>1
<1>6. given \cap now = {}
  BY <1>3, <1>4
<1>7. again' = {}
  BY <1>2, <1>6 DEF AppliedOnce
<1>8. given' \subseteq {i \in 1..commitIndex : log[i].command}
  BY <1>2, <1>3, <1>4, <1>5
<1>9. ASSUME NEW i \in 1..commitIndex, log[i].command, log[i].from # Copied
      PROVE  i \in given'
  <2>1. CASE i \in 1..lastApplied - 1
    BY <1>2, <1>9, <2>1 DEF AppliedOnce
  <2>2. CASE ~(i \in 1..lastApplied - 1)
    BY <1>2, <1>4, <1>5, <1>9, <2>2
  <2>. QED  BY <2>1, <2>2
<1>. QED  BY <1>7, <1>8, <1>9

(* Every step keeps what the state machine was given right. *)
LEMMA AppliedStep ==
    ASSUME TypeOK, StepKind, AppliedInv
    PROVE  AppliedInv'
<1>1. /\ Len(log) \in Nat /\ commitIndex \in Nat /\ commitIndex <= Len(log)
      /\ lastApplied \in Nat /\ lastApplied >= 1 /\ lastApplied <= commitIndex + 1
  BY TypeFacts
<1>2. /\ Len(log') \in Nat /\ Len(log) <= Len(log')
      /\ \A i \in 1..Len(log) : log'[i] = log[i]
  BY LogGrows
<1>3. 1..Len(log) \subseteq 1..Len(log') /\ 1..commitIndex \subseteq 1..Len(log)
      /\ 1..lastApplied - 1 \subseteq 1..Len(log)
  BY <1>1, <1>2
<1>4. \A i \in Missing' : i \in 1..Len(log') /\ log'[i].from = Copied
  <2>1. CASE Missing' \subseteq Missing
    BY <1>2, <1>3, <2>1 DEF AppliedInv
  <2>2. CASE Foreign
    <3>1. PICK e \in Entry : /\ log' = Append(log, e)
                             /\ e.from # Copied => Missing' \subseteq Missing
      BY <2>2 DEF Foreign
    <3>2. Missing' \subseteq Missing \cup {Len(log) + 1}
      BY <2>2 DEF Foreign
    <3>3. CASE e.from = Copied
      <4>1. Len(log') = Len(log) + 1 /\ log'[Len(log) + 1] = e
        BY <3>1, GrowsByOne, TypeFacts
      <4>2. Len(log) + 1 \in 1..Len(log')
        BY <1>1, <4>1
      <4>3. ASSUME NEW i \in Missing'
            PROVE  i \in 1..Len(log') /\ log'[i].from = Copied
        <5>1. CASE i \in Missing
          BY <1>2, <1>3, <5>1 DEF AppliedInv
        <5>2. CASE i = Len(log) + 1
          BY <3>3, <4>1, <4>2, <5>2
        <5>. QED  BY <3>2, <4>3, <5>1, <5>2
      <4>. QED  BY <4>3
    <3>. QED  BY <2>1, <3>1, <3>3
  <2>3. CASE ~Foreign
    <3>1. UNCHANGED <<onDevice, atSlotZero>>
      BY <2>3 DEF StepKind, Quiet, Ends, Appends, Commits, Applies, commands
    <3>. QED  BY <2>1, <3>1 DEF Missing
  <2>. QED  BY <2>2, <2>3
<1>5. CASE UNCHANGED <<lastApplied, given, again>>
  <2>1. \A i \in 1..lastApplied - 1 : log'[i] = log[i]
    BY <1>2, <1>3
  <2>2. AppliedOnce'
    BY <1>5, <2>1 DEF AppliedInv, AppliedOnce
  <2>. QED  BY <1>4, <2>2 DEF AppliedInv
<1>6. ASSUME NEW missing, GiveCommands(missing), missing \subseteq Missing \cup {Len(log) + 1},
             lastApplied' = commitIndex + 1
      PROVE  AppliedInv'
  <2>1. \A i \in missing : i \in 1..Len(log) => log[i].from = Copied
    BY <1>1, <1>6 DEF AppliedInv
  <2>2. /\ again' = {}
        /\ given' \subseteq {i \in 1..commitIndex : log[i].command}
        /\ \A i \in 1..commitIndex : log[i].command /\ log[i].from # Copied => i \in given'
    BY <1>6, <2>1, GiveOnce DEF AppliedInv
  <2>3. \A i \in 1..commitIndex : log'[i] = log[i]
    BY <1>2, <1>3
  <2>4. 1..lastApplied' - 1 = 1..commitIndex
    BY <1>1, <1>6
  <2>5. AppliedOnce'
    BY <2>2, <2>3, <2>4 DEF AppliedOnce
  <2>. QED  BY <1>4, <2>5 DEF AppliedInv
<1>7. CASE Applies
  BY <1>6, <1>7 DEF Applies
<1>8. CASE Foreign
  BY <1>5, <1>6, <1>8, DrainCompletes DEF Foreign
<1>9. CASE ~Applies /\ ~Foreign
  BY <1>5, <1>9 DEF StepKind, Quiet, Ends, Appends, Commits, commands
<1>. QED  BY <1>7, <1>8, <1>9

(* apply_pending and become_leader give the state machine no command       *)
(* twice, none that is not committed, and every committed one this server  *)
(* has written itself, in whichever order leaderships and commits come.    *)
(* Only a command copied here may be missing in memory, so only such a one *)
(* is ever passed over (AppliedInv).                                       *)
THEOREM AppliedOnceTheorem == Spec => []AppliedOnce
<1>1. Init => AppliedInv
  <2>. SUFFICES ASSUME Init PROVE AppliedInv
    OBVIOUS
  <2>1. Missing = {} /\ given = {} /\ again = {} /\ 1..lastApplied - 1 = {}
    BY DEF Init, Missing
  <2>. QED  BY <2>1 DEF AppliedInv, AppliedOnce
<1>2. RequestInv /\ AppliedInv /\ [Next]_vars => AppliedInv'
  BY Kinds, AppliedStep DEF RequestInv
<1>3. AppliedInv => AppliedOnce
  BY DEF AppliedInv
<1>. QED  BY <1>1, <1>2, <1>3, RequestInvariant, PTL DEF Spec

-----------------------------------------------------------------------------
(* What a client counts *)

(* The committed entries in front of the request of c. *)
Before(c) == {i \in 1..commitIndex : first[c] > 0 => i < first[c]}

(* The commands c counts are among them: the inductive form of             *)
(* CountedCommitted.                                                       *)
CountInv == \A c \in Client : counted[c] <= Cardinality(Sent(log, c, Before(c)))

(* A success is counted when the whole batch is committed. *)
LEMMA CountGrows ==
    ASSUME RequestInv, NEW c \in Client, pc[c] = "result"
    PROVE  Cardinality(Sent(log, c, Before(c))) + Size(c) <= Cardinality(Sent(log, c, 1..commitIndex))
<1>1. /\ Len(log) \in Nat /\ commitIndex \in Nat /\ commitIndex <= Len(log) /\ first[c] \in Nat
  BY TypeFacts DEF RequestInv
<1>2. Size(c) \in Nat /\ Size(c) > 0
  BY SizeType
<1>3. RequestOf(c)
  BY DEF RequestInv
<1>4. first[c] > 0 /\ LastOf(c) <= commitIndex /\ \A i \in first[c]..LastOf(c) : log[i].from = c
  BY <1>3 DEF RequestOf, Appended
<1>5. LastOf(c) = first[c] + Size(c) - 1
  BY DEF LastOf
<1>. DEFINE S == Sent(log, c, Before(c))
            T == first[c]..LastOf(c)
<1>6. S \in SUBSET (1..commitIndex) /\ T \in SUBSET (1..commitIndex) /\ S \cap T = {}
  BY <1>1, <1>2, <1>4, <1>5 DEF Sent, Before
<1>7. S \cup T \in SUBSET Sent(log, c, 1..commitIndex)
  BY <1>1, <1>2, <1>4, <1>5 DEF Sent, Before
<1>8. Cardinality(T) = Size(c)
  <2>1. first[c] \in Int /\ LastOf(c) \in Int /\ first[c] <= LastOf(c)
    BY <1>1, <1>2, <1>5
  <2>2. Cardinality(first[c]..LastOf(c)) = LastOf(c) - first[c] + 1
    BY <2>1, FS_Interval
  <2>. QED  BY <1>1, <1>2, <1>5, <2>2
<1>9. \A U, V \in SUBSET (1..commitIndex) :
         U \cap V = {} => Cardinality(U \cup V) = Cardinality(U) + Cardinality(V)
  BY <1>1, TwoParts
<1>10. \A U \in SUBSET (1..commitIndex) : \A V \in SUBSET U : Cardinality(V) <= Cardinality(U)
  BY <1>1, MoreIndices
<1>11. Sent(log, c, 1..commitIndex) \in SUBSET (1..commitIndex)
  BY DEF Sent
<1>. HIDE DEF S, T
<1>12. Cardinality(S \cup T) = Cardinality(S) + Size(c)
  BY <1>6, <1>8, <1>9
<1>13. Cardinality(S \cup T) <= Cardinality(Sent(log, c, 1..commitIndex))
  BY <1>7, <1>10, <1>11
<1>. QED  BY <1>12, <1>13 DEF S

(* Every step keeps the count in front of the request. *)
LEMMA CountStep ==
    ASSUME RequestInv, StepKind, RequestInv', CountInv
    PROVE  CountInv'
<1>. SUFFICES ASSUME NEW d \in Client
              PROVE  counted'[d] <= Cardinality(Sent(log', d, Before(d)'))
  BY DEF CountInv
<1>1. /\ Len(log) \in Nat /\ commitIndex \in Nat /\ commitIndex <= Len(log)
      /\ first \in [Client -> Nat] /\ counted \in [Client -> Nat]
  BY TypeFacts DEF RequestInv
<1>2. \A i \in 1..Len(log) : log'[i] = log[i]
  BY LogGrows DEF RequestInv
<1>3. commitIndex' \in Nat /\ commitIndex <= commitIndex'
  BY <1>1 DEF StepKind, Quiet, Ends, Appends, Foreign, Commits, Applies
<1>4. counted[d] <= Cardinality(Sent(log, d, Before(d)))
  BY DEF CountInv
<1>. DEFINE S == Sent(log, d, Before(d))
            T == Sent(log', d, Before(d)')
<1>5. T \in SUBSET (1..commitIndex')
  BY DEF Sent, Before
<1>6. \A U \in SUBSET (1..commitIndex') : \A V \in SUBSET U :
        /\ Cardinality(V) <= Cardinality(U)
        /\ Cardinality(U) \in Nat /\ Cardinality(V) \in Nat
  BY <1>3, MoreIndices, Indices
<1>7. CASE /\ counted'[d] = counted[d]
           /\ \/ first'[d] \in {0, first[d]}
              \/ first[d] = 0 /\ first'[d] > commitIndex'
  <2>1. ASSUME NEW i \in S
        PROVE  i \in T
    <3>1. i \in 1..commitIndex /\ (first[d] > 0 => i < first[d]) /\ log[i].from = d
      BY <2>1 DEF Sent, Before
    <3>2. i \in 1..commitIndex' /\ log'[i].from = d
      BY <1>1, <1>2, <1>3, <3>1
    <3>3. first'[d] > 0 => i < first'[d]
      <4>1. first'[d] \in Nat /\ first[d] \in Nat
        BY DEF RequestInv, TypeOK
      <4>. QED  BY <1>1, <1>3, <1>7, <3>1, <3>2, <4>1
    <3>. QED  BY <3>2, <3>3 DEF Sent, Before
  <2>. HIDE DEF S, T
  <2>2. Cardinality(S) <= Cardinality(T) /\ Cardinality(S) \in Nat /\ Cardinality(T) \in Nat
    BY <1>5, <1>6, <2>1
  <2>3. counted[d] <= Cardinality(S)
    BY <1>4 DEF S
  <2>. QED  BY <1>1, <1>7, <2>2, <2>3 DEF T
<1>8. CASE pc[d] = "result" /\ counted'[d] = counted[d] + Size(d) /\ first'[d] = 0
           /\ log' = log /\ commitIndex' = commitIndex
  <2>1. Before(d)' = 1..commitIndex
    BY <1>8 DEF Before
  <2>2. Cardinality(S) + Size(d) <= Cardinality(Sent(log, d, 1..commitIndex))
    BY <1>8, CountGrows
  <2>3. Size(d) \in Nat
    BY SizeType
  <2>4. T = Sent(log, d, 1..commitIndex)
    BY <1>8, <2>1
  <2>5. S \in SUBSET (1..commitIndex')
    BY <1>8 DEF Sent, Before
  <2>. HIDE DEF S, T
  <2>6. Cardinality(S) \in Nat /\ Cardinality(T) \in Nat
    BY <1>5, <1>6, <2>5
  <2>7. counted[d] <= Cardinality(S) /\ Cardinality(S) + Size(d) <= Cardinality(T)
    BY <1>4, <2>2, <2>4 DEF S
  <2>8. counted'[d] <= Cardinality(T)
    BY <1>1, <1>8, <2>3, <2>6, <2>7
  <2>. QED  BY <2>8 DEF T
<1>9. ASSUME NEW c \in Client, Ends(c)
      PROVE  counted'[d] <= Cardinality(Sent(log', d, Before(d)'))
  <2>1. CASE pc[c] = "result" /\ counted' = [counted EXCEPT ![c] = @ + Size(c)] /\ d = c
    BY <1>1, <1>8, <1>9, <2>1 DEF Ends
  <2>2. CASE counted' = [counted EXCEPT ![c] = @ + Size(c)] /\ d # c
    BY <1>1, <1>7, <1>9, <2>2 DEF Ends
  <2>3. CASE counted' = counted
    BY <1>1, <1>7, <1>9, <2>3 DEF Ends
  <2>. QED  BY <1>9, <2>1, <2>2, <2>3 DEF Ends
<1>10. ASSUME NEW c \in Client, Appends(c)
       PROVE  counted'[d] <= Cardinality(Sent(log', d, Before(d)'))
  <2>1. counted'[d] = counted[d] /\ (d # c => first'[d] = first[d])
        /\ (d = c => first[d] = 0 /\ first'[d] > commitIndex')
    BY <1>1, <1>10 DEF Appends
  <2>. QED  BY <1>7, <2>1
<1>11. CASE Quiet \/ Foreign \/ Commits \/ Applies
  BY <1>7, <1>11 DEF Quiet, Foreign, Commits, Applies
<1>. QED  BY <1>9, <1>10, <1>11 DEF StepKind

(* Every command a client counts as applied is in the log and committed.   *)
(* The argument: the count never reaches into the request under way        *)
(* (CountInv), and that request is counted only after its signal, which    *)
(* covers its last entry (RequestInv).                                     *)
THEOREM CountedCommittedTheorem == Spec => []CountedCommitted
<1>1. Init => CountInv
  <2>. SUFFICES ASSUME Init, NEW c \in Client PROVE counted[c] <= Cardinality(Sent(log, c, Before(c)))
    BY DEF CountInv
  <2>1. Sent(log, c, Before(c)) = {} /\ counted[c] = 0
    BY DEF Init, Sent, Before
  <2>. QED  BY <2>1, FS_EmptySet
<1>2. RequestInv /\ RequestInv' /\ CountInv /\ [Next]_vars => CountInv'
  BY Kinds, CountStep
<1>3. RequestInv /\ CountInv => CountedCommitted
  <2>. SUFFICES ASSUME RequestInv, CountInv, NEW c \in Client
                PROVE  counted[c] <= From(c, 1..commitIndex)
    BY DEF CountedCommitted
  <2>1. commitIndex \in Nat /\ counted[c] \in Nat
    BY TypeFacts DEF RequestInv
  <2>. DEFINE S == Sent(log, c, Before(c))
              T == Sent(log, c, 1..commitIndex)
  <2>2. S \in SUBSET T /\ T \in SUBSET (1..commitIndex) /\ S \in SUBSET (1..commitIndex)
    BY DEF Sent, Before
  <2>3. counted[c] <= Cardinality(S)
    BY DEF CountInv
  <2>4. \A U \in SUBSET (1..commitIndex) : \A V \in SUBSET U :
          /\ Cardinality(V) <= Cardinality(U)
          /\ Cardinality(U) \in Nat /\ Cardinality(V) \in Nat
    BY <2>1, MoreIndices, Indices
  <2>5. counted[c] <= Cardinality(T)
    <3>. HIDE DEF S, T
    <3>. QED  BY <2>1, <2>2, <2>3, <2>4
  <2>. QED  BY <2>5 DEF From, Sent
<1>. QED  BY <1>1, <1>2, <1>3, RequestInvariant, PTL DEF Spec

-----------------------------------------------------------------------------
(* What a client writes *)

(* The entries of a request under way. *)
Pending(c) == IF first[c] = 0 THEN 0 ELSE Size(c)

(* Every step keeps the account of what was written. *)
LEMMA TwiceStep ==
    ASSUME RequestInv, StepKind, NothingTwice
    PROVE  NothingTwice'
<1>. SUFFICES ASSUME NEW d \in Client
              PROVE  Cardinality(Sent(log', d, 1..Len(log'))) =
                        counted'[d] + unsure'[d] + Pending(d)'
  BY DEF NothingTwice, From, Sent, Pending
<1>1. /\ log \in Seq(Entry) /\ Len(log) \in Nat /\ first \in [Client -> Nat]
      /\ counted \in [Client -> Nat] /\ unsure \in [Client -> Nat]
  BY TypeFacts DEF RequestInv
<1>2. Cardinality(Sent(log, d, 1..Len(log))) = counted[d] + unsure[d] + Pending(d)
  BY DEF NothingTwice, From, Sent, Pending
<1>3. CASE /\ Sent(log', d, 1..Len(log')) = Sent(log, d, 1..Len(log))
           /\ counted'[d] = counted[d] /\ unsure'[d] = unsure[d] /\ first'[d] = first[d]
           /\ first[d] > 0 => phase'[d] = phase[d]
  <2>1. Pending(d)' = Pending(d)
    BY <1>1, <1>3, SameSize DEF Pending
  <2>. QED  BY <1>2, <1>3, <2>1
<1>4. ASSUME NEW c \in Client, Ends(c)
      PROVE  Cardinality(Sent(log', d, 1..Len(log'))) = counted'[d] + unsure'[d] + Pending(d)'
  <2>1. CASE d # c
    BY <1>1, <1>3, <1>4, <2>1 DEF Ends
  <2>2. CASE d = c
    <3>1. Pending(d)' = 0 /\ log' = log
      BY <1>1, <1>4, <2>2 DEF Ends, Pending
    <3>2. counted'[d] + unsure'[d] = counted[d] + unsure[d] + Pending(d)
      <4>1. Size(d) \in Nat
        BY SizeType
      <4>2. counted[d] \in Nat /\ unsure[d] \in Nat /\ first[d] \in Nat
        BY <1>1
      <4>3. CASE /\ pc[c] = "result"
                 /\ counted' = [counted EXCEPT ![c] = @ + Size(c)]
                 /\ UNCHANGED unsure
        <5>1. first[d] > 0
          BY <2>2, <4>3, Waiting DEF Appended
        <5>2. counted'[d] = counted[d] + Size(d) /\ unsure'[d] = unsure[d] /\ Pending(d) = Size(d)
          BY <1>1, <2>2, <4>2, <4>3, <5>1 DEF Pending
        <5>. QED  BY <4>1, <4>2, <5>2
      <4>4. CASE /\ first[c] > 0
                 /\ unsure' = [unsure EXCEPT ![c] = @ + Size(c)]
                 /\ UNCHANGED counted
        <5>1. unsure'[d] = unsure[d] + Size(d) /\ counted'[d] = counted[d] /\ Pending(d) = Size(d)
          BY <1>1, <2>2, <4>2, <4>4 DEF Pending
        <5>. QED  BY <4>1, <4>2, <5>1
      <4>5. CASE first[c] = 0 /\ UNCHANGED <<counted, unsure>>
        BY <2>2, <4>2, <4>5 DEF Pending
      <4>. QED  BY <1>4, <4>3, <4>4, <4>5 DEF Ends
    <3>3. counted'[d] + unsure'[d] \in Int
      <4>1. Pending(d) \in Nat
        BY SizeType DEF Pending
      <4>. QED  BY <1>1, <3>2, <4>1
    <3>. QED  BY <1>2, <3>1, <3>2, <3>3
  <2>. QED  BY <2>1, <2>2
<1>5. ASSUME NEW c \in Client, Appends(c)
      PROVE  Cardinality(Sent(log', d, 1..Len(log'))) = counted'[d] + unsure'[d] + Pending(d)'
  <2>1. /\ BatchOf(c) \in Seq(Entry) /\ Len(BatchOf(c)) = Size(c)
        /\ \A k \in 1..Size(c) : BatchOf(c)[k].from = c
    BY BatchType
  <2>2. Size(c) \in Nat /\ Size(c) > 0
    BY SizeType
  <2>3. /\ Len(log') = Len(log) + Size(c)
        /\ \A i \in 1..Len(log) : log'[i] = log[i]
        /\ \A i \in Len(log) + 1..Len(log) + Size(c) : log'[i].from = c
    <3>1. /\ Len(log') = Len(log) + Len(BatchOf(c))
          /\ \A i \in 1..Len(log) : log'[i] = log[i]
          /\ \A k \in 1..Len(BatchOf(c)) : log'[Len(log) + k] = BatchOf(c)[k]
      BY <1>1, <1>5, <2>1, Grows DEF Appends
    <3>2. ASSUME NEW i \in Len(log) + 1..Len(log) + Size(c)
          PROVE  log'[i].from = c
      <4>1. i - Len(log) \in 1..Size(c) /\ Len(log) + (i - Len(log)) = i
        BY <1>1, <2>2
      <4>. QED  BY <2>1, <3>1, <4>1
    <3>. QED  BY <2>1, <3>1, <3>2
  <2>. DEFINE S == Sent(log, d, 1..Len(log))
              T == Len(log) + 1..Len(log) + Size(c)
  <2>4. CASE d # c
    <3>1. Sent(log', d, 1..Len(log')) = S
      BY <1>1, <2>2, <2>3, <2>4 DEF Sent
    <3>. QED  BY <1>1, <1>3, <1>5, <2>4, <3>1 DEF Appends
  <2>5. CASE d = c
    <3>1. Sent(log', d, 1..Len(log')) = S \cup T
      BY <1>1, <2>2, <2>3, <2>5 DEF Sent
    <3>2. S \in SUBSET (1..Len(log')) /\ T \in SUBSET (1..Len(log')) /\ S \cap T = {}
      BY <1>1, <2>2, <2>3 DEF Sent
    <3>3. Len(log') \in Nat
      BY <1>1, <2>2, <2>3
    <3>4. Cardinality(T) = Size(c)
      <4>1. Len(log) + 1 \in Int /\ Len(log) + Size(c) \in Int /\ Len(log) + 1 <= Len(log) + Size(c)
        BY <1>1, <2>2
      <4>2. Cardinality(T) = (Len(log) + Size(c)) - (Len(log) + 1) + 1
        BY <4>1, FS_Interval
      <4>. QED  BY <1>1, <2>2, <4>2
    <3>5. Pending(d) = 0 /\ Pending(d)' = Size(c)
      <4>1. Size(c)' = Size(c)
        BY <1>5, SameSize DEF Appends
      <4>2. first[d] = 0 /\ first'[d] > 0
        BY <1>1, <1>5, <2>5 DEF Appends
      <4>. QED  BY <2>5, <4>1, <4>2 DEF Pending
    <3>6. counted'[d] = counted[d] /\ unsure'[d] = unsure[d] /\ counted[d] \in Nat /\ unsure[d] \in Nat
      BY <1>1, <1>5 DEF Appends
    <3>7. Cardinality(S) = counted[d] + unsure[d] + Pending(d)
      BY <1>2
    <3>. HIDE DEF S, T
    <3>8. Cardinality(S \cup T) = Cardinality(S) + Cardinality(T)
      BY <3>2, <3>3, TwoParts
    <3>9. Cardinality(S) = counted[d] + unsure[d]
      BY <3>5, <3>6, <3>7
    <3>10. counted'[d] + unsure'[d] + Pending(d)' = (counted[d] + unsure[d]) + Size(c)
      BY <3>5, <3>6
    <3>11. Cardinality(S \cup T) = (counted[d] + unsure[d]) + Size(c)
      BY <3>4, <3>8, <3>9
    <3>. QED  BY <3>1, <3>10, <3>11
  <2>. QED  BY <2>4, <2>5
<1>6. CASE Foreign
  <2>1. PICK e \in Entry : e.from \notin Client /\ log' = Append(log, e)
    BY <1>6 DEF Foreign
  <2>2. /\ Len(log') = Len(log) + 1 /\ log'[Len(log) + 1] = e
        /\ \A i \in 1..Len(log) : log'[i] = log[i]
    BY <1>1, <2>1, GrowsByOne
  <2>3. Sent(log', d, 1..Len(log')) = Sent(log, d, 1..Len(log))
    BY <1>1, <2>1, <2>2 DEF Sent
  <2>. QED  BY <1>3, <1>6, <2>3 DEF Foreign
<1>7. CASE Quiet \/ Commits \/ Applies
  BY <1>3, <1>7 DEF Quiet, Commits, Applies
<1>. QED  BY <1>4, <1>5, <1>6, <1>7 DEF StepKind

(* A client's batch is in the log once for every request that was not      *)
(* refused: no busy, no error and no lost leadership writes it twice.      *)
THEOREM NothingTwiceTheorem == Spec => []NothingTwice
<1>1. Init => NothingTwice
  <2>. SUFFICES ASSUME Init, NEW c \in Client
                PROVE  From(c, 1..Len(log)) =
                         counted[c] + unsure[c] + IF first[c] = 0 THEN 0 ELSE Size(c)
    BY DEF NothingTwice
  <2>1. {i \in 1..Len(log) : log[i].from = c} = {}
    BY DEF Init
  <2>. QED  BY <2>1, FS_EmptySet DEF Init, From
<1>2. RequestInv /\ NothingTwice /\ [Next]_vars => NothingTwice'
  BY Kinds, TwiceStep
<1>. QED  BY <1>1, <1>2, RequestInvariant, PTL DEF Spec

-----------------------------------------------------------------------------
(* The results of a request *)

(* The applied entries of the request of c. *)
AppliedOf(c) == {i \in first[c]..LastOf(c) : i < lastApplied}

(* Every step keeps the results within the request. *)
LEMMA ResultsStep ==
    ASSUME RequestInv, StepKind, ResultsOnce
    PROVE  ResultsOnce'
<1>. SUFFICES ASSUME NEW d \in Client, first'[d] > 0
              PROVE  received'[d] <= Cardinality(Given(log', AppliedOf(d)'))
  BY DEF ResultsOnce, CommandsIn, Given, AppliedOf
<1>1. /\ log \in Seq(Entry) /\ Len(log) \in Nat /\ commitIndex \in Nat /\ commitIndex <= Len(log)
      /\ first \in [Client -> Nat] /\ received \in [Client -> Nat]
      /\ lastApplied \in Nat /\ lastApplied >= 1 /\ lastApplied <= commitIndex + 1
  BY TypeFacts DEF RequestInv
<1>2. Size(d) \in Nat /\ LastOf(d) = first[d] + Size(d) - 1 /\ LastOf(d) \in Int
  <2>1. Size(d) \in Nat
    BY SizeType
  <2>. QED  BY <1>1, <2>1 DEF LastOf
<1>3. RequestOf(d)
  BY DEF RequestInv
<1>4. first[d] > 0 => /\ LastOf(d) <= Len(log)
                      /\ received[d] <= Cardinality(Given(log, AppliedOf(d)))
  BY <1>3 DEF RequestOf, ResultsOnce, CommandsIn, Given, AppliedOf
<1>5. \A i \in 1..Len(log) : log'[i] = log[i]
  BY LogGrows DEF RequestInv
<1>6. \A U \in SUBSET (1..Len(log)) : \A V \in SUBSET U :
        /\ Cardinality(V) <= Cardinality(U)
        /\ Cardinality(U) \in Nat /\ Cardinality(V) \in Nat
  BY <1>1, MoreIndices, Indices
<1>. DEFINE S == Given(log, AppliedOf(d))
            T == Given(log', AppliedOf(d)')
<1>7. CASE /\ first[d] > 0 /\ first'[d] = first[d] /\ received'[d] = received[d]
           /\ phase'[d] = phase[d] /\ lastApplied' \in {lastApplied, commitIndex + 1}
  <2>1. LastOf(d)' = LastOf(d)
    BY <1>7, SameSize
  <2>2. ASSUME NEW i \in S
        PROVE  i \in T
    <3>1. i \in first[d]..LastOf(d) /\ i < lastApplied /\ log[i].command
      BY <2>2 DEF Given, AppliedOf
    <3>2. i \in 1..Len(log) /\ i < lastApplied'
      BY <1>1, <1>2, <1>4, <1>7, <3>1
    <3>. QED  BY <1>5, <1>7, <2>1, <3>1, <3>2 DEF Given, AppliedOf
  <2>3. T \in SUBSET (1..Len(log))
    BY <1>1, <1>2, <1>4, <1>7, <2>1 DEF Given, AppliedOf
  <2>4. S \in SUBSET T
    BY <2>2
  <2>. HIDE DEF S, T
  <2>5. Cardinality(S) <= Cardinality(T) /\ Cardinality(S) \in Nat /\ Cardinality(T) \in Nat
    BY <1>6, <2>3, <2>4
  <2>6. received[d] <= Cardinality(S)
    BY <1>4, <1>7 DEF S
  <2>7. received'[d] <= Cardinality(T)
    BY <1>1, <1>7, <2>5, <2>6
  <2>. QED  BY <2>7 DEF T
<1>8. ASSUME NEW c \in Client, Ends(c)
      PROVE  received'[d] <= Cardinality(T)
  <2>1. d # c
    BY <1>1, <1>8 DEF Ends
  <2>. QED  BY <1>1, <1>7, <1>8, <2>1 DEF Ends
<1>9. ASSUME NEW c \in Client, Appends(c)
      PROVE  received'[d] <= Cardinality(T)
  <2>1. CASE d # c
    BY <1>1, <1>7, <1>9, <2>1 DEF Appends
  <2>2. CASE d = c
    <3>1. received'[d] = 0
      BY <1>3, <1>9, <2>2 DEF Appends, RequestOf
    <3>2. T \in SUBSET (1..commitIndex)
      <4>1. first'[d] = Len(log) + 1 /\ lastApplied' = lastApplied
        BY <1>1, <1>9, <2>2 DEF Appends
      <4>2. ASSUME NEW i \in T
            PROVE  i \in 1..commitIndex
        <5>1. i \in first'[d]..LastOf(d)' /\ i < lastApplied'
          BY <4>2 DEF Given, AppliedOf
        <5>. QED  BY <1>1, <4>1, <5>1
      <4>. QED  BY <4>2
    <3>. HIDE DEF T
    <3>3. Cardinality(T) \in Nat
      BY <1>1, <3>2, Indices
    <3>. QED  BY <3>1, <3>3
  <2>. QED  BY <2>1, <2>2
<1>10. CASE Quiet \/ Foreign \/ Commits
  <2>1. lastApplied' \in {lastApplied, commitIndex + 1}
    BY <1>10, DrainCompletes DEF Quiet, Foreign, Commits, RequestInv
  <2>2. first'[d] = first[d] /\ received'[d] = received[d] /\ first[d] > 0 /\ phase'[d] = phase[d]
    BY <1>10 DEF Quiet, Foreign, Commits
  <2>. QED  BY <1>7, <2>1, <2>2
<1>11. CASE Applies
  <2>1. first'[d] = first[d] /\ first[d] > 0 /\ log' = log /\ lastApplied' = commitIndex + 1
    BY <1>11 DEF Applies
  <2>2. LastOf(d)' = LastOf(d)
    BY <1>11, SameSize DEF Applies
  <2>. DEFINE D == Given(log, Drained \cap first[d]..LastOf(d))
  <2>3. received'[d] = received[d] + Cardinality(D)
    <3>1. received'[d] = received[d] + ResultsOf(d)
      BY <1>11 DEF Applies
    <3>. QED  BY <2>1, <3>1 DEF ResultsOf, CommandsIn, Given
  <2>4. /\ S \in SUBSET (1..Len(log)) /\ D \in SUBSET (1..Len(log)) /\ S \cap D = {}
        /\ T \in SUBSET (1..Len(log))
    <3>1. S \in SUBSET (1..Len(log))
      BY <1>1, <1>2, <1>4, <2>1 DEF Given, AppliedOf
    <3>2. D \in SUBSET (1..Len(log))
      BY <1>1, <1>2, <1>4, <2>1 DEF Given
    <3>3. T \in SUBSET (1..Len(log))
      BY <1>1, <1>2, <1>4, <2>1, <2>2 DEF Given, AppliedOf
    <3>4. S \cap D = {}
      BY <1>1 DEF Given, AppliedOf, Drained
    <3>. QED  BY <3>1, <3>2, <3>3, <3>4
  <2>5. S \cup D \in SUBSET T
    <3>1. ASSUME NEW i \in S \cup D
          PROVE  i \in T
      <4>1. i \in first[d]..LastOf(d) /\ i < commitIndex + 1 /\ log[i].command
        BY <1>1, <3>1 DEF Given, AppliedOf, Drained
      <4>. QED  BY <2>1, <2>2, <4>1 DEF Given, AppliedOf
    <3>. QED  BY <3>1
  <2>6. received[d] <= Cardinality(S)
    BY <1>4, <2>1
  <2>. HIDE DEF S, T, D
  <2>7. Cardinality(S \cup D) = Cardinality(S) + Cardinality(D)
    <3>1. PICK b \in Nat : b = Len(log)
      BY <1>1
    <3>2. S \in SUBSET (1..b) /\ D \in SUBSET (1..b) /\ S \cap D = {}
      BY <2>4, <3>1, Zenon
    <3>. QED  BY <3>2, TwoParts, Zenon
  <2>8. /\ Cardinality(S \cup D) <= Cardinality(T)
        /\ Cardinality(S) \in Nat /\ Cardinality(D) \in Nat /\ Cardinality(T) \in Nat
    BY <1>6, <2>4, <2>5
  <2>9. received'[d] <= Cardinality(T)
    BY <1>1, <2>3, <2>6, <2>7, <2>8
  <2>. QED  BY <2>9 DEF T
<1>. QED  BY <1>8, <1>9, <1>10, <1>11 DEF StepKind

(* No request counts more results than it has applied commands: the sinks  *)
(* that apply_pending calls are those of the drained entries, each once.   *)
THEOREM ResultsOnceTheorem == Spec => []ResultsOnce
<1>1. Init => ResultsOnce
  BY DEF Init, ResultsOnce
<1>2. RequestInv /\ ResultsOnce /\ [Next]_vars => ResultsOnce'
  BY Kinds, ResultsStep
<1>. QED  BY <1>1, <1>2, RequestInvariant, PTL DEF Spec
=============================================================================
