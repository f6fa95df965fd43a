---------------------------- MODULE WireMessages ----------------------------
(* The messages of the RPC layer and what becomes of one between the       *)
(* sender's struct and the receiver's: raft_proto_conv.h copies the struct *)
(* into a protobuf message, the generated code (rpcproto.pb.cc) writes the *)
(* message as numbered fields and reads such fields back.  A message has   *)
(* five tables, each translated from the function that holds it:           *)
(*   Struct      the fields of the C++ struct, in their order              *)
(*   ToProto     which struct field each protobuf field is set from        *)
(*   Writes      the protobuf field written under number 1, 2, ...         *)
(*   Reads       the protobuf field that number 1, 2, ... is read into     *)
(*   FromProto   which protobuf field each struct field is taken from      *)
(* A field's contents are a number; 0 is the default (0, false, the empty  *)
(* string), which protobuf does not write.                                 *)
EXTENDS Naturals, Sequences, SequencesExt, Functions

EntryMetaWrites == <<"term", "cmd_len">>

EntryMetaReads == <<"term", "cmd_len">>

RequestVoteRequestStruct == <<"term", "candidate_id", "last_log_index", "last_log_term">>

RequestVoteRequestToProto ==
    [term |-> "term", candidate_id |-> "candidate_id",
     last_log_index |-> "last_log_index", last_log_term |-> "last_log_term"]

RequestVoteRequestWrites == <<"term", "candidate_id", "last_log_index", "last_log_term">>

RequestVoteRequestReads == <<"term", "candidate_id", "last_log_index", "last_log_term">>

RequestVoteRequestFromProto ==
    [term |-> "term", candidate_id |-> "candidate_id",
     last_log_index |-> "last_log_index", last_log_term |-> "last_log_term"]

RequestVoteResponseStruct == <<"term", "vote_granted">>

RequestVoteResponseToProto == [term |-> "term", vote_granted |-> "vote_granted"]

RequestVoteResponseWrites == <<"term", "vote_granted">>

RequestVoteResponseReads == <<"term", "vote_granted">>

RequestVoteResponseFromProto == [term |-> "term", vote_granted |-> "vote_granted"]

AppendEntriesRequestStruct ==
    <<"term", "leader_id", "prev_log_index", "prev_log_term", "leader_commit",
      "leader_pba_src", "log_block_length", "num_entries", "slots_per_entry",
      "start_slot", "leader_dev_index", "data_already_copied", "entry_metas">>

AppendEntriesRequestToProto ==
    [term |-> "term", leader_id |-> "leader_id", prev_log_index |-> "prev_log_index",
     prev_log_term |-> "prev_log_term", leader_commit |-> "leader_commit",
     leader_pba_src |-> "leader_pba_src", log_block_length |-> "log_block_length",
     num_entries |-> "num_entries", slots_per_entry |-> "slots_per_entry",
     start_slot |-> "start_slot", leader_dev_index |-> "leader_dev_index",
     data_already_copied |-> "data_already_copied", entry_metas |-> "entry_metas"]

AppendEntriesRequestWrites ==
    <<"term", "leader_id", "prev_log_index", "prev_log_term", "leader_commit",
      "leader_pba_src", "log_block_length", "num_entries", "slots_per_entry",
      "start_slot", "leader_dev_index", "entry_metas", "data_already_copied">>

AppendEntriesRequestReads ==
    <<"term", "leader_id", "prev_log_index", "prev_log_term", "leader_commit",
      "leader_pba_src", "log_block_length", "num_entries", "slots_per_entry",
      "start_slot", "leader_dev_index", "entry_metas", "data_already_copied">>

AppendEntriesRequestFromProto ==
    [term |-> "term", leader_id |-> "leader_id", prev_log_index |-> "prev_log_index",
     prev_log_term |-> "prev_log_term", leader_commit |-> "leader_commit",
     leader_pba_src |-> "leader_pba_src", log_block_length |-> "log_block_length",
     num_entries |-> "num_entries", slots_per_entry |-> "slots_per_entry",
     start_slot |-> "start_slot", leader_dev_index |-> "leader_dev_index",
     data_already_copied |-> "data_already_copied", entry_metas |-> "entry_metas"]

AppendEntriesResponseStruct ==
    <<"term", "success", "conflict_term", "conflict_index", "handler_duration_ns",
      "write_pba_rt_ns", "storage_copy_ns", "handle_ae_lock_wait_ns", "handle_ae_pre_ns",
      "handle_ae_lock_wait2_ns", "handle_ae_post_ns", "handle_ae_persist_ns">>

AppendEntriesResponseToProto ==
    [term |-> "term", success |-> "success", conflict_term |-> "conflict_term",
     conflict_index |-> "conflict_index", handler_duration_nanos |-> "handler_duration_ns",
     write_pba_rt_nanos |-> "write_pba_rt_ns", storage_copy_nanos |-> "storage_copy_ns",
     handle_ae_lock_wait_nanos |-> "handle_ae_lock_wait_ns",
     handle_ae_pre_nanos |-> "handle_ae_pre_ns",
     handle_ae_lock_wait2_nanos |-> "handle_ae_lock_wait2_ns",
     handle_ae_post_nanos |-> "handle_ae_post_ns",
     handle_ae_persist_nanos |-> "handle_ae_persist_ns"]

AppendEntriesResponseWrites ==
    <<"term", "success", "conflict_term", "conflict_index", "handler_duration_nanos",
      "write_pba_rt_nanos", "storage_copy_nanos", "handle_ae_lock_wait_nanos",
      "handle_ae_pre_nanos", "handle_ae_lock_wait2_nanos", "handle_ae_post_nanos",
      "handle_ae_persist_nanos">>

AppendEntriesResponseReads ==
    <<"term", "success", "conflict_term", "conflict_index", "handler_duration_nanos",
      "write_pba_rt_nanos", "storage_copy_nanos", "handle_ae_lock_wait_nanos",
      "handle_ae_pre_nanos", "handle_ae_lock_wait2_nanos", "handle_ae_post_nanos",
      "handle_ae_persist_nanos">>

AppendEntriesResponseFromProto ==
    [term |-> "term", success |-> "success", conflict_term |-> "conflict_term",
     conflict_index |-> "conflict_index", handler_duration_ns |-> "handler_duration_nanos",
     write_pba_rt_ns |-> "write_pba_rt_nanos", storage_copy_ns |-> "storage_copy_nanos",
     handle_ae_lock_wait_ns |-> "handle_ae_lock_wait_nanos",
     handle_ae_pre_ns |-> "handle_ae_pre_nanos",
     handle_ae_lock_wait2_ns |-> "handle_ae_lock_wait2_nanos",
     handle_ae_post_ns |-> "handle_ae_post_nanos",
     handle_ae_persist_ns |-> "handle_ae_persist_nanos"]

WritePBABatchRequestStruct ==
    <<"pba_srcs", "pba_dsts", "nbytes", "block_size", "src_dev", "dst_dev">>

WritePBABatchRequestToProto ==
    [pba_srcs |-> "pba_srcs", pba_dsts |-> "pba_dsts", nbytes |-> "nbytes",
     block_size |-> "block_size", src_dev |-> "src_dev", dst_dev |-> "dst_dev"]

WritePBABatchRequestWrites ==
    <<"pba_srcs", "pba_dsts", "nbytes", "block_size", "src_dev", "dst_dev">>

WritePBABatchRequestReads ==
    <<"pba_srcs", "pba_dsts", "nbytes", "block_size", "src_dev", "dst_dev">>

WritePBABatchRequestFromProto ==
    [pba_srcs |-> "pba_srcs", pba_dsts |-> "pba_dsts", nbytes |-> "nbytes",
     block_size |-> "block_size", src_dev |-> "src_dev", dst_dev |-> "dst_dev"]

WritePBABatchResponseStruct == <<"error", "copy_nanos", "read_nanos", "write_nanos">>

WritePBABatchResponseToProto ==
    [err |-> "error", copy_nanos |-> "copy_nanos", read_nanos |-> "read_nanos",
     write_nanos |-> "write_nanos"]

WritePBABatchResponseWrites == <<"err", "copy_nanos", "read_nanos", "write_nanos">>

WritePBABatchResponseReads == <<"err", "copy_nanos", "read_nanos", "write_nanos">>

WritePBABatchResponseFromProto ==
    [error |-> "err", copy_nanos |-> "copy_nanos", read_nanos |-> "read_nanos",
     write_nanos |-> "write_nanos"]
-----------------------------------------------------------------------------
(* The client's messages.  The client program fills the protobuf messages  *)
(* itself and takes from a reply the fields it prints or acts on: their    *)
(* FromProto tables are what raft_client_main.cpp reads under which name.  *)
(* It discards the reply of ClientEcho.                                    *)

CommandsStruct == <<"commands">>

CommandsFromProto == [commands |-> "commands"]

ClientApplyRequestWrites == <<"commands">>

ClientApplyRequestReads == <<"commands">>

ClientApplyTimedRequestWrites == <<"commands">>

ClientApplyTimedRequestReads == <<"commands">>

ClientEchoRequestWrites == <<"commands">>

ClientEchoRequestReads == <<"commands">>

ClientApplyResponseStruct == <<"error", "busy", "retry_after_ms">>

ClientApplyResponseToProto ==
    [err |-> "error", busy |-> "busy", retry_after_ms |-> "retry_after_ms"]

ClientApplyResponseWrites == <<"err", "busy", "retry_after_ms">>

ClientApplyResponseReads == <<"err", "busy", "retry_after_ms">>

ClientApplyResponseFromProto ==
    [error |-> "err", busy |-> "busy", retry_after_ms |-> "retry_after_ms"]

ClientApplyTimedResponseStruct ==
    <<"error", "l_handler_ns", "l_persist_ns", "ae_net_ns", "f_handler_ns", "repl_net_ns",
      "storage_io_ns", "quorum_wait_ns", "mutex_ns", "total_ns", "busy", "retry_after_ms",
      "post_rpc_ns", "commit_wait_ns", "wg_scheduling_ns">>

\* storage_io_ns travels as replication_nanos, the name it had in raft.go.
ClientApplyTimedResponseToProto ==
    [err |-> "error", l_handler_nanos |-> "l_handler_ns", l_persist_nanos |-> "l_persist_ns",
     ae_net_nanos |-> "ae_net_ns", f_handler_nanos |-> "f_handler_ns",
     repl_net_nanos |-> "repl_net_ns", replication_nanos |-> "storage_io_ns",
     quorum_wait_nanos |-> "quorum_wait_ns", mutex_nanos |-> "mutex_ns",
     total_nanos |-> "total_ns", busy |-> "busy", retry_after_ms |-> "retry_after_ms",
     post_rpc_nanos |-> "post_rpc_ns", commit_wait_nanos |-> "commit_wait_ns",
     wg_scheduling_nanos |-> "wg_scheduling_ns"]

ClientApplyTimedResponseWrites ==
    <<"err", "l_handler_nanos", "l_persist_nanos", "ae_net_nanos", "f_handler_nanos",
      "repl_net_nanos", "replication_nanos", "quorum_wait_nanos", "mutex_nanos",
      "total_nanos", "busy", "retry_after_ms", "post_rpc_nanos", "commit_wait_nanos",
      "wg_scheduling_nanos">>

ClientApplyTimedResponseReads ==
    <<"err", "l_handler_nanos", "l_persist_nanos", "ae_net_nanos", "f_handler_nanos",
      "repl_net_nanos", "replication_nanos", "quorum_wait_nanos", "mutex_nanos",
      "total_nanos", "busy", "retry_after_ms", "post_rpc_nanos", "commit_wait_nanos",
      "wg_scheduling_nanos">>

ClientApplyTimedResponseFromProto ==
    [error |-> "err", busy |-> "busy", retry_after_ms |-> "retry_after_ms",
     total_ns |-> "total_nanos", l_handler_ns |-> "l_handler_nanos",
     l_persist_ns |-> "l_persist_nanos", ae_net_ns |-> "ae_net_nanos",
     f_handler_ns |-> "f_handler_nanos", repl_net_ns |-> "repl_net_nanos",
     storage_io_ns |-> "replication_nanos", quorum_wait_ns |-> "quorum_wait_nanos",
     mutex_ns |-> "mutex_nanos", commit_wait_ns |-> "commit_wait_nanos"]

ClientEchoResponseStruct == <<"n">>

ClientEchoResponseToProto == [n |-> "n"]

ClientEchoResponseWrites == <<"n">>

ClientEchoResponseReads == <<"n">>

ClientGetCommitIndexResponseStruct == <<"commit_index", "error">>

ClientGetCommitIndexResponseToProto == [commit_index |-> "commit_index", err |-> "error"]

ClientGetCommitIndexResponseWrites == <<"commit_index", "err">>

ClientGetCommitIndexResponseReads == <<"commit_index", "err">>

ClientGetCommitIndexResponseFromProto == [commit_index |-> "commit_index"]

ClientGetHashRequestStruct == <<"at_count">>

ClientGetHashRequestWrites == <<"at_count">>

ClientGetHashRequestReads == <<"at_count">>

ClientGetHashRequestFromProto == [at_count |-> "at_count"]

ClientGetHashResponseStruct == <<"hash", "count", "error">>

ClientGetHashResponseToProto == [hash |-> "hash", count |-> "count", err |-> "error"]

ClientGetHashResponseWrites == <<"hash", "count", "err">>

ClientGetHashResponseReads == <<"hash", "count", "err">>

ClientGetHashResponseFromProto == [hash |-> "hash", count |-> "count", error |-> "err"]

ClientGetAEBatchStatsResponseStruct == <<"ae_count", "ae_entries", "error">>

ClientGetAEBatchStatsResponseToProto ==
    [ae_count |-> "ae_count", ae_entries |-> "ae_entries", err |-> "error"]

ClientGetAEBatchStatsResponseWrites == <<"ae_count", "ae_entries", "err">>

ClientGetAEBatchStatsResponseReads == <<"ae_count", "ae_entries", "err">>

ClientGetAEBatchStatsResponseFromProto ==
    [ae_count |-> "ae_count", ae_entries |-> "ae_entries"]
-----------------------------------------------------------------------------
(* What the conversions and the generated code do with the tables.         *)

Repeated == {"commands", "pba_srcs", "pba_dsts", "nbytes", "entry_metas"}

\* Repeated numbers travel packed, as one field; byte strings and messages
\* as one field per element.
Packed == {"pba_srcs", "pba_dsts", "nbytes"}

\* Protobuf skips a scalar that has its default value.
Field(number, name, value) ==
    IF name \in Repeated \ Packed THEN [i \in DOMAIN value |-> <<number, value[i]>>]
    ELSE IF value = (IF name \in Packed THEN <<>> ELSE 0) THEN <<>>
    ELSE << <<number, value>> >>

Serialize(writes, message) ==
    FlattenSeq([i \in DOMAIN writes |-> Field(i, writes[i], message[writes[i]])])

Contents(fields) == [i \in DOMAIN fields |-> fields[i][2]]

\* An unknown number is kept aside, a field that was not sent keeps its
\* default, of a scalar sent twice the last one counts.
Parse(reads, fields) ==
    [name \in Range(reads) |->
        LET known(f) == f[1] \in DOMAIN reads /\ reads[f[1]] = name
            sent == Contents(SelectSeq(fields, known))
        IN  IF name \in Packed THEN FlattenSeq(sent)
            ELSE IF name \in Repeated THEN sent
            ELSE IF sent = <<>> THEN 0 ELSE Last(sent)]

MetaOut(meta) == Serialize(EntryMetaWrites, meta)

MetaIn(fields) == Parse(EntryMetaReads, fields)

\* entry_metas is the one field whose elements are messages.
MetasOut(message) ==
    [name \in DOMAIN message |->
        IF name = "entry_metas"
        THEN [i \in DOMAIN message[name] |-> MetaOut(message[name][i])]
        ELSE message[name]]

MetasIn(message) ==
    [name \in DOMAIN message |->
        IF name = "entry_metas"
        THEN [i \in DOMAIN message[name] |-> MetaIn(message[name][i])]
        ELSE message[name]]

Converted(table, message) == [name \in DOMAIN table |-> message[table[name]]]

\* From the sender's struct to the bytes, and from the bytes to the
\* receiver's struct.
Encode(m, g) == Serialize(m.writes, MetasOut(Converted(m.to, g)))

Decode(m, body) == Converted(m.from, MetasIn(Parse(m.reads, body)))

Same(fields) == [name \in Range(fields) |-> name]

Message(struct, to, writes, reads, from) ==
    [struct |-> struct, to |-> to, writes |-> writes, reads |-> reads, from |-> from]

\* The two messages of every method of rpc_method.
Method ==
    [AppendEntries |->
        [request |-> Message(AppendEntriesRequestStruct, AppendEntriesRequestToProto,
                        AppendEntriesRequestWrites, AppendEntriesRequestReads,
                        AppendEntriesRequestFromProto),
         reply |-> Message(AppendEntriesResponseStruct, AppendEntriesResponseToProto,
                        AppendEntriesResponseWrites, AppendEntriesResponseReads,
                        AppendEntriesResponseFromProto)],
     RequestVote |->
        [request |-> Message(RequestVoteRequestStruct, RequestVoteRequestToProto,
                        RequestVoteRequestWrites, RequestVoteRequestReads,
                        RequestVoteRequestFromProto),
         reply |-> Message(RequestVoteResponseStruct, RequestVoteResponseToProto,
                        RequestVoteResponseWrites, RequestVoteResponseReads,
                        RequestVoteResponseFromProto)],
     WritePBABatch |->
        [request |-> Message(WritePBABatchRequestStruct, WritePBABatchRequestToProto,
                        WritePBABatchRequestWrites, WritePBABatchRequestReads,
                        WritePBABatchRequestFromProto),
         reply |-> Message(WritePBABatchResponseStruct, WritePBABatchResponseToProto,
                        WritePBABatchResponseWrites, WritePBABatchResponseReads,
                        WritePBABatchResponseFromProto)],
     ClientApply |->
        [request |-> Message(CommandsStruct, Same(ClientApplyRequestWrites),
                        ClientApplyRequestWrites, ClientApplyRequestReads,
                        CommandsFromProto),
         reply |-> Message(ClientApplyResponseStruct, ClientApplyResponseToProto,
                        ClientApplyResponseWrites, ClientApplyResponseReads,
                        ClientApplyResponseFromProto)],
     ClientApplyTimed |->
        [request |-> Message(CommandsStruct, Same(ClientApplyTimedRequestWrites),
                        ClientApplyTimedRequestWrites, ClientApplyTimedRequestReads,
                        CommandsFromProto),
         reply |-> Message(ClientApplyTimedResponseStruct, ClientApplyTimedResponseToProto,
                        ClientApplyTimedResponseWrites, ClientApplyTimedResponseReads,
                        ClientApplyTimedResponseFromProto)],
     ClientEcho |->
        [request |-> Message(CommandsStruct, Same(ClientEchoRequestWrites),
                        ClientEchoRequestWrites, ClientEchoRequestReads,
                        CommandsFromProto),
         reply |-> Message(ClientEchoResponseStruct, ClientEchoResponseToProto,
                        ClientEchoResponseWrites, ClientEchoResponseReads,
                        Same(<<>>))],
     ClientGetCommitIndex |->
        [request |-> Message(<<>>, Same(<<>>), <<>>, <<>>, Same(<<>>)),
         reply |-> Message(ClientGetCommitIndexResponseStruct,
                        ClientGetCommitIndexResponseToProto,
                        ClientGetCommitIndexResponseWrites,
                        ClientGetCommitIndexResponseReads,
                        ClientGetCommitIndexResponseFromProto)],
     ClientGetHash |->
        [request |-> Message(ClientGetHashRequestStruct, Same(ClientGetHashRequestWrites),
                        ClientGetHashRequestWrites, ClientGetHashRequestReads,
                        ClientGetHashRequestFromProto),
         reply |-> Message(ClientGetHashResponseStruct, ClientGetHashResponseToProto,
                        ClientGetHashResponseWrites, ClientGetHashResponseReads,
                        ClientGetHashResponseFromProto)],
     ClientGetAEBatchStats |->
        [request |-> Message(<<>>, Same(<<>>), <<>>, <<>>, Same(<<>>)),
         reply |-> Message(ClientGetAEBatchStatsResponseStruct,
                        ClientGetAEBatchStatsResponseToProto,
                        ClientGetAEBatchStatsResponseWrites,
                        ClientGetAEBatchStatsResponseReads,
                        ClientGetAEBatchStatsResponseFromProto)]]
=============================================================================
