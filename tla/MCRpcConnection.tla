--------------------------- MODULE MCRpcConnection ---------------------------
(* RpcConnection for TLC: two threads of one client, so that one can wait  *)
(* for the connection the other uses, and two connections, so that both    *)
(* can dial at once and a new one can be dialed while an old one's handler *)
(* still runs.                                                             *)
EXTENDS RpcConnection

(* The conversions of every message, computed. *)
ASSUME Conversions == TablesRight
=============================================================================
