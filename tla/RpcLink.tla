------------------------------ MODULE RpcLink -------------------------------
(***************************************************************************)
(* The link between an RPC client and an RPC server, here a Bluetooth      *)
(* connection: two queues that keep the order of packets and may lose any  *)
(* of them, and the packets of the RPC protocol, include/infuse/rpc.       *)
(*                                                                         *)
(* A file is a sequence of blocks, and a data packet carries one block.    *)
(* The CRC of data is the data itself: different data have different CRCs. *)
(***************************************************************************)
EXTENDS Integers, Sequences

CONSTANTS Files,      \* the files
          FileLen     \* how many blocks each one has

ASSUME FilesAssumption == FileLen \in [Files -> Nat \ {0}]

\* enum rpc_enum_file_action.
Actions == {"DISCARD", "APP_IMG", "BT_CTLR_IMG", "APP_CPATCH", "BT_CTLR_CPATCH",
            "NRF91_MODEM_DIFF", "FILE_FOR_COPY", "WRITE_LITTLEFS"}

VARIABLES toServer,   \* INFUSE_RPC_CMD and INFUSE_RPC_DATA packets
          toClient    \* INFUSE_RPC_DATA_ACK and INFUSE_RPC_RSP packets

link == <<toServer, toClient>>

Block(f, i) == <<f, i>>
Whole(f) == [i \in 1..FileLen[f] |-> Block(f, i - 1)]
StartsWith(s, t) == Len(t) <= Len(s) /\ SubSeq(s, 1, Len(t)) = t
NoCrc == <<>>         \* UINT32_MAX: the client does not know the CRC

\* A request to write a file: rpc_file_write_basic_request.
Cmd(id, file, action, crc, ack) ==
    [t |-> "CMD", id |-> id, file |-> file, action |-> action,
     crc |-> IF crc THEN Whole(file) ELSE NoCrc, rx_ack_period |-> ack]
Data(id, file, offset) == [t |-> "DATA", id |-> id, offset |-> offset, payload |-> Block(file, offset)]
Ack(id) == [t |-> "ACK", id |-> id]
Rsp(id, ok, recv_len, recv_crc) ==
    [t |-> "RSP", id |-> id, ok |-> ok, recv_len |-> recv_len, recv_crc |-> recv_crc]

\* The link loses a packet.
LoseToServer == toServer # <<>> /\ toServer' = Tail(toServer) /\ UNCHANGED toClient
LoseToClient == toClient # <<>> /\ toClient' = Tail(toClient) /\ UNCHANGED toServer
=============================================================================
