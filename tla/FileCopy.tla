------------------------------ MODULE FileCopy ------------------------------
(***************************************************************************)
(* A file is copied from one device to another over Bluetooth: the client  *)
(* of RpcClient and the server of RpcServer, joined by the link of         *)
(* RpcLink.  Copies follow one another, so packets of an earlier copy may  *)
(* arrive during a later one.                                              *)
(***************************************************************************)
EXTENDS RpcClient, RpcServer

vars == <<link, clientVars, serverVars>>

Init ==
    /\ toServer = <<>> /\ toClient = <<>>
    /\ ClientInit /\ ServerInit

\* A client that wrote to memory it no longer owns may do anything: what
\* follows is not explored.
ClientStep(A) == ~touched /\ A /\ UNCHANGED serverVars
ServerStep(A) == ~touched /\ A /\ UNCHANGED clientVars

Client == ClientStep(rpc_client)
Server == ServerStep(rpc_server)
Receive == ServerStep(rpc_server_queue)
Lose == ~touched /\ (LoseToServer \/ LoseToClient) /\ UNCHANGED <<clientVars, serverVars>>

\* All copies were made and nothing is left to do.
AllCopied ==
    /\ copies = MaxCopies /\ cpc = "idle" /\ spc = "poll"
    /\ toServer = <<>> /\ toClient = <<>> /\ command_fifo = <<>> /\ data_fifo = <<>>
    /\ tx = <<>> /\ rx = NoPacket /\ ~c.armed
Stop == (touched \/ AllCopied) /\ UNCHANGED vars

Next == Client \/ Server \/ Receive \/ Lose \/ Stop

\* Threads run, timeouts expire, and a packet that is not lost arrives.
Fairness ==
    /\ WF_vars(Server) /\ WF_vars(Receive)
    /\ WF_vars(ClientStep(rpc_command_bt_file_copy_basic_run))
    /\ WF_vars(ClientStep(command_tx_done_cb))
    /\ WF_vars(ClientStep(command_timeout))
    /\ WF_vars(ClientStep(packet_received \/ packet_apply))

Spec == Init /\ [][Next]_vars /\ Fairness

-----------------------------------------------------------------------------
IsWhole(content, f) == StartsWith(content, Whole(f))

\* A file write answered with success has left the whole file in its
\* partition, in order and nothing else before it, whether or not the client
\* gave a CRC, and whatever packets were lost or came from an earlier copy.
AcceptedWhole == \A i \in DOMAIN written : IsWhole(written[i].content, written[i].file)

\* A copy that returns success was accepted by the other device, in answer to
\* this very request.
CopySound ==
    \A id \in DOMAIN returned :
        returned[id] => \E i \in DOMAIN written : written[i].id = id

\* Between commands every flash area that was opened is closed, and every
\* start of a write or an erase is finished, unless the flash failed.
AreasBalanced == (spc \in {"poll", "end"} /\ ~faulted) => (areas = 0 /\ erasing = 0)

\* The device asks for a restart into a new image only when slot1 holds a
\* whole image, received or patched.
RebootWhole ==
    [][(~dfu_reboot /\ dfu_reboot') =>
        \/ \E f \in Files : IsWhole(flash'.slot1, f)
        \/ flash'.slot1 \in {Patched(f) : f \in ValidPatches}]_vars

\* Every copy returns, and the other device is then ready for the next one.
TransferSettles ==
    (cpc # "idle") ~> (touched \/ (cpc = "idle" /\ spc = "poll" /\ command_fifo = <<>>))
=============================================================================
