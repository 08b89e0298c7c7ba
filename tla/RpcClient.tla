----------------------------- MODULE RpcClient ------------------------------
(***************************************************************************)
(* A device that copies a file to another one: the RPC client              *)
(* (subsys/rpc/client.c) as the command BT_FILE_COPY_BASIC uses it         *)
(* (commands/bt_file_copy_basic.c).                                        *)
(*                                                                         *)
(* Four activities share the context of the command, which lies on the     *)
(* stack of the thread that copies: that thread; the thread that sends     *)
(* packets and reports a command as sent; the thread that processes        *)
(* received packets; and the response timer, an interrupt.  The interrupt  *)
(* can come between the search for a context and its use.                  *)
(*                                                                         *)
(* Time is not measured: a wait with a timeout ends when what it waits for *)
(* happens, or by the timeout at any moment.                               *)
(***************************************************************************)
EXTENDS RpcLink

CONSTANTS Copies,     \* the copies that are asked for: [file, action, crc, ack_period, pipelining]
          MaxCopies   \* how many are made

ASSUME CopiesAssumption ==
    Copies \subseteq [file : Files, action : Actions, crc : BOOLEAN, ack_period : Nat, pipelining : Nat]

VARIABLES cpc,        \* the step of rpc_command_bt_file_copy_basic_run
          copy,       \* what it copies
          copies,     \* how many copies were started; the request ID of the last one
          c,          \* the struct rpc_client_cmd_ctx of the command
          offset,     \* the next block to send
          done,       \* completion_ctx.done
          outcome,    \* the response in completion_ctx, or the timeout
          tx,         \* the commands that wait to be sent
          rx,         \* the packet the receiving thread has found a context for, and its copy
          returned,   \* history: what each copy returned
          touched     \* history: the context of a copy was used after it returned

run == <<cpc, copy, copies, offset, returned>>
completion == <<done, outcome>>
clientVars == <<run, c, completion, tx, rx, touched>>

FreeCtx == [request_id |-> 0, tx_tokens |-> 0, tx_tokens_on_ack |-> 0, armed |-> FALSE,
            tx_result |-> 0]
NoCopy == [file |-> "none"]
TimedOut == [t |-> "timeout", ok |-> FALSE]
NoPacket == [packet |-> "none"]
Running(id) == cpc # "idle" /\ id = copies

ClientInit ==
    /\ cpc = "idle" /\ copy = NoCopy /\ copies = 0 /\ c = FreeCtx /\ offset = 0
    /\ done = 0 /\ outcome = TimedOut
    /\ tx = <<>> /\ rx = NoPacket
    /\ returned = <<>> /\ touched = FALSE

-----------------------------------------------------------------------------
(***************************************************************************)
(* The thread that copies.                                                 *)
(***************************************************************************)
CmdOf(cp, id) == Cmd(id, cp.file, cp.action, cp.crc, 1)

\* rpc_client_init, and rpc_client_command_queue up to the wait.
rpc_client_command_queue ==
    /\ cpc = "idle" /\ copies < MaxCopies
    /\ \E cp \in Copies :
        /\ copy' = cp
        /\ tx' = Append(tx, CmdOf(cp, copies + 1))
    /\ copies' = copies + 1
    /\ c' = [FreeCtx EXCEPT !.request_id = copies + 1, !.tx_tokens_on_ack = 1, !.armed = TRUE]
    /\ done' = 0 /\ outcome' = TimedOut
    /\ cpc' = "sending"
    /\ UNCHANGED <<link, offset, rx, returned, touched>>

TakeToken == c.tx_tokens > 0 /\ c' = [c EXCEPT !.tx_tokens = @ - 1]
Goto(step) == cpc' = step
GiveUp == Goto("cleanup") /\ UNCHANGED c

\* Wait until the command is sent.
command_sent ==
    /\ cpc = "sending"
    /\ \/ TakeToken /\ Goto(IF c.tx_result = 0 THEN "ack_find" ELSE "cleanup")
       \/ c.tx_tokens = 0 /\ GiveUp
    /\ UNCHANGED <<link, copy, copies, offset, returned, completion, tx, rx, touched>>

\* rpc_client_ack_wait: find the context, then wait for a token.  The response
\* or the timeout give one too.
ack_wait ==
    /\ \/ cpc = "ack_find" /\ c.request_id = copies /\ Goto("ack_take") /\ UNCHANGED c
       \/ cpc = "ack_find" /\ c.request_id # copies /\ GiveUp
       \/ cpc = "ack_take" /\ TakeToken /\ Goto("early")
       \/ cpc = "ack_take" /\ c.tx_tokens = 0 /\ GiveUp
    /\ UNCHANGED <<link, copy, copies, offset, returned, completion, tx, rx, touched>>

\* The command may have ended before the first acknowledgement.
check_early ==
    /\ cpc = "early"
    /\ \/ done = 1 /\ done' = 0 /\ Goto(IF outcome.ok THEN "succeed" ELSE "cleanup")
       \/ done = 0 /\ UNCHANGED done /\ Goto("update")
    /\ UNCHANGED <<link, copy, copies, offset, returned, c, outcome, tx, rx, touched>>

rpc_client_update_response_timeout ==
    /\ cpc = "update"
    /\ \/ c.request_id = copies /\ c' = [c EXCEPT !.armed = TRUE] /\ Goto("load")
       \/ c.request_id # copies /\ GiveUp
    /\ UNCHANGED <<link, copy, copies, offset, returned, completion, tx, rx, touched>>

OnAck == IF copy.ack_period = 0 THEN 1 ELSE copy.ack_period
StartTokens == OnAck * (IF copy.pipelining > 1 THEN copy.pipelining ELSE 1)

\* rpc_client_data_queue_auto_load: the tokens of the transfer ...
auto_load_start ==
    /\ cpc = "load"
    /\ \/ /\ c.request_id = copies
          /\ c' = [c EXCEPT !.tx_tokens = StartTokens, !.tx_tokens_on_ack = OnAck]
          /\ offset' = 0 /\ Goto("send_find")
       \/ c.request_id # copies /\ Goto("final") /\ UNCHANGED <<c, offset>>
    /\ UNCHANGED <<link, copy, copies, returned, completion, tx, rx, touched>>

\* ... and one token for each packet.  Waiting or loading the data may fail.
auto_load_wait ==
    /\ cpc = "send_find"
    /\ Goto(IF offset = FileLen[copy.file] \/ (copy.ack_period # 0 /\ c.request_id # copies)
            THEN "final" ELSE "send_take")
    /\ UNCHANGED <<link, copy, copies, offset, returned, c, completion, tx, rx, touched>>

auto_load_send ==
    /\ cpc = "send_take"
    /\ \/ /\ IF copy.ack_period = 0 THEN UNCHANGED c ELSE TakeToken
          /\ toServer' = Append(toServer, Data(copies, copy.file, offset))
          /\ offset' = offset + 1 /\ Goto("send_find") /\ UNCHANGED toClient
       \/ Goto("final") /\ UNCHANGED <<link, offset, c>>
    /\ UNCHANGED <<copy, copies, returned, completion, tx, rx, touched>>

\* Wait for the response and compare what it says was received.
AsSent == /\ outcome.ok
          /\ outcome.recv_len = FileLen[copy.file]
          /\ copy.crc /\ outcome.recv_crc = Whole(copy.file)

final_response ==
    /\ cpc = "final"
    /\ \/ done = 1 /\ done' = 0 /\ Goto(IF AsSent THEN "succeed" ELSE "cleanup")
       \/ done = 0 /\ UNCHANGED done /\ Goto("cleanup")
    /\ UNCHANGED <<link, copy, copies, offset, returned, c, outcome, tx, rx, touched>>

\* rpc_client_cleanup, and return.  The timer is stopped only if the context
\* is still in use.
rpc_client_cleanup ==
    /\ cpc \in {"cleanup", "succeed"}
    /\ returned' = Append(returned, cpc = "succeed")
    /\ c' = [FreeCtx EXCEPT !.armed = c.armed /\ c.request_id = 0]
    /\ done' = 0 /\ outcome' = TimedOut /\ offset' = 0 /\ copy' = NoCopy
    /\ Goto("idle")
    /\ UNCHANGED <<link, copies, tx, rx, touched>>

rpc_command_bt_file_copy_basic_run ==
    \/ rpc_client_command_queue \/ command_sent \/ ack_wait \/ check_early
    \/ rpc_client_update_response_timeout \/ auto_load_start \/ auto_load_wait \/ auto_load_send
    \/ final_response \/ rpc_client_cleanup

-----------------------------------------------------------------------------
(***************************************************************************)
(* The thread that sends: command_tx_done_cb.                              *)
(***************************************************************************)
command_tx_done_cb ==
    /\ tx # <<>> /\ tx' = Tail(tx)
    /\ \E result \in {0, -1} :
        /\ toServer' = IF result = 0 THEN Append(toServer, Head(tx)) ELSE toServer
        /\ IF Running(Head(tx).id)
           THEN /\ c' = [c EXCEPT !.tx_result = result, !.tx_tokens = @ + 1]
                /\ UNCHANGED touched
           ELSE touched' = TRUE /\ UNCHANGED c
    /\ UNCHANGED <<toClient, run, completion, rx>>

-----------------------------------------------------------------------------
(***************************************************************************)
(* The response timer, and the thread that receives: run_callback frees    *)
(* the context, gives a token so that nobody waits for one, and completes  *)
(* the command.                                                            *)
(***************************************************************************)
run_callback(o) ==
    /\ c' = [c EXCEPT !.armed = FALSE, !.request_id = 0, !.tx_tokens = @ + 1]
    /\ done' = 1 /\ outcome' = o

command_timeout ==
    /\ c.armed
    /\ IF cpc = "idle"
       THEN touched' = TRUE /\ c' = FreeCtx /\ UNCHANGED completion
       ELSE run_callback(TimedOut) /\ UNCHANGED touched
    /\ UNCHANGED <<link, run, tx, rx>>

\* packet_received: a packet is dropped unless its command is known ...
Known_any_rsp(m) == cpc # "idle" /\ (m.t = "RSP" \/ c.request_id = m.id)
Known(m) == cpc # "idle" /\ c.request_id = m.id

packet_received ==
    /\ rx = NoPacket /\ toClient # <<>>
    /\ toClient' = Tail(toClient)
    /\ rx' = IF Known(Head(toClient)) THEN [packet |-> Head(toClient), of |-> copies] ELSE NoPacket
    /\ UNCHANGED <<toServer, run, c, completion, tx, touched>>

\* ... and then applied to the context that was found.
packet_apply ==
    /\ rx # NoPacket /\ rx' = NoPacket
    /\ IF ~Running(rx.of)
       THEN touched' = TRUE /\ UNCHANGED <<c, completion>>
       ELSE /\ UNCHANGED touched
            /\ \/ /\ rx.packet.t = "ACK"
                  /\ c' = [c EXCEPT !.armed = TRUE, !.tx_tokens = @ + c.tx_tokens_on_ack]
                  /\ UNCHANGED completion
               \/ rx.packet.t = "RSP" /\ run_callback(rx.packet)
    /\ UNCHANGED <<link, run, tx>>

rpc_client ==
    rpc_command_bt_file_copy_basic_run \/ command_tx_done_cb \/ command_timeout
        \/ packet_received \/ packet_apply
=============================================================================
