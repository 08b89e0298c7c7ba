----------------------------- MODULE RpcServer ------------------------------
(***************************************************************************)
(* A device that is sent a file: the RPC server thread (subsys/rpc/        *)
(* server.c), the command FILE_WRITE_BASIC (commands/file_write.c) and     *)
(* what it does with the data (commands/common_file_actions.c).            *)
(*                                                                         *)
(* Flash operations may fail.  Time is not measured: a wait with a timeout *)
(* ends when what it waits for happens, or by the timeout at any moment.   *)
(***************************************************************************)
EXTENDS RpcLink

CONSTANT ValidPatches   \* the files that are a patch for the running image

VARIABLES command_fifo, data_fifo,
          events1,      \* events[1] of the poll: data was queued as the command was taken
          spc,          \* the step of the server thread
          req,          \* the command that runs
          ctx,          \* its struct rpc_common_file_actions_ctx, and expected_offset
          data_packet_ack_counter,
          areas,        \* how often pm_flash_area_open was called and not undone
          erasing,      \* the same for infuse_dfu_write_erase_start
          flash,        \* the content of each partition
          dfu_reboot,
          faulted,      \* history: opening, erasing or flushing failed
          written       \* history: for each request answered with success, the content

fifos == <<command_fifo, data_fifo>>
storage == <<areas, erasing, flash, dfu_reboot, faulted>>
serverVars == <<fifos, events1, spc, req, ctx, data_packet_ack_counter, storage, written>>

Partition == [APP_IMG |-> "slot1", APP_CPATCH |-> "file", FILE_FOR_COPY |-> "file"]
HasArea(r) == r.action \in DOMAIN Partition

\* The image that a patch makes of the running one.
Patched(f) == <<Block("patched", f)>>

NoRequest == [t |-> "none"]
FreshCtx == [received |-> <<>>, crc |-> <<>>, expected_offset |-> 0, needs_cleanup |-> FALSE]

ServerInit ==
    /\ command_fifo = <<>> /\ data_fifo = <<>> /\ events1 = FALSE
    /\ spc = "poll" /\ req = NoRequest /\ ctx = FreshCtx
    /\ data_packet_ack_counter = 0
    /\ areas = 0 /\ erasing = 0 /\ dfu_reboot = FALSE /\ faulted = FALSE
    /\ flash = [slot1 |-> <<>>, file |-> <<>>]
    /\ written = <<>>

-----------------------------------------------------------------------------
(***************************************************************************)
(* Packets arrive.                                                         *)
(***************************************************************************)
rpc_server_queue ==
    /\ toServer # <<>>
    /\ toServer' = Tail(toServer)
    /\ \/ /\ Head(toServer).t = "CMD"
          /\ command_fifo' = Append(command_fifo, Head(toServer))
          /\ UNCHANGED data_fifo
       \/ /\ Head(toServer).t = "DATA"
          /\ data_fifo' = Append(data_fifo, Head(toServer))
          /\ UNCHANGED command_fifo
    /\ UNCHANGED <<toClient, events1, spc, req, ctx, data_packet_ack_counter, storage, written>>

-----------------------------------------------------------------------------
(***************************************************************************)
(* The end of a command: the response is queued and the thread goes on.    *)
(***************************************************************************)
Respond(ok, c) ==
    /\ toClient' = Append(toClient, Rsp(req.id, ok, Len(c.received), c.crc))
    /\ UNCHANGED toServer

error_cleanup_erasing(c, open, erases) ==
    /\ areas' = IF HasArea(req) THEN open - 1 ELSE open
    /\ erasing' = erases
    /\ Respond(FALSE, c)
    /\ ctx' = c /\ spc' = "end"

\* rpc_common_file_actions_error_cleanup, and the response.
error_cleanup(c, open, erases) ==
    /\ areas' = IF HasArea(req) THEN open - 1 ELSE open
    /\ erasing' = IF c.needs_cleanup THEN erases - 1 ELSE erases
    /\ Respond(FALSE, c)
    /\ ctx' = c /\ spc' = "end"

fail == error_cleanup(ctx, areas, erasing) /\ UNCHANGED <<flash, dfu_reboot, faulted, written>>

-----------------------------------------------------------------------------
(***************************************************************************)
(* rpc_server: take a command and prepare for its data.                    *)
(***************************************************************************)
rpc_server_command ==
    /\ spc = "poll" /\ command_fifo # <<>>
    /\ req' = Head(command_fifo) /\ command_fifo' = Tail(command_fifo)
    /\ events1' = (data_fifo # <<>>)
    /\ data_packet_ack_counter' = 0
    /\ ctx' = FreshCtx /\ spc' = "start"
    /\ UNCHANGED <<link, data_fifo, storage, written>>

Present(r) == r.crc # NoCrc /\ StartsWith(flash[Partition[r.action]], r.crc)

ack_data_ready ==
    /\ toClient' = Append(toClient, Ack(req.id))
    /\ data_packet_ack_counter' = 0 /\ spc' = "pull"
    /\ UNCHANGED toServer

\* rpc_common_file_actions_start.
start_simple ==
    /\ spc = "start" /\ ~HasArea(req)
    /\ \/ req.action = "DISCARD" /\ ack_data_ready /\ UNCHANGED <<ctx, storage, written>>
       \/ req.action # "DISCARD" /\ fail /\ UNCHANGED data_packet_ack_counter
    /\ UNCHANGED <<fifos, events1, req>>

start_present ==
    /\ spc = "start" /\ HasArea(req) /\ Present(req)
    /\ areas' = areas + 1
    /\ ctx' = [ctx EXCEPT !.crc = req.crc]
    /\ spc' = "finish"
    /\ UNCHANGED <<link, fifos, events1, req, data_packet_ack_counter, erasing, flash,
                   dfu_reboot, faulted, written>>

start_erase ==
    /\ spc = "start" /\ HasArea(req) /\ ~Present(req)
    /\ areas' = areas + 1 /\ erasing' = erasing + 1
    /\ flash' = [flash EXCEPT ![Partition[req.action]] = <<>>]
    /\ ctx' = [ctx EXCEPT !.needs_cleanup = TRUE]
    /\ ack_data_ready
    /\ UNCHANGED <<fifos, events1, req, dfu_reboot, faulted, written>>

\* The area cannot be opened, or it cannot be erased and is closed again; the
\* clean-up closes it in both cases.
start_fails ==
    /\ spc = "start" /\ HasArea(req)
    /\ \/ UNCHANGED flash
       \/ ~Present(req) /\ flash' = [flash EXCEPT ![Partition[req.action]] = <<>>]
    /\ error_cleanup(ctx, areas, erasing)
    /\ faulted' = TRUE
    /\ UNCHANGED <<fifos, events1, req, data_packet_ack_counter, dfu_reboot, written>>

rpc_common_file_actions_start == start_simple \/ start_present \/ start_erase \/ start_fails

-----------------------------------------------------------------------------
(***************************************************************************)
(* The loop of rpc_command_file_write_impl.                                *)
(***************************************************************************)
Mine_any(d) == TRUE
Mine(d) == d.id = req.id

pull_data_other ==
    /\ spc = "pull" /\ data_fifo # <<>> /\ ~Mine(Head(data_fifo))
    /\ data_fifo' = Tail(data_fifo)
    /\ UNCHANGED <<link, command_fifo, events1, spc, req, ctx, data_packet_ack_counter, storage,
                   written>>

pull_data_timeout_again ==
    /\ spc = "pull" /\ data_fifo = <<>> /\ toClient = <<>>
    /\ toClient' = <<Ack(req.id)>>
    /\ UNCHANGED <<toServer, serverVars>>

pull_data_timeout ==
    /\ spc = "pull" /\ data_fifo = <<>>
    /\ fail
    /\ UNCHANGED <<fifos, events1, req, data_packet_ack_counter>>

Received(d) ==
    [ctx EXCEPT !.received = Append(@, d.payload), !.crc = Append(@, d.payload),
                !.expected_offset = d.offset + 1]

\* rpc_server_ack_data, called while data is missing.
ack_data(more) ==
    IF ~more \/ req.rx_ack_period = 0
    THEN UNCHANGED <<link, data_packet_ack_counter>>
    ELSE IF data_packet_ack_counter + 1 >= req.rx_ack_period
         THEN /\ toClient' = Append(toClient, Ack(req.id))
              /\ data_packet_ack_counter' = 0 /\ UNCHANGED toServer
         ELSE data_packet_ack_counter' = data_packet_ack_counter + 1 /\ UNCHANGED link

pull_data ==
    /\ spc = "pull" /\ data_fifo # <<>> /\ Mine(Head(data_fifo))
    /\ data_fifo' = Tail(data_fifo)
    /\ LET d == Head(data_fifo)
           more == d.offset + 1 < FileLen[req.file]
       IN \/ /\ ctx' = Received(d)
             /\ flash' = IF HasArea(req)
                         THEN [flash EXCEPT ![Partition[req.action]] = Append(@, d.payload)]
                         ELSE flash
             /\ spc' = IF more THEN "pull" ELSE "check"
             /\ ack_data(more)
             /\ UNCHANGED <<areas, erasing, dfu_reboot, faulted, written>>
          \/ /\ HasArea(req)                         \* the flash write fails
             /\ error_cleanup(Received(d), areas, erasing)
             /\ UNCHANGED <<data_packet_ack_counter, flash, dfu_reboot, faulted, written>>
    /\ UNCHANGED <<command_fifo, events1, req>>

Complete == /\ Len(ctx.received) = FileLen[req.file]
            /\ req.crc # NoCrc => ctx.crc = req.crc

check_received ==
    /\ spc = "check"
    /\ \/ Complete /\ spc' = "finish" /\ UNCHANGED <<link, ctx, storage, written>>
       \/ ~Complete /\ fail
    /\ UNCHANGED <<fifos, events1, req, data_packet_ack_counter>>

-----------------------------------------------------------------------------
(***************************************************************************)
(* rpc_common_file_actions_finish, the response, and the deferred work.    *)
(***************************************************************************)
\* The command fails after its data was accepted.
finish_error(open, erases) ==
    /\ areas' = open /\ erasing' = erases
    /\ Respond(FALSE, ctx)
    /\ spc' = "end"
    /\ UNCHANGED <<ctx, flash, dfu_reboot, written>>

Erased == IF ctx.needs_cleanup THEN erasing - 1 ELSE erasing

\* Bytes are left in the stream's buffer and cannot be written.
finish_flush_fails ==
    /\ HasArea(req) /\ ctx.received # <<>>
    /\ finish_error(areas - 1, erasing)
    /\ faulted' = TRUE

\* The data cannot be read back, or the patch is none for this image.
finish_invalid ==
    /\ HasArea(req)
    /\ \/ ctx.received # <<>>
       \/ req.action = "APP_CPATCH" /\ req.file \notin ValidPatches
    /\ finish_error(areas - 1, Erased)
    /\ UNCHANGED faulted

ContentOf(r) == IF HasArea(r) THEN flash[Partition[r.action]] ELSE ctx.received

finish_ok ==
    /\ req.action = "APP_CPATCH" => req.file \in ValidPatches
    /\ erasing' = Erased
    /\ ctx' = [ctx EXCEPT !.needs_cleanup = FALSE]
    /\ areas' = IF req.action \in {"APP_IMG", "FILE_FOR_COPY"} THEN areas - 1 ELSE areas
    /\ dfu_reboot' = (dfu_reboot \/ req.action = "APP_IMG")
    /\ Respond(TRUE, ctx)
    /\ written' = Append(written, [id |-> req.id, file |-> req.file, content |-> ContentOf(req)])
    /\ spc' = IF req.action = "APP_CPATCH" THEN "deferred" ELSE "end"
    /\ UNCHANGED <<flash, faulted>>

rpc_common_file_actions_finish ==
    /\ spc = "finish"
    /\ finish_flush_fails \/ finish_invalid \/ finish_ok
    /\ UNCHANGED <<fifos, events1, req, data_packet_ack_counter>>

deferred_always_reboots ==
    /\ spc = "deferred"
    /\ areas' = areas - 1
    /\ \/ flash' = [flash EXCEPT !.slot1 = Patched(req.file)]
       \/ flash' = [flash EXCEPT !.slot1 = <<>>]
    /\ dfu_reboot' = TRUE
    /\ spc' = "end"
    /\ UNCHANGED <<link, fifos, events1, req, ctx, data_packet_ack_counter, erasing, faulted,
                   written>>

\* finish_cpatch: the patch is applied to the running image, into slot1.  It
\* opens and closes its own areas; the area of the patch file is closed after.
rpc_common_file_actions_deferred ==
    /\ spc = "deferred"
    /\ areas' = areas - 1
    /\ \/ flash' = [flash EXCEPT !.slot1 = Patched(req.file)] /\ dfu_reboot' = TRUE
       \/ flash' = [flash EXCEPT !.slot1 = <<>>] /\ UNCHANGED dfu_reboot
       \/ UNCHANGED <<flash, dfu_reboot>>
    /\ spc' = "end"
    /\ UNCHANGED <<link, fifos, events1, req, ctx, data_packet_ack_counter, erasing, faulted,
                   written>>

\* The rest of the turn of rpc_server: data that was there when the command
\* was taken is dropped, if the command has not consumed it.
rpc_server_end ==
    /\ spc = "end"
    /\ data_fifo' = IF events1 /\ data_fifo # <<>> THEN Tail(data_fifo) ELSE data_fifo
    /\ events1' = FALSE /\ spc' = "poll" /\ req' = NoRequest /\ ctx' = FreshCtx
    /\ UNCHANGED <<link, command_fifo, data_packet_ack_counter, storage, written>>

rpc_server_data ==
    /\ spc = "poll" /\ command_fifo = <<>> /\ data_fifo # <<>>
    /\ data_fifo' = Tail(data_fifo)
    /\ UNCHANGED <<link, command_fifo, events1, spc, req, ctx, data_packet_ack_counter, storage,
                   written>>

rpc_server ==
    \/ rpc_server_command \/ rpc_common_file_actions_start
    \/ pull_data \/ pull_data_other \/ pull_data_timeout \/ check_received
    \/ rpc_common_file_actions_finish \/ rpc_common_file_actions_deferred
    \/ rpc_server_end \/ rpc_server_data
=============================================================================
