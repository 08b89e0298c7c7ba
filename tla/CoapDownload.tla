---------------------------- MODULE CoapDownload ----------------------------
(***************************************************************************)
(* The parallel CoAP download, subsys/net/coap/infuse_coap_parallel.c: a   *)
(* file is fetched in blocks, several requests in flight at a time, and    *)
(* handed to a callback in order.  Blocks that arrive early wait in a few  *)
(* block buffers.                                                          *)
(*                                                                         *)
(* The network loses, doubles, delays and reorders.  A request and the     *)
(* response to it are one message here, [token, block_num], because the    *)
(* response is a function of the request: the file does not change.  Time  *)
(* passes while the download waits; a request carries the ticks that are   *)
(* left to its timeout.                                                    *)
(***************************************************************************)
EXTENDS Integers, Sequences

CONSTANTS Downloads,    \* the downloads: [len, file_size, size2], the length of the file, the
                        \* length the caller gives (0: none), whether responses state the length
          BlockSize,    \* block_size_bytes
          WorkBlocks,   \* how many block buffers fit in the working memory
          MaxInFlight,  \* CONFIG_INFUSE_COAP_BACKEND_PARALLEL_MAX_IN_FLIGHT
          MaxTimeouts,  \* CONFIG_INFUSE_COAP_MAX_TIMEOUTS
          Timeout,      \* request_timeout_ms, in ticks
          MaxStray      \* how many doubled or empty packets arrive

ASSUME CoapAssumption ==
    /\ BlockSize \in Nat \ {0} /\ MaxInFlight \in Nat \ {0}
    /\ WorkBlocks \in Nat /\ MaxTimeouts \in Nat /\ Timeout \in Nat \ {0} /\ MaxStray \in Nat
    /\ \A d \in Downloads : d.len \in Nat /\ d.file_size \in Nat /\ d.size2 \in BOOLEAN

VARIABLES
    dl,                         \* the download that runs
    requests,                   \* the request slots
    block_buffer,               \* the block buffers
    next_block_to_deliver,
    next_block_to_request,
    next_token,
    block_requests_remaining,
    total_size,                 \* 0 until it is known
    total_blocks,
    current_offset,
    net,                        \* the messages on the network
    strays,                     \* how many packets were doubled or empty
    written,                    \* history: what the callback was given, in order
    pc,                         \* the step of the main loop
    result                      \* what infuse_coap_download returns

file == <<dl, total_size, total_blocks>>
delivery == <<block_buffer, next_block_to_deliver, current_offset, written>>
asking == <<next_block_to_request, next_token>>
vars == <<file, requests, delivery, asking, block_requests_remaining, net, strays, pc, result>>

Least(a, b) == IF a < b THEN a ELSE b
Blocks_down(size) == size \div BlockSize
Blocks(size) == (size + BlockSize - 1) \div BlockSize
block_buffers_max == Least(WorkBlocks, MaxInFlight)
block_requests_max == Least(1 + block_buffers_max, MaxInFlight)

Slots == 1..MaxInFlight
Buffers == 1..block_buffers_max

\* What the server answers to a request for a block: its length and whether
\* more follow.  A block past the end of the file is refused.
Refused(b) == b > 0 /\ b * BlockSize >= dl.len
BlockLen(b) == Least(BlockSize, dl.len - b * BlockSize)
More(b) == (b + 1) * BlockSize < dl.len

Init ==
    /\ dl \in Downloads
    /\ requests = [i \in Slots |-> [block_num |-> 0, token |-> 0, retries |-> 0, left |-> 0,
                                    in_flight |-> FALSE, completed |-> TRUE]]
    /\ block_buffer = [j \in Buffers |-> [valid |-> FALSE, block_num |-> 0]]
    /\ next_block_to_deliver = 0 /\ next_block_to_request = 0
    /\ next_token = 1
    /\ block_requests_remaining = block_requests_max
    /\ total_size = dl.file_size /\ total_blocks = Blocks(dl.file_size)
    /\ current_offset = 0
    /\ net = {} /\ strays = 0 /\ written = <<>>
    /\ pc = "queue" /\ result = "running"

Return(r) == pc' = "done" /\ result' = r

is_download_complete ==
    /\ total_size # 0
    /\ next_block_to_deliver >= total_blocks
    /\ \A j \in Buffers : ~block_buffer[j].valid

\* i is where a loop that visits its indices in order finds a member of S.
First(i, S) == i \in S /\ \A j \in S : i <= j

\* The slots queue_requests looks at, those whose request timed out and is
\* sent again, and those that may ask for the next block.
Usable == 1..(IF total_size = 0 THEN 1 ELSE block_requests_max)
Resent == {i \in Usable : ~requests[i].completed /\ ~requests[i].in_flight}
HasRoom_any == TRUE
HasRoom == block_requests_remaining # 0
Fresh ==
    {i \in Usable : /\ requests[i].completed /\ ~requests[i].in_flight
                    /\ HasRoom
                    /\ total_size = 0 \/ next_block_to_request < total_blocks}

\* The loop of queue_requests is at slot i.  A slot that it passes over is not
\* to be sent later in the loop either: room and blocks only run out.
Visits(i) == pc = "queue" /\ ~is_download_complete /\ First(i, Resent \cup Fresh)

\* Send the request of slot i
send_block_request(i, req) ==
    /\ requests' = [requests EXCEPT ![i] =
                        [req EXCEPT !.token = next_token, !.in_flight = TRUE, !.left = Timeout]]
    /\ net' = net \cup {[token |-> next_token, block_num |-> req.block_num]}
    /\ next_token' = next_token + 1
    /\ UNCHANGED <<file, delivery, strays, pc, result>>

handle_request_timeout(i) ==
    /\ Visits(i) /\ i \in Resent
    /\ send_block_request(i, requests[i])
    /\ UNCHANGED <<next_block_to_request, block_requests_remaining>>

queue_request(i) ==
    /\ Visits(i) /\ i \in Fresh
    /\ send_block_request(i, [requests[i] EXCEPT !.block_num = next_block_to_request, !.retries = 0,
                                                 !.completed = FALSE])
    /\ next_block_to_request' = next_block_to_request + 1
    /\ block_requests_remaining' = block_requests_remaining - 1

\* A request cannot be built or sent: the download ends.
send_fails ==
    /\ \E i \in Slots : Visits(i)
    /\ Return("send_error")
    /\ UNCHANGED <<file, requests, delivery, asking, block_requests_remaining, net, strays>>

\* The loop is over.
requests_queued ==
    /\ pc = "queue" /\ ~is_download_complete
    /\ Resent \cup Fresh = {}
    /\ pc' = "receive"
    /\ UNCHANGED <<file, requests, delivery, asking, block_requests_remaining, net, strays, result>>

\* The requests after d ticks
After(d) ==
    [i \in Slots |-> IF requests[i].in_flight THEN [requests[i] EXCEPT !.left = @ - d] ELSE requests[i]]

\* Nothing arrives before the poll times out, or an empty packet does.
receive_nothing(d) ==
    /\ pc = "receive"
    /\ \/ d >= Timeout /\ UNCHANGED strays
       \/ strays < MaxStray /\ strays' = strays + 1
    /\ requests' = After(d)
    /\ pc' = "timeouts"
    /\ UNCHANGED <<file, delivery, asking, block_requests_remaining, net, result>>

\* The socket fails or is closed, or a packet cannot be parsed.
receive_fails ==
    /\ pc = "receive"
    /\ Return("receive_error")
    /\ UNCHANGED <<file, requests, delivery, asking, block_requests_remaining, net, strays>>

\* The slot a token belongs to.
Matching(token) == {i \in Slots : ~requests[i].completed /\ requests[i].token = token}

\* Give block b to the callback.  The last one tells the size of the file.
deliver(b, size, blocks) ==
    /\ written' = Append(written, [offset |-> current_offset, block_num |-> b])
    /\ total_size' = IF More(b) THEN size ELSE current_offset + BlockLen(b)
    /\ total_blocks' = IF More(b) THEN blocks ELSE b + 1
    /\ current_offset' = current_offset + BlockLen(b)
    /\ next_block_to_deliver' = next_block_to_deliver + 1
    /\ block_requests_remaining' = block_requests_remaining + 1
    /\ pc' = "deliver" /\ UNCHANGED result

\* The callback refuses block b.
deliver_fails(b, size, blocks) ==
    /\ written' = Append(written, [offset |-> current_offset, block_num |-> b])
    /\ total_size' = size /\ total_blocks' = blocks
    /\ Return("callback_error")
    /\ UNCHANGED <<current_offset, next_block_to_deliver, block_requests_remaining>>

\* The buffers that are free, and those that hold the next block.
Free == {j \in Buffers : ~block_buffer[j].valid}
NextBuffered_any == {j \in Buffers : block_buffer[j].valid}
NextBuffered ==
    {j \in Buffers : block_buffer[j].valid /\ block_buffer[j].block_num = next_block_to_deliver}

\* Once round the loop of deliver_buffered_blocks
deliver_buffered_blocks(j) ==
    /\ pc = "deliver"
    /\ First(j, NextBuffered)
    /\ LET b == block_buffer[j].block_num
       IN  \/ /\ deliver(b, total_size, total_blocks)
              /\ block_buffer' = [block_buffer EXCEPT ![j] = [@ EXCEPT !.valid = FALSE]]
           \/ deliver_fails(b, total_size, total_blocks) /\ UNCHANGED block_buffer
    /\ UNCHANGED <<dl, requests, asking, net, strays>>

buffered_delivered ==
    /\ pc = "deliver"
    /\ NextBuffered = {}
    /\ pc' = "timeouts"
    /\ UNCHANGED <<file, requests, delivery, asking, block_requests_remaining, net, strays, result>>

\* Keep block b until the ones before it have arrived.
buffer_block(b) ==
    /\ \/ /\ \E j \in Buffers :
                /\ First(j, Free)
                /\ block_buffer' = [block_buffer EXCEPT ![j] = [valid |-> TRUE, block_num |-> b]]
          /\ pc' = "timeouts" /\ UNCHANGED result
       \/ /\ Free = {}
          /\ Return("no_buffer")
          /\ UNCHANGED block_buffer
    /\ UNCHANGED <<next_block_to_deliver, current_offset, written, block_requests_remaining>>

\* Message m answers slot i, after d ticks.
process_response(m, i, d) ==
    LET known == total_size # 0 \/ ~dl.size2
        size == IF known THEN total_size ELSE dl.len
        blocks == IF known THEN total_blocks ELSE Blocks(dl.len)
    IN  /\ ~Refused(m.block_num)
        /\ requests' = [After(d) EXCEPT ![i] = [requests[i] EXCEPT !.completed = TRUE,
                                                                    !.in_flight = FALSE, !.left = 0]]
        /\ \/ /\ m.block_num = next_block_to_deliver
              /\ deliver(m.block_num, size, blocks) \/ deliver_fails(m.block_num, size, blocks)
              /\ UNCHANGED block_buffer
           \/ /\ m.block_num # next_block_to_deliver
              /\ buffer_block(m.block_num)
              /\ total_size' = size /\ total_blocks' = blocks

process_refusal(m) ==
    /\ Refused(m.block_num)
    /\ Return("refused")
    /\ UNCHANGED <<requests, delivery, block_requests_remaining, total_size, total_blocks>>

process_unknown(m, d) ==
    /\ Matching(m.token) = {}
    /\ requests' = After(d)
    /\ pc' = "timeouts"
    /\ UNCHANGED <<delivery, block_requests_remaining, total_size, total_blocks, result>>

\* A message arrives; the network may keep a copy of it.
receive_data(m, d) ==
    /\ pc = "receive"
    /\ \/ net' = net \ {m} /\ UNCHANGED strays
       \/ strays < MaxStray /\ strays' = strays + 1 /\ UNCHANGED net
    /\ \/ process_unknown(m, d)
       \/ \E i \in Matching(m.token) : process_response(m, i, d) \/ process_refusal(m)
    /\ UNCHANGED <<dl, asking>>

Expired == {i \in Slots : requests[i].in_flight /\ requests[i].left < 0}

handle_timeouts_forget ==
    /\ pc = "timeouts"
    /\ requests' = [i \in Slots |-> IF i \in Expired
                        THEN [requests[i] EXCEPT !.in_flight = FALSE, !.completed = TRUE, !.left = 0]
                        ELSE requests[i]]
    /\ pc' = "queue" /\ UNCHANGED result
    /\ UNCHANGED <<file, delivery, asking, block_requests_remaining, net, strays>>
handle_timeouts ==
    /\ pc = "timeouts"
    /\ IF \E i \in Expired : requests[i].retries >= MaxTimeouts
       THEN Return("timed_out") /\ UNCHANGED requests
       ELSE /\ requests' = [i \in Slots |-> IF i \in Expired
                                THEN [requests[i] EXCEPT !.retries = @ + 1, !.in_flight = FALSE, !.left = 0]
                                ELSE requests[i]]
            /\ pc' = "queue" /\ UNCHANGED result
    /\ UNCHANGED <<file, delivery, asking, block_requests_remaining, net, strays>>

\* The network loses a message: the download cannot tell when.
Lose(m) ==
    /\ pc = "receive"
    /\ net' = net \ {m}
    /\ UNCHANGED <<file, requests, delivery, asking, block_requests_remaining, strays, pc, result>>

finish ==
    /\ pc = "queue" /\ is_download_complete
    /\ Return("ok")
    /\ UNCHANGED <<file, requests, delivery, asking, block_requests_remaining, net, strays>>

\* The callers' side is over.
Done == pc = "done" /\ UNCHANGED vars

infuse_coap_download ==
    \/ \E i \in Slots : handle_request_timeout(i) \/ queue_request(i)
    \/ send_fails \/ requests_queued \/ finish
    \/ \E d \in 0..(Timeout + 1) :
           \/ receive_nothing(d)
           \/ \E m \in net : receive_data(m, d)
    \/ receive_fails
    \/ \E j \in Buffers : deliver_buffered_blocks(j)
    \/ buffered_delivered
    \/ handle_timeouts

Next ==
    \/ infuse_coap_download
    \/ \E m \in net : Lose(m)
    \/ Done

Spec == Init /\ [][Next]_vars /\ WF_vars(infuse_coap_download)

-----------------------------------------------------------------------------

TypeOK ==
    /\ dl \in Downloads
    /\ requests \in [Slots -> [block_num : Nat, token : Nat, retries : 0..MaxTimeouts, left : Int,
                               in_flight : BOOLEAN, completed : BOOLEAN]]
    /\ block_buffer \in [Buffers -> [valid : BOOLEAN, block_num : Nat]]
    /\ next_block_to_deliver \in Nat /\ next_block_to_request \in Nat /\ next_token \in Nat
    /\ block_requests_remaining \in 0..block_requests_max
    /\ total_size \in Nat /\ total_blocks \in Nat /\ current_offset \in Nat
    /\ net \subseteq [token : Nat, block_num : Nat]
    /\ pc \in {"queue", "receive", "deliver", "timeouts", "done"}

\* The callback is given the file from its first byte on, every block once and
\* at its own offset, whatever the network loses, doubles or reorders.
DeliveredInOrder ==
    \A n \in 1..Len(written) : written[n] = [offset |-> (n - 1) * BlockSize, block_num |-> n - 1]

\* A block that arrives early always finds a buffer: infuse_coap_parallel.c
\* allows one request more than there are buffers, because one of the blocks
\* in flight is the next to deliver.
AlwaysBuffered == result # "no_buffer"

\* When the download succeeds, the callback was given the whole file and the
\* size that is returned is the file's, unless the caller asked for less.
CompleteOnSuccess ==
    result = "ok" /\ (dl.file_size = 0 \/ dl.file_size >= dl.len)
        => /\ Len(written) = Blocks(dl.len)
           /\ total_size = dl.len /\ current_offset = dl.len

\* Every download ends, however many packets are lost: a request is repeated
\* a limited number of times, and none is forgotten.
DownloadEnds == <>(pc = "done")
=============================================================================
