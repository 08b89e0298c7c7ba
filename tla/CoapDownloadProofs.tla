------------------------- MODULE CoapDownloadProofs -------------------------
(***************************************************************************)
(* The parallel download for files and blocks of any size, any number of   *)
(* slots and buffers, and a network that loses, doubles and reorders as it *)
(* likes.                                                                  *)
(***************************************************************************)
EXTENDS CoapDownload, FiniteSetTheorems, TLAPS

TypeInv ==
    /\ TypeOK
    /\ written \in Seq([offset : Nat, block_num : Nat])
    /\ pc # "done" => result = "running"

\* A message that answers an open request carries the block it asked for: no
\* token is used twice.
TokenInv ==
    /\ \A i \in Slots : requests[i].token < next_token
    /\ \A m \in net : m.token < next_token
    /\ \A i \in Slots, m \in net :
           ~requests[i].completed /\ m.token = requests[i].token => m.block_num = requests[i].block_num

\* A block that was asked for and not delivered is either open in one slot or
\* held in one buffer, and there is room for all of them.
Window == next_block_to_deliver..(next_block_to_request - 1)
Open(i) == ~requests[i].completed
Held(j) == block_buffer[j].valid

OpenInv ==
    /\ \A i \in Slots : Open(i) => requests[i].block_num \in Window
    /\ \A i, k \in Slots : Open(i) /\ Open(k) /\ requests[i].block_num = requests[k].block_num => i = k

HeldInv ==
    /\ \A j \in Buffers : Held(j) => block_buffer[j].block_num \in Window /\ ~Refused(block_buffer[j].block_num)
    /\ \A j, k \in Buffers : Held(j) /\ Held(k) /\ block_buffer[j].block_num = block_buffer[k].block_num => j = k
    /\ \A j \in Buffers, i \in Slots : Held(j) /\ Open(i) => block_buffer[j].block_num # requests[i].block_num
    /\ pc \in {"queue", "receive", "timeouts"} =>
           \A j \in Buffers : Held(j) => block_buffer[j].block_num # next_block_to_deliver

RoomInv ==
    /\ next_block_to_deliver <= next_block_to_request
    /\ block_requests_remaining + (next_block_to_request - next_block_to_deliver) = block_requests_max

\* The offset follows from the blocks delivered, and the size from the last
\* one; until then it is what the caller or the server said.
OffsetInv ==
    /\ result # "callback_error" => Len(written) = next_block_to_deliver
    /\ current_offset = Least(next_block_to_deliver * BlockSize, dl.len)
    /\ next_block_to_deliver > 0 => ~Refused(next_block_to_deliver - 1)

Finished == next_block_to_deliver > 0 /\ ~More(next_block_to_deliver - 1)

SizeInv ==
    IF Finished THEN total_size = dl.len /\ total_blocks = next_block_to_deliver
    ELSE total_size \in {dl.file_size, dl.len} /\ total_blocks = Blocks(total_size)


-----------------------------------------------------------------------------
(***************************************************************************)
(* Types.                                                                  *)
(***************************************************************************)
Request == [block_num : Nat, token : Nat, retries : 0..MaxTimeouts, left : Int,
            in_flight : BOOLEAN, completed : BOOLEAN]

\* The sizes of the buffers and of the requests in flight.
LEMMA Limits ==
  /\ block_buffers_max \in Nat /\ block_requests_max \in Nat
  /\ 0 < block_requests_max /\ block_requests_max <= MaxInFlight
  /\ block_requests_max <= block_buffers_max + 1
BY CoapAssumption DEF block_buffers_max, block_requests_max, Least

\* What is known of the file.
LEMMA FileTypes ==
  ASSUME TypeInv
  PROVE  dl.len \in Nat /\ dl.file_size \in Nat /\ BlockSize \in Nat /\ 0 < BlockSize
BY CoapAssumption DEF TypeInv, TypeOK

\* Time passes: a request keeps all but the ticks that are left to it.
LEMMA AfterTypes ==
  ASSUME TypeInv, NEW d \in 0..(Timeout + 1)
  PROVE  /\ After(d) \in [Slots -> Request]
         /\ \A i \in Slots : /\ After(d)[i].token = requests[i].token
                             /\ After(d)[i].block_num = requests[i].block_num
                             /\ After(d)[i].completed = requests[i].completed
<1>1. \A i \in Slots : requests[i] \in Request
  BY Zenon DEF TypeInv, TypeOK, Request
<1>2. ASSUME NEW i \in Slots
      PROVE  [requests[i] EXCEPT !.left = @ - d] \in Request
  BY <1>1, CoapAssumption DEF Request
<1>3. \A i \in Slots : After(d)[i] = IF requests[i].in_flight THEN [requests[i] EXCEPT !.left = @ - d]
                                     ELSE requests[i]
  BY Zenon DEF After
<1>4. ASSUME NEW i \in Slots
      PROVE  /\ After(d)[i] \in Request
             /\ After(d)[i].token = requests[i].token
             /\ After(d)[i].block_num = requests[i].block_num
             /\ After(d)[i].completed = requests[i].completed
  <2>1. CASE requests[i].in_flight
    <3>1. After(d)[i] = [requests[i] EXCEPT !.left = @ - d]
      BY <1>3, <2>1, Zenon
    <3>2. /\ [requests[i] EXCEPT !.left = @ - d].token = requests[i].token
          /\ [requests[i] EXCEPT !.left = @ - d].block_num = requests[i].block_num
          /\ [requests[i] EXCEPT !.left = @ - d].completed = requests[i].completed
      BY <1>1, Zenon DEF Request
    <3> QED
      BY <1>2, <3>1, <3>2, Zenon
  <2>2. CASE ~requests[i].in_flight
    BY <1>1, <1>3, <2>2, Zenon
  <2> QED
    BY <2>1, <2>2, Zenon
<1>5. After(d) \in [Slots -> Request]
  BY <1>4, Zenon DEF After
<1> QED
  BY <1>4, <1>5, Zenon

\* The steps that neither ask for a block nor take one.
Quiet ==
    /\ requests' \in [Slots -> Request]
    /\ \A i \in Slots : /\ requests'[i].token = requests[i].token
                        /\ requests'[i].block_num = requests[i].block_num
                        /\ requests'[i].completed = requests[i].completed
    /\ net' \subseteq net
    /\ UNCHANGED <<file, delivery, asking, block_requests_remaining>>
    /\ pc' \in {"queue", "receive", "deliver", "timeouts", "done"}
    /\ pc' # "done" => result' = "running"
    /\ pc = "done" => result' = result
    /\ result' \in {"callback_error", "no_buffer"} => result' = result
    /\ result' # "ok" \/ (pc = "queue" /\ is_download_complete) \/ result' = result
    /\ pc' \in {"queue", "receive", "timeouts"} =>
           \/ pc \in {"queue", "receive", "timeouts"}
           \/ NextBuffered = {}

\* The requests after handle_timeouts
LEMMA ExpiredTypes ==
  ASSUME TypeInv, handle_timeouts
  PROVE  /\ requests' \in [Slots -> Request]
         /\ \A i \in Slots : /\ requests'[i].token = requests[i].token
                             /\ requests'[i].block_num = requests[i].block_num
                             /\ requests'[i].completed = requests[i].completed
<1>1. \A i \in Slots : requests[i] \in Request
  BY Zenon DEF TypeInv, TypeOK, Request
<1>2. CASE \E i \in Expired : requests[i].retries >= MaxTimeouts
  BY <1>1, <1>2, Zenon DEF handle_timeouts, TypeInv, TypeOK, Request
<1>3. CASE ~ \E i \in Expired : requests[i].retries >= MaxTimeouts
  <2>1. requests' = [i \in Slots |-> IF i \in Expired
                         THEN [requests[i] EXCEPT !.retries = @ + 1, !.in_flight = FALSE, !.left = 0]
                         ELSE requests[i]]
    BY <1>3, Zenon DEF handle_timeouts
  <2>2. \A i \in Expired : requests[i].retries + 1 \in 0..MaxTimeouts
    BY <1>1, <1>3, CoapAssumption DEF Request, Expired
  <2>3. ASSUME NEW i \in Expired
        PROVE  [requests[i] EXCEPT !.retries = @ + 1, !.in_flight = FALSE, !.left = 0] \in Request
    <3> DEFINE zero == 0
               r == requests[i].retries + 1
    <3>1. requests[i] \in Request /\ r \in 0..MaxTimeouts /\ zero \in Int
      BY <1>1, <2>2 DEF Expired
    <3> HIDE DEF zero, r
    <3>2. [requests[i] EXCEPT !.retries = r, !.in_flight = FALSE, !.left = zero] \in Request
      BY <3>1, Zenon DEF Request
    <3> QED
      BY <3>2, Zenon DEF zero, r
  <2>4. \A i \in Slots : /\ requests'[i] \in Request
                         /\ requests'[i].token = requests[i].token
                         /\ requests'[i].block_num = requests[i].block_num
                         /\ requests'[i].completed = requests[i].completed
    BY <1>1, <2>1, <2>3, ZenonT(40) DEF Request
  <2> QED
    BY <2>1, <2>4, Zenon
<1> QED
  BY <1>2, <1>3, Zenon

QuietStep ==
    \/ send_fails \/ requests_queued \/ finish \/ receive_fails
    \/ \E d \in 0..(Timeout + 1) :
           \/ receive_nothing(d)
           \/ \E m \in net : receive_data(m, d) /\ (process_unknown(m, d) \/ process_refusal(m))
    \/ buffered_delivered \/ handle_timeouts
    \/ \E m \in net : Lose(m)
    \/ UNCHANGED vars

\* Each of them is such a step.
LEMMA QuietSteps ==
  ASSUME TypeInv, QuietStep
  PROVE  Quiet
<1> USE DEF Quiet, file, delivery, asking
<1>0. /\ requests \in [Slots -> Request]
      /\ pc \in {"queue", "receive", "deliver", "timeouts", "done"}
      /\ pc # "done" => result = "running"
  BY Zenon DEF TypeInv, TypeOK, Request
<1>1. CASE send_fails
  BY <1>0, <1>1, Zenon DEF send_fails, Return, Visits
<1>2. CASE requests_queued
  BY <1>0, <1>2, Zenon DEF requests_queued
<1>3. CASE finish
  BY <1>0, <1>3, Zenon DEF finish, Return
<1>4. CASE receive_fails
  BY <1>0, <1>4, Zenon DEF receive_fails, Return
<1>5. ASSUME NEW d \in 0..(Timeout + 1), receive_nothing(d) PROVE Quiet
  BY <1>0, <1>5, AfterTypes, Zenon DEF receive_nothing
<1>6. ASSUME NEW d \in 0..(Timeout + 1), NEW m \in net, receive_data(m, d), process_unknown(m, d) PROVE Quiet
  BY <1>0, <1>6, AfterTypes, Zenon DEF receive_data, process_unknown
<1>7. ASSUME NEW d \in 0..(Timeout + 1), NEW m \in net, receive_data(m, d), process_refusal(m) PROVE Quiet
  BY <1>0, <1>7, Zenon DEF receive_data, process_refusal, Return
<1>8. CASE buffered_delivered
  BY <1>0, <1>8, ZenonT(40) DEF buffered_delivered
<1>9. CASE handle_timeouts
  BY <1>0, <1>9, ExpiredTypes, Zenon DEF handle_timeouts, Return
<1>10. ASSUME NEW m \in net, Lose(m) PROVE Quiet
  BY <1>0, <1>10, Zenon DEF Lose
<1>11. CASE UNCHANGED vars
  BY <1>0, <1>11, Zenon DEF vars
<1> QED
  BY <1>1, <1>2, <1>3, <1>4, <1>5, <1>6, <1>7, <1>8, <1>9, <1>10, <1>11, ZenonT(40) DEF QuietStep

\* The inductive invariant
Inv ==
    /\ TypeInv /\ TokenInv /\ OpenInv /\ HeldInv /\ RoomInv /\ OffsetInv /\ SizeInv
    /\ DeliveredInOrder /\ AlwaysBuffered /\ CompleteOnSuccess

\* They keep what is known of tokens, open requests and buffers.
LEMMA QuietKeeps ==
  ASSUME Inv, Quiet
  PROVE  TypeInv' /\ TokenInv' /\ OpenInv' /\ HeldInv' /\ RoomInv'
<1> USE DEF Inv, Quiet, file, delivery, asking
<1>1. TypeInv'
  BY Zenon DEF TypeInv, TypeOK, Request
<1>2. TokenInv'
  BY SMTT(30) DEF TokenInv, TypeInv, TypeOK
<1>3. OpenInv'
  BY Zenon DEF OpenInv, Open, Window, TypeInv, TypeOK
<1>4. HeldInv'
  <2>1. \A j \in Buffers : Held(j)' <=> Held(j)
    BY Zenon DEF Held
  <2>2. \A i \in Slots : Open(i)' <=> Open(i)
    BY Zenon DEF Open
  <2>3. Window' = Window /\ block_buffer' = block_buffer /\ next_block_to_deliver' = next_block_to_deliver
    BY Zenon DEF Window
  <2>4. \A b : Refused(b)' <=> Refused(b)
    BY Zenon DEF Refused
  <2>5. pc' \in {"queue", "receive", "timeouts"} =>
           \A j \in Buffers : Held(j) => block_buffer[j].block_num # next_block_to_deliver
    BY Zenon DEF HeldInv, NextBuffered, Held
  <2> HIDE DEF Quiet
  <2>6. \A i \in Slots : requests'[i].block_num = requests[i].block_num
    BY Zenon DEF Quiet
  <2> QED
    BY <2>1, <2>2, <2>3, <2>4, <2>5, <2>6, ZenonT(40) DEF HeldInv
<1>5. RoomInv'
  BY Zenon DEF RoomInv
<1> QED
  BY <1>1, <1>2, <1>3, <1>4, <1>5, ZenonT(40)

\* They deliver nothing.
LEMMA QuietKeepsFile ==
  ASSUME Inv, Quiet
  PROVE  OffsetInv' /\ SizeInv' /\ DeliveredInOrder' /\ AlwaysBuffered'
<1> USE DEF Inv, Quiet, file, delivery, asking
<1>1. OffsetInv'
  BY Zenon DEF OffsetInv, Refused, Least, TypeInv
<1>2. SizeInv'
  BY Zenon DEF SizeInv, Finished, More, Blocks
<1>3. DeliveredInOrder'
  BY Zenon DEF DeliveredInOrder
<1>4. AlwaysBuffered'
  BY Zenon DEF AlwaysBuffered
<1> QED
  BY <1>1, <1>2, <1>3, <1>4, Zenon

-----------------------------------------------------------------------------
(***************************************************************************)
(* Sizes and blocks.                                                       *)
(***************************************************************************)

\* ROUND_UP: Blocks(s) is the number of blocks that hold s bytes.
LEMMA BlocksCover ==
  ASSUME NEW s \in Nat, BlockSize \in Nat, 0 < BlockSize
  PROVE  /\ Blocks(s) \in Nat
         /\ Blocks(s) * BlockSize >= s
         /\ Blocks(s) * BlockSize < s + BlockSize
<1> DEFINE q == (s + BlockSize - 1) \div BlockSize
<1>1. q \in Int /\ q * BlockSize <= s + BlockSize - 1 /\ s + BlockSize - 1 < (q + 1) * BlockSize
  OBVIOUS
<1>2. (q + 1) * BlockSize = q * BlockSize + BlockSize
  BY <1>1
<1>3. q >= 0
  BY <1>1, SMTT(30)
<1> QED
  BY <1>1, <1>2, <1>3 DEF Blocks

\* It is the only one.
LEMMA BlocksExact ==
  ASSUME NEW s \in Nat, BlockSize \in Nat, 0 < BlockSize, NEW n \in Nat,
         n * BlockSize >= s, n > 0, (n - 1) * BlockSize < s
  PROVE  Blocks(s) = n
<1> DEFINE q == Blocks(s)
<1>1. q \in Nat /\ q * BlockSize >= s /\ q * BlockSize < s + BlockSize
  BY BlocksCover, Zenon
<1> HIDE DEF q
<1>2. ASSUME q < n PROVE FALSE
  <2>1. q <= n - 1
    BY <1>1, <1>2, SMTT(30)
  <2>2. q * BlockSize <= (n - 1) * BlockSize
    BY <1>1, <2>1, SMTT(30)
  <2> QED
    BY <1>1, <2>2, SMTT(30)
<1>3. ASSUME n < q PROVE FALSE
  <2>1. n <= q - 1
    BY <1>1, <1>3, SMTT(30)
  <2>2. n * BlockSize <= (q - 1) * BlockSize
    BY <1>1, <2>1, SMTT(30)
  <2>3. (q - 1) * BlockSize = q * BlockSize - BlockSize
    BY <1>1
  <2> QED
    BY <1>1, <2>2, <2>3, SMTT(30)
<1> QED
  BY <1>1, <1>2, <1>3 DEF q

\* A download that is complete has all of the file.
LEMMA QuietKeepsSuccess ==
  ASSUME Inv, Quiet
  PROVE  CompleteOnSuccess'
<1>0. UNCHANGED <<dl, written, total_size, current_offset>>
  BY Zenon DEF Quiet, file, delivery
<1>1. CASE result' = result
  BY <1>0, <1>1, ZenonT(40) DEF Inv, CompleteOnSuccess, Blocks
<1>2. CASE pc = "queue" /\ is_download_complete
  <2> DEFINE n == next_block_to_deliver
  <2> SUFFICES ASSUME dl.file_size = 0 \/ dl.file_size >= dl.len
               PROVE  Len(written) = Blocks(dl.len) /\ total_size = dl.len /\ current_offset = dl.len
    BY <1>0, Zenon DEF CompleteOnSuccess, Blocks
  <2>1. /\ n \in Nat /\ total_size \in Nat /\ total_blocks \in Nat /\ Len(written) = n
        /\ dl.len \in Nat /\ dl.file_size \in Nat /\ BlockSize \in Nat /\ 0 < BlockSize
    BY <1>2, FileTypes, Zenon DEF Inv, TypeInv, TypeOK, OffsetInv
  <2>2. total_size # 0 /\ n >= total_blocks
    BY <1>2, Zenon DEF is_download_complete
  <2>3. Finished
    <3> SUFFICES ASSUME ~Finished PROVE FALSE
      BY Zenon
    <3>1. total_size >= dl.len /\ total_blocks = Blocks(total_size)
      BY <2>1, <2>2, SMTT(30) DEF Inv, SizeInv
    <3>2. total_blocks * BlockSize >= total_size
      BY <2>1, <3>1, BlocksCover, Zenon
    <3>3. n * BlockSize >= total_blocks * BlockSize
      BY <2>1, <2>2, SMTT(30)
    <3>4. n > 0
      BY <2>1, <2>2, <3>2, SMTT(30)
    <3>5. n * BlockSize >= dl.len
      BY <2>1, <3>1, <3>2, <3>3, SMTT(30)
    <3> QED
      BY <2>1, <3>4, <3>5, SMTT(30) DEF Finished, More
  <2>4. total_size = dl.len /\ n > 0 /\ n * BlockSize >= dl.len
    BY <2>1, <2>3, SMTT(30) DEF Inv, SizeInv, Finished, More
  <2>5. (n - 1) * BlockSize < dl.len
    <3>1. ~Refused(n - 1)
      BY <2>4, Zenon DEF Inv, OffsetInv
    <3> QED
      BY <2>1, <2>2, <2>4, <3>1, SMTT(30) DEF Refused
  <2>6. Blocks(dl.len) = n
    BY <2>1, <2>4, <2>5, BlocksExact, Zenon
  <2>7. current_offset = dl.len
    BY <2>1, <2>4 DEF Inv, OffsetInv, Least
  <2> QED
    BY <2>1, <2>4, <2>6, <2>7, Zenon
<1>3. CASE result' # "ok"
  BY <1>3, Zenon DEF CompleteOnSuccess
<1> QED
  BY <1>1, <1>2, <1>3, Zenon DEF Quiet

\* The next block, unless the server refuses it, is not past the end of the
\* file: the size is not yet known from the last block, and the callback is
\* given the block at its own offset.
LEMMA NextBlock ==
  ASSUME Inv, pc # "done", ~Refused(next_block_to_deliver)
  PROVE  /\ current_offset = next_block_to_deliver * BlockSize
         /\ Len(written) = next_block_to_deliver
         /\ total_size \in {dl.file_size, dl.len} /\ total_blocks = Blocks(total_size)
<1> DEFINE n == next_block_to_deliver
           p == n * BlockSize
<1>1. /\ n \in Nat /\ current_offset \in Nat /\ Len(written) = n
      /\ dl.len \in Nat /\ BlockSize \in Nat /\ 0 < BlockSize
  BY FileTypes, Zenon DEF Inv, TypeInv, TypeOK, OffsetInv
<1>2. p \in Nat /\ (n = 0 => p = 0)
  BY <1>1
<1>3. n = 0 \/ p < dl.len
  BY <1>1, SMTT(30) DEF Refused
<1>4. current_offset = p
  BY <1>1, <1>2, <1>3, SMTT(30) DEF Inv, OffsetInv, Least
<1>5. ~Finished
  BY <1>1, <1>3, SMTT(30) DEF Finished, More
<1> QED
  BY <1>1, <1>4, <1>5, Zenon DEF Inv, SizeInv

\* The next block extends what the callback was given in order.
LEMMA GivenInOrder ==
  ASSUME Inv, pc # "done", ~Refused(next_block_to_deliver),
         written' = Append(written, [offset |-> current_offset, block_num |-> next_block_to_deliver])
  PROVE  DeliveredInOrder' /\ Len(written)' = next_block_to_deliver + 1
<1> DEFINE n == next_block_to_deliver
           p == n * BlockSize
<1>1. /\ n \in Nat /\ p \in Nat /\ Len(written) = n /\ current_offset = p
      /\ written \in Seq([offset : Nat, block_num : Nat])
  BY NextBlock, FileTypes, Zenon DEF Inv, TypeInv, TypeOK
<1> HIDE DEF p
<1>2. \A k \in 1..n : written[k] = [offset |-> (k - 1) * BlockSize, block_num |-> k - 1]
  BY <1>1, Zenon DEF Inv, DeliveredInOrder
<1>3. Len(written') = n + 1 /\ \A k \in 1..n : written'[k] = written[k]
  BY <1>1, SMTT(30)
<1>4. written'[n + 1] = [offset |-> p, block_num |-> n]
  BY <1>1
<1>5. ASSUME NEW k \in 1..(n + 1)
      PROVE  written'[k] = [offset |-> (k - 1) * BlockSize, block_num |-> k - 1]
  <2>1. k \in 1..n \/ k = n + 1
    BY <1>1, SMTT(30)
  <2>2. CASE k \in 1..n
    BY <1>2, <1>3, <2>2, Zenon
  <2>3. CASE k = n + 1
    <3>1. k - 1 = n
      BY <1>1, <2>3, SMTT(30)
    <3>2. (k - 1) * BlockSize = p
      BY <3>1, Zenon DEF p
    <3>3. written'[k] = [offset |-> p, block_num |-> n]
      BY <1>4, <2>3, Zenon
    <3> QED
      BY <3>1, <3>2, <3>3, Zenon
  <2> QED
    BY <2>1, <2>2, <2>3, Zenon
<1> QED
  BY <1>3, <1>5, Zenon DEF DeliveredInOrder

\* A block that is delivered moves the offset on, and the last one tells the
\* size.
LEMMA DeliverKeepsFile ==
  ASSUME Inv, pc # "done", NEW size \in {dl.file_size, dl.len}, ~Refused(next_block_to_deliver),
         deliver(next_block_to_deliver, size, Blocks(size)), dl' = dl
  PROVE  OffsetInv' /\ SizeInv' /\ DeliveredInOrder'
<1> DEFINE n == next_block_to_deliver
           p == n * BlockSize
<1>1. /\ n \in Nat /\ current_offset = p
      /\ dl.len \in Nat /\ dl.file_size \in Nat /\ BlockSize \in Nat /\ 0 < BlockSize
  BY FileTypes, NextBlock, ZenonT(40) DEF Inv, TypeInv, TypeOK
<1>2. p \in Nat /\ (n + 1) * BlockSize = p + BlockSize /\ (n = 0 => p = 0)
  BY <1>1, SMTT(30)
<1>3. n = 0 \/ p < dl.len
  BY <1>1, SMTT(30) DEF Refused
<1>4. DeliveredInOrder' /\ Len(written)' = n + 1
  BY GivenInOrder, Zenon DEF deliver
<1>5. /\ total_size' = IF More(n) THEN size ELSE current_offset + BlockLen(n)
      /\ total_blocks' = IF More(n) THEN Blocks(size) ELSE n + 1
      /\ current_offset' = current_offset + BlockLen(n)
      /\ next_block_to_deliver' = n + 1
  BY Zenon DEF deliver
<1>6. BlockLen(n) = Least(BlockSize, dl.len - p) /\ (More(n) <=> p + BlockSize < dl.len)
  BY <1>2, ZenonT(40) DEF BlockLen, More
<1> HIDE DEF p
<1>7. current_offset' = Least(p + BlockSize, dl.len)
  BY <1>1, <1>2, <1>3, <1>5, <1>6, SMTT(30) DEF Least
<1>8. OffsetInv'
  <2>1. current_offset' = Least((n + 1) * BlockSize, dl.len)
    BY <1>2, <1>7, Zenon
  <2>2. ~(n > 0 /\ n * BlockSize >= dl.len)
    BY Zenon DEF Refused
  <2>3. next_block_to_deliver' - 1 = n
    BY <1>1, <1>5, SMTT(30)
  <2>4. ~Refused(next_block_to_deliver - 1)'
    BY <2>2, <2>3, Zenon DEF Refused
  <2> HIDE DEF n
  <2>5. (current_offset = Least(next_block_to_deliver * BlockSize, dl.len))'
    BY <1>5, <2>1, Zenon DEF Least
  <2> QED
    BY <1>4, <1>5, <2>4, <2>5, ZenonT(40) DEF OffsetInv
<1>9. SizeInv'
  <2>1. Finished' <=> ~More(n)
    BY <1>1, <1>5, SMTT(30) DEF Finished, More
  <2>2. CASE More(n)
    BY <1>5, <2>1, <2>2, ZenonT(40) DEF SizeInv, Blocks
  <2>3. CASE ~More(n)
    <3>1. total_size' = dl.len
      BY <1>1, <1>2, <1>3, <1>5, <1>6, <2>3, SMTT(30) DEF Least
    <3> QED
      BY <1>5, <2>1, <2>3, <3>1, ZenonT(40) DEF SizeInv
  <2> QED
    BY <2>2, <2>3, Zenon
<1> QED
  BY <1>4, <1>8, <1>9, Zenon

\* A block that the callback refuses was given to it in order.
LEMMA RefuseKeepsFile ==
  ASSUME Inv, pc # "done", NEW size \in {dl.file_size, dl.len}, ~Refused(next_block_to_deliver),
         deliver_fails(next_block_to_deliver, size, Blocks(size)), dl' = dl
  PROVE  OffsetInv' /\ SizeInv' /\ DeliveredInOrder'
<1>1. DeliveredInOrder'
  BY GivenInOrder, Zenon DEF deliver_fails
<1>2. OffsetInv'
  BY Zenon DEF Inv, OffsetInv, deliver_fails, Return, Refused, Least
<1>3. ~Finished
  <2>1. next_block_to_deliver \in Nat
    BY Zenon DEF Inv, TypeInv, TypeOK
  <2>2. next_block_to_deliver - 1 + 1 = next_block_to_deliver
    BY <2>1
  <2> QED
    BY <2>1, <2>2, FileTypes DEF Finished, More, Refused, Inv
<1>4. ~Finished'
  BY <1>3, Zenon DEF Finished, More, deliver_fails
<1>5. SizeInv'
  BY <1>4, Zenon DEF SizeInv, deliver_fails, Blocks
<1> QED
  BY <1>1, <1>2, <1>5, Zenon

-----------------------------------------------------------------------------
(***************************************************************************)
(* Asking for a block, again or for the first time.                        *)
(***************************************************************************)
Asks(i, b) ==
    /\ requests' \in [Slots -> Request]
    /\ requests'[i].token = next_token /\ requests'[i].block_num = b /\ ~requests'[i].completed
    /\ \A k \in Slots : k # i => requests'[k] = requests[k]
    /\ net' = net \cup {[token |-> next_token, block_num |-> b]}
    /\ next_token' = next_token + 1
    /\ \/ b = requests[i].block_num /\ Open(i) /\ UNCHANGED <<next_block_to_request, block_requests_remaining>>
       \/ /\ b = next_block_to_request /\ next_block_to_request' = next_block_to_request + 1
          /\ block_requests_remaining # 0
          /\ block_requests_remaining' = block_requests_remaining - 1
    /\ UNCHANGED <<file, delivery, pc, result>>

\* send_block_request changes the request of its slot only.
LEMMA SendTypes ==
  ASSUME TypeInv, NEW i \in Slots, NEW req \in Request, ~req.completed, send_block_request(i, req)
  PROVE  /\ requests' \in [Slots -> Request]
         /\ requests'[i].token = next_token /\ requests'[i].block_num = req.block_num
         /\ ~requests'[i].completed
         /\ \A k \in Slots : k # i => requests'[k] = requests[k]
<1> DEFINE new == [req EXCEPT !.token = next_token, !.in_flight = TRUE, !.left = Timeout]
<1>1. requests' = [requests EXCEPT ![i] = new]
  BY Zenon DEF send_block_request
<1>2. requests \in [Slots -> Request] /\ next_token \in Nat /\ Timeout \in Int
  BY CoapAssumption, SMTT(30) DEF TypeInv, TypeOK, Request
<1>3. /\ new \in Request
      /\ new.token = next_token /\ new.block_num = req.block_num /\ ~new.completed
  BY <1>2, Zenon DEF Request
<1> HIDE DEF new
<1> QED
  BY <1>1, <1>2, <1>3, ZenonT(40)

\* handle_request_timeout asks for the block of its slot again, under a new token.
LEMMA ResendAsks ==
  ASSUME TypeInv, NEW i \in Slots, handle_request_timeout(i)
  PROVE  Asks(i, requests[i].block_num)
<1>1. requests[i] \in Request /\ ~requests[i].completed
  BY Zenon DEF handle_request_timeout, Resent, TypeInv, TypeOK, Request
<1>2. send_block_request(i, requests[i])
  BY Zenon DEF handle_request_timeout
<1> QED
  BY <1>1, <1>2, SendTypes, Zenon DEF Asks, Open, handle_request_timeout, send_block_request

\* queue_requests asks for the next block in a slot that is free.
LEMMA RequestAsks ==
  ASSUME TypeInv, NEW i \in Slots, queue_request(i)
  PROVE  Asks(i, next_block_to_request)
<1> DEFINE zero == 0
           req == [requests[i] EXCEPT !.block_num = next_block_to_request, !.retries = zero,
                                      !.completed = FALSE]
<1>1. requests[i] \in Request /\ next_block_to_request \in Nat /\ zero \in 0..MaxTimeouts
  BY CoapAssumption DEF TypeInv, TypeOK, Request
<1>2. send_block_request(i, req) /\ HasRoom
  BY Zenon DEF queue_request, Fresh
<1> HIDE DEF zero
<1>3. req \in Request /\ ~req.completed /\ req.block_num = next_block_to_request
  BY <1>1, ZenonT(40) DEF Request
<1> HIDE DEF req
<1> QED
  BY <1>2, <1>3, SendTypes, ZenonT(40) DEF Asks, queue_request, send_block_request, HasRoom

\* Asking keeps the tokens apart, and the blocks distinct and within the room.
LEMMA AskKeeps ==
  ASSUME Inv, NEW i \in Slots, NEW b \in Nat, Asks(i, b)
  PROVE  TypeInv' /\ TokenInv' /\ OpenInv' /\ HeldInv' /\ RoomInv'
<1>0. /\ next_token \in Nat /\ next_block_to_request \in Nat /\ next_block_to_deliver \in Nat
      /\ block_requests_remaining \in Nat
      /\ \A k \in Slots : requests[k].token \in Nat /\ requests[k].block_num \in Nat
      /\ \A m \in net : m.token \in Nat /\ m.block_num \in Nat
  BY Limits, SMTT(30) DEF Inv, TypeInv, TypeOK
<1>1. TypeInv'
  <2>1. net' \subseteq [token : Nat, block_num : Nat]
    BY <1>0, SMTT(30) DEF Asks, Inv, TypeInv, TypeOK
  <2>2. next_block_to_request' \in Nat /\ block_requests_remaining' \in 0..block_requests_max
    BY Limits, SMTT(30) DEF Asks, Inv, TypeInv, TypeOK
  <2>3. UNCHANGED <<dl, total_size, total_blocks, block_buffer, next_block_to_deliver,
                    current_offset, written, pc, result>>
    BY Zenon DEF Asks, file, delivery
  <2>4. next_token' \in Nat /\ requests' \in [Slots -> Request]
    BY <1>0, SMTT(30) DEF Asks
  <2> QED
    BY <2>1, <2>2, <2>3, <2>4, Zenon DEF Inv, TypeInv, TypeOK, Request
<1>2. TokenInv'
  <2>1. \A k \in Slots : requests'[k].token < next_token'
    BY <1>0, SMTT(30) DEF Asks, Inv, TokenInv
  <2>2. \A m \in net' : m.token < next_token'
    BY <1>0, SMTT(30) DEF Asks, Inv, TokenInv
  <2>3. ASSUME NEW k \in Slots, NEW m \in net', ~requests'[k].completed, m.token = requests'[k].token
        PROVE  m.block_num = requests'[k].block_num
    <3>1. CASE m \in net /\ k # i
      BY <2>3, <3>1, ZenonT(40) DEF Asks, Inv, TokenInv
    <3>2. CASE m \in net /\ k = i
      BY <1>0, <2>3, <3>2 DEF Asks, Inv, TokenInv
    <3>3. CASE m = [token |-> next_token, block_num |-> b] /\ k = i
      BY <2>3, <3>3, ZenonT(40) DEF Asks
    <3>4. CASE m = [token |-> next_token, block_num |-> b] /\ k # i
      BY <1>0, <2>3, <3>4, SMTT(30) DEF Asks, Inv, TokenInv
    <3> QED
      BY <3>1, <3>2, <3>3, <3>4, Zenon DEF Asks
  <2> QED
    BY <2>1, <2>2, <2>3, Zenon DEF TokenInv
<1>3. OpenInv'
  <2>1. \A k \in Slots : Open(k)' => requests'[k].block_num \in Window'
    BY <1>0 DEF Asks, Inv, OpenInv, Open, Window, RoomInv, delivery
  <2>2. ASSUME NEW k \in Slots, NEW l \in Slots, Open(k)', Open(l)', k # l
        PROVE  requests'[k].block_num # requests'[l].block_num
    <3>1. CASE k # i /\ l # i
      BY <2>2, <3>1, Zenon DEF Asks, Inv, OpenInv, Open
    <3>2. CASE k = i
      BY <1>0, <2>2, <3>2, SMTT(30) DEF Asks, Inv, OpenInv, Open, Window
    <3>3. CASE l = i
      BY <1>0, <2>2, <3>3 DEF Asks, Inv, OpenInv, Open, Window
    <3> QED
      BY <3>1, <3>2, <3>3, ZenonT(40)
  <2> QED
    BY <2>1, <2>2, ZenonT(40) DEF OpenInv
<1>4. HeldInv'
  <2>1. \A j \in Buffers : Held(j)' <=> Held(j)
    BY Zenon DEF Held, Asks, delivery
  <2>2. /\ block_buffer' = block_buffer /\ next_block_to_deliver' = next_block_to_deliver
        /\ Window \subseteq Window' /\ pc' = pc
    BY <1>0, SMTT(30) DEF Window, Asks, delivery
  <2>3. \A c : Refused(c)' <=> Refused(c)
    BY Zenon DEF Refused, Asks, file
  <2>4. ASSUME NEW j \in Buffers, NEW k \in Slots, Held(j), Open(k)'
        PROVE  block_buffer[j].block_num # requests'[k].block_num
    BY <1>0, <2>4, SMTT(30) DEF Asks, Inv, HeldInv, Open, Window
  <2> QED
    BY <2>1, <2>2, <2>3, <2>4, ZenonT(40) DEF HeldInv, Inv
<1>5. RoomInv'
  BY <1>0, Limits DEF RoomInv, Asks, Inv, delivery
<1> QED
  BY <1>1, <1>2, <1>3, <1>4, <1>5, ZenonT(40)

\* Asking delivers nothing.
LEMMA AskKeepsFile ==
  ASSUME Inv, NEW i \in Slots, NEW b \in Nat, Asks(i, b)
  PROVE  OffsetInv' /\ SizeInv' /\ DeliveredInOrder' /\ AlwaysBuffered' /\ CompleteOnSuccess'
<1> USE DEF Inv, Asks, file, delivery
<1>1. OffsetInv'
  BY Zenon DEF OffsetInv, Refused, Least
<1>2. SizeInv'
  BY Zenon DEF SizeInv, Finished, More, Blocks
<1>3. DeliveredInOrder' /\ AlwaysBuffered' /\ CompleteOnSuccess'
  BY Zenon DEF DeliveredInOrder, AlwaysBuffered, CompleteOnSuccess, Blocks
<1> QED
  BY <1>1, <1>2, <1>3, Zenon

-----------------------------------------------------------------------------
(***************************************************************************)
(* Taking a block, delivering and buffering it.                            *)
(***************************************************************************)

\* A message answers slot i, which is closed.
Takes(m, i) ==
    /\ m \in net /\ Open(i) /\ requests[i].token = m.token
    /\ requests' \in [Slots -> Request]
    /\ requests'[i].completed
    /\ \A k \in Slots : /\ requests'[k].token = requests[k].token
                        /\ requests'[k].block_num = requests[k].block_num
                        /\ k # i => requests'[k].completed = requests[k].completed
    /\ net' \subseteq net
    /\ UNCHANGED <<dl, asking>>

\* process_response closes the request that the message answers.
LEMMA ResponseTakes ==
  ASSUME TypeInv, NEW m \in net, NEW d \in 0..(Timeout + 1), NEW i \in Matching(m.token),
         receive_data(m, d), process_response(m, i, d)
  PROVE  Takes(m, i)
<1> DEFINE zero == 0
           new == [requests[i] EXCEPT !.completed = TRUE, !.in_flight = FALSE, !.left = zero]
<1>1. i \in Slots /\ Open(i) /\ requests[i].token = m.token
  BY Zenon DEF Matching, Open
<1>2. requests[i] \in Request /\ zero \in Int
  BY <1>1, SMTT(30) DEF TypeInv, TypeOK, Request
<1>3. requests' = [After(d) EXCEPT ![i] = new]
  BY Zenon DEF process_response
<1> HIDE DEF zero
<1>4. new \in Request /\ new.completed /\ new.token = requests[i].token /\ new.block_num = requests[i].block_num
  BY <1>2, ZenonT(40) DEF Request
<1> HIDE DEF new
<1>5. /\ requests' \in [Slots -> Request]
      /\ requests'[i].completed
      /\ \A k \in Slots : /\ requests'[k].token = requests[k].token
                          /\ requests'[k].block_num = requests[k].block_num
                          /\ k # i => requests'[k].completed = requests[k].completed
  BY <1>1, <1>3, <1>4, AfterTypes, ZenonT(40)
<1> QED
  BY <1>1, <1>5, Zenon DEF Takes, receive_data, asking

\* Blocks leave the slots and the buffers, and the next one may be delivered.
Shrinks ==
    /\ \A k \in Slots : /\ requests'[k].token = requests[k].token
                        /\ requests'[k].block_num = requests[k].block_num
                        /\ Open(k)' => Open(k)
    /\ \A j \in Buffers : Held(j)' => Held(j) /\ block_buffer'[j].block_num = block_buffer[j].block_num
    /\ net' \subseteq net
    /\ UNCHANGED <<dl, asking>>
    /\ \/ pc' = "done" /\ UNCHANGED <<next_block_to_deliver, block_requests_remaining>>
       \/ /\ pc' = "deliver"
          /\ next_block_to_deliver \in Window
          /\ next_block_to_deliver' = next_block_to_deliver + 1
          /\ block_requests_remaining' = block_requests_remaining + 1
          /\ \A k \in Slots : Open(k)' => requests[k].block_num # next_block_to_deliver
          /\ \A j \in Buffers : Held(j)' => block_buffer[j].block_num # next_block_to_deliver

\* What is left stays distinct, due and within the room.
LEMMA ShrinkKeeps ==
  ASSUME Inv, Shrinks
  PROVE  TokenInv' /\ OpenInv' /\ HeldInv' /\ RoomInv'
<1>0. /\ next_block_to_request \in Nat /\ next_block_to_deliver \in Nat /\ block_requests_remaining \in Nat
      /\ next_token' = next_token /\ next_block_to_request' = next_block_to_request
      /\ \A k \in Slots : requests[k].block_num \in Nat
      /\ \A j \in Buffers : block_buffer[j].block_num \in Nat
  BY Limits, SMTT(30) DEF Inv, TypeInv, TypeOK, Shrinks, asking
<1>1. TokenInv'
  BY <1>0, ZenonT(40) DEF Inv, TokenInv, Shrinks, Open
<1>2. \A k \in Slots : Open(k)' => requests'[k].block_num \in Window'
  BY <1>0, SMTT(30) DEF Inv, OpenInv, Shrinks, Window
<1>3. OpenInv'
  BY <1>2, ZenonT(40) DEF Inv, OpenInv, Shrinks
<1>4. \A j \in Buffers : Held(j)' => block_buffer'[j].block_num \in Window'
  BY <1>0 DEF Inv, HeldInv, Shrinks, Window
<1>5. \A b : Refused(b)' <=> Refused(b)
  BY ZenonT(40) DEF Refused, Shrinks
<1>6. HeldInv'
  <2>0. \A j \in Buffers : Held(j)' => Held(j) /\ block_buffer'[j].block_num = block_buffer[j].block_num
    BY Zenon DEF Shrinks
  <2>1. \A j \in Buffers : Held(j)' => ~Refused(block_buffer[j].block_num)'
    BY <1>5, <2>0, Zenon DEF Inv, HeldInv, Shrinks
  <2>2. \A j, k \in Buffers : Held(j)' /\ Held(k)' /\ block_buffer'[j].block_num = block_buffer'[k].block_num => j = k
    BY <2>0, ZenonT(40) DEF Inv, HeldInv
  <2>3. \A j \in Buffers, k \in Slots : Held(j)' /\ Open(k)' => block_buffer'[j].block_num # requests'[k].block_num
    <3>1. \A k \in Slots : Open(k)' => Open(k) /\ requests'[k].block_num = requests[k].block_num
      BY Zenon DEF Shrinks
    <3>2. \A j \in Buffers, k \in Slots : Held(j) /\ Open(k) => block_buffer[j].block_num # requests[k].block_num
      BY Zenon DEF Inv, HeldInv
    <3> QED
      BY <2>0, <3>1, <3>2, SMTT(30)
  <2>4. pc' \notin {"queue", "receive", "timeouts"}
    BY ZenonT(40) DEF Shrinks
  <2> QED
    BY <1>4, <2>1, <2>2, <2>3, <2>4, ZenonT(40) DEF HeldInv
<1>7. RoomInv'
  <2>1. /\ next_block_to_deliver <= next_block_to_request
        /\ block_requests_remaining + (next_block_to_request - next_block_to_deliver) = block_requests_max
    BY ZenonT(40) DEF Inv, RoomInv
  <2>2. \/ UNCHANGED <<next_block_to_deliver, block_requests_remaining>>
        \/ /\ next_block_to_deliver < next_block_to_request
           /\ next_block_to_deliver' = next_block_to_deliver + 1
           /\ block_requests_remaining' = block_requests_remaining + 1
    BY <1>0 DEF Shrinks, Window
  <2> QED
    BY <1>0, <2>1, <2>2, Limits DEF RoomInv
<1> QED
  BY <1>1, <1>3, <1>6, <1>7, ZenonT(40)

\* What is delivered keeps the types.
LEMMA DeliverTypes ==
  ASSUME Inv, pc # "done", ~Refused(next_block_to_deliver), next_block_to_deliver \in Window,
         NEW size \in {dl.file_size, dl.len}, dl' = dl,
         \/ deliver(next_block_to_deliver, size, Blocks(size))
         \/ deliver_fails(next_block_to_deliver, size, Blocks(size)),
         requests' \in [Slots -> Request], net' \subseteq net, UNCHANGED asking,
         block_buffer' \in [Buffers -> [valid : BOOLEAN, block_num : Nat]]
  PROVE  TypeInv'
<1> DEFINE n == next_block_to_deliver
<1>1. /\ n \in Nat /\ current_offset \in Nat /\ size \in Nat /\ dl.len \in Nat /\ BlockSize \in Nat /\ 0 < BlockSize
      /\ next_block_to_request \in Nat
      /\ written \in Seq([offset : Nat, block_num : Nat])
  BY FileTypes, Zenon DEF Inv, TypeInv, TypeOK
<1>2. BlockLen(n) \in Nat
  <2>1. n * BlockSize \in Nat /\ (n = 0 => n * BlockSize = 0)
    BY <1>1
  <2>2. n = 0 \/ n * BlockSize < dl.len
    BY <1>1, <2>1, SMTT(30) DEF Refused
  <2> QED
    BY <1>1, <2>1, <2>2, SMTT(30) DEF BlockLen, Least
<1>3. Blocks(size) \in Nat
  BY <1>1, BlocksCover, Zenon
<1>4. written' \in Seq([offset : Nat, block_num : Nat])
  <2> DEFINE Chunk == [offset : Nat, block_num : Nat]
             chunk == [offset |-> current_offset, block_num |-> n]
  <2>1. written \in Seq(Chunk) /\ chunk \in Chunk /\ written' = Append(written, chunk)
    BY <1>1, Zenon DEF deliver, deliver_fails
  <2> HIDE DEF Chunk, chunk
  <2>2. written' \in Seq(Chunk)
    BY <2>1, SMTT(30)
  <2> QED
    BY <2>2, ZenonT(40) DEF Chunk
<1>5. /\ total_size' \in Nat /\ total_blocks' \in Nat
      /\ current_offset' \in Nat /\ next_block_to_deliver' \in Nat
  <2>1. current_offset + BlockLen(n) \in Nat /\ n + 1 \in Nat
    BY <1>1, <1>2, SMTT(30)
  <2>2. total_size' \in {size, current_offset + BlockLen(n)} /\ total_blocks' \in {Blocks(size), n + 1}
    BY Zenon DEF deliver, deliver_fails
  <2>3. /\ current_offset' \in {current_offset, current_offset + BlockLen(n)}
        /\ next_block_to_deliver' \in {n, n + 1}
    BY ZenonT(40) DEF deliver, deliver_fails
  <2> QED
    BY <1>1, <1>3, <2>1, <2>2, <2>3, Zenon
<1>6. block_requests_remaining' \in 0..block_requests_max
  <2>1. /\ block_requests_remaining \in 0..block_requests_max
        /\ n < next_block_to_request
        /\ block_requests_remaining + (next_block_to_request - n) = block_requests_max
    BY <1>1, SMTT(30) DEF Inv, TypeInv, TypeOK, RoomInv, Window
  <2>2. block_requests_remaining' \in {block_requests_remaining, block_requests_remaining + 1}
    BY Zenon DEF deliver, deliver_fails
  <2> QED
    BY <1>1, <2>1, <2>2, Limits, SMTT(30)
<1>7. pc' \in {"deliver", "done"} /\ (pc' # "done" => result' = "running")
  BY Zenon DEF deliver, deliver_fails, Return, Inv, TypeInv
<1> QED
  BY <1>4, <1>5, <1>6, <1>7, ZenonT(40) DEF TypeInv, TypeOK, Inv, asking, Request

\* An answer to an open request carries the block of the slot, which is due.
LEMMA TakenBlock ==
  ASSUME Inv, NEW m, NEW i \in Slots, Takes(m, i)
  PROVE  m.block_num = requests[i].block_num /\ m.block_num \in Window /\ m.block_num \in Nat
BY Zenon DEF Inv, TypeInv, TypeOK, TokenInv, OpenInv, Takes, Open

\* The block is the next one: it goes to the callback.
LEMMA TakeDelivers ==
  ASSUME Inv, pc = "receive", NEW m, NEW i \in Slots, Takes(m, i), m.block_num = next_block_to_deliver,
         ~Refused(next_block_to_deliver), NEW size \in {dl.file_size, dl.len}, UNCHANGED block_buffer,
         \/ deliver(next_block_to_deliver, size, Blocks(size))
         \/ deliver_fails(next_block_to_deliver, size, Blocks(size))
  PROVE  Inv'
<1>1. m.block_num = requests[i].block_num /\ next_block_to_deliver \in Window
  BY TakenBlock, ZenonT(40)
<1>2. Shrinks
  <2>1. \A k \in Slots : /\ requests'[k].token = requests[k].token
                         /\ requests'[k].block_num = requests[k].block_num
                         /\ Open(k)' => k # i /\ Open(k)
    BY ZenonT(40) DEF Takes, Open
  <2>2. \A k \in Slots : Open(k)' => requests[k].block_num # next_block_to_deliver
    BY <1>1, <2>1, ZenonT(40) DEF Inv, OpenInv, Takes
  <2>3. \A j \in Buffers : Held(j)' => /\ Held(j) /\ block_buffer'[j].block_num = block_buffer[j].block_num
                                       /\ block_buffer[j].block_num # next_block_to_deliver
    BY Zenon DEF Held, Inv, HeldInv
  <2> QED
    BY <1>1, <2>1, <2>2, <2>3, ZenonT(40) DEF Shrinks, Takes, deliver, deliver_fails, Return
<1>3. TypeInv'
  BY <1>1, DeliverTypes, Zenon DEF Takes, Inv, TypeInv, TypeOK
<1>4. OffsetInv' /\ SizeInv' /\ DeliveredInOrder'
  BY DeliverKeepsFile, RefuseKeepsFile, Zenon DEF Takes
<1>5. AlwaysBuffered' /\ CompleteOnSuccess'
  BY ZenonT(40) DEF AlwaysBuffered, CompleteOnSuccess, deliver, deliver_fails, Return, Inv, TypeInv
<1> QED
  BY <1>2, <1>3, <1>4, <1>5, ShrinkKeeps, Zenon DEF Inv

\* There are more buffers than blocks that may have to wait in them.
LEMMA BufferLeft ==
  ASSUME Inv, pc = "receive", NEW b \in Window, b # next_block_to_deliver,
         \A j \in Buffers : Held(j) => block_buffer[j].block_num # b
  PROVE  Free # {}
<1> SUFFICES ASSUME Free = {} PROVE FALSE
  BY ZenonT(40)
<1> DEFINE lo == next_block_to_deliver + 1
           hi == next_block_to_request - 1
           T == (lo..hi) \ {b}
           f == [j \in Buffers |-> block_buffer[j].block_num]
<1>1. /\ next_block_to_deliver \in Nat /\ next_block_to_request \in Nat /\ block_requests_remaining \in Nat
      /\ b \in lo..hi
  BY Limits DEF Inv, TypeInv, TypeOK, Window
<1>2. \A j \in Buffers : Held(j)
  BY ZenonT(40) DEF Free, Held
<1>3. f \in [Buffers -> T]
  BY <1>1, <1>2, SMTT(30) DEF Inv, HeldInv, Window
<1>4. \A j, k \in Buffers : f[j] = f[k] => j = k
  BY <1>2, ZenonT(40) DEF Inv, HeldInv
<1>5. IsFiniteSet(lo..hi) /\ Cardinality(lo..hi) = hi - lo + 1
  <2>1. lo \in Int /\ hi \in Int /\ ~(lo > hi)
    BY <1>1, SMTT(30)
  <2> HIDE DEF lo, hi
  <2> QED
    BY <2>1, FS_Interval, Zenon
<1>6. IsFiniteSet(T) /\ Cardinality(T) = hi - lo
  <2>1. lo \in Int /\ hi \in Int
    BY <1>1, SMTT(30)
  <2> HIDE DEF lo, hi
  <2>2. IsFiniteSet(T) /\ Cardinality(T) = Cardinality(lo..hi) - 1
    BY <1>1, <1>5, FS_RemoveElement, ZenonT(40)
  <2> QED
    BY <1>5, <2>1, <2>2, SMTT(30)
<1>7. IsFiniteSet(Buffers) /\ Cardinality(Buffers) = block_buffers_max
  BY Limits, FS_Interval, SMTT(30) DEF Buffers
<1>8. hi - lo < block_buffers_max
  BY <1>1, Limits DEF Inv, RoomInv
<1> HIDE DEF T, f, lo, hi
<1> QED
  BY <1>3, <1>4, <1>6, <1>7, <1>8, FS_PigeonHole, SMTT(30)

\* After the last block there is none that the server does not refuse.
LEMMA NotFinished ==
  ASSUME Inv, NEW b \in Window, ~Refused(b)
  PROVE  ~Finished
<1> DEFINE n == next_block_to_deliver
<1>1. /\ n \in Nat /\ b \in Nat /\ b >= n
      /\ dl.len \in Nat /\ BlockSize \in Nat /\ 0 < BlockSize
  BY FileTypes DEF Inv, TypeInv, TypeOK, Window
<1>2. b * BlockSize >= n * BlockSize
  BY <1>1, SMTT(30)
<1>3. n - 1 + 1 = n
  BY <1>1
<1>4. b = 0 \/ b * BlockSize < dl.len
  BY <1>1, SMTT(30) DEF Refused
<1> QED
  BY <1>1, <1>2, <1>3, <1>4, SMTT(30) DEF Finished, More

\* The block is early: it waits in a free buffer.
LEMMA TakeBuffers ==
  ASSUME Inv, pc = "receive", NEW m, NEW i \in Slots, Takes(m, i), m.block_num # next_block_to_deliver,
         ~Refused(m.block_num), NEW size \in {dl.file_size, dl.len},
         buffer_block(m.block_num), total_size' = size, total_blocks' = Blocks(size)
  PROVE  Inv'
<1> DEFINE b == m.block_num
<1>1. b = requests[i].block_num /\ b \in Window /\ b \in Nat
  BY TakenBlock, ZenonT(40)
<1>2. \A j \in Buffers : Held(j) => block_buffer[j].block_num # b
  BY <1>1, SMTT(30) DEF Inv, HeldInv, Takes
<1>3. Free # {}
  BY <1>1, <1>2, BufferLeft, Zenon
<1> HIDE DEF b
<1>4. PICK j \in Buffers : /\ j \in Free
                           /\ block_buffer' = [block_buffer EXCEPT ![j] = [valid |-> TRUE, block_num |-> b]]
  BY <1>3, ZenonT(40) DEF buffer_block, First, b
<1>5. /\ pc' = "timeouts" /\ result' = result
      /\ UNCHANGED <<next_block_to_deliver, current_offset, written, block_requests_remaining>>
  BY <1>3, Zenon DEF buffer_block
<1>6. /\ block_buffer \in [Buffers -> [valid : BOOLEAN, block_num : Nat]]
      /\ [valid |-> TRUE, block_num |-> b] \in [valid : BOOLEAN, block_num : Nat]
  BY <1>1, ZenonT(40) DEF Inv, TypeInv, TypeOK
<1>7. /\ block_buffer' \in [Buffers -> [valid : BOOLEAN, block_num : Nat]]
      /\ Held(j)' /\ block_buffer'[j].block_num = b
      /\ \A k \in Buffers : k # j => (Held(k)' <=> Held(k)) /\ block_buffer'[k] = block_buffer[k]
  BY <1>4, <1>6, Zenon DEF Held
<1>8. \A k \in Slots : /\ requests'[k].token = requests[k].token
                       /\ requests'[k].block_num = requests[k].block_num
                       /\ Open(k)' => k # i /\ Open(k)
  BY ZenonT(40) DEF Takes, Open
<1>9. TypeInv'
  <2>1. total_size' \in Nat /\ total_blocks' \in Nat
    BY FileTypes, BlocksCover, ZenonT(40) DEF Inv, TypeInv, TypeOK
  <2> QED
    BY <1>5, <1>7, <2>1, ZenonT(40) DEF Inv, TypeInv, TypeOK, Takes, asking, Request
<1>10. TokenInv'
  <2>1. TokenInv /\ net' \subseteq net /\ next_token' = next_token
    BY ZenonT(40) DEF Inv, Takes, asking
  <2>2. ASSUME NEW k \in Slots, NEW n \in net', Open(k)', n.token = requests'[k].token
        PROVE  n.block_num = requests'[k].block_num
    BY <1>8, <2>1, <2>2, ZenonT(40) DEF TokenInv, Open
  <2>3. /\ \A k \in Slots : requests'[k].token < next_token'
        /\ \A n \in net' : n.token < next_token'
    BY <1>8, <2>1, Zenon DEF TokenInv
  <2> QED
    BY <2>2, <2>3, Zenon DEF TokenInv, Open
<1>11. OpenInv'
  <2>1. OpenInv /\ Window' = Window
    BY <1>5, Zenon DEF Inv, Takes, asking, Window
  <2> QED
    BY <1>8, <2>1, ZenonT(40) DEF OpenInv
<1>12. HeldInv'
  <2>1. Window' = Window /\ next_block_to_deliver' = next_block_to_deliver
    BY <1>5, Zenon DEF Window, Takes, asking
  <2>2. \A c : Refused(c)' <=> Refused(c)
    BY Zenon DEF Refused, Takes
  <2>3. \A k \in Slots : Open(k)' => requests'[k].block_num # b
    BY <1>1, <1>8, ZenonT(40) DEF Inv, OpenInv, Takes
  <2>4. ~Refused(b) /\ b # next_block_to_deliver
    BY Zenon DEF b
  <2>5. ASSUME NEW k \in Buffers, Held(k)'
        PROVE  /\ block_buffer'[k].block_num \in Window' /\ ~Refused(block_buffer[k].block_num)'
               /\ block_buffer'[k].block_num # next_block_to_deliver'
    <3>1. CASE k = j
      BY <1>1, <1>7, <2>1, <2>2, <2>4, <3>1, ZenonT(40)
    <3>2. CASE k # j
      BY <1>7, <2>1, <2>2, <2>5, <3>2, ZenonT(40) DEF Inv, HeldInv
    <3> QED
      BY <3>1, <3>2, ZenonT(40)
  <2>6. ASSUME NEW k \in Buffers, NEW l \in Buffers, Held(k)', Held(l)', k # l
        PROVE  block_buffer'[k].block_num # block_buffer'[l].block_num
    <3>1. CASE k = j
      BY <1>2, <1>7, <2>6, <3>1, ZenonT(40)
    <3>2. CASE l = j
      BY <1>2, <1>7, <2>6, <3>2, ZenonT(40)
    <3>3. CASE k # j /\ l # j
      BY <1>7, <2>6, <3>3, Zenon DEF Inv, HeldInv
    <3> QED
      BY <3>1, <3>2, <3>3, ZenonT(40)
  <2>7. ASSUME NEW k \in Buffers, NEW l \in Slots, Held(k)', Open(l)'
        PROVE  block_buffer'[k].block_num # requests'[l].block_num
    <3>1. CASE k = j
      BY <1>7, <2>3, <2>7, <3>1, ZenonT(40)
    <3>2. CASE k # j
      <4>1. Held(k) /\ Open(l) /\ block_buffer'[k] = block_buffer[k] /\ requests'[l].block_num = requests[l].block_num
        BY <1>7, <1>8, <2>7, <3>2, ZenonT(40)
      <4>2. block_buffer[k].block_num # requests[l].block_num
        BY <4>1, Zenon DEF Inv, HeldInv
      <4> QED
        BY <4>1, <4>2, ZenonT(40)
    <3> QED
      BY <3>1, <3>2, ZenonT(40)
  <2> QED
    BY <2>5, <2>6, <2>7, Zenon DEF HeldInv
<1>13. RoomInv'
  BY <1>5, Zenon DEF Inv, RoomInv, Takes, asking
<1>14. OffsetInv'
  BY <1>5, ZenonT(40) DEF Inv, OffsetInv, Takes, Refused, Least
<1>15. SizeInv'
  <2>1. Finished' <=> Finished
    BY <1>5, Zenon DEF Finished, More, Takes
  <2>2. Blocks(total_size)' = Blocks(total_size') /\ dl' = dl
    BY Zenon DEF Blocks, Takes
  <2>3. ~Finished
    BY <1>1, NotFinished, Zenon DEF b
  <2> QED
    BY <2>1, <2>2, <2>3, ZenonT(40) DEF SizeInv
<1>16. DeliveredInOrder' /\ AlwaysBuffered' /\ CompleteOnSuccess'
  BY <1>5, Zenon DEF Inv, TypeInv, DeliveredInOrder, AlwaysBuffered, CompleteOnSuccess
<1> QED
  BY <1>9, <1>10, <1>11, <1>12, <1>13, <1>14, <1>15, <1>16, ZenonT(40) DEF Inv

\* process_response, when the server does not refuse.
LEMMA ResponseKeeps ==
  ASSUME Inv, NEW m \in net, NEW d \in 0..(Timeout + 1), NEW i \in Matching(m.token),
         receive_data(m, d), process_response(m, i, d)
  PROVE  Inv'
<1> DEFINE known == total_size # 0 \/ ~dl.size2
           size == IF known THEN total_size ELSE dl.len
           blocks == IF known THEN total_blocks ELSE Blocks(dl.len)
<1>1. pc = "receive" /\ i \in Slots /\ Takes(m, i) /\ ~Refused(m.block_num)
  BY ResponseTakes, ZenonT(40) DEF receive_data, process_response, Matching, Inv
<1>2. CASE m.block_num = next_block_to_deliver
  <2>1. size \in {dl.file_size, dl.len} /\ blocks = Blocks(size)
    BY <1>1, <1>2, NextBlock, Zenon
  <2>2. UNCHANGED block_buffer /\ \/ deliver(next_block_to_deliver, size, blocks)
                                  \/ deliver_fails(next_block_to_deliver, size, blocks)
    BY <1>2, ZenonT(40) DEF process_response
  <2> HIDE DEF size, blocks
  <2> QED
    BY <1>1, <1>2, <2>1, <2>2, TakeDelivers, ZenonT(40)
<1>3. CASE m.block_num # next_block_to_deliver
  <2>1. buffer_block(m.block_num) /\ total_size' = size /\ total_blocks' = blocks
    BY <1>3, Zenon DEF process_response
  <2>2. ~Finished
    BY <1>1, TakenBlock, NotFinished, Zenon
  <2>3. size \in {dl.file_size, dl.len} /\ blocks = Blocks(size)
    BY <2>2, ZenonT(40) DEF Inv, SizeInv
  <2> HIDE DEF size, blocks
  <2> QED
    BY <1>1, <1>3, <2>1, <2>3, TakeBuffers, Zenon
<1> QED
  BY <1>2, <1>3, Zenon

\* deliver_buffered_blocks
LEMMA BufferedKeeps ==
  ASSUME Inv, NEW j \in Buffers, deliver_buffered_blocks(j)
  PROVE  Inv'
<1> DEFINE n == next_block_to_deliver
<1>1. pc = "deliver" /\ Held(j) /\ block_buffer[j].block_num = n
  BY Zenon DEF deliver_buffered_blocks, First, NextBuffered, Held
<1>2. n \in Window /\ ~Refused(n)
  BY <1>1, Zenon DEF Inv, HeldInv
<1>3. total_size \in {dl.file_size, dl.len} /\ total_blocks = Blocks(total_size)
  BY <1>1, <1>2, NextBlock, Zenon
<1>4. UNCHANGED <<dl, requests, asking, net>>
  BY Zenon DEF deliver_buffered_blocks
<1>5. \/ /\ deliver(n, total_size, total_blocks)
         /\ block_buffer' = [block_buffer EXCEPT ![j] = [@ EXCEPT !.valid = FALSE]]
      \/ deliver_fails(n, total_size, total_blocks) /\ UNCHANGED block_buffer
  BY <1>1, Zenon DEF deliver_buffered_blocks
<1>6. /\ block_buffer \in [Buffers -> [valid : BOOLEAN, block_num : Nat]]
      /\ requests' \in [Slots -> Request]
      /\ [block_buffer[j] EXCEPT !.valid = FALSE] \in [valid : BOOLEAN, block_num : Nat]
      /\ ~[block_buffer[j] EXCEPT !.valid = FALSE].valid
  BY <1>4, Zenon DEF Inv, TypeInv, TypeOK, Request
<1>7. block_buffer' \in [Buffers -> [valid : BOOLEAN, block_num : Nat]]
  BY <1>5, <1>6, ZenonT(40)
<1>8. Shrinks
  <2>1. \A k \in Slots : /\ requests'[k].token = requests[k].token
                         /\ requests'[k].block_num = requests[k].block_num
                         /\ Open(k)' => Open(k)
                         /\ Open(k)' => requests[k].block_num # n
    BY <1>1, <1>4, ZenonT(40) DEF Open, Inv, HeldInv
  <2>2. CASE deliver_fails(n, total_size, total_blocks) /\ UNCHANGED block_buffer
    BY <1>4, <2>1, <2>2, ZenonT(40) DEF Shrinks, Held, deliver_fails, Return
  <2>3. CASE /\ deliver(n, total_size, total_blocks)
             /\ block_buffer' = [block_buffer EXCEPT ![j] = [@ EXCEPT !.valid = FALSE]]
    <3>1. \A k \in Buffers : Held(k)' => k # j /\ Held(k) /\ block_buffer'[k].block_num = block_buffer[k].block_num
      BY <1>6, <2>3, Zenon DEF Held
    <3>2. \A k \in Buffers : Held(k)' => block_buffer[k].block_num # n
      BY <1>1, <3>1, ZenonT(40) DEF Inv, HeldInv
    <3> QED
      BY <1>2, <1>4, <2>1, <2>3, <3>1, <3>2, ZenonT(40) DEF Shrinks, deliver
  <2> QED
    BY <1>5, <2>2, <2>3, ZenonT(40)
<1>9. TypeInv'
  BY <1>1, <1>2, <1>3, <1>4, <1>5, <1>6, <1>7, DeliverTypes, ZenonT(40)
<1>10. OffsetInv' /\ SizeInv' /\ DeliveredInOrder'
  BY <1>1, <1>2, <1>3, <1>4, <1>5, DeliverKeepsFile, RefuseKeepsFile, ZenonT(40)
<1>11. AlwaysBuffered' /\ CompleteOnSuccess'
  BY <1>1, <1>5, ZenonT(40) DEF AlwaysBuffered, CompleteOnSuccess, deliver, deliver_fails, Return, Inv, TypeInv
<1> QED
  BY <1>8, <1>9, <1>10, <1>11, ShrinkKeeps, ZenonT(40) DEF Inv

-----------------------------------------------------------------------------

\* The invariant holds when the download starts.
LEMMA InitInv == Init => Inv
<1> SUFFICES ASSUME Init PROVE Inv
  BY ZenonT(40)
<1>0. dl.len \in Nat /\ dl.file_size \in Nat /\ BlockSize \in Nat /\ 0 < BlockSize
  BY CoapAssumption, SMTT(30) DEF Init
<1>1. TypeInv
  <2> DEFINE zero == 0
             free == [block_num |-> zero, token |-> zero, retries |-> zero, left |-> zero,
                      in_flight |-> FALSE, completed |-> TRUE]
  <2>1. zero \in Nat /\ zero \in 0..MaxTimeouts /\ zero \in Int
    BY CoapAssumption
  <2>2. requests = [i \in Slots |-> free]
    BY Zenon DEF Init
  <2> HIDE DEF zero
  <2>3. free \in Request
    BY <2>1, Zenon DEF Request
  <2>4. requests \in [Slots -> Request]
    BY <2>2, <2>3, Zenon
  <2>5. total_blocks \in Nat
    BY <1>0, BlocksCover, ZenonT(40) DEF Init
  <2>6. block_buffer \in [Buffers -> [valid : BOOLEAN, block_num : Nat]]
    BY ZenonT(40) DEF Init
  <2>7. block_requests_remaining \in 0..block_requests_max
    BY Limits, SMTT(30) DEF Init
  <2> QED
    BY <1>0, <2>4, <2>5, <2>6, <2>7, SMTT(30) DEF Init, TypeInv, TypeOK, Request
<1>2. \A i \in Slots : ~Open(i) /\ requests[i].token = 0
  BY ZenonT(40) DEF Init, Open
<1>3. \A j \in Buffers : ~Held(j)
  BY ZenonT(40) DEF Init, Held
<1>4. TokenInv /\ OpenInv
  BY <1>2, SMTT(30) DEF Init, TokenInv, OpenInv, Open
<1>5. HeldInv
  BY <1>3, ZenonT(40) DEF HeldInv
<1>6. RoomInv
  BY Limits, SMTT(30) DEF Init, RoomInv
<1>7. OffsetInv
  BY <1>0, SMTT(30) DEF Init, OffsetInv, Least
<1>8. SizeInv
  BY SMTT(30) DEF Init, SizeInv, Finished
<1>9. DeliveredInOrder /\ AlwaysBuffered /\ CompleteOnSuccess
  BY SMTT(30) DEF Init, DeliveredInOrder, AlwaysBuffered, CompleteOnSuccess
<1> QED
  BY <1>1, <1>4, <1>5, <1>6, <1>7, <1>8, <1>9, ZenonT(40) DEF Inv

\* Every step keeps the invariant.
LEMMA NextInv == Inv /\ [Next]_vars => Inv'
<1> SUFFICES ASSUME Inv, [Next]_vars PROVE Inv'
  BY ZenonT(40)
<1>1. CASE QuietStep
  BY <1>1, QuietSteps, QuietKeeps, QuietKeepsFile, QuietKeepsSuccess, ZenonT(40) DEF Inv
<1>2. ASSUME NEW i \in Slots, handle_request_timeout(i) PROVE Inv'
  <2>1. requests[i].block_num \in Nat /\ TypeInv
    BY Zenon DEF Inv, TypeInv, TypeOK
  <2> QED
    BY <1>2, <2>1, ResendAsks, AskKeeps, AskKeepsFile, ZenonT(40) DEF Inv
<1>3. ASSUME NEW i \in Slots, queue_request(i) PROVE Inv'
  <2>1. next_block_to_request \in Nat /\ TypeInv
    BY Zenon DEF Inv, TypeInv, TypeOK
  <2> QED
    BY <1>3, <2>1, RequestAsks, AskKeeps, AskKeepsFile, ZenonT(40) DEF Inv
<1>4. ASSUME NEW d \in 0..(Timeout + 1), NEW m \in net, receive_data(m, d) PROVE Inv'
  <2>1. CASE process_unknown(m, d) \/ process_refusal(m)
    BY <1>1, <1>4, <2>1, Zenon DEF QuietStep
  <2>2. ASSUME NEW i \in Matching(m.token), process_response(m, i, d) PROVE Inv'
    BY <1>4, <2>2, ResponseKeeps, ZenonT(40)
  <2> QED
    BY <1>4, <2>1, <2>2, ZenonT(40) DEF receive_data
<1>5. ASSUME NEW j \in Buffers, deliver_buffered_blocks(j) PROVE Inv'
  BY <1>5, BufferedKeeps, ZenonT(40)
<1> QED
  BY <1>1, <1>2, <1>3, <1>4, <1>5, ZenonT(40) DEF Next, infuse_coap_download, QuietStep, Done

\* process_response and deliver_buffered_blocks: whatever the network loses,
\* doubles, delays or reorders, the callback is given every block once, in order
\* and at its own offset.
THEOREM AlwaysInOrder == Spec => []DeliveredInOrder
<1>1. Inv => DeliveredInOrder
  BY ZenonT(40) DEF Inv
<1> QED
  BY <1>1, InitInv, NextInv, PTL DEF Spec

\* buffer_block: with one request more than there are buffers, limited by the
\* slots, a block that arrives early always finds a free buffer.
THEOREM NeverOutOfBuffers == Spec => []AlwaysBuffered
<1>1. Inv => AlwaysBuffered
  BY Zenon DEF Inv
<1> QED
  BY <1>1, InitInv, NextInv, PTL DEF Spec

\* infuse_coap_download: a download that succeeds has given the whole file to the
\* callback and returns its size, for files of any length, whether or not the
\* caller or the server stated it, unless the caller stated less.
THEOREM SuccessIsComplete == Spec => []CompleteOnSuccess
<1>1. Inv => CompleteOnSuccess
  BY Zenon DEF Inv
<1> QED
  BY <1>1, InitInv, NextInv, PTL DEF Spec

=============================================================================
