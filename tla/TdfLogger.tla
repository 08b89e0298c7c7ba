----------------------------- MODULE TdfLogger ------------------------------
(***************************************************************************)
(* The TDF data logger (subsys/data_logger/high_level/tdf_data_logger.c)   *)
(* over the ePacket backend (backends/epacket.c): threads log samples into *)
(* one RAM buffer and flush it as blocks, while the interface underneath   *)
(* comes, goes and changes its payload size, and the device reboots.  The  *)
(* buffer is in RAM that survives a warm reboot.                           *)
(*                                                                         *)
(* The semaphore data->lock serialises everything but three things: the    *)
(* length check at the head of a flush, the size check at the head of a    *)
(* log call, and the backend's own block_size, which the interface         *)
(* callback changes before it waits for the lock.  A step is what a thread *)
(* does between two of these, one round of the relog loop, or one half of  *)
(* flush_internal (the block handed to the backend; the buffer reset).     *)
(*                                                                         *)
(* Not here: tdf_remote loggers, and backends with a block header or full  *)
(* block writes (their block size never changes).                          *)
(***************************************************************************)
EXTENDS Tdf

CONSTANTS
  Loggers,        \* threads that log
  Flushers,       \* threads that flush
  Iface,          \* the thread the interface calls its state callbacks from
  NoThread,       \* holder of a free lock
  Requests,       \* what a log call may ask for (requests of Tdf, without data)
  MaxSize,        \* tdf_buffer_max_size
  PayloadSizes,   \* payload sizes the interface may report, 0 when it is down
  MaxCalls,       \* bound: log calls
  MaxChanges,     \* bound: interface state changes
  MaxReboots      \* bound: reboots

ASSUME SizesAssumption ==
  /\ MaxSize \in Nat /\ 0 < MaxSize /\ MaxSize < UINT16_COUNT
  /\ \A size \in PayloadSizes : size \in Nat /\ size < UINT16_COUNT

ASSUME ThreadsAssumption ==
  /\ Iface \notin Loggers \cup Flushers
  /\ NoThread \notin Loggers \cup Flushers \cup {Iface}

VARIABLES
  buf,         \* data->tdf_state
  lock,        \* holder of data->lock, or NoThread
  block_size,  \* the data logger's block_size, 0 when disconnected
  th,          \* per thread: pc, the request being logged, the TDFs still to
               \* be parsed again, the length they had in all, the parser's
               \* time, where to go after a flush and its return code
  calls, changes, reboots,   \* counters of the bounds
  logged,      \* history: every sample logged, as a reader should see it
  delivered,   \* history: the samples of the blocks the backend took
  lost         \* history: samples given up on (numbers)

shared == <<buf, lock, block_size>>
budget == <<calls, changes, reboots>>
history == <<logged, delivered, lost>>
vars == <<shared, th, budget, history>>

Threads == Loggers \cup Flushers \cup {Iface}
NoRequest == [len |-> 1, num |-> 0, format |-> "SINGLE", pre |-> FALSE, time |-> 0,
              idx_period |-> 0, valid |-> << >>, data |-> << >>]
Idle == [pc |-> "idle", req |-> NoRequest, snap |-> << >>, end |-> 0, time |-> 0,
         ret |-> "none", rc |-> 0]

Numbers(samples) == {samples[k].sample : k \in 1 .. Len(samples)}
DataOf(r) == {r.data[k] : k \in 1 .. Len(r.data)}
Ahead(tdfs) == UNION {DataOf(tdfs[k]) : k \in 1 .. Len(tdfs)}

\* What is in the buffer and not yet handed to the backend, and what the lock
\* holder has still to put there.
Pending ==
  IF lock # NoThread /\ th[lock].pc = "reset" THEN << >> ELSE ParseFrom(buf.tdfs).samples
InHand ==
  IF lock = NoThread THEN {} ELSE DataOf(th[lock].req) \cup Ahead(th[lock].snap)

-----------------------------------------------------------------------------
\* data_logger_block_write down to logger_epacket_write: a block larger than the
\* block size is refused; the backend may fail one that is not.
data_logger_block_write(len) ==
  IF len > block_size THEN {IF block_size = 0 THEN "ENOTCONN" ELSE "EINVAL"}
  ELSE {"OK", "EIO"}

\* Thread t is done with a request: a block size change goes on parsing, a log
\* call gives the lock back.
Finish(t) ==
  IF t = Iface
  THEN /\ th' = [th EXCEPT ![t].pc = "parse", ![t].req = NoRequest]
       /\ UNCHANGED lock
  ELSE /\ th' = [th EXCEPT ![t] = Idle]
       /\ lock' = NoThread

\* tdf_data_logger_log_core_dev, up to the lock.
tdf_data_logger_log_core_dev(t, r) ==
  /\ th[t].pc = "idle" /\ calls < MaxCalls
  /\ buf.size # 0
  /\ th' = [th EXCEPT ![t].pc = "log", ![t].req = r]
  /\ calls' = calls + 1
  /\ UNCHANGED <<shared, changes, reboots, history>>

\* The lock is taken: from here the call's samples have their place in the order.
LogLock(t) ==
  /\ th[t].pc = "log" /\ lock = NoThread
  /\ LET n == Len(logged)
         r == [th[t].req EXCEPT !.data = [k \in 1 .. th[t].req.num |-> n + k]]
     IN /\ th' = [th EXCEPT ![t].pc = "relog", ![t].req = r]
        /\ logged' = logged \o Samples(r)
  /\ lock' = t
  /\ UNCHANGED <<buf, block_size, budget, delivered, lost>>

\* Mutant: the remainder of a split array keeps the time of its first sample.
Remainder_same_time(r, rc) ==
  [r EXCEPT !.num = @ - rc,
            !.data = SubSeq(@, rc + 1, Len(@)),
            !.valid = SubSeq(@, rc + 1, Len(@)),
            !.idx_period = IF r.format = "IDX_ARRAY" THEN @ + rc ELSE @,
            !.time = IF r.format = "IDX_ARRAY" THEN 0 ELSE @]

\* log_locked after rc of the request's samples were added: what is left of it.
Remainder(r, rc) ==
  [r EXCEPT !.num = @ - rc,
            !.data = SubSeq(@, rc + 1, Len(@)),
            !.valid = SubSeq(@, rc + 1, Len(@)),
            !.idx_period = IF r.format = "IDX_ARRAY" THEN @ + rc ELSE @,
            !.time = IF r.format = "IDX_ARRAY" THEN 0 ELSE @ + r.idx_period * rc]

\* One round of log_locked: add, then go round again with the remainder, flush
\* and go round again, give up, or finish with a flush of a full buffer.
log_locked(t) ==
  /\ th[t].pc = "relog"
  /\ UNCHANGED <<block_size, budget, logged, delivered>>
  /\ \E add \in {tdf_add_core(buf, th[t].req)} :
       LET r == th[t].req
           rest == Remainder(r, add.rc)
           again == add.rc # r.num /\ ~r.pre
       IN /\ buf' = add.buf
          /\ \/ /\ add.rc = ENOMEM
                /\ th' = IF buf.len = 0 THEN th
                         ELSE [th EXCEPT ![t].pc = "write", ![t].ret = "relog"]
                /\ UNCHANGED <<lock, lost>>
             \/ /\ add.rc < 0 /\ add.rc # ENOMEM
                /\ Finish(t)
                /\ lost' = lost \cup DataOf(r)
             \/ /\ add.rc > 0 /\ again
                /\ th' = [th EXCEPT ![t].req = rest]
                /\ UNCHANGED <<lock, lost>>
             \/ /\ add.rc > 0 /\ ~again
                /\ lost' = lost \cup DataOf(rest)
                /\ IF tailroom(add.buf) < 4
                   THEN /\ th' = [th EXCEPT ![t].pc = "write", ![t].ret = "done",
                                            ![t].req = NoRequest]
                        /\ UNCHANGED lock
                   ELSE Finish(t)

-----------------------------------------------------------------------------
\* tdf_data_logger_flush_dev: the length is checked before the lock is taken.
tdf_data_logger_flush_dev(t) ==
  /\ th[t].pc = "idle" /\ buf.len # 0
  /\ th' = [th EXCEPT ![t].pc = "flush"]
  /\ UNCHANGED <<shared, budget, history>>

FlushLock(t) ==
  /\ th[t].pc = "flush" /\ lock = NoThread
  /\ lock' = t
  /\ th' = [th EXCEPT ![t].pc = "write", ![t].ret = "done"]
  /\ UNCHANGED <<buf, block_size, budget, history>>

\* flush_internal, first half: the block is handed to the data logger.
FlushWrite(t) ==
  LET samples == ParseFrom(buf.tdfs).samples
  IN /\ th[t].pc = "write"
     /\ \E rc \in data_logger_block_write(buf.len) :
          /\ th' = [th EXCEPT ![t].pc = "reset", ![t].rc = IF rc = "OK" THEN 0 ELSE -1]
          /\ delivered' = IF rc = "OK" THEN delivered \o samples ELSE delivered
          /\ lost' = IF rc = "OK" THEN lost ELSE lost \cup Numbers(samples)
     /\ UNCHANGED <<shared, budget, logged>>

\* flush_internal, second half: the buffer is reset, whatever the write returned;
\* a failed flush ends the log call that needed the room.
FlushReset(t) ==
  /\ th[t].pc = "reset"
  /\ buf' = tdf_buffer_state_reset(buf)
  /\ UNCHANGED <<block_size, budget, logged, delivered>>
  /\ IF th[t].ret = "relog" /\ th[t].rc = 0
     THEN /\ th' = [th EXCEPT ![t].pc = "relog", ![t].ret = "none"]
          /\ UNCHANGED <<lock, lost>>
     ELSE /\ Finish(t)
          /\ lost' = lost \cup DataOf(th[t].req)

-----------------------------------------------------------------------------
\* data_logger_common_block_size_changed: the interface reports a new payload
\* size, which the data logger applies at once ...
data_logger_common_block_size_changed(size) ==
  /\ th[Iface].pc = "idle" /\ changes < MaxChanges /\ size # block_size
  /\ block_size' = size
  /\ th' = [th EXCEPT ![Iface].pc = "update"]
  /\ changes' = changes + 1
  /\ UNCHANGED <<buf, lock, calls, reboots, history>>

\* Mutant: the size is not reduced while the pending data still fits.
tdf_block_size_update_lazy ==
  LET limited == AtMost(block_size, MaxSize)
  IN /\ th[Iface].pc = "update" /\ lock = NoThread
     /\ IF block_size = 0 \/ buf.len <= limited
        THEN /\ buf' = [buf EXCEPT !.size = IF block_size = 0 THEN MaxSize ELSE @]
             /\ th' = [th EXCEPT ![Iface] = Idle]
             /\ UNCHANGED lock
        ELSE /\ buf' = tdf_buffer_state_reset([buf EXCEPT !.size = limited])
             /\ th' = [th EXCEPT ![Iface].pc = "parse", ![Iface].snap = buf.tdfs,
                                 ![Iface].end = buf.len, ![Iface].time = 0]
             /\ lock' = Iface
     /\ UNCHANGED <<block_size, budget, history>>

\* Mutant: the pending data is logged again behind itself (no reset).
tdf_block_size_update_append ==
  LET limited == AtMost(block_size, MaxSize)
  IN /\ th[Iface].pc = "update" /\ lock = NoThread
     /\ IF block_size = 0 \/ buf.len <= limited
        THEN /\ buf' = [buf EXCEPT !.size = IF block_size = 0 THEN MaxSize ELSE limited]
             /\ th' = [th EXCEPT ![Iface] = Idle]
             /\ UNCHANGED lock
        ELSE /\ buf' = [buf EXCEPT !.size = limited]
             /\ th' = [th EXCEPT ![Iface].pc = "parse", ![Iface].snap = buf.tdfs,
                                 ![Iface].end = buf.len, ![Iface].time = 0]
             /\ lock' = Iface
     /\ UNCHANGED <<block_size, budget, history>>

\* ... and the TDF logger once it has the lock (tdf_block_size_update).  Pending
\* data that no longer fits is parsed and logged again into the same buffer.
tdf_block_size_update ==
  LET limited == AtMost(block_size, MaxSize)
  IN /\ th[Iface].pc = "update" /\ lock = NoThread
     /\ IF block_size = 0 \/ buf.len <= limited
        THEN /\ buf' = [buf EXCEPT !.size = IF block_size = 0 THEN MaxSize ELSE limited]
             /\ th' = [th EXCEPT ![Iface] = Idle]
             /\ UNCHANGED lock
        ELSE /\ buf' = tdf_buffer_state_reset([buf EXCEPT !.size = limited])
             /\ th' = [th EXCEPT ![Iface].pc = "parse", ![Iface].snap = buf.tdfs,
                                 ![Iface].end = buf.len, ![Iface].time = 0]
             /\ lock' = Iface
     /\ UNCHANGED <<block_size, budget, history>>

\* The loop of tdf_block_size_update: the next TDF, until there is none.
RelogNext ==
  LET t == th[Iface]
      time == ParsedTime(Head(t.snap), t.time)
  IN /\ t.pc = "parse"
     /\ IF t.snap = << >> \/ time = -1
        THEN /\ th' = [th EXCEPT ![Iface] = Idle]
             /\ lock' = NoThread
             /\ lost' = lost \cup Ahead(t.snap)
        ELSE /\ th' = [th EXCEPT ![Iface].pc = "relog", ![Iface].snap = Tail(@),
                                 ![Iface].time = time,
                                 ![Iface].req = tdf_parse(Head(t.snap), t.time)]
             /\ UNCHANGED <<lock, lost>>
     /\ UNCHANGED <<buf, block_size, budget, logged, delivered>>

-----------------------------------------------------------------------------
\* Mutant: the state of the lock is not checked.
tdf_data_logger_valid_data_on_buffer_locked ==
  /\ buf.len # 0
  /\ ParseFrom(buf.tdfs).ok
  /\ ParseFrom(buf.tdfs).last = buf.time

\* tdf_data_logger_valid_data_on_buffer, for a buffer whose guards and
\* configuration survived.
tdf_data_logger_valid_data_on_buffer ==
  /\ buf.len # 0
  /\ lock = NoThread
  /\ ParseFrom(buf.tdfs).ok
  /\ ParseFrom(buf.tdfs).last = buf.time

\* A reboot at any moment, then tdf_data_logger_init: the threads are gone and
\* the interface is down; RAM is as it was (warm) or not (the guards do not
\* match).  The buffer is kept when it passes the checks.
Reboot(warm) ==
  LET recovered == warm /\ tdf_data_logger_valid_data_on_buffer
  IN /\ reboots < MaxReboots
     /\ reboots' = reboots + 1
     /\ th' = [t \in Threads |-> Idle]
     /\ lock' = NoThread
     /\ block_size' = 0
     /\ buf' = [IF recovered THEN buf ELSE tdf_buffer_state_reset(buf) EXCEPT !.size = MaxSize]
     /\ lost' = lost \cup InHand \cup (IF recovered THEN {} ELSE Numbers(Pending))
     /\ UNCHANGED <<calls, changes, logged, delivered>>

-----------------------------------------------------------------------------
Init ==
  /\ buf = [size |-> MaxSize, len |-> 0, time |-> 0, tdfs |-> << >>]
  /\ lock = NoThread
  /\ block_size = 0
  /\ th = [t \in Threads |-> Idle]
  /\ calls = 0 /\ changes = 0 /\ reboots = 0
  /\ logged = << >> /\ delivered = << >> /\ lost = {}

Holding(t) ==
  \/ log_locked(t)
  \/ FlushWrite(t)
  \/ FlushReset(t)

ThreadStep(t) ==
  \/ LogLock(t)
  \/ FlushLock(t)
  \/ Holding(t)

IfaceStep ==
  \/ tdf_block_size_update
  \/ RelogNext
  \/ Holding(Iface)

Next ==
  \/ \E t \in Loggers : \E r \in Requests : tdf_data_logger_log_core_dev(t, r)
  \/ \E t \in Flushers : tdf_data_logger_flush_dev(t)
  \/ \E t \in Loggers \cup Flushers : ThreadStep(t)
  \/ \E size \in PayloadSizes : data_logger_common_block_size_changed(size)
  \/ IfaceStep
  \/ \E warm \in BOOLEAN : Reboot(warm)

Spec == Init /\ [][Next]_vars

-----------------------------------------------------------------------------
\* The buffer never outgrows its block: its length is at most the current block
\* size, whatever was logged, split, flushed, logged again after a size change or
\* recovered (tdf_add_core, tdf_block_size_update).
BufferFits == buf.len <= buf.size /\ buf.size <= MaxSize

\* Every sample logged is, once and in the order of logging, in a block the
\* backend took, in the buffer, or in the hands of the lock holder, unless it was
\* given up on; no reboot brings a delivered sample back (the lock check of
\* tdf_data_logger_valid_data_on_buffer).
LoggedOnce ==
  LET seq == delivered \o Pending
  IN /\ \A i, j \in 1 .. Len(seq) : i < j => seq[i].sample < seq[j].sample
     /\ \A i \in 1 .. Len(seq) : \A n \in InHand : seq[i].sample < n
     /\ Numbers(seq) \cup InHand = (1 .. Len(logged)) \ lost

\* A reader of the blocks, or of the buffer, sees each sample with the time and
\* the index it was logged with, although splitting an array over blocks, a new
\* block and logging again all change how they are encoded (log_locked,
\* tdf_add_header, tdf_time_flags_consume).
ReadBackAsLogged ==
  LET seq == delivered \o Pending
  IN \A i \in 1 .. Len(seq) : seq[i].sample # 0 /\
       seq[i] = [logged[seq[i].sample] EXCEPT !.sample = seq[i].sample]

\* The data logger refuses a block for its size only while the block size change
\* that made it too large is waiting for the lock (flush_internal against
\* data_logger_common_block_size_changed).
OversizeOnlyInWindow ==
  \A t \in Threads : th[t].pc = "write" /\ block_size # 0 /\ buf.len > block_size
                       => th[Iface].pc = "update"

\* Bytes of encoded TDFs.
TdfSize(tdf) ==
  SIZEOF_TDF_HEADER
  + (CASE tdf.ts = "NONE" -> 0 [] tdf.ts = "RELATIVE" -> 2
       [] tdf.ts = "EXTENDED_RELATIVE" -> 3 [] tdf.ts = "ABSOLUTE" -> SIZEOF_TDF_TIME)
  + (IF tdf.array = "NONE" THEN 0 ELSE SIZEOF_ARRAY_HEADER)
  + DataSize(tdf, tdf.array = "DIFF", Len(tdf.data))

SizeOf(tdfs) ==
  LET sum[n \in 0 .. Len(tdfs)] == IF n = 0 THEN 0 ELSE sum[n - 1] + TdfSize(tdfs[n])
  IN sum[Len(tdfs)]

\* Logging again into the buffer that is being parsed never overwrites what is
\* still to be read from it (the loop of tdf_block_size_update): the write position
\* stays at or before the next sample to be read.
RelogBehindReader ==
  LET t == th[Iface]
  IN t.pc \in {"parse", "relog", "write", "reset"} =>
       buf.len <= t.end - SizeOf(t.snap) - DataSize(t.req, t.req.pre, t.req.num)

\* A round of the relog loop that finds no room in an empty buffer, and so will find
\* none for ever with the lock held, has in hand an index array of which one sample
\* is larger than the buffer with its array header, but not without: the header that
\* the -ENOSPC check of tdf_add_core leaves out.  In every other case the round has
\* something to flush, and the loop ends (log_locked, flush_internal).
RelogProgress ==
  \A t \in Threads :
    LET r == th[t].req
        stamp == IF r.time # 0 THEN SIZEOF_TDF_TIME ELSE 0
    IN th[t].pc = "relog" /\ buf.len = 0 /\ tdf_add_core(buf, r).rc = ENOMEM
         => /\ r.format = "IDX_ARRAY"
            /\ SIZEOF_TDF_HEADER + stamp + SIZEOF_ARRAY_HEADER + r.len > buf.size

=============================================================================
