----------------------------- MODULE DataLogger -----------------------------
(***************************************************************************)
(* The common data logger on its flash map backend: a circular log of      *)
(* blocks on NOR flash, shared by the threads that log blocks, the commit  *)
(* thread that writes them, a thread that reads blocks back, and a thread  *)
(* that erases the whole logger.  A reboot may happen between any two      *)
(* steps and in the middle of a flash operation; initialisation then       *)
(* rebuilds current_block and earliest_block from the block headers.       *)
(*                                                                         *)
(* A block is known by its logical number: the payload written for logical *)
(* block b is "the data of b".  A physical block holds the wrap byte of    *)
(* its header and the logical number of the data it carries.               *)
(***************************************************************************)
EXTENDS Integers, Sequences, FiniteSets

CONSTANTS
  EraseBlocks,     \* blocks per erase unit: erase_size / block_size
  EraseUnits,      \* erase units on the device
  MaxWraps,        \* DATA_LOGGER_FLASH_MAP_MAX_WRAPS (254 in the code)
  ResetUnits,      \* erase units cleared per step of the backend's reset
  QueueLen,        \* CONFIG_DATA_LOGGER_OFFLOAD_MAX_PENDING
  RamBlocks,       \* blocks that fit on the extra RAM buffer, 0 for none
  MaxCallers,      \* bound: threads inside data_logger_block_write or _flush
  MaxFaults,       \* bound: backend calls that return an error
  MaxReboots,      \* bound: reboots of a logger that initialised
  MaxReadLen,      \* bound: blocks covered by one read
  EraseHazards     \* what data_logger_erase has to put up with

ASSUME GeometryAssumption ==
  /\ EraseBlocks \in Nat \ {0}
  /\ EraseUnits \in Nat \ {0, 1}
  /\ MaxWraps \in Nat \ {0}
  /\ ResetUnits \in Nat \ {0}

\* "concurrent": it may start while blocks are pending or being written;
\* "interrupted": it may fail or be cut short by a reboot.
ASSUME BoundsAssumption ==
  /\ QueueLen \in Nat \ {0}
  /\ RamBlocks \in Nat
  /\ MaxCallers \in Nat
  /\ MaxFaults \in Nat
  /\ MaxReboots \in Nat
  /\ MaxReadLen \in Nat
  /\ EraseHazards \subseteq {"concurrent", "interrupted"}

-----------------------------------------------------------------------------
physical_blocks == EraseBlocks * EraseUnits
logical_blocks == physical_blocks * MaxWraps
Phy == 0 .. physical_blocks - 1

\* The header stores the wrap count in one byte.  0xFF is the value of erased
\* flash, so a byte has MaxWraps + 2 values: 0x00, the wraps, and 0xFF.
WrapErased == MaxWraps + 1
Byte(n) == n % (MaxWraps + 2)
LooksErased(wrap) == wrap \in {0, WrapErased}
NoBlock == -1

Erased == [wrap |-> WrapErased, lb |-> NoBlock]
Cell(b) == [wrap |-> Byte((b \div physical_blocks) + 1), lb |-> b]

VARIABLES
  flash,          \* physical block -> header wrap byte and payload
  current_block,
  earliest_block,
  callers,        \* requests past their checks, waiting for a queue buffer
  fifo,           \* block_commit_fifo
  ram,            \* blocks pending in the RAM buffer
  ct,             \* commit thread, inside do_block_write
  er,             \* thread inside data_logger_erase
  rd,             \* thread inside data_logger_block_read
  boot,           \* progress of data_logger_common_init
  faults,         \* errors returned so far
  reboots         \* reboots so far

queue == <<callers, fifo, ram>>
counters == <<current_block, earliest_block>>
vars == <<flash, counters, queue, ct, er, rd, boot, faults, reboots>>

Requests == {"block", "flush"}

CtIdle == [pc |-> "idle", todo |-> 0, phy |-> 0, lb |-> 0, buf |-> 0]
ErIdle == [pc |-> "idle", off |-> 0, end |-> 0]
RdIdle == [pc |-> "idle", first |-> 0, last |-> 0, phy |-> 0, low |-> 0]
BootPc(pc) == [pc |-> pc, low |-> 0, high |-> 0, res |-> 0, counter |-> 0,
               left |-> 0]

\* A device whose partition has never been written, initialised and running.
Init ==
  /\ flash = [p \in Phy |-> Erased]
  /\ current_block = 0
  /\ earliest_block = 0
  /\ callers = [r \in Requests |-> 0]
  /\ fifo = <<>>
  /\ ram = 0
  /\ ct = CtIdle
  /\ er = ErIdle
  /\ rd = RdIdle
  /\ boot = BootPc("run")
  /\ faults = 0
  /\ reboots = 0

Up == boot.pc = "run"

\* DATA_LOGGER_FLAGS_ERASING is set while a thread is inside data_logger_erase.
erasing == er.pc # "idle"

\* A backend or power management call returns an error, or it does not.
Fault == faults < MaxFaults /\ faults' = faults + 1
NoFault == UNCHANGED faults

EraseRange(f, from, to) ==
  [p \in Phy |-> IF p \in from .. to - 1 THEN Erased ELSE f[p]]

\* NOR flash clears bits only: programming an erased block stores it, any
\* other block is left with neither the old nor the new data.  A wrap byte of
\* 0xFF takes any value.
Program(f, p, b) ==
  IF f[p] = Erased
  THEN {[f EXCEPT ![p] = Cell(b)]}
  ELSE {[f EXCEPT ![p] = [wrap |-> w, lb |-> NoBlock]] :
          w \in IF f[p].wrap \in {Cell(b).wrap, WrapErased} THEN {Cell(b).wrap}
                ELSE {v \in 0 .. MaxWraps : v <= f[p].wrap /\ v <= Cell(b).wrap}}

-----------------------------------------------------------------------------
(***************************************************************************)
(* Threads that log blocks.  A request that is rejected (logger full) or   *)
(* dropped (logger erasing) changes nothing and has no action.             *)
(***************************************************************************)
CallerEnters(r) ==
  /\ callers["block"] + callers["flush"] < MaxCallers
  /\ callers' = [callers EXCEPT ![r] = @ + 1]
  /\ UNCHANGED <<flash, counters, fifo, ram, ct, er, rd, boot,
                 faults, reboots>>

\* Mutant: no check for space.
data_logger_block_write_unchecked == Up /\ ~erasing /\ CallerEnters("block")

\* data_logger_block_write, up to the wait for a queue buffer.
data_logger_block_write ==
  /\ Up
  /\ current_block < logical_blocks
  /\ ~erasing
  /\ CallerEnters("block")

\* data_logger_flush, up to the wait for a queue buffer.
data_logger_flush ==
  /\ Up
  /\ RamBlocks > 0
  /\ CallerEnters("flush")

\* The pool hands out a buffer and the request joins the commit queue.  The
\* buffer the commit thread works on is still taken from the pool.
QueuePut(r) ==
  /\ callers[r] > 0
  /\ Len(fifo) + ct.buf < QueueLen
  /\ callers' = [callers EXCEPT ![r] = @ - 1]
  /\ fifo' = Append(fifo, r)
  /\ UNCHANGED <<flash, counters, ram, ct, er, rd, boot, faults,
                 reboots>>

-----------------------------------------------------------------------------
(***************************************************************************)
(* The commit thread.                                                      *)
(***************************************************************************)
\* Write n blocks one after the other, holding buf queue buffers.
WriteBlocks(n, buf) ==
  ct' = IF n = 0 THEN CtIdle
        ELSE [CtIdle EXCEPT !.pc = "start", !.todo = n, !.buf = buf]

\* logger_commit_thread_fn takes the next request.  A flush writes the blocks
\* of the RAM buffer; a block is added to the RAM buffer while it fits, else
\* the RAM buffer is flushed and the block follows it.
logger_commit_thread_fn ==
  /\ Up
  /\ ct.pc = "idle"
  /\ fifo # <<>>
  /\ fifo' = Tail(fifo)
  /\ \/ /\ Head(fifo) = "flush"
        /\ WriteBlocks(ram, 0)
        /\ ram' = 0
     \/ /\ Head(fifo) = "block"
        /\ ram < RamBlocks
        /\ ram' = ram + 1
        /\ UNCHANGED ct
     \/ /\ Head(fifo) = "block"
        /\ ram >= RamBlocks
        /\ WriteBlocks(ram + 1, 1)
        /\ ram' = 0
  /\ UNCHANGED <<flash, counters, callers, er, rd, boot, faults,
                 reboots>>

\* do_block_write returns, successfully or not: on to the next block.
BlockDone ==
  ct' = IF ct.todo = 1 THEN CtIdle
        ELSE [ct EXCEPT !.pc = "start", !.todo = @ - 1]

\* Mutant: the block that starts the second lap is not erased for.
NeedsErase_off_by_one ==
  current_block > physical_blocks /\ current_block % EraseBlocks = 0

NeedsErase ==
  current_block >= physical_blocks /\ current_block % EraseBlocks = 0

\* Mutant: earliest_block is not advanced before the erase.
do_block_write_start_keeps_earliest ==
  /\ ct.pc = "start"
  /\ ct' = [ct EXCEPT !.pc = IF NeedsErase THEN "erase" ELSE "write",
                      !.phy = current_block % physical_blocks,
                      !.lb = current_block]
  /\ UNCHANGED <<flash, counters, queue, er, rd, boot, faults, reboots>>

\* Mutant: wait for space instead of running past the end.
do_block_write_start_waits ==
  /\ current_block < logical_blocks
  /\ do_block_write_start_keeps_earliest

\* The backend is powered up, and the next erase unit given up if it has to be
\* erased first.
do_block_write_start ==
  /\ ct.pc = "start"
  /\ \/ /\ Fault
        /\ BlockDone
        /\ UNCHANGED earliest_block
     \/ /\ NoFault
        /\ NeedsErase
        /\ earliest_block' = earliest_block + EraseBlocks
        /\ ct' = [ct EXCEPT !.pc = "erase",
                            !.phy = current_block % physical_blocks]
     \/ /\ NoFault
        /\ ~NeedsErase
        /\ ct' = [ct EXCEPT !.pc = "write", !.lb = current_block,
                            !.phy = current_block % physical_blocks]
        /\ UNCHANGED earliest_block
  /\ UNCHANGED <<flash, current_block, queue, er, rd, boot, reboots>>

\* Mutant: one block too many is erased.
do_block_write_erase_too_much ==
  /\ ct.pc = "erase"
  /\ flash' = EraseRange(flash, ct.phy, ct.phy + EraseBlocks + 1)
  /\ ct' = [ct EXCEPT !.pc = "write", !.lb = current_block]
  /\ UNCHANGED <<counters, queue, er, rd, boot, faults, reboots>>

\* The erase unit is erased and the block header filled in, or the erase fails
\* and earliest_block is restored.
do_block_write_erase ==
  /\ ct.pc = "erase"
  /\ \/ /\ NoFault
        /\ flash' = EraseRange(flash, ct.phy, ct.phy + EraseBlocks)
        /\ ct' = [ct EXCEPT !.pc = "write", !.lb = current_block]
        /\ UNCHANGED earliest_block
     \/ /\ Fault
        /\ earliest_block' = earliest_block - EraseBlocks
        /\ BlockDone
        /\ UNCHANGED flash
  /\ UNCHANGED <<current_block, queue, er, rd, boot, reboots>>

\* The backend programs the block, or fails to.
do_block_write_program ==
  /\ ct.pc = "write"
  /\ \/ /\ NoFault
        /\ flash' \in Program(flash, ct.phy, ct.lb)
        /\ ct' = [ct EXCEPT !.pc = "written"]
     \/ /\ Fault
        /\ BlockDone
        /\ UNCHANGED flash
  /\ UNCHANGED <<counters, queue, er, rd, boot, reboots>>

\* The block counts as logged.
do_block_write_done ==
  /\ ct.pc = "written"
  /\ current_block' = current_block + 1
  /\ BlockDone
  /\ UNCHANGED <<flash, earliest_block, queue, er, rd, boot, faults,
                 reboots>>

-----------------------------------------------------------------------------
(***************************************************************************)
(* Reading blocks back.                                                    *)
(***************************************************************************)
\* data_logger_block_read checks that blocks first .. last exist.  The field
\* low remembers earliest_block at that moment, for ReadSound only.
data_logger_block_read(first, last) ==
  /\ Up
  /\ rd.pc = "idle"
  /\ ~erasing
  /\ first >= earliest_block /\ last < current_block
  /\ rd' = [pc |-> "read", first |-> first, last |-> last,
            phy |-> first % physical_blocks, low |-> earliest_block]
  /\ UNCHANGED <<flash, counters, queue, ct, er, boot, faults,
                 reboots>>

\* Does the read run past the last physical block?  If so one backend read
\* stops there and a second one starts at physical block 0.
ReadWraps == rd.last % physical_blocks < rd.first % physical_blocks
ReadCount ==
  IF rd.pc = "read" /\ ReadWraps THEN physical_blocks - rd.phy
                                 ELSE rd.last - rd.first + 1

\* Mutant: the second read continues behind the first.
backend_read_no_restart ==
  /\ rd.pc # "idle"
  /\ rd' = IF rd.pc = "read" /\ ReadWraps
           THEN [rd EXCEPT !.pc = "second", !.first = @ + ReadCount]
           ELSE RdIdle
  /\ UNCHANGED <<flash, counters, queue, ct, er, boot, faults, reboots>>

\* One call of the backend's read.
backend_read ==
  /\ rd.pc # "idle"
  /\ \/ /\ NoFault
        /\ rd' = IF rd.pc = "read" /\ ReadWraps
                 THEN [rd EXCEPT !.pc = "second", !.phy = 0,
                                 !.first = @ + ReadCount]
                 ELSE RdIdle
     \/ /\ Fault
        /\ rd' = RdIdle
  /\ UNCHANGED <<flash, counters, queue, ct, er, boot, reboots>>

-----------------------------------------------------------------------------
(***************************************************************************)
(* Erasing the logger.                                                     *)
(***************************************************************************)
Quiesced ==
  ct.pc = "idle" /\ fifo = <<>> /\ ram = 0 /\ \A r \in Requests : callers[r] = 0

RoundUp(n, m) == ((n + m - 1) \div m) * m

\* data_logger_erase, up to the call of the backend's reset.
data_logger_erase(erase_all) ==
  /\ Up
  /\ er.pc = "idle"
  /\ "concurrent" \in EraseHazards \/ Quiesced
  /\ er' = [pc |-> "reset", off |-> 0,
            end |-> RoundUp(IF erase_all \/ current_block > physical_blocks
                            THEN physical_blocks ELSE current_block,
                            EraseBlocks)]
  /\ UNCHANGED <<flash, counters, queue, ct, rd, boot, faults, reboots>>

\* The next chunk of logger_flash_map_reset.
ResetEnd ==
  IF er.off + ResetUnits * EraseBlocks < er.end
  THEN er.off + ResetUnits * EraseBlocks ELSE er.end

logger_flash_map_reset ==
  /\ er.pc = "reset"
  /\ er.off < er.end
  /\ \/ /\ NoFault
        /\ flash' = EraseRange(flash, er.off, ResetEnd)
        /\ er' = [er EXCEPT !.off = ResetEnd]
     \/ /\ "interrupted" \in EraseHazards
        /\ Fault
        /\ er' = ErIdle
        /\ UNCHANGED flash
  /\ UNCHANGED <<counters, queue, ct, rd, boot, reboots>>

\* The reset succeeded: the counters restart.
data_logger_erase_done ==
  /\ er.pc = "reset"
  /\ er.off >= er.end
  /\ current_block' = 0
  /\ earliest_block' = 0
  /\ er' = ErIdle
  /\ UNCHANGED <<flash, queue, ct, rd, boot, faults, reboots>>

-----------------------------------------------------------------------------
(***************************************************************************)
(* Reboot and initialisation.                                              *)
(***************************************************************************)
\* What a reboot leaves on the flash: an operation in progress may have had
\* no effect, its full effect, or (an erase runs through its blocks in order)
\* part of it.
AfterCommitThread(f) ==
  CASE ct.pc = "erase" -> {EraseRange(f, ct.phy, ct.phy + k) : k \in 0 .. EraseBlocks}
    [] ct.pc = "write" -> {f} \cup Program(f, ct.phy, ct.lb)
    [] OTHER -> {f}

AfterReset(f) ==
  IF er.pc = "reset" THEN {EraseRange(f, er.off, to) : to \in er.off .. ResetEnd}
                     ELSE {f}

Reboot ==
  /\ reboots < MaxReboots \/ boot.pc = "failed"
  /\ "interrupted" \in EraseHazards \/ er.pc = "idle"
  /\ reboots' = IF reboots < MaxReboots THEN reboots + 1 ELSE reboots
  /\ \E f \in AfterCommitThread(flash) : flash' \in AfterReset(f)
  /\ current_block' = 0
  /\ earliest_block' = 0
  /\ callers' = [r \in Requests |-> 0]
  /\ fifo' = <<>>
  /\ ram' = 0
  /\ ct' = CtIdle
  /\ er' = ErIdle
  /\ rd' = RdIdle
  /\ boot' = BootPc("first")
  /\ UNCHANGED faults

BootFrame == UNCHANGED <<flash, queue, ct, er, rd, reboots>>

\* A backend read fails during initialisation: the logger is not usable.
BootReadFails ==
  /\ boot.pc \in {"first", "search", "earliest"}
  /\ boot.pc = "search" => boot.low <= boot.high
  /\ boot.pc = "earliest" => boot.left > 0
  /\ Fault
  /\ boot' = BootPc("failed")
  /\ BootFrame /\ UNCHANGED counters

\* Mutant: a logger filled to the last block starts over without its data.
data_logger_common_init_drops ==
  /\ boot.pc = "first"
  /\ boot' = BootPc("run")
  /\ current_block' = flash[physical_blocks - 1].wrap * physical_blocks
  /\ earliest_block' = flash[physical_blocks - 1].wrap * physical_blocks
  /\ BootFrame /\ NoFault

\* data_logger_common_init compares the first and the last physical block.
data_logger_common_init ==
  LET first == flash[0].wrap
      last == flash[physical_blocks - 1].wrap
  IN
  /\ boot.pc = "first"
  /\ \/ /\ first = last /\ LooksErased(first)
        /\ boot' = BootPc("run")
        /\ UNCHANGED counters
     \/ /\ first = last /\ ~LooksErased(first)
        /\ boot' = BootPc("run")
        /\ current_block' = first * physical_blocks
        /\ earliest_block' = (first - 1) * physical_blocks
     \/ /\ first # last /\ LooksErased(first)
        /\ boot' = BootPc("run")
        /\ current_block' = last * physical_blocks
        /\ earliest_block' = (last - 1) * physical_blocks + EraseBlocks
     \/ /\ first # last /\ ~LooksErased(first)
        /\ boot' = [BootPc("search") EXCEPT !.high = physical_blocks - 1,
                                            !.counter = first]
        /\ UNCHANGED counters
  /\ BootFrame /\ NoFault

\* Mutant: the lower half always keeps the middle.
current_block_search_stuck ==
  LET mid == (boot.low + boot.high) \div 2
  IN
  /\ boot.pc = "search"
  /\ boot.low <= boot.high
  /\ boot' = IF flash[mid].wrap = boot.counter
             THEN [boot EXCEPT !.low = mid, !.res = mid]
             ELSE [boot EXCEPT !.high = mid - 1]
  /\ BootFrame /\ NoFault /\ UNCHANGED counters

\* One round of the binary search for the last block with wrap = counter.
current_block_search ==
  LET mid == (boot.low + boot.high) \div 2
  IN
  /\ boot.pc = "search"
  /\ boot.low <= boot.high
  /\ boot' = IF flash[mid].wrap = boot.counter
             THEN [boot EXCEPT !.low = mid + 1, !.res = mid]
             ELSE [boot EXCEPT !.high = mid - 1]
  /\ BootFrame /\ NoFault /\ UNCHANGED counters

\* Mutant: the block found counts as the next one to write.
current_block_search_done_short ==
  /\ boot.pc = "search"
  /\ boot.low > boot.high
  /\ current_block' = (boot.counter - 1) * physical_blocks + boot.res
  /\ earliest_block' = 0
  /\ boot' = BootPc("run")
  /\ BootFrame /\ NoFault

\* The search ends: unless the logger never wrapped, look for the earliest
\* block among the next blocks.
current_block_search_done ==
  LET current == (boot.counter - 1) * physical_blocks + boot.res + 1
  IN
  /\ boot.pc = "search"
  /\ boot.low > boot.high
  /\ current_block' = current
  /\ IF boot.counter = 1
     THEN /\ earliest_block' = 0
          /\ boot' = BootPc("run")
     ELSE /\ earliest_block' = current - physical_blocks
          /\ boot' = [BootPc("earliest") EXCEPT
                        !.res = (current - physical_blocks) % physical_blocks,
                        !.left = 2 * EraseBlocks]
  /\ BootFrame /\ NoFault

\* Skip one block without data, stop at the first with data or at the end of
\* the device, or give up with -EINVAL.
earliest_block_search ==
  /\ boot.pc = "earliest"
  /\ \/ /\ boot.left > 0
        /\ ~LooksErased(flash[boot.res].wrap)
        /\ boot' = BootPc("run")
        /\ UNCHANGED earliest_block
     \/ /\ boot.left > 0
        /\ LooksErased(flash[boot.res].wrap)
        /\ earliest_block' = earliest_block + 1
        /\ boot' = IF boot.res + 1 = physical_blocks THEN BootPc("run")
                   ELSE [boot EXCEPT !.res = @ + 1, !.left = @ - 1]
     \/ /\ boot.left = 0
        /\ boot' = BootPc("failed")
        /\ UNCHANGED earliest_block
  /\ BootFrame /\ NoFault /\ UNCHANGED current_block

-----------------------------------------------------------------------------
CommitThread ==
  \/ logger_commit_thread_fn
  \/ do_block_write_start
  \/ do_block_write_erase
  \/ do_block_write_program
  \/ do_block_write_done

Boot ==
  \/ BootReadFails
  \/ data_logger_common_init
  \/ current_block_search
  \/ current_block_search_done
  \/ earliest_block_search

Next ==
  \/ data_logger_block_write
  \/ data_logger_flush
  \/ \E r \in Requests : QueuePut(r)
  \/ CommitThread
  \/ \E first \in 0 .. current_block, n \in 1 .. MaxReadLen :
       data_logger_block_read(first, first + n - 1)
  \/ backend_read
  \/ \E erase_all \in BOOLEAN : data_logger_erase(erase_all)
  \/ logger_flash_map_reset
  \/ data_logger_erase_done
  \/ Reboot
  \/ Boot

Spec == Init /\ [][Next]_vars

\* Every thread that is ready eventually runs.  Callers, erases, errors and
\* reboots are left to the environment.
Fairness == WF_vars(CommitThread) /\ WF_vars(Boot)
FairSpec == Spec /\ Fairness

-----------------------------------------------------------------------------
(***************************************************************************)
(* Properties.                                                             *)
(***************************************************************************)
FlashType == [Phy -> [wrap : 0 .. WrapErased, lb : Nat \cup {NoBlock}]]
CtType == [pc : {"idle", "start", "erase", "write", "written"}, todo : Nat,
           phy : Phy, lb : Nat, buf : 0 .. 1]
ErType == [pc : {"idle", "reset"}, off : Nat, end : Nat]
RdType == [pc : {"idle", "read", "second"}, first : Int, last : Int, phy : Phy,
           low : Int]
BootType == [pc : {"run", "first", "search", "earliest", "failed"}, low : Nat,
             high : Int, res : Nat, counter : Nat, left : Nat]

\* Every variable keeps its type; counters are plain (unbounded) integers.
TypeOK ==
  /\ flash \in FlashType
  /\ current_block \in Nat
  /\ earliest_block \in Int
  /\ callers \in [Requests -> Nat]
  /\ fifo \in Seq(Requests)
  /\ ram \in Nat
  /\ ct \in CtType
  /\ er \in ErType
  /\ rd \in RdType
  /\ boot \in BootType
  /\ faults \in Nat
  /\ reboots \in Nat

Present(b) == flash[b % physical_blocks] = Cell(b)

\* No block numbered from n on is on the flash.
Newest(n) == \A p \in Phy : flash[p].lb < n

\* The logger has not run past its last logical block, which blocks already
\* queued can make it do, see OverrunBounded.
InRange == Newest(logical_blocks)

\* Every block data_logger_block_read would accept is on the flash: its
\* physical block carries the wrap and the data of exactly that logical block,
\* not erased flash nor a block of another lap.  Erasing ahead of the write
\* position, failed erases and writes and a reboot anywhere must all keep it.
WindowPresent ==
  Up /\ ~erasing /\ InRange =>
    \A b \in earliest_block .. current_block - 1 : Present(b)

\* current_block is what the flash says: it is one past the newest block on
\* the flash (or that block is just being counted).  As the flash survives a
\* reboot, initialisation recovers the write position exactly: no block that
\* was reported as written is forgotten, none is invented.
CurrentIsNewest ==
  Up /\ ~erasing /\ InRange =>
    LET top == IF ct.pc = "written" THEN current_block + 1 ELSE current_block
    IN Newest(top) /\ (top = 0 \/ Present(top - 1))

\* do_block_write never programs a physical block that is not erased: NOR
\* flash would merge the old and the new data.
ProgramsErasedOnly ==
  [][ct.pc = "write" /\ ct'.pc = "written" /\ InRange => flash[ct.phy] = Erased]_vars

\* The earliest block found by data_logger_common_init gives up at most the
\* rest of one erase unit: every block before it is gone, but for blocks of
\* the unit a reboot caught half erased.
BootEarliestTight ==
  [][~Up /\ Up' => \A b \in 0 .. earliest_block' - EraseBlocks :
       ~Present(b)']_vars

\* Initialisation of a consistent flash never gives up with -EINVAL: the
\* search for the earliest block ends before its limit of two erase units.
SearchFindsData == boot.pc = "earliest" /\ InRange => boot.left > 0

\* A successful backend read returns the data of the requested blocks, unless
\* those blocks were given up (or the logger erased) since they were checked.
\* It holds up to the last logical block, see InRange.
ReadSound ==
  [][rd.pc # "idle" /\ rd' # rd /\ faults' = faults /\ Up' /\ InRange =>
       \A i \in 0 .. ReadCount - 1 :
         \/ flash[rd.phy + i] = Cell(rd.first + i)
         \/ rd.first + i \in rd.low .. earliest_block - 1
         \/ rd.first + i >= current_block
         \/ erasing]_vars

\* Blocks accepted but not yet written.
Pending ==
  callers["block"] + ram + ct.todo
    + Cardinality({i \in DOMAIN fifo : fifo[i] = "block"})

\* The logger is checked for space when a block is accepted, not when it is
\* written: it may run past its end, but by no more than the blocks that were
\* pending when it filled up.
OverrunBounded ==
  current_block + Pending <= logical_blocks + MaxCallers + QueueLen + RamBlocks

\* The log that is on the flash: one past its newest block, and the first block
\* from which on no block is missing.  Nothing while the logger is erased, or
\* once it has run past its end.
LogNext ==
  IF erasing \/ ~InRange THEN 0
  ELSE CHOOSE n \in {flash[p].lb + 1 : p \in Phy} : Newest(n)
LogLow ==
  LET next == LogNext
      gone == {b \in next - physical_blocks .. next - 1 : b < 0 \/ ~Present(b)}
  IN  IF gone = {} THEN next - physical_blocks
      ELSE CHOOSE l \in {b + 1 : b \in gone} : \A b \in gone : b < l

\* The flash alone, without the counters in RAM, is a circular log: blocks are
\* only appended at its end, only whole erase units are given up and only to
\* make room, and reboots are invisible but for finishing or dropping the
\* operation they cut short.
Log == INSTANCE BlockLog WITH Capacity <- physical_blocks, Unit <- EraseBlocks,
                              low <- LogLow, next <- LogNext
FlashIsLog == Log!Spec

\* The commit thread always comes back for the next request.
CommitThreadReturns == ct.pc # "idle" ~> ct.pc = "idle"

\* Initialisation always ends, whatever is on the flash.
BootFinishes == boot.pc = "first" ~> boot.pc \in {"run", "failed"}

-----------------------------------------------------------------------------
(***************************************************************************)
(* What the documentation says and the code does not do.                   *)
(***************************************************************************)
\* data_logger.c: a logger whose first and last blocks look erased is
\* "Completely erased".
EmptyMeansErased ==
  [][boot.pc = "first" /\ Up' /\ current_block' = 0 =>
       \A p \in Phy : flash[p] = Erased]_vars
=============================================================================
