-------------------------- MODULE DataLoggerLayout --------------------------
(***************************************************************************)
(* The circular log on the flash is never lost: proofs about what is on    *)
(* the flash, for every geometry.  They assume that data_logger_erase is   *)
(* neither interrupted nor started with writes pending (EraseHazards = {}) *)
(* and that the logger has not run past its last logical block ([]InRange);*)
(* after either of them the counters no longer tell what is on the flash.  *)
(* Three more sections show that the flash implements BlockLog, that reads *)
(* return what was asked for, and that the logger runs past its last block *)
(* only by what was pending.                                               *)
(***************************************************************************)
EXTENDS DataLoggerProofs

-----------------------------------------------------------------------------
(***************************************************************************)
(* The inductive invariant.  While the logger is not being erased there is *)
(* a layout that the flash holds and the state in RAM agrees with.         *)
(***************************************************************************)
\* The commit thread, at each of its steps.
CommitAgrees(a, u, v, g) ==
  /\ ct.pc \in {"idle", "start"} =>
       current_block = Top(a, u, v) /\ earliest_block >= Low(a, g)
  /\ ct.pc = "erase" =>
       /\ current_block = Top(a, u, v) /\ earliest_block - EraseBlocks >= Low(a, g)
       /\ a > 0 /\ v = 0 /\ ct.phy = Unit(u)
  /\ ct.pc = "write" =>
       /\ current_block = Top(a, u, v) /\ earliest_block >= Low(a, g)
       /\ a = 0 \/ g = Unit(u) + EraseBlocks
       /\ ct.lb = Top(a, u, v) /\ ct.phy = Unit(u) + v
  /\ ct.pc = "written" =>
       current_block + 1 = Top(a, u, v) /\ earliest_block >= Low(a, g)

\* The binary search closes in on the write position c.
SearchAgrees(a, c) ==
  /\ c > 0 /\ boot.counter = a + 1
  /\ boot.low <= c /\ c <= boot.high + 1 /\ boot.high < physical_blocks
  /\ boot.res = IF boot.low = 0 THEN 0 ELSE boot.low - 1

\* The search for the earliest block walks over the erased blocks c .. g - 1.
EarliestAgrees(a, c, g, top) ==
  /\ a > 0 /\ current_block = top
  /\ c <= boot.res /\ boot.res <= g /\ boot.res < physical_blocks
  /\ earliest_block = Base(a - 1) + boot.res
  /\ boot.left = 2 * EraseBlocks - (boot.res - c)

Agrees(a, u, v, g) ==
  /\ Up => CommitAgrees(a, u, v, g)
  /\ boot.pc = "search" => SearchAgrees(a, Unit(u) + v)
  /\ boot.pc = "earliest" => EarliestAgrees(a, Unit(u) + v, g, Top(a, u, v))

\* A whole-logger erase has the flash for itself.
EraseInv ==
  /\ Up /\ ct.pc = "idle" /\ ram = 0 /\ callers["block"] = 0
  /\ \A i \in 1 .. Len(fifo) : fifo[i] = "flush"
  /\ er.off <= er.end
  /\ \A p \in Phy : p < er.off \/ p >= er.end => flash[p] = Erased

FlashInv ==
  \E a \in 0 .. MaxWraps, u \in 0 .. EraseUnits - 1, v \in 0 .. EraseBlocks - 1,
     g \in 0 .. physical_blocks :
    Layout(flash, a, u, v, g) /\ Agrees(a, u, v, g)

StateInv ==
  /\ ~Up => ct.pc = "idle"
  /\ boot.pc = "first" => current_block = 0 /\ earliest_block = 0
  /\ erasing => EraseInv
  /\ ~erasing => FlashInv

LogInv == TypeInv /\ StateInv

\* A log that is in range has a lap the wrap byte can hold.
LEMMA LayoutBounds ==
  ASSUME NEW f, NEW a, NEW u, NEW v, NEW g, Layout(f, a, u, v, g), FlashInRange(f)
  PROVE  /\ a \in 0 .. MaxWraps /\ u \in 0 .. EraseUnits - 1
         /\ v \in 0 .. EraseBlocks - 1 /\ g \in 0 .. physical_blocks
<1>1. Position(a, u, v, g)  BY Zenon DEF Layout
<1>2. a \in Nat /\ g \in Nat /\ Unit(u) \in Nat /\ g <= Unit(u) + EraseBlocks
      /\ Unit(u) + EraseBlocks <= physical_blocks
  BY <1>1, PositionFacts, Zenon
<1>3. a <= MaxWraps  BY LapInRange, Zenon
<1> QED BY <1>1, <1>2, <1>3, GeometryAssumption, GeometryFacts, SMTT(30) DEF Position

\* A logger in range has a flash in range.
LEMMA InRangeFlash == (InRange => FlashInRange(flash)) /\ (InRange' => FlashInRange(flash'))
BY Zenon DEF InRange, Newest, FlashInRange

\* The invariant holds at the start.
LEMMA InitLogInv == Init => LogInv
<1> SUFFICES ASSUME Init PROVE StateInv
  BY TypeInvInit, ZenonT(40) DEF LogInv
<1>1. Layout(flash, 0, 0, 0, 0) /\ Top(0, 0, 0) = 0 /\ Low(0, 0) = 0
  <2>1. \A p \in Phy : flash[p] = Erased  BY Zenon DEF Init
  <2> QED BY <2>1, EmptyLayout, Zenon
<1>2. ct.pc = "idle" /\ boot.pc = "run" /\ er.pc = "idle"
  BY Zenon DEF Init, CtIdle, ErIdle, BootPc
<1>3. Agrees(0, 0, 0, 0)
  BY <1>1, <1>2, SMTT(30) DEF Agrees, CommitAgrees, Init
<1>4. /\ 0 \in 0 .. MaxWraps /\ 0 \in 0 .. EraseUnits - 1
      /\ 0 \in 0 .. EraseBlocks - 1 /\ 0 \in 0 .. physical_blocks
  BY GeometryAssumption, GeometryFacts
<1>5. FlashInv
  BY <1>1, <1>3, <1>4, Zenon DEF FlashInv
<1> QED BY <1>2, <1>5, Zenon DEF StateInv, Up, erasing

\* Steps that leave the flash, the counters and initialisation alone.
LEMMA FlashInvFrame ==
  ASSUME FlashInv, UNCHANGED <<flash, counters, boot>>,
         ct' = ct \/ (ct.pc \in {"idle", "start"} /\ ct'.pc \in {"idle", "start"})
  PROVE  FlashInv'
<1>1. PICK a \in 0 .. MaxWraps, u \in 0 .. EraseUnits - 1, v \in 0 .. EraseBlocks - 1,
           g \in 0 .. physical_blocks : Layout(flash, a, u, v, g) /\ Agrees(a, u, v, g)
  BY Zenon DEF FlashInv
<1>2. Layout(flash', a, u, v, g)
  BY <1>1, Zenon
<1>3. Agrees(a, u, v, g)'
  BY <1>1, ZenonT(40) DEF Agrees, Up, CommitAgrees, SearchAgrees, EarliestAgrees, counters
<1> QED BY <1>2, <1>3, Zenon DEF FlashInv

\* Where the commit thread goes on.
LEMMA BlockDonePc ==
  ASSUME BlockDone, ct \in CtType PROVE ct'.pc \in {"idle", "start"}
BY Zenon DEF BlockDone, CtIdle, CtType

\* A caller that passes its checks keeps the invariant.
LEMMA CallersStep ==
  ASSUME LogInv, data_logger_block_write \/ data_logger_flush
  PROVE  StateInv'
<1>1. callers \in [Requests -> Nat]  BY Zenon DEF LogInv, TypeInv, TypeOK
<1>2. UNCHANGED <<flash, counters, fifo, ram, ct, er, boot>>
  BY Zenon DEF data_logger_block_write, data_logger_flush, CallerEnters
<1>3. erasing => callers'["block"] = callers["block"]
  BY <1>1, Zenon DEF data_logger_block_write, data_logger_flush, CallerEnters, Requests
<1>4. erasing => EraseInv'
  BY <1>2, <1>3, Zenon DEF LogInv, StateInv, EraseInv, Up
<1>5. ~erasing => FlashInv'
  BY <1>2, FlashInvFrame, Zenon DEF LogInv, StateInv
<1> QED BY <1>2, <1>4, <1>5, Zenon DEF LogInv, StateInv, erasing, Up, counters

\* Queueing a request keeps the invariant.
LEMMA QueuePutStep ==
  ASSUME LogInv, NEW r \in Requests, QueuePut(r)
  PROVE  StateInv'
<1>1. callers \in [Requests -> Nat] /\ fifo \in Seq(Requests)
  BY Zenon DEF LogInv, TypeInv, TypeOK
<1>2. UNCHANGED <<flash, counters, ram, ct, er, boot>>
  BY ZenonT(40) DEF QueuePut
<1>3. ASSUME erasing PROVE EraseInv'
  <2>1. EraseInv  BY <1>3, Zenon DEF LogInv, StateInv
  <2>2. r = "flush"  BY <2>1 DEF EraseInv, QueuePut, Requests
  <2>3. callers'["block"] = 0  BY <1>1, <2>1, <2>2, ZenonT(40) DEF EraseInv, QueuePut, Requests
  <2>4. \A i \in 1 .. Len(fifo') : fifo'[i] = "flush"
    BY <1>1, <2>1, <2>2 DEF EraseInv, QueuePut
  <2> QED BY <1>2, <2>1, <2>3, <2>4, Zenon DEF EraseInv, Up
<1>4. ~erasing => FlashInv'
  BY <1>2, FlashInvFrame, Zenon DEF LogInv, StateInv
<1> QED BY <1>2, <1>3, <1>4, ZenonT(40) DEF LogInv, StateInv, erasing, Up, counters

\* Taking a request keeps the invariant.
LEMMA CommitFnStep ==
  ASSUME LogInv, logger_commit_thread_fn
  PROVE  StateInv'
<1>1. ct \in CtType /\ fifo \in Seq(Requests) /\ ram \in Nat
  BY Zenon DEF LogInv, TypeInv, TypeOK
<1>2. UNCHANGED <<flash, counters, callers, er, boot>> /\ Up /\ ct.pc = "idle"
  BY Zenon DEF logger_commit_thread_fn
<1>3. ct'.pc \in {"idle", "start"}
  <2>1. ct' = ct \/ \E n, buf : WriteBlocks(n, buf)
    BY Zenon DEF logger_commit_thread_fn
  <2>2. ASSUME NEW n, NEW buf, WriteBlocks(n, buf) PROVE ct'.pc \in {"idle", "start"}
    <3>1. CtIdle.pc = "idle" /\ [CtIdle EXCEPT !.pc = "start", !.todo = n, !.buf = buf].pc = "start"
      BY Zenon DEF CtIdle
    <3> QED BY <2>2, <3>1, Zenon DEF WriteBlocks
  <2> QED BY <1>2, <2>1, <2>2, Zenon
<1>4. ASSUME erasing PROVE EraseInv'
  <2>1. EraseInv  BY <1>4, Zenon DEF LogInv, StateInv
  <2>2. Len(fifo) >= 1 /\ Head(fifo) = fifo[1] /\ Head(fifo) = "flush"
    BY <1>1, <2>1, SMTT(30) DEF EraseInv, logger_commit_thread_fn
  <2>3. ct' = CtIdle /\ ram' = 0
    BY <2>1, <2>2, Zenon DEF EraseInv, logger_commit_thread_fn, WriteBlocks
  <2>4. \A i \in 1 .. Len(fifo') : fifo'[i] = "flush"
    BY <1>1, <2>1, <2>2, SMTT(30) DEF EraseInv, logger_commit_thread_fn
  <2> QED BY <1>2, <2>1, <2>3, <2>4, ZenonT(40) DEF EraseInv, Up, CtIdle
<1>5. ~erasing => FlashInv'
  BY <1>2, <1>3, FlashInvFrame, Zenon DEF LogInv, StateInv
<1> QED BY <1>2, <1>4, <1>5, Zenon DEF LogInv, StateInv, erasing, Up, counters

\* Inside do_block_write the logger is up, is not being erased, and has a layout.
LEMMA CommitThreadFacts ==
  ASSUME LogInv, ct.pc # "idle"
  PROVE  Up /\ ~erasing /\ FlashInv /\ ct \in CtType /\ flash \in FlashType
         /\ current_block \in Nat /\ earliest_block \in Int
BY Zenon DEF LogInv, StateInv, EraseInv, TypeInv, TypeOK

\* A step of do_block_write that establishes a layout the new state agrees with.
LEMMA CommitStepDone ==
  ASSUME Up, ~erasing, UNCHANGED <<er, boot>>, InRange', NEW a, NEW u, NEW v, NEW g,
         Layout(flash', a, u, v, g), CommitAgrees(a, u, v, g)'
  PROVE  StateInv'
<1>1. Up' /\ ~erasing'  BY Zenon DEF Up, erasing
<1>2. boot'.pc = "run"  BY <1>1, Zenon DEF Up
<1>3. Agrees(a, u, v, g)'  BY <1>2, ZenonT(40) DEF Agrees
<1>4. /\ a \in 0 .. MaxWraps /\ u \in 0 .. EraseUnits - 1
      /\ v \in 0 .. EraseBlocks - 1 /\ g \in 0 .. physical_blocks
  BY InRangeFlash, LayoutBounds, Zenon
<1>5. FlashInv'  BY <1>3, <1>4, ZenonT(40) DEF FlashInv
<1> QED BY <1>1, <1>2, <1>5, Zenon DEF StateInv

\* do_block_write gives up the next unit before it erases it.
LEMMA StartStep ==
  ASSUME LogInv, InRange', do_block_write_start
  PROVE  StateInv'
<1>1. ct.pc = "start" /\ UNCHANGED <<flash, current_block, er, boot>>
  BY Zenon DEF do_block_write_start
<1>2. Up /\ ~erasing /\ FlashInv /\ ct \in CtType /\ current_block \in Nat
      /\ earliest_block \in Int
  BY <1>1, CommitThreadFacts, Zenon
<1>3. PICK a, u, v, g : Layout(flash, a, u, v, g) /\ CommitAgrees(a, u, v, g)
  BY <1>2, ZenonT(40) DEF FlashInv, Agrees
<1>4. Position(a, u, v, g) /\ Layout(flash', a, u, v, g)
  BY <1>1, <1>3, Zenon DEF Layout
<1>5. /\ Low(a, g) \in Nat
      /\ current_block % physical_blocks = Unit(u) + v
      /\ NeedsErase <=> (a > 0 /\ v = 0)
      /\ current_block = Top(a, u, v) /\ earliest_block >= Low(a, g)
  BY <1>1, <1>3, <1>4, TopFacts, SMTT(30) DEF CommitAgrees, NeedsErase
<1>6. a \in Nat /\ Unit(u) \in Nat /\ v \in Nat /\ (v # 0 => g = Unit(u) + EraseBlocks)
  BY <1>4, PositionFacts, Zenon DEF Position
<1>7. CASE BlockDone /\ UNCHANGED earliest_block
  <2>1. ct'.pc \in {"idle", "start"}  BY <1>2, <1>7, BlockDonePc, Zenon
  <2>2. CommitAgrees(a, u, v, g)'
    BY <1>1, <1>5, <1>7, <2>1, ZenonT(40) DEF CommitAgrees
  <2> QED BY <1>1, <1>2, <1>4, <2>2, CommitStepDone, ZenonT(40)
<1>8. CASE /\ NeedsErase /\ earliest_block' = earliest_block + EraseBlocks
           /\ ct' = [ct EXCEPT !.pc = "erase", !.phy = current_block % physical_blocks]
  <2>1. ct'.pc = "erase" /\ ct'.phy = current_block % physical_blocks
    BY <1>2, <1>8, ZenonT(40) DEF CtType
  <2>2. ct'.phy = Unit(u) /\ v = 0 /\ a > 0
    BY <1>5, <1>6, <1>8, <2>1, SMTT(30)
  <2>3. earliest_block' - EraseBlocks >= Low(a, g)
    BY <1>2, <1>5, <1>8, GeometryAssumption, SMTT(30)
  <2>4. CommitAgrees(a, u, v, g)'
    BY <1>1, <1>5, <2>1, <2>2, <2>3, ZenonT(40) DEF CommitAgrees
  <2> QED BY <1>1, <1>2, <1>4, <2>4, CommitStepDone, SMTT(30)
<1>9. CASE /\ ~NeedsErase /\ UNCHANGED earliest_block
           /\ ct' = [ct EXCEPT !.pc = "write", !.lb = current_block,
                               !.phy = current_block % physical_blocks]
  <2>1. ct'.pc = "write" /\ ct'.phy = current_block % physical_blocks
        /\ ct'.lb = current_block
    BY <1>2, <1>9, ZenonT(40) DEF CtType
  <2>2. a = 0 \/ g = Unit(u) + EraseBlocks
    BY <1>5, <1>6, <1>9, SMTT(30)
  <2>3. CommitAgrees(a, u, v, g)'
    BY <1>1, <1>5, <1>9, <2>1, <2>2, ZenonT(40) DEF CommitAgrees
  <2> QED BY <1>1, <1>2, <1>4, <2>3, CommitStepDone
<1> QED BY <1>7, <1>8, <1>9, Zenon DEF do_block_write_start

\* do_block_write erases the unit it gave up, or fails to.
LEMMA EraseUnitStep ==
  ASSUME LogInv, InRange', do_block_write_erase
  PROVE  StateInv'
<1>1. ct.pc = "erase" /\ UNCHANGED <<current_block, er, boot>>
  BY Zenon DEF do_block_write_erase
<1>2. Up /\ ~erasing /\ FlashInv /\ ct \in CtType /\ current_block \in Nat
      /\ earliest_block \in Int
  BY <1>1, CommitThreadFacts, Zenon
<1>3. PICK a, u, v, g : Layout(flash, a, u, v, g) /\ CommitAgrees(a, u, v, g)
  BY <1>2, SMTT(30) DEF FlashInv, Agrees
<1>4. /\ current_block = Top(a, u, v) /\ earliest_block - EraseBlocks >= Low(a, g)
      /\ a > 0 /\ v = 0 /\ ct.phy = Unit(u)
  BY <1>1, <1>3, Zenon DEF CommitAgrees
<1>5. /\ a \in Nat /\ Unit(u) \in Nat /\ g \in Nat /\ g >= Unit(u)
      /\ g <= Unit(u) + EraseBlocks /\ Base(a - 1) \in Nat /\ Low(a, g) \in Nat
      /\ Top(a, u, v) % physical_blocks = Unit(u)
  BY <1>3, <1>4, PositionFacts, TopFacts, SMTT(30) DEF Layout
<1>6. CASE /\ flash' = EraseRange(flash, ct.phy, ct.phy + EraseBlocks)
           /\ ct' = [ct EXCEPT !.pc = "write", !.lb = current_block]
           /\ UNCHANGED earliest_block
  <2>1. EraseBlocks \in 0 .. EraseBlocks  BY GeometryAssumption, SMTT(30)
  <2> DEFINE h == IF g > Unit(u) + EraseBlocks THEN g ELSE Unit(u) + EraseBlocks
  <2>2. Layout(flash', a, u, 0, h)
    BY <1>3, <1>4, <1>6, <2>1, EraseLayout, SMTT(30)
  <2>3. h = Unit(u) + EraseBlocks
    BY <1>5, GeometryAssumption, SMTT(30)
  <2> HIDE DEF h
  <2>4. ct'.pc = "write" /\ ct'.phy = Unit(u) + v /\ ct'.lb = current_block
    BY <1>2, <1>4, <1>5, <1>6, SMTT(30) DEF CtType
  <2>5. earliest_block' >= Low(a, h)
    BY <1>2, <1>4, <1>5, <1>6, <2>3, GeometryAssumption, SMTT(30) DEF Low
  <2>6. CommitAgrees(a, u, v, h)'
    BY <1>1, <1>4, <2>3, <2>4, <2>5, Zenon DEF CommitAgrees
  <2> QED BY <1>1, <1>2, <1>4, <2>2, <2>6, CommitStepDone, Zenon
<1>7. CASE /\ earliest_block' = earliest_block - EraseBlocks
           /\ BlockDone
           /\ UNCHANGED flash
  <2>1. ct'.pc \in {"idle", "start"}  BY <1>2, <1>7, BlockDonePc, Zenon
  <2>2. CommitAgrees(a, u, v, g)'
    BY <1>1, <1>4, <1>7, <2>1, ZenonT(40) DEF CommitAgrees
  <2>3. Layout(flash', a, u, v, g)
    BY <1>3, <1>7, Zenon
  <2> QED BY <1>1, <1>2, <2>2, <2>3, CommitStepDone, ZenonT(40)
<1> QED BY <1>6, <1>7, Zenon DEF do_block_write_erase

\* do_block_write programs the block at the write position, or fails to.
LEMMA ProgramStep ==
  ASSUME LogInv, InRange', do_block_write_program
  PROVE  StateInv'
<1>1. ct.pc = "write" /\ UNCHANGED <<current_block, earliest_block, er, boot>>
  BY Zenon DEF do_block_write_program, counters
<1>2. Up /\ ~erasing /\ FlashInv /\ ct \in CtType /\ flash \in FlashType
      /\ current_block \in Nat /\ earliest_block \in Int
  BY <1>1, CommitThreadFacts, ZenonT(40)
<1>3. PICK a, u, v, g : Layout(flash, a, u, v, g) /\ CommitAgrees(a, u, v, g)
  BY <1>2 DEF FlashInv, Agrees
<1>4. /\ current_block = Top(a, u, v) /\ earliest_block >= Low(a, g)
      /\ a = 0 \/ g = Unit(u) + EraseBlocks
      /\ ct.lb = Top(a, u, v) /\ ct.phy = Unit(u) + v
  BY <1>1, <1>3, ZenonT(40) DEF CommitAgrees
<1>5. CASE /\ flash' \in Program(flash, ct.phy, ct.lb)
           /\ ct' = [ct EXCEPT !.pc = "written"]
  <2>1. PICK a1, u1, v1, g1 :
          /\ Layout(flash', a1, u1, v1, g1)
          /\ Top(a1, u1, v1) = Top(a, u, v) + 1
          /\ Low(a1, g1) = Low(a, g)
    BY <1>2, <1>3, <1>4, <1>5, ProgramLayout, InRangeFlash, SMTT(30)
  <2>2. ct'.pc = "written"
    BY <1>2, <1>5, Zenon DEF CtType
  <2>3. CommitAgrees(a1, u1, v1, g1)'
    BY <1>1, <1>4, <2>1, <2>2, ZenonT(40) DEF CommitAgrees
  <2> QED BY <1>1, <1>2, <2>1, <2>3, CommitStepDone, ZenonT(40)
<1>6. CASE BlockDone /\ UNCHANGED flash
  <2>1. ct'.pc \in {"idle", "start"}  BY <1>2, <1>6, BlockDonePc, ZenonT(40)
  <2>2. CommitAgrees(a, u, v, g)'
    BY <1>1, <1>4, <2>1, Zenon DEF CommitAgrees
  <2>3. Layout(flash', a, u, v, g)
    BY <1>3, <1>6, ZenonT(40)
  <2> QED BY <1>1, <1>2, <2>2, <2>3, CommitStepDone, Zenon
<1> QED BY <1>5, <1>6, Zenon DEF do_block_write_program

\* do_block_write counts the block.
LEMMA DoneStep ==
  ASSUME LogInv, InRange', do_block_write_done
  PROVE  StateInv'
<1>1. /\ ct.pc = "written" /\ UNCHANGED <<flash, earliest_block, er, boot>>
      /\ BlockDone /\ current_block' = current_block + 1
  BY Zenon DEF do_block_write_done
<1>2. Up /\ ~erasing /\ FlashInv /\ ct \in CtType
  BY <1>1, CommitThreadFacts, Zenon
<1>3. PICK a, u, v, g : Layout(flash, a, u, v, g) /\ CommitAgrees(a, u, v, g)
  BY <1>2, SMTT(30) DEF FlashInv, Agrees
<1>4. ct'.pc \in {"idle", "start"}  BY <1>1, <1>2, BlockDonePc, ZenonT(40)
<1>5. CommitAgrees(a, u, v, g)'
  BY <1>1, <1>3, <1>4, ZenonT(40) DEF CommitAgrees
<1>6. Layout(flash', a, u, v, g)
  BY <1>1, <1>3, Zenon
<1> QED BY <1>1, <1>2, <1>5, <1>6, CommitStepDone, ZenonT(40)

\* Reads keep the invariant.
LEMMA ReadStep ==
  ASSUME LogInv, UNCHANGED <<flash, counters, queue, ct, er, boot>>
  PROVE  StateInv'
<1>1. erasing => EraseInv'
  BY Zenon DEF LogInv, StateInv, EraseInv, Up, queue
<1>2. ~erasing => FlashInv'
  BY FlashInvFrame, ZenonT(40) DEF LogInv, StateInv
<1> QED BY <1>1, <1>2, ZenonT(40) DEF LogInv, StateInv, erasing, Up, counters

\* data_logger_erase starts with nothing pending.
LEMMA EraseStartStep ==
  ASSUME LogInv, EraseHazards = {}, NEW erase_all \in BOOLEAN, data_logger_erase(erase_all)
  PROVE  StateInv'
<1> DEFINE upto == IF erase_all \/ current_block > physical_blocks
                   THEN physical_blocks ELSE current_block
           end == RoundUp(upto, EraseBlocks)
<1>1. /\ Up /\ er.pc = "idle" /\ Quiesced
      /\ er' = [pc |-> "reset", off |-> 0, end |-> end]
      /\ UNCHANGED <<flash, counters, queue, ct, boot>>
  BY ZenonT(40) DEF data_logger_erase
<1>2. ~erasing /\ FlashInv /\ current_block \in Nat
  BY <1>1, Zenon DEF LogInv, StateInv, erasing, TypeInv, TypeOK
<1>3. PICK a, u, v, g : Layout(flash, a, u, v, g) /\ CommitAgrees(a, u, v, g)
  BY <1>1, <1>2, SMTT(30) DEF FlashInv, Agrees
<1>4. current_block = Top(a, u, v)
  BY <1>1, <1>3, Zenon DEF Quiesced, CommitAgrees
<1>5. /\ a \in Nat /\ Unit(u) \in Nat /\ v \in Nat /\ Base(a) \in Nat
      /\ a > 0 => Base(a - 1) \in Nat /\ Base(a) = Base(a - 1) + physical_blocks
  BY <1>3, PositionFacts, ZenonT(40) DEF Layout
<1>6. upto \in Nat
  BY <1>2, GeometryFacts, Zenon
<1>7. upto = physical_blocks \/ (upto = current_block /\ current_block <= physical_blocks)
  BY <1>2, GeometryFacts, SMTT(30)
<1> HIDE DEF upto
<1>8. end \in Nat /\ end >= upto
  BY <1>6, RoundUpFacts, GeometryAssumption, Zenon
<1> HIDE DEF end
<1>9. ASSUME NEW p \in Phy, p >= end PROVE flash[p] = Erased
  <2>1. p \in Nat /\ p < physical_blocks  BY GeometryFacts, SMTT(30) DEF Phy
  <2>2. upto = current_block /\ p >= current_block
    BY <1>2, <1>6, <1>7, <1>8, <1>9, <2>1, GeometryFacts, SMTT(30)
  <2>3. a = 0
    BY <1>4, <1>5, <2>1, <2>2, GeometryFacts DEF Top
  <2>4. p >= Unit(u) + v
    BY <1>4, <1>5, <2>1, <2>2, <2>3, BaseZero, SMTT(30) DEF Top
  <2> QED BY <1>3, <2>3, <2>4, ZenonT(40) DEF Layout, Holds
<1>10. er'.pc = "reset" /\ er'.off = 0 /\ er'.end = end
  BY <1>1, Zenon
<1>11. ct.pc = "idle" /\ ram = 0 /\ callers["block"] = 0 /\ fifo = << >>
  BY <1>1, ZenonT(40) DEF Quiesced, Requests
<1>12. \A p \in Phy : p < er'.off \/ p >= er'.end => flash'[p] = Erased
  BY <1>1, <1>9, <1>10, GeometryFacts, SMTT(30)
<1>13. EraseInv'
  BY <1>1, <1>8, <1>10, <1>11, <1>12, SMTT(30) DEF EraseInv, Up, queue
<1> QED BY <1>1, <1>10, <1>13, Zenon DEF StateInv, erasing, Up

\* The backend erases chunk by chunk.
LEMMA ResetStep ==
  ASSUME LogInv, EraseHazards = {}, logger_flash_map_reset
  PROVE  StateInv'
<1>1. /\ er.pc = "reset" /\ er.off < er.end
      /\ flash' = EraseRange(flash, er.off, ResetEnd)
      /\ er' = [er EXCEPT !.off = ResetEnd]
      /\ UNCHANGED <<counters, queue, ct, boot>>
  BY ZenonT(40) DEF logger_flash_map_reset
<1>2. EraseInv /\ er \in ErType
  BY <1>1, Zenon DEF LogInv, StateInv, erasing, TypeInv, TypeOK
<1>3. er.off \in Nat /\ er.end \in Nat /\ ResetEnd \in Nat /\ ResetEnd <= er.end
  BY <1>1, <1>2, GeometryAssumption, SMTT(30) DEF ErType, ResetEnd
<1>4. er'.pc = "reset" /\ er'.off = ResetEnd /\ er'.end = er.end
  BY <1>1, <1>2, Zenon DEF ErType
<1>5. ASSUME NEW p \in Phy, p < ResetEnd \/ p >= er.end PROVE flash'[p] = Erased
  <2>1. p \in Nat  BY GeometryFacts, Zenon
  <2>2. flash'[p] = IF p \in er.off .. ResetEnd - 1 THEN Erased ELSE flash[p]
    BY <1>1, ZenonT(40) DEF EraseRange
  <2>3. p < er.off \/ p >= er.end => flash[p] = Erased
    BY <1>2, Zenon DEF EraseInv
  <2> QED BY <1>3, <1>5, <2>1, <2>2, <2>3, SMTT(30)
<1>6. \A p \in Phy : p < er'.off \/ p >= er'.end => flash'[p] = Erased
  BY <1>4, <1>5, ZenonT(40)
<1>7. EraseInv'
  BY <1>1, <1>2, <1>3, <1>4, <1>6, Zenon DEF EraseInv, Up, queue
<1> QED BY <1>1, <1>2, <1>4, <1>7, ZenonT(40) DEF StateInv, erasing, Up, EraseInv

\* data_logger_erase clears the counters of an erased flash.
LEMMA EraseDoneStep ==
  ASSUME LogInv, InRange', data_logger_erase_done
  PROVE  StateInv'
<1>1. /\ er.pc = "reset" /\ er.off >= er.end
      /\ current_block' = 0 /\ earliest_block' = 0 /\ er' = ErIdle
      /\ UNCHANGED <<flash, queue, ct, boot>>
  BY Zenon DEF data_logger_erase_done
<1>2. EraseInv /\ er.off \in Nat /\ er.end \in Nat
  BY <1>1, ZenonT(40) DEF LogInv, StateInv, erasing, TypeInv, TypeOK, ErType
<1>3. \A p \in Phy : flash'[p] = Erased
  BY <1>1, <1>2, GeometryFacts, SMTT(30) DEF EraseInv
<1>4. Layout(flash', 0, 0, 0, 0) /\ Top(0, 0, 0) = 0 /\ Low(0, 0) = 0
  BY <1>3, EmptyLayout, ZenonT(40)
<1>5. ct'.pc = "idle" /\ boot'.pc = "run" /\ er'.pc = "idle"
  BY <1>1, <1>2, Zenon DEF EraseInv, Up, ErIdle
<1>6. Agrees(0, 0, 0, 0)'
  BY <1>1, <1>4, <1>5, SMTT(30) DEF Agrees, CommitAgrees
<1>7. FlashInv'
  BY <1>4, <1>6, InRangeFlash, LayoutBounds, Zenon DEF FlashInv
<1> QED BY <1>5, <1>7, ZenonT(40) DEF StateInv, Up, erasing

\* A reboot anywhere leaves a flash with a layout.
LEMMA RebootStep ==
  ASSUME LogInv, InRange', EraseHazards = {}, Reboot
  PROVE  StateInv'
<1>1. /\ er.pc = "idle" /\ ct' = CtIdle /\ er' = ErIdle /\ boot' = BootPc("first")
      /\ current_block' = 0 /\ earliest_block' = 0
      /\ flash' \in AfterCommitThread(flash)
  BY Zenon DEF Reboot, AfterReset
<1>2. FlashInv /\ flash \in FlashType /\ (~Up => ct.pc = "idle")
  BY <1>1, Zenon DEF LogInv, StateInv, erasing, TypeInv, TypeOK
<1>3. PICK a, u, v, g : Layout(flash, a, u, v, g) /\ (Up => CommitAgrees(a, u, v, g))
  BY <1>2 DEF FlashInv, Agrees
<1>4. \E a1, u1, v1, g1 : Layout(flash', a1, u1, v1, g1)
  <2>1. CASE ct.pc = "erase"
    <3>1. v = 0 /\ ct.phy = Unit(u)
      BY <1>2, <1>3, <2>1, ZenonT(40) DEF CommitAgrees
    <3>2. PICK k \in 0 .. EraseBlocks : flash' = EraseRange(flash, Unit(u), Unit(u) + k)
      BY <1>1, <2>1, <3>1, Zenon DEF AfterCommitThread
    <3> QED BY <1>3, <3>1, <3>2, EraseLayout, Zenon
  <2>2. CASE ct.pc = "write"
    <3>1. /\ a = 0 \/ g = Unit(u) + EraseBlocks
          /\ ct.lb = Top(a, u, v) /\ ct.phy = Unit(u) + v
      BY <1>2, <1>3, <2>2, Zenon DEF CommitAgrees
    <3>2. flash' = flash \/ flash' \in Program(flash, Unit(u) + v, Top(a, u, v))
      BY <1>1, <2>2, <3>1, ZenonT(40) DEF AfterCommitThread
    <3> QED BY <1>2, <1>3, <3>1, <3>2, ProgramLayout, InRangeFlash, SMTT(30)
  <2>3. CASE ct.pc \notin {"erase", "write"}
    BY <1>1, <1>3, <2>3, Zenon DEF AfterCommitThread
  <2> QED BY <2>1, <2>2, <2>3, ZenonT(40)
<1>5. ct'.pc = "idle" /\ er'.pc = "idle" /\ boot'.pc = "first"
  BY <1>1, ZenonT(40) DEF CtIdle, ErIdle, BootPc
<1>6. FlashInv'
  <2>1. PICK a1, u1, v1, g1 : Layout(flash', a1, u1, v1, g1)
    BY <1>4, ZenonT(40)
  <2>2. Agrees(a1, u1, v1, g1)'
    BY <1>5, Zenon DEF Agrees, Up
  <2>3. /\ a1 \in 0 .. MaxWraps /\ u1 \in 0 .. EraseUnits - 1
        /\ v1 \in 0 .. EraseBlocks - 1 /\ g1 \in 0 .. physical_blocks
    BY <2>1, InRangeFlash, LayoutBounds, ZenonT(40)
  <2> QED BY <2>1, <2>2, <2>3, Zenon DEF FlashInv
<1> QED BY <1>1, <1>5, <1>6, Zenon DEF StateInv, Up, erasing

-----------------------------------------------------------------------------
(***************************************************************************)
(* Initialisation keeps the invariant and finds the write position.        *)
(***************************************************************************)
\* What holds while the device starts.
LEMMA BootFacts ==
  ASSUME LogInv, InRange, ~Up
  PROVE  /\ ct.pc = "idle" /\ ~erasing /\ FlashInv /\ FlashInRange(flash)
         /\ boot \in BootType /\ current_block \in Nat /\ earliest_block \in Int
BY InRangeFlash, Zenon DEF LogInv, StateInv, EraseInv, TypeInv, TypeOK

\* A step of initialisation that establishes what the layout requires.
LEMMA BootStepDone ==
  ASSUME LogInv, InRange, ~Up, BootFrame, boot'.pc # "first",
         NEW a, NEW u, NEW v, NEW g, Layout(flash, a, u, v, g), Agrees(a, u, v, g)'
  PROVE  StateInv'
<1>1. ct.pc = "idle" /\ ~erasing /\ FlashInRange(flash)
  BY BootFacts, Zenon
<1>2. UNCHANGED <<flash, ct, er>>
  BY Zenon DEF BootFrame
<1>3. /\ a \in 0 .. MaxWraps /\ u \in 0 .. EraseUnits - 1
      /\ v \in 0 .. EraseBlocks - 1 /\ g \in 0 .. physical_blocks
  BY <1>1, LayoutBounds, Zenon
<1>4. Layout(flash', a, u, v, g)
  BY <1>2, ZenonT(40)
<1>5. FlashInv'
  BY <1>3, <1>4, Zenon DEF FlashInv
<1> QED BY <1>1, <1>2, <1>5, ZenonT(40) DEF StateInv, erasing

\* What the first and the last physical block say about the layout.
LEMMA FirstAndLast ==
  ASSUME NEW f, NEW a, NEW u, NEW v, NEW g, Layout(f, a, u, v, g), FlashInRange(f)
  PROVE  LET first == f[0].wrap  last == f[physical_blocks - 1].wrap
         IN  \/ /\ Unit(u) + v = 0 /\ a = 0
                /\ first = WrapErased /\ last = WrapErased
             \/ /\ Unit(u) + v = 0 /\ a > 0 /\ g = 0
                /\ first = a /\ last = a /\ ~LooksErased(a)
             \/ /\ Unit(u) + v = 0 /\ a > 0 /\ g > 0 /\ g <= EraseBlocks
                /\ first = WrapErased /\ last = a /\ ~LooksErased(a)
             \/ /\ Unit(u) + v > 0
                /\ first = a + 1 /\ ~LooksErased(a + 1) /\ last # first
<1> DEFINE c == Unit(u) + v
<1>1. Position(a, u, v, g) /\ Holds(f, a, c, g)
  BY Zenon DEF Layout
<1>2. /\ a \in Nat /\ c \in Phy /\ g \in Nat /\ g >= c
      /\ Unit(u) \in Nat /\ v \in Nat /\ g <= Unit(u) + EraseBlocks
      /\ c = 0 => g < physical_blocks
      /\ a > 0 => a - 1 \in Nat
  BY <1>1, PositionFacts, ZenonT(40)
<1>3. a <= MaxWraps /\ (c > 0 => a < MaxWraps)
  BY LapInRange, Zenon
<1>4. c = Unit(u) + v /\ c \in Nat /\ c < physical_blocks
  BY <1>2, GeometryFacts, SMTT(30) DEF Phy
<1>5. c = 0 => Unit(u) = 0
  BY <1>2, <1>4
<1> HIDE DEF c
<1>6. 0 \in Phy /\ physical_blocks - 1 \in Phy
  BY GeometryFacts, SMTT(30) DEF Phy
<1>7. WrapErased = MaxWraps + 1 /\ MaxWraps \in Nat
  BY GeometryAssumption, Zenon DEF WrapErased
<1>8. CASE c = 0 /\ a = 0
  <2>1. f[0] = Erased /\ f[physical_blocks - 1] = Erased
    BY <1>1, <1>6, <1>8, GeometryFacts, SMTT(30) DEF Holds
  <2> QED BY <1>4, <1>8, <2>1, ErasedFacts, ZenonT(40)
<1>9. CASE c = 0 /\ a > 0
  <2>1. f[physical_blocks - 1] = Blk(a - 1, physical_blocks - 1)
    BY <1>1, <1>2, <1>6, <1>9, GeometryFacts, SMTT(30) DEF Holds
  <2>2. f[physical_blocks - 1].wrap = a
    BY <1>2, <1>9, <2>1, BlkFacts, SMTT(30)
  <2>3. ~LooksErased(a)
    BY <1>2, <1>3, <1>7, <1>9, SMTT(30) DEF LooksErased
  <2>4. CASE g = 0
    <3>1. f[0] = Blk(a - 1, 0)  BY <1>1, <1>6, <1>9, <2>4 DEF Holds
    <3>2. f[0].wrap = a  BY <1>2, <1>9, <3>1, BlkFacts, SMTT(30)
    <3> QED BY <1>4, <1>9, <2>2, <2>3, <2>4, <3>2, ZenonT(40)
  <2>5. CASE g > 0
    <3>1. f[0] = Erased  BY <1>1, <1>2, <1>6, <1>9, <2>5, SMTT(30) DEF Holds
    <3>2. g <= EraseBlocks  BY <1>2, <1>5, <1>9, GeometryAssumption
    <3> QED BY <1>4, <1>9, <2>2, <2>3, <2>5, <3>1, <3>2, ErasedFacts, Zenon
  <2>6. g = 0 \/ g > 0  BY <1>2, SMTT(30)
  <2> QED BY <2>4, <2>5, <2>6, ZenonT(40)
<1>10. CASE c > 0
  <2>1. f[0] = Blk(a, 0)  BY <1>1, <1>4, <1>6, <1>10, ZenonT(40) DEF Holds
  <2>2. /\ f[0].wrap = a + 1 /\ ~LooksErased(a + 1)
        /\ a + 1 # a /\ a + 1 # WrapErased
    <3>1. f[0].wrap = a + 1  BY <1>2, <2>1, BlkFacts, SMTT(30)
    <3>2. a + 1 # a /\ a + 1 # 0 /\ a + 1 # WrapErased
      BY <1>2, <1>3, <1>7, <1>10, SMTT(30)
    <3> QED BY <3>1, <3>2, Zenon DEF LooksErased
  <2>3. f[physical_blocks - 1] = Erased
        \/ (a > 0 /\ f[physical_blocks - 1] = Blk(a - 1, physical_blocks - 1))
    BY <1>1, <1>2, <1>4, <1>6, GeometryFacts, SMTT(30) DEF Holds
  <2>4. f[physical_blocks - 1].wrap = WrapErased
        \/ (a > 0 /\ f[physical_blocks - 1].wrap = a)
    <3>1. a > 0 => Blk(a - 1, physical_blocks - 1).wrap = (a - 1) + 1
      BY <1>2, BlkFacts, ZenonT(40)
    <3>2. (a - 1) + 1 = a  BY <1>2
    <3> QED BY <2>3, <3>1, <3>2, ErasedFacts, ZenonT(40)
  <2>5. f[0].wrap = a + 1 /\ f[physical_blocks - 1].wrap # f[0].wrap
    BY <2>2, <2>4, ZenonT(40)
  <2> QED BY <1>4, <1>10, <2>2, <2>5, ZenonT(40)
<1>11. (c = 0 /\ a = 0) \/ (c = 0 /\ a > 0) \/ c > 0
  BY <1>2, <1>4, SMTT(30)
<1> QED BY <1>8, <1>9, <1>10, <1>11, ZenonT(40)

\* The first block of a lap as the code computes it.
LEMMA BaseTimes ==
  ASSUME NEW a \in Nat PROVE a * physical_blocks = Base(a)
BY GeometryFacts, SMTT(30) DEF Base

\* Initialisation gives up less than an erase unit of what is on the flash.
Tight ==
  \E a \in Nat, u \in 0 .. EraseUnits - 1, v \in 0 .. EraseBlocks - 1, g \in Nat :
    Layout(flash, a, u, v, g) /\ earliest_block - EraseBlocks < Low(a, g)

\* An earliest block within a unit of the first one that is left.
LEMMA TightStep ==
  ASSUME BootFrame, NEW a, NEW u, NEW v, NEW g, Layout(flash, a, u, v, g),
         earliest_block' - EraseBlocks < Low(a, g)
  PROVE  Tight'
<1>1. flash' = flash  BY Zenon DEF BootFrame
<1>2. Layout(flash', a, u, v, g)  BY <1>1, Zenon
<1>3. /\ a \in Nat /\ u \in 0 .. EraseUnits - 1 /\ v \in 0 .. EraseBlocks - 1
      /\ g \in Nat
  BY PositionFacts, ZenonT(40) DEF Layout, Position
<1> QED BY <1>2, <1>3, Zenon DEF Tight

\* data_logger_common_init keeps the invariant, and an empty log is found to
\* be empty.
LEMMA CommonInitStep ==
  ASSUME LogInv, InRange, data_logger_common_init
  PROVE  StateInv' /\ (Up' => Tight')
<1> DEFINE first == flash[0].wrap
           last == flash[physical_blocks - 1].wrap
<1>1. boot.pc = "first" /\ BootFrame /\ ~Up
  BY Zenon DEF data_logger_common_init, Up
<1>2. ct.pc = "idle" /\ FlashInv /\ FlashInRange(flash)
      /\ current_block = 0 /\ earliest_block = 0 /\ ct' = ct
  BY <1>1, BootFacts, Zenon DEF LogInv, StateInv, BootFrame
<1>3. PICK a, u, v, g : Layout(flash, a, u, v, g)
  BY <1>2, ZenonT(40) DEF FlashInv
<1>4. /\ a \in Nat /\ Base(a) \in Nat /\ g \in Nat /\ Unit(u) \in Nat /\ v \in Nat
      /\ Unit(u) + v \in Phy
      /\ a > 0 => a - 1 \in Nat /\ Base(a - 1) \in Nat
  BY <1>3, PositionFacts, Zenon DEF Layout
<1>5. Unit(u) + v = 0 => Top(a, u, v) = Base(a)
  BY <1>4, SMTT(30) DEF Top
<1>6. \A pc \in {"run", "search"} : BootPc(pc).pc = pc
  BY IdleTypes, Zenon
<1>7. LooksErased(WrapErased)
  BY ZenonT(40) DEF LooksErased
<1>8. \/ Unit(u) + v = 0 /\ a = 0 /\ first = WrapErased /\ last = WrapErased
      \/ /\ Unit(u) + v = 0 /\ a > 0 /\ g = 0
         /\ first = a /\ last = a /\ ~LooksErased(a)
      \/ /\ Unit(u) + v = 0 /\ a > 0 /\ g > 0 /\ g <= EraseBlocks
         /\ first = WrapErased /\ last = a /\ ~LooksErased(a)
      \/ Unit(u) + v > 0 /\ first = a + 1 /\ ~LooksErased(a + 1) /\ last # first
  BY <1>2, <1>3, FirstAndLast, Zenon
<1>9. \/ /\ first = last /\ LooksErased(first)
         /\ boot' = BootPc("run") /\ UNCHANGED counters
      \/ /\ first = last /\ ~LooksErased(first)
         /\ boot' = BootPc("run")
         /\ current_block' = first * physical_blocks
         /\ earliest_block' = (first - 1) * physical_blocks
      \/ /\ first # last /\ LooksErased(first)
         /\ boot' = BootPc("run")
         /\ current_block' = last * physical_blocks
         /\ earliest_block' = (last - 1) * physical_blocks + EraseBlocks
      \/ /\ first # last /\ ~LooksErased(first)
         /\ boot' = [BootPc("search") EXCEPT !.high = physical_blocks - 1, !.counter = first]
  BY ZenonT(40) DEF data_logger_common_init
<1> HIDE DEF first, last
<1>10. ASSUME boot'.pc = "run", current_block' = Top(a, u, v),
              earliest_block' >= Low(a, g), earliest_block' - EraseBlocks < Low(a, g)
       PROVE  StateInv' /\ Tight'
  <2>1. Agrees(a, u, v, g)'
    BY <1>2, <1>10, ZenonT(40) DEF Agrees, CommitAgrees
  <2> QED BY <1>1, <1>3, <1>10, <2>1, BootStepDone, TightStep, ZenonT(40)
<1>11. CASE Unit(u) + v = 0 /\ a = 0 /\ first = WrapErased /\ last = WrapErased
  <2>1. boot' = BootPc("run") /\ UNCHANGED counters
    BY <1>7, <1>9, <1>11, ZenonT(40)
  <2>2. /\ boot'.pc = "run" /\ current_block' = Top(a, u, v)
        /\ earliest_block' >= Low(a, g) /\ earliest_block' - EraseBlocks < Low(a, g)
    <3>1. boot'.pc = "run"  BY <1>6, <2>1, ZenonT(40)
    <3>2. current_block' = 0 /\ earliest_block' = 0 /\ Low(a, g) = 0
      BY <1>2, <1>11, <2>1, Zenon DEF counters, Low
    <3>3. Top(a, u, v) = 0
      BY <1>5, <1>11, BaseZero, ZenonT(40)
    <3> QED BY <3>1, <3>2, <3>3, GeometryAssumption, SMTT(30)
  <2> QED BY <1>10, <2>2, Zenon
<1>12. CASE /\ Unit(u) + v = 0 /\ a > 0 /\ g = 0
            /\ first = a /\ last = a /\ ~LooksErased(a)
  <2>1. /\ boot' = BootPc("run") /\ current_block' = a * physical_blocks
        /\ earliest_block' = (a - 1) * physical_blocks
    BY <1>9, <1>12, ZenonT(40)
  <2>2. current_block' = Base(a) /\ earliest_block' = Base(a - 1)
    BY <1>4, <1>12, <2>1, BaseTimes, ZenonT(40)
  <2>3. boot'.pc = "run" /\ current_block' = Top(a, u, v)
    BY <1>5, <1>6, <1>12, <2>1, <2>2, ZenonT(40)
  <2>4. Base(a - 1) \in Nat /\ Low(a, g) = Base(a - 1) + g
    BY <1>4, <1>12 DEF Low
  <2>5. earliest_block' >= Low(a, g) /\ earliest_block' - EraseBlocks < Low(a, g)
    BY <1>12, <2>2, <2>4, GeometryAssumption, SMTT(30)
  <2> QED BY <1>10, <2>3, <2>5, Zenon
<1>13. CASE /\ Unit(u) + v = 0 /\ a > 0 /\ g > 0 /\ g <= EraseBlocks
            /\ first = WrapErased /\ last = a /\ ~LooksErased(a)
  <2>1. /\ boot' = BootPc("run") /\ current_block' = a * physical_blocks
        /\ earliest_block' = (a - 1) * physical_blocks + EraseBlocks
    BY <1>7, <1>9, <1>13, ZenonT(40)
  <2>2. current_block' = Base(a) /\ earliest_block' = Base(a - 1) + EraseBlocks
    BY <1>4, <1>13, <2>1, BaseTimes, Zenon
  <2>3. boot'.pc = "run" /\ current_block' = Top(a, u, v)
    BY <1>5, <1>6, <1>13, <2>1, <2>2, ZenonT(40)
  <2>4. Base(a - 1) \in Nat /\ Low(a, g) = Base(a - 1) + g
    BY <1>4, <1>13, SMTT(30) DEF Low
  <2>5. earliest_block' >= Low(a, g) /\ earliest_block' - EraseBlocks < Low(a, g)
    <3>1. g \in Nat /\ g > 0 /\ g <= EraseBlocks /\ EraseBlocks \in Nat
      BY <1>4, <1>13, GeometryAssumption, ZenonT(40)
    <3>2. earliest_block' = Base(a - 1) + EraseBlocks
      BY <2>2, Zenon
    <3> QED BY <2>4, <3>1, <3>2, SMTT(30)
  <2> QED BY <1>10, <2>3, <2>5, SMTT(30)
<1>14. CASE Unit(u) + v > 0 /\ first = a + 1 /\ ~LooksErased(a + 1) /\ last # first
  <2>1. boot' = [BootPc("search") EXCEPT !.high = physical_blocks - 1, !.counter = a + 1]
    BY <1>9, <1>14, Zenon
  <2>2. /\ boot'.pc = "search" /\ boot'.counter = a + 1 /\ boot'.low = 0
        /\ boot'.high = physical_blocks - 1 /\ boot'.res = 0
    BY <2>1, ZenonT(40) DEF BootPc
  <2>3. SearchAgrees(a, Unit(u) + v)'
    BY <1>4, <1>14, <2>2, GeometryFacts, SMTT(30) DEF SearchAgrees, Phy
  <2>4. Agrees(a, u, v, g)'
    BY <2>2, <2>3, ZenonT(40) DEF Agrees, Up
  <2>5. ~Up'  BY <2>2, Zenon DEF Up
  <2> QED BY <1>1, <1>3, <2>2, <2>4, <2>5, BootStepDone, ZenonT(40)
<1> QED BY <1>8, <1>11, <1>12, <1>13, <1>14, ZenonT(40)

\* Halving the range keeps the answer in it.
LEMMA SearchStep ==
  ASSUME LogInv, InRange, current_block_search
  PROVE  StateInv'
<1> DEFINE mid == (boot.low + boot.high) \div 2
<1>1. /\ boot.pc = "search" /\ boot.low <= boot.high /\ BootFrame /\ ~Up
      /\ boot' = IF flash[mid].wrap = boot.counter
                 THEN [boot EXCEPT !.low = mid + 1, !.res = mid]
                 ELSE [boot EXCEPT !.high = mid - 1]
  BY Zenon DEF current_block_search, Up
<1>2. FlashInv /\ FlashInRange(flash) /\ boot \in BootType
  BY <1>1, BootFacts, ZenonT(40)
<1>3. PICK a, u, v, g : Layout(flash, a, u, v, g) /\ SearchAgrees(a, Unit(u) + v)
  BY <1>1, <1>2, SMTT(30) DEF FlashInv, Agrees
<1> DEFINE c == Unit(u) + v
<1>4. /\ a \in Nat /\ c \in Phy /\ g \in Nat /\ g >= c
      /\ a > 0 => a - 1 \in Nat
  BY <1>3, PositionFacts, ZenonT(40) DEF Layout
<1>5. a < MaxWraps /\ Holds(flash, a, c, g)
  BY <1>2, <1>3, LapInRange, Zenon DEF SearchAgrees, Layout
<1>6. SearchAgrees(a, c)  BY <1>3, ZenonT(40)
<1> HIDE DEF c
<1>7. c \in Nat /\ boot.low \in Nat /\ boot.high \in Int
  BY <1>2, <1>4, GeometryFacts, Zenon DEF BootType
<1>8. mid \in Nat /\ boot.low <= mid /\ mid <= boot.high
  BY <1>1, <1>7, SMTT(30)
<1> HIDE DEF mid
<1>9. mid \in Phy
  BY <1>6, <1>7, <1>8, GeometryFacts, SMTT(30) DEF SearchAgrees, Phy
<1>10. flash[mid].wrap = boot.counter <=> mid < c
  <2>1. /\ mid < c => flash[mid] = Blk(a, mid)
        /\ mid >= c /\ (mid < g \/ a = 0) => flash[mid] = Erased
        /\ mid >= c /\ mid >= g /\ a > 0 => flash[mid] = Blk(a - 1, mid)
    BY <1>5, <1>9, Zenon DEF Holds
  <2>2. boot.counter = a + 1 /\ WrapErased = MaxWraps + 1 /\ MaxWraps \in Nat
    BY <1>6, GeometryAssumption, ZenonT(40) DEF SearchAgrees, WrapErased
  <2>3. mid < c => flash[mid].wrap = a + 1
    <3>1. Blk(a, mid).wrap = a + 1  BY <1>4, BlkFacts, Zenon
    <3> QED BY <2>1, <3>1, Zenon
  <2>4. mid >= c => flash[mid].wrap = WrapErased \/ flash[mid].wrap = a
    <3>1. CASE mid >= c /\ (mid < g \/ a = 0)
      BY <2>1, <3>1, ErasedFacts, Zenon
    <3>2. CASE mid >= c /\ mid >= g /\ a > 0
      <4>1. a - 1 \in Nat /\ (a - 1) + 1 = a  BY <1>4, <3>2
      <4>2. Blk(a - 1, mid).wrap = (a - 1) + 1  BY <4>1, BlkFacts, Zenon
      <4> QED BY <2>1, <3>2, <4>1, <4>2, Zenon
    <3> QED BY <1>4, <1>8, <3>1, <3>2
  <2> QED BY <1>4, <1>5, <1>7, <1>8, <2>2, <2>3, <2>4, SMTT(30)
<1>11. CASE mid < c
  <2>1. boot' = [boot EXCEPT !.low = mid + 1, !.res = mid]
    BY <1>1, <1>10, <1>11, Zenon
  <2>2. /\ boot'.pc = "search" /\ boot'.counter = boot.counter /\ boot'.high = boot.high
        /\ boot'.low = mid + 1 /\ boot'.res = mid
    BY <1>1, <1>2, <2>1, ZenonT(40) DEF BootType
  <2>3. SearchAgrees(a, c)'
    BY <1>6, <1>7, <1>8, <1>11, <2>2, SMTT(30) DEF SearchAgrees
  <2>4. Agrees(a, u, v, g)'
    BY <2>2, <2>3, Zenon DEF Agrees, Up, c
  <2> QED BY <1>1, <1>3, <2>2, <2>4, BootStepDone, Zenon
<1>12. CASE ~(mid < c)
  <2>1. boot' = [boot EXCEPT !.high = mid - 1]
    BY <1>1, <1>10, <1>12, ZenonT(40)
  <2>2. /\ boot'.pc = "search" /\ boot'.counter = boot.counter /\ boot'.high = mid - 1
        /\ boot'.low = boot.low /\ boot'.res = boot.res
    BY <1>1, <1>2, <2>1, ZenonT(40) DEF BootType
  <2>3. SearchAgrees(a, c)'
    BY <1>6, <1>7, <1>8, <1>12, <2>2, GeometryFacts, SMTT(30) DEF SearchAgrees
  <2>4. Agrees(a, u, v, g)'
    BY <2>2, <2>3, Zenon DEF Agrees, Up, c
  <2> QED BY <1>1, <1>3, <2>2, <2>4, BootStepDone, ZenonT(40)
<1> QED BY <1>11, <1>12, Zenon

\* The search ends at the newest block.
LEMMA SearchDoneStep ==
  ASSUME LogInv, InRange, current_block_search_done
  PROVE  StateInv' /\ (Up' => Tight')
<1> DEFINE current == (boot.counter - 1) * physical_blocks + boot.res + 1
<1>1. /\ boot.pc = "search" /\ boot.low > boot.high /\ BootFrame /\ ~Up
      /\ current_block' = current
      /\ IF boot.counter = 1
         THEN earliest_block' = 0 /\ boot' = BootPc("run")
         ELSE /\ earliest_block' = current - physical_blocks
              /\ boot' = [BootPc("earliest") EXCEPT
                            !.res = (current - physical_blocks) % physical_blocks,
                            !.left = 2 * EraseBlocks]
  BY Zenon DEF current_block_search_done, Up
<1>2. FlashInv /\ boot \in BootType /\ ct.pc = "idle" /\ ct' = ct
  BY <1>1, BootFacts, ZenonT(40) DEF BootFrame
<1>3. PICK a, u, v, g : Layout(flash, a, u, v, g) /\ SearchAgrees(a, Unit(u) + v)
  BY <1>1, <1>2 DEF FlashInv, Agrees
<1> DEFINE c == Unit(u) + v
<1>4. /\ a \in Nat /\ c \in Phy /\ g \in Nat /\ g >= c /\ Base(a) \in Nat
      /\ Unit(u) \in Nat /\ v \in Nat
      /\ a > 0 => /\ a - 1 \in Nat /\ Base(a - 1) \in Nat
                  /\ Base(a) = Base(a - 1) + physical_blocks
  BY <1>3, PositionFacts, ZenonT(40) DEF Layout
<1>5. SearchAgrees(a, c)  BY <1>3, SMTT(30)
<1>6. Top(a, u, v) = Base(a) + c
  BY <1>4, SMTT(30) DEF Top
<1> HIDE DEF c
<1>7. /\ c \in Nat /\ c > 0 /\ boot.counter = a + 1 /\ boot.res + 1 = c
      /\ boot.res \in Nat /\ c < physical_blocks
  <2>1. /\ boot.low \in Nat /\ boot.high \in Int /\ boot.res \in Nat
    BY <1>2, ZenonT(40) DEF BootType
  <2>2. c \in Nat /\ c < physical_blocks
    BY <1>4, GeometryFacts, SMTT(30) DEF Phy
  <2>3. /\ c > 0 /\ boot.counter = a + 1 /\ boot.low <= c /\ c <= boot.high + 1
        /\ boot.res = IF boot.low = 0 THEN 0 ELSE boot.low - 1
    BY <1>5, ZenonT(40) DEF SearchAgrees
  <2>4. boot.low = c
    BY <1>1, <2>1, <2>2, <2>3, SMTT(30)
  <2> QED BY <2>1, <2>2, <2>3, <2>4, SMTT(30)
<1>8. current = Base(a) + c
  <2>1. boot.counter - 1 = a  BY <1>4, <1>7, SMTT(30)
  <2>2. (boot.counter - 1) * physical_blocks = Base(a)
    BY <1>4, <2>1, BaseTimes, ZenonT(40)
  <2> QED BY <1>4, <1>7, <2>2, SMTT(30)
<1> HIDE DEF current
<1>9. CASE boot.counter = 1
  <2>1. a = 0 /\ earliest_block' = 0 /\ boot' = BootPc("run")
    BY <1>1, <1>4, <1>7, <1>9, SMTT(30)
  <2>2. boot'.pc = "run"
    BY <2>1, IdleTypes, Zenon
  <2>3. /\ current_block' = Top(a, u, v)
        /\ earliest_block' >= Low(a, g) /\ earliest_block' - EraseBlocks < Low(a, g)
    BY <1>1, <1>6, <1>8, <2>1, GeometryAssumption, SMTT(30) DEF Low
  <2>4. Agrees(a, u, v, g)'
    BY <1>2, <2>2, <2>3, Zenon DEF Agrees, CommitAgrees
  <2> QED BY <1>1, <1>3, <2>2, <2>3, <2>4, BootStepDone, TightStep, Zenon
<1>10. CASE boot.counter # 1
  <2>1. a > 0 /\ a # 0
    BY <1>4, <1>7, <1>10
  <2>2. current - physical_blocks = Base(a - 1) + c
    BY <1>4, <1>7, <1>8, <2>1, GeometryFacts, SMTT(30)
  <2>3. (current - physical_blocks) % physical_blocks = c
    BY <1>4, <2>1, <2>2, BaseSplit
  <2>4. /\ boot'.pc = "earliest" /\ boot'.res = c /\ boot'.left = 2 * EraseBlocks
    BY <1>1, <1>10, <2>3, ZenonT(40) DEF BootPc
  <2>5. current_block' = Top(a, u, v) /\ earliest_block' = Base(a - 1) + c
    BY <1>1, <1>6, <1>8, <1>10, <2>2, Zenon
  <2>6. EarliestAgrees(a, c, g, Top(a, u, v))'
    BY <1>4, <1>7, <2>1, <2>4, <2>5, GeometryFacts, GeometryAssumption, SMTT(30) DEF EarliestAgrees
  <2>7. Agrees(a, u, v, g)'
    BY <2>4, <2>6, Zenon DEF Agrees, Up, c
  <2>8. ~Up'  BY <2>4, ZenonT(40) DEF Up
  <2> QED BY <1>1, <1>3, <2>4, <2>7, <2>8, BootStepDone, ZenonT(40)
<1> QED BY <1>9, <1>10, ZenonT(40)

\* While the earliest block is searched, the limit of two erase units is not
\* reached, and a block without data is found exactly before the oldest block.
LEMMA EarliestFacts ==
  ASSUME FlashInRange(flash), boot \in BootType,
         NEW a, NEW u, NEW v, NEW g, Layout(flash, a, u, v, g),
         EarliestAgrees(a, Unit(u) + v, g, Top(a, u, v))
  PROVE  /\ boot.left > 0 /\ boot.res \in Phy
         /\ LooksErased(flash[boot.res].wrap) <=> boot.res < g
<1> DEFINE c == Unit(u) + v
<1>1. /\ a \in Nat /\ c \in Phy /\ g \in Nat /\ Unit(u) \in Nat /\ v \in Nat
      /\ g <= Unit(u) + EraseBlocks
      /\ a > 0 => a - 1 \in Nat
  BY PositionFacts, ZenonT(40) DEF Layout
<1>2. boot.left > 0
  BY <1>1, GeometryAssumption DEF EarliestAgrees, BootType
<1>3. Holds(flash, a, c, g) /\ a <= MaxWraps
  BY LapInRange, ZenonT(40) DEF Layout
<1>4. a > 0 /\ c <= boot.res /\ boot.res <= g /\ boot.res < physical_blocks
      /\ boot.res \in Nat
  BY Zenon DEF EarliestAgrees, BootType
<1> HIDE DEF c
<1>5. boot.res \in Phy
  BY <1>4, GeometryFacts, SMTT(30) DEF Phy
<1>6. c \in Nat
  BY <1>1, GeometryFacts, Zenon DEF Phy
<1>7. CASE boot.res < g
  <2>1. flash[boot.res] = Erased
    BY <1>3, <1>4, <1>5, <1>6, <1>7, Zenon DEF Holds
  <2>2. LooksErased(flash[boot.res].wrap)
    BY <2>1, ErasedFacts, ZenonT(40) DEF LooksErased
  <2> QED BY <1>2, <1>5, <1>7, <2>2, ZenonT(40)
<1>8. CASE ~(boot.res < g)
  <2>1. boot.res >= g
    BY <1>1, <1>4, <1>8, SMTT(30)
  <2>2. flash[boot.res] = Blk(a - 1, boot.res)
    BY <1>3, <1>4, <1>5, <2>1, ZenonT(40) DEF Holds
  <2>3. flash[boot.res].wrap = a
    <3>1. a - 1 \in Nat /\ (a - 1) + 1 = a  BY <1>1, <1>4, SMTT(30)
    <3>2. Blk(a - 1, boot.res).wrap = (a - 1) + 1  BY <3>1, BlkFacts, ZenonT(40)
    <3> QED BY <2>2, <3>1, <3>2, ZenonT(40)
  <2>4. ~LooksErased(a)
    BY <1>1, <1>3, <1>4, GeometryAssumption, SMTT(30) DEF LooksErased, WrapErased
  <2> QED BY <1>2, <1>5, <1>8, <2>3, <2>4, ZenonT(40)
<1> QED BY <1>7, <1>8, Zenon

\* The search for the earliest block ends within a unit of it.
LEMMA EarliestStep ==
  ASSUME LogInv, InRange, earliest_block_search
  PROVE  StateInv' /\ (Up' => Tight')
<1>1. /\ boot.pc = "earliest" /\ BootFrame /\ ~Up /\ current_block' = current_block
  BY Zenon DEF earliest_block_search, Up
<1>2. FlashInv /\ FlashInRange(flash) /\ boot \in BootType /\ ct.pc = "idle" /\ ct' = ct
  BY <1>1, BootFacts, ZenonT(40) DEF BootFrame
<1>3. PICK a, u, v, g : /\ Layout(flash, a, u, v, g)
                        /\ EarliestAgrees(a, Unit(u) + v, g, Top(a, u, v))
  BY <1>1, <1>2, SMTT(30) DEF FlashInv, Agrees
<1> DEFINE c == Unit(u) + v
           e == boot.res
<1>4. /\ boot.left > 0 /\ e \in Phy
      /\ LooksErased(flash[e].wrap) <=> e < g
  BY <1>2, <1>3, EarliestFacts, ZenonT(40)
<1>5. /\ a \in Nat /\ c \in Phy /\ g \in Nat /\ g >= c
      /\ Unit(u) \in Nat /\ g <= physical_blocks
      /\ a > 0 => a - 1 \in Nat /\ Base(a - 1) \in Nat
  <2>1. /\ a \in Nat /\ c \in Phy /\ g \in Nat /\ g >= c /\ Unit(u) \in Nat
        /\ g <= Unit(u) + EraseBlocks /\ Unit(u) + EraseBlocks <= physical_blocks
        /\ a > 0 => a - 1 \in Nat /\ Base(a - 1) \in Nat
    BY <1>3, PositionFacts, ZenonT(40) DEF Layout
  <2>2. g <= physical_blocks  BY <2>1, GeometryAssumption, GeometryFacts, SMTT(30)
  <2> QED BY <2>1, <2>2, Zenon
<1>6. EarliestAgrees(a, c, g, Top(a, u, v))  BY <1>3, ZenonT(40)
<1>7. /\ a > 0 /\ a # 0 /\ current_block = Top(a, u, v) /\ earliest_block = Base(a - 1) + e
      /\ c <= e /\ e <= g /\ e < physical_blocks /\ e \in Nat /\ boot.left \in Nat
      /\ boot.left = 2 * EraseBlocks - (e - c)
  BY <1>2, <1>5, <1>6, SMTT(30) DEF EarliestAgrees, BootType
<1> HIDE DEF c
<1>8. ASSUME boot'.pc = "run", earliest_block' = Base(a - 1) + g
      PROVE  StateInv' /\ Tight'
  <2>1. earliest_block' >= Low(a, g) /\ earliest_block' - EraseBlocks < Low(a, g)
    BY <1>5, <1>7, <1>8, GeometryAssumption, SMTT(30) DEF Low
  <2>2. Agrees(a, u, v, g)'
    BY <1>1, <1>2, <1>7, <1>8, <2>1, Zenon DEF Agrees, CommitAgrees
  <2> QED BY <1>1, <1>3, <1>8, <2>1, <2>2, BootStepDone, TightStep, ZenonT(40)
<1>9. CASE ~LooksErased(flash[e].wrap)
  <2>1. boot' = BootPc("run") /\ earliest_block' = earliest_block
    BY <1>4, <1>9 DEF earliest_block_search
  <2>2. boot'.pc = "run"
    BY <2>1, IdleTypes, ZenonT(40)
  <2>3. e = g
    BY <1>4, <1>5, <1>7, <1>9, SMTT(30)
  <2> QED BY <1>7, <1>8, <2>1, <2>2, <2>3, ZenonT(40)
<1>10. CASE LooksErased(flash[e].wrap)
  <2>1. /\ earliest_block' = earliest_block + 1
        /\ boot' = IF e + 1 = physical_blocks THEN BootPc("run")
                   ELSE [boot EXCEPT !.res = @ + 1, !.left = @ - 1]
    BY <1>4, <1>10, SMTT(30) DEF earliest_block_search
  <2>2. e < g /\ earliest_block' = Base(a - 1) + (e + 1)
    BY <1>4, <1>5, <1>7, <1>10, <2>1, SMTT(30)
  <2>3. CASE e + 1 = physical_blocks
    <3>1. g = e + 1
      BY <1>5, <1>7, <2>2, <2>3, SMTT(30)
    <3>2. boot'.pc = "run"
      BY <2>1, <2>3, IdleTypes, Zenon
    <3> QED BY <1>8, <2>2, <3>1, <3>2, Zenon
  <2>4. CASE e + 1 # physical_blocks
    <3>1. boot' = [boot EXCEPT !.res = e + 1, !.left = boot.left - 1]
      BY <1>2, <2>1, <2>4, Zenon DEF BootType
    <3>2. boot'.pc = "earliest" /\ boot'.res = e + 1 /\ boot'.left = boot.left - 1
      BY <1>1, <1>2, <3>1, ZenonT(40) DEF BootType
    <3>3. c \in Nat /\ e + 1 <= g /\ e + 1 < physical_blocks /\ c <= e + 1
      BY <1>5, <1>7, <2>2, <2>4, GeometryFacts DEF Phy
    <3>4. boot'.left = 2 * EraseBlocks - ((e + 1) - c)
      BY <1>7, <3>2, <3>3, GeometryAssumption, SMTT(30)
    <3>5. EarliestAgrees(a, c, g, Top(a, u, v))'
      BY <1>1, <1>7, <2>2, <3>2, <3>3, <3>4, Zenon DEF EarliestAgrees
    <3>6. Agrees(a, u, v, g)'
      BY <3>2, <3>5, ZenonT(40) DEF Agrees, Up, c
    <3>7. ~Up'  BY <3>2, Zenon DEF Up
    <3> QED BY <1>1, <1>3, <3>2, <3>6, <3>7, BootStepDone, ZenonT(40)
  <2> QED BY <2>3, <2>4, ZenonT(40)
<1> QED BY <1>9, <1>10, ZenonT(40)

\* Initialisation that fails keeps the invariant.
LEMMA BootReadFailsStep ==
  ASSUME LogInv, InRange, BootReadFails
  PROVE  StateInv'
<1>1. boot.pc \in {"first", "search", "earliest"} /\ BootFrame /\ boot' = BootPc("failed")
  BY ZenonT(40) DEF BootReadFails
<1>2. ~Up /\ boot'.pc = "failed"
  BY <1>1, IdleTypes, Zenon DEF Up
<1>3. FlashInv
  BY <1>1, <1>2, BootFacts, ZenonT(40)
<1>4. PICK a, u, v, g : Layout(flash, a, u, v, g)
  BY <1>3, Zenon DEF FlashInv
<1>5. Agrees(a, u, v, g)'
  BY <1>2, ZenonT(40) DEF Agrees, Up
<1> QED BY <1>1, <1>2, <1>4, <1>5, BootStepDone, ZenonT(40)

\* Every step keeps the invariant.
LEMMA LogInvStep ==
  ASSUME LogInv, EraseHazards = {}, InRange, InRange', [Next]_vars
  PROVE  LogInv'
<1>1. TypeInv'
  BY TypeInvStep, ZenonT(40) DEF LogInv
<1> SUFFICES StateInv'
  BY <1>1, Zenon DEF LogInv
<1>2. CASE data_logger_block_write \/ data_logger_flush
  BY <1>2, CallersStep, ZenonT(40)
<1>3. CASE \E r \in Requests : QueuePut(r)
  BY <1>3, QueuePutStep, Zenon
<1>4. CASE CommitThread
  BY <1>4, CommitFnStep, StartStep, EraseUnitStep, ProgramStep, DoneStep, ZenonT(40) DEF CommitThread
<1>5. CASE \E first \in 0 .. current_block, n \in 1 .. MaxReadLen :
             data_logger_block_read(first, first + n - 1)
  <2>1. UNCHANGED <<flash, counters, queue, ct, er, boot>>
    BY <1>5, Zenon DEF data_logger_block_read
  <2> QED BY <2>1, ReadStep, ZenonT(40)
<1>6. CASE backend_read
  <2>1. UNCHANGED <<flash, counters, queue, ct, er, boot>>
    BY <1>6, Zenon DEF backend_read
  <2> QED BY <2>1, ReadStep, SMTT(30)
<1>7. CASE \E erase_all \in BOOLEAN : data_logger_erase(erase_all)
  BY <1>7, EraseStartStep, ZenonT(40)
<1>8. CASE logger_flash_map_reset
  BY <1>8, ResetStep, Zenon
<1>9. CASE data_logger_erase_done
  BY <1>9, EraseDoneStep, ZenonT(40)
<1>10. CASE Reboot
  BY <1>10, RebootStep, Zenon
<1>11. CASE Boot
  BY <1>11, BootReadFailsStep, CommonInitStep, SearchStep, SearchDoneStep, EarliestStep, ZenonT(40)
     DEF Boot
<1>12. CASE UNCHANGED vars
  <2>1. UNCHANGED <<flash, counters, queue, ct, er, boot>>
    BY <1>12, ZenonT(40) DEF vars, counters, queue
  <2> QED BY <2>1, ReadStep
<1> QED BY <1>2, <1>3, <1>4, <1>5, <1>6, <1>7, <1>8, <1>9, <1>10, <1>11, <1>12, ZenonT(40) DEF Next

\* The invariant always holds.
LEMMA Induction ==
  ASSUME EraseHazards = {}
  PROVE  Spec /\ []InRange => []LogInv
<1>1. LogInv /\ InRange /\ InRange' /\ [Next]_vars => LogInv'
  BY LogInvStep, ZenonT(40)
<1> QED BY <1>1, InitLogInv, PTL DEF Spec

-----------------------------------------------------------------------------
(***************************************************************************)
(* What the invariant gives.                                               *)
(***************************************************************************)
\* What the counters describe is on the flash.
LEMMA LogInvWindow == LogInv => WindowPresent
<1> SUFFICES ASSUME LogInv, Up, ~erasing, InRange,
                    NEW b \in earliest_block .. current_block - 1
             PROVE  Present(b)
  BY Zenon DEF WindowPresent
<1>1. PICK a, u, v, g : Layout(flash, a, u, v, g) /\ CommitAgrees(a, u, v, g)
  BY DEF LogInv, StateInv, FlashInv, Agrees
<1>2. FlashInRange(flash) /\ current_block \in Nat /\ earliest_block \in Int
      /\ ct \in CtType
  BY InRangeFlash, ZenonT(40) DEF LogInv, TypeInv, TypeOK
<1>3. Top(a, u, v) \in Nat /\ Low(a, g) \in Nat
  BY <1>1, TopFacts, Zenon DEF Layout
<1>4. earliest_block >= Low(a, g) /\ current_block <= Top(a, u, v)
  <2>1. ct.pc \in {"idle", "start", "erase", "write", "written"}
    BY <1>2, Zenon DEF CtType
  <2>2. CASE ct.pc = "erase"
    BY <1>1, <1>2, <1>3, <2>2, GeometryAssumption, SMTT(30) DEF CommitAgrees
  <2>3. CASE ct.pc # "erase"
    BY <1>1, <1>2, <1>3, <2>1, <2>3 DEF CommitAgrees
  <2> QED BY <2>2, <2>3, ZenonT(40)
<1>5. b \in Int /\ b >= Low(a, g) /\ b < Top(a, u, v)
  BY <1>2, <1>3, <1>4, SMTT(30)
<1> QED BY <1>1, <1>2, <1>5, BlocksPresent, ZenonT(40) DEF Present

\* A log that has blocks has at least one of them on the flash.
LEMMA LowBelowTop ==
  ASSUME NEW a, NEW u, NEW v, NEW g, Position(a, u, v, g), Top(a, u, v) # 0
  PROVE  Low(a, g) < Top(a, u, v)
<1>1. /\ a \in Nat /\ v \in Nat /\ Base(a) \in Nat /\ Unit(u) \in Nat
      /\ Unit(u) + EraseBlocks <= physical_blocks
      /\ g \in Nat /\ g <= Unit(u) + EraseBlocks
      /\ Unit(u) + v = 0 => g < physical_blocks
      /\ a > 0 => /\ a - 1 \in Nat /\ Base(a - 1) \in Nat
                  /\ Base(a) = Base(a - 1) + physical_blocks
  BY PositionFacts, ZenonT(40)
<1>2. Top(a, u, v) \in Nat /\ Low(a, g) \in Nat
  BY TopFacts, Zenon
<1>3. CASE a = 0
  BY <1>2, <1>3, SMTT(30) DEF Low
<1>4. CASE a # 0
  <2>1. Low(a, g) = Base(a - 1) + g /\ Top(a, u, v) = Base(a - 1) + physical_blocks + Unit(u) + v
    BY <1>1, <1>4, SMTT(30) DEF Low, Top
  <2>2. Base(a - 1) \in Nat  BY <1>1, <1>4, SMTT(30)
  <2> QED BY <1>1, <2>1, <2>2, GeometryFacts, GeometryAssumption, SMTT(30)
<1> QED BY <1>3, <1>4, Zenon

\* The write position is behind the newest block.
LEMMA LogInvNewest == LogInv => CurrentIsNewest
<1> DEFINE top == IF ct.pc = "written" THEN current_block + 1 ELSE current_block
<1> SUFFICES ASSUME LogInv, Up, ~erasing, InRange
             PROVE  Newest(top) /\ (top = 0 \/ Present(top - 1))
  BY Zenon DEF CurrentIsNewest
<1>1. PICK a, u, v, g : Layout(flash, a, u, v, g) /\ CommitAgrees(a, u, v, g)
  BY SMTT(30) DEF LogInv, StateInv, FlashInv, Agrees
<1>2. FlashInRange(flash) /\ current_block \in Nat /\ ct \in CtType
  BY InRangeFlash, Zenon DEF LogInv, TypeInv, TypeOK
<1>3. Top(a, u, v) \in Nat /\ Low(a, g) \in Nat
  BY <1>1, TopFacts, ZenonT(40) DEF Layout
<1>4. top = Top(a, u, v)
  BY <1>1, <1>2, Zenon DEF CommitAgrees, CtType
<1> HIDE DEF top
<1>5. Newest(top)
  <2> SUFFICES ASSUME NEW p \in Phy PROVE flash[p].lb < top
    BY Zenon DEF Newest
  <2>1. flash[p].lb = -1 \/ (flash[p].lb \in Nat /\ flash[p].lb < Top(a, u, v))
    BY <1>1, BlocksOnFlash, ZenonT(40)
  <2>2. flash[p].lb < Top(a, u, v)  BY <1>3, <2>1
  <2> QED BY <1>4, <2>2, ZenonT(40)
<1>6. ASSUME top # 0 PROVE Present(top - 1)
  <2>1. top - 1 \in Int /\ top - 1 < Top(a, u, v)
    BY <1>3, <1>4, SMTT(30)
  <2>2. top - 1 >= Low(a, g)
    BY <1>1, <1>3, <1>4, <1>6, LowBelowTop, SMTT(30) DEF Layout
  <2> QED BY <1>1, <1>2, <2>1, <2>2, BlocksPresent, ZenonT(40) DEF Present
<1> QED BY <1>5, <1>6, ZenonT(40)

\* The search for the earliest block ends before its limit.
LEMMA LogInvSearch == LogInv => SearchFindsData
<1> SUFFICES ASSUME LogInv, boot.pc = "earliest", InRange PROVE boot.left > 0
  BY ZenonT(40) DEF SearchFindsData
<1>1. FlashInv /\ FlashInRange(flash) /\ boot \in BootType
  BY BootFacts, Zenon DEF Up
<1>2. PICK a, u, v, g : /\ Layout(flash, a, u, v, g)
                        /\ EarliestAgrees(a, Unit(u) + v, g, Top(a, u, v))
  BY <1>1, SMTT(30) DEF FlashInv, Agrees
<1> QED BY <1>1, <1>2, EarliestFacts, Zenon

\* Only erased blocks are programmed.
LEMMA LogInvPrograms ==
  LogInv /\ InRange /\ [Next]_vars =>
    (ct.pc = "write" /\ ct'.pc = "written" => flash[ct.phy] = Erased)
<1> SUFFICES ASSUME LogInv, InRange, ct.pc = "write" PROVE flash[ct.phy] = Erased
  BY ZenonT(40)
<1>1. Up /\ ~erasing
  BY Zenon DEF LogInv, StateInv, EraseInv
<1>2. PICK a, u, v, g : Layout(flash, a, u, v, g) /\ CommitAgrees(a, u, v, g)
  BY <1>1, SMTT(30) DEF LogInv, StateInv, FlashInv, Agrees
<1>3. (a = 0 \/ g = Unit(u) + EraseBlocks) /\ ct.phy = Unit(u) + v
  BY <1>2, Zenon DEF CommitAgrees
<1>4. /\ Unit(u) + v \in Phy /\ Unit(u) \in Nat /\ v \in Nat /\ v < EraseBlocks
      /\ Holds(flash, a, Unit(u) + v, g)
  BY <1>2, PositionFacts, ZenonT(40) DEF Layout
<1>5. Unit(u) + v >= Unit(u) + v /\ (Unit(u) + v < g \/ a = 0)
  BY <1>3, <1>4, GeometryAssumption, SMTT(30)
<1> QED BY <1>3, <1>4, <1>5, Zenon DEF Holds

\* The three steps with which initialisation ends.
LEMMA UpOnlyByBoot ==
  ASSUME LogInv, Next, ~Up, Up'
  PROVE  data_logger_common_init \/ current_block_search_done \/ earliest_block_search
<1>1. boot' # boot
  BY Zenon DEF Up
<1>2. ct.pc = "idle"
  BY Zenon DEF LogInv, StateInv
<1>3. CASE Boot
  <2>1. CASE BootReadFails
    BY <2>1, IdleTypes, Zenon DEF BootReadFails, Up
  <2>2. CASE current_block_search
    <3>1. boot \in BootType  BY Zenon DEF LogInv, TypeInv, TypeOK
    <3>2. boot'.pc = "search"
      BY <2>2, <3>1, ZenonT(40) DEF current_block_search, BootType
    <3> QED BY <3>2, ZenonT(40) DEF Up
  <2> QED BY <1>3, <2>1, <2>2, ZenonT(40) DEF Boot
<1>4. CASE Reboot
  BY <1>4, IdleTypes, Zenon DEF Reboot, Up
<1>5. CASE data_logger_block_write \/ data_logger_flush \/ (\E r \in Requests : QueuePut(r))
  BY <1>5, ZenonT(40) DEF data_logger_block_write, data_logger_flush, QueuePut, Up
<1>6. CASE CommitThread
  BY <1>2, <1>6, ZenonT(40) DEF CommitThread, logger_commit_thread_fn, do_block_write_start,
     do_block_write_erase, do_block_write_program, do_block_write_done, Up
<1>7. CASE \E first \in 0 .. current_block, n \in 1 .. MaxReadLen :
             data_logger_block_read(first, first + n - 1)
  BY <1>7, ZenonT(40) DEF data_logger_block_read, Up
<1>8. CASE \E erase_all \in BOOLEAN : data_logger_erase(erase_all)
  BY <1>8, Zenon DEF data_logger_erase, Up
<1>9. CASE backend_read
  BY <1>1, <1>9, ZenonT(40) DEF backend_read
<1>10. CASE logger_flash_map_reset
  BY <1>1, <1>10, Zenon DEF logger_flash_map_reset
<1>11. CASE data_logger_erase_done
  BY <1>1, <1>11, ZenonT(40) DEF data_logger_erase_done
<1> QED BY <1>3, <1>4, <1>5, <1>6, <1>7, <1>8, <1>9, <1>10, <1>11, ZenonT(40) DEF Next

\* Order, in the form the next lemmas use it.
LEMMA Before ==
  ASSUME NEW e \in Int, NEW l \in Int, NEW b \in Nat, b <= e, e < l PROVE b < l
OBVIOUS

\* A number up to another, in the form the next lemmas use it.
LEMMA UpTo ==
  ASSUME NEW n \in Int, NEW b \in 0 .. n PROVE b \in Nat /\ b <= n
BY SMTT(30)

\* Initialisation leaves no block more than a unit before the earliest.
LEMMA BootTight ==
  ASSUME LogInv, LogInv', InRange, Next, ~Up, Up',
         NEW b \in Nat, b <= earliest_block' - EraseBlocks
  PROVE  ~Present(b)'
<1>1. Tight'
  BY UpOnlyByBoot, CommonInitStep, SearchDoneStep, EarliestStep, ZenonT(40)
<1>2. PICK a, u, v, g : Layout(flash', a, u, v, g) /\ earliest_block' - EraseBlocks < Low(a, g)
  BY <1>1, Zenon DEF Tight
<1>3. earliest_block' \in Int /\ Low(a, g) \in Nat /\ EraseBlocks \in Nat
  <2>1. earliest_block' \in Int
    BY Zenon DEF LogInv, TypeInv, TypeOK
  <2>2. Low(a, g) \in Nat
    BY <1>2, TopFacts, ZenonT(40) DEF Layout
  <2> QED BY <2>1, <2>2, GeometryAssumption, ZenonT(40)
<1>4. b \in Nat /\ b < Low(a, g)
  <2>1. earliest_block' - EraseBlocks \in Int
    BY <1>3, SMTT(30)
  <2>2. Low(a, g) \in Int
    BY <1>3
  <2> QED BY <1>2, <2>1, <2>2, Before, Zenon
<1>5. flash'[b % physical_blocks] # Cell(b)
  BY <1>2, <1>4, BlocksGone, ZenonT(40)
<1> QED BY <1>5, Zenon DEF Present

\* data_logger_block_read never lets a caller read a block that is not on the
\* flash: whatever the size of the device, every block between earliest_block
\* and current_block is there, for every interleaving of writers, reboots and
\* failing backend calls, as long as no erase of the whole logger runs beside
\* them (EraseHazards) and the wrap counter has not overflowed (InRange).
THEOREM WindowAlwaysPresent ==
  ASSUME EraseHazards = {}
  PROVE  Spec /\ []InRange => []WindowPresent
<1>1. Spec /\ []InRange => []LogInv  BY Induction, ZenonT(40)
<1> QED BY <1>1, LogInvWindow, PTL

\* current_block is recovered exactly from the flash by data_logger_common_init
\* and kept exact by do_block_write: it is one past the newest block written.
THEOREM CurrentAlwaysNewest ==
  ASSUME EraseHazards = {}
  PROVE  Spec /\ []InRange => []CurrentIsNewest
<1>1. Spec /\ []InRange => []LogInv  BY Induction, SMTT(30)
<1> QED BY <1>1, LogInvNewest, PTL

\* The search for the earliest block in data_logger_common_init never reaches
\* its limit of two erase units, so it never fails with -EINVAL.
THEOREM SearchAlwaysFindsData ==
  ASSUME EraseHazards = {}
  PROVE  Spec /\ []InRange => []SearchFindsData
<1>1. Spec /\ []InRange => []LogInv  BY Induction
<1> QED BY <1>1, LogInvSearch, PTL

\* do_block_write only programs physical blocks that are erased.
THEOREM AlwaysProgramsErased ==
  ASSUME EraseHazards = {}
  PROVE  Spec /\ []InRange => ProgramsErasedOnly
<1>1. Spec /\ []InRange => []LogInv  BY Induction
<1>2. LogInv /\ InRange /\ [Next]_vars =>
        [ct.pc = "write" /\ ct'.pc = "written" /\ InRange => flash[ct.phy] = Erased]_vars
  BY LogInvPrograms, Zenon
<1> QED BY <1>1, <1>2, PTL DEF Spec, ProgramsErasedOnly

\* data_logger_common_init gives up at most the rest of one erase unit: every
\* block further than that before the earliest block it finds is really gone.
THEOREM BootAlwaysTight ==
  ASSUME EraseHazards = {}
  PROVE  Spec /\ []InRange => BootEarliestTight
<1>1. Spec /\ []InRange => []LogInv  BY Induction
<1>2. LogInv /\ InRange /\ LogInv' /\ [Next]_vars =>
        [~Up /\ Up' => \A b \in 0 .. earliest_block' - EraseBlocks : ~Present(b)']_vars
  <2> SUFFICES ASSUME LogInv, InRange, LogInv', Next, ~Up, Up'
               PROVE  \A b \in 0 .. earliest_block' - EraseBlocks : ~Present(b)'
    BY ZenonT(40)
  <2>1. earliest_block' \in Int /\ EraseBlocks \in Nat
    BY GeometryAssumption, Zenon DEF LogInv, TypeInv, TypeOK
  <2>2. earliest_block' - EraseBlocks \in Int
    BY <2>1, SMTT(30)
  <2>3. \A b \in 0 .. earliest_block' - EraseBlocks :
          b \in Nat /\ b <= earliest_block' - EraseBlocks
    BY <2>2, UpTo, Zenon
  <2> QED BY <2>3, BootTight, Zenon
<1> QED BY <1>1, <1>2, PTL DEF Spec, BootEarliestTight

-----------------------------------------------------------------------------
(***************************************************************************)
(* The log on the flash, as BlockLog sees it.                              *)
(***************************************************************************)
NextOf(f) == CHOOSE n \in {f[p].lb + 1 : p \in Phy} : \A p \in Phy : f[p].lb < n

GoneOf(f, n) ==
  {b \in n - physical_blocks .. n - 1 : b < 0 \/ f[b % physical_blocks] # Cell(b)}
LowOf(f, n) ==
  IF GoneOf(f, n) = {} THEN n - physical_blocks
  ELSE CHOOSE l \in {b + 1 : b \in GoneOf(f, n)} : \A b \in GoneOf(f, n) : b < l

\* A flash with a layout is a log up to the write position.
LEMMA NextOfLayout ==
  ASSUME NEW f, NEW a, NEW u, NEW v, NEW g, Layout(f, a, u, v, g), FlashInRange(f)
  PROVE  NextOf(f) = Top(a, u, v)
<1> DEFINE top == Top(a, u, v)
<1>1. top \in Nat /\ Low(a, g) \in Nat
  BY TopFacts, ZenonT(40) DEF Layout
<1>2. ASSUME NEW p \in Phy PROVE f[p].lb \in Int /\ f[p].lb < top
  <2>1. f[p].lb = -1 \/ (f[p].lb \in Nat /\ f[p].lb >= Low(a, g) /\ f[p].lb < top)
    BY BlocksOnFlash, Zenon
  <2> QED BY <1>1, <2>1, SMTT(30)
<1>3. \E p \in Phy : f[p].lb + 1 = top
  <2>1. CASE top = 0
    <3>1. 0 \in Phy  BY GeometryFacts, ZenonT(40) DEF Phy
    <3>2. f[0].lb = -1 \/ (f[0].lb \in Nat /\ f[0].lb < top)
      BY <3>1, BlocksOnFlash, ZenonT(40)
    <3>3. f[0].lb + 1 = top  BY <2>1, <3>2, SMTT(30)
    <3> QED BY <3>1, <3>3, Zenon
  <2>2. CASE top # 0
    <3>1. Low(a, g) < top
      BY <2>2, LowBelowTop, ZenonT(40) DEF Layout
    <3> DEFINE b == top - 1
    <3>2. b \in Nat /\ b >= Low(a, g) /\ b < top /\ b + 1 = top
      BY <1>1, <3>1, SMTT(30)
    <3> HIDE DEF b
    <3>3. f[b % physical_blocks] = Cell(b) /\ b % physical_blocks \in Phy
      BY <3>2, BlocksPresent, ModInPhy, SMTT(30)
    <3>4. Cell(b).lb = b  BY Zenon DEF Cell
    <3> QED BY <3>2, <3>3, <3>4, Zenon
  <2> QED BY <2>1, <2>2, ZenonT(40)
<1> HIDE DEF top
<1>4. top \in {f[p].lb + 1 : p \in Phy} /\ \A p \in Phy : f[p].lb < top
  BY <1>2, <1>3, ZenonT(40)
<1>5. ASSUME NEW n \in {f[p].lb + 1 : p \in Phy}, \A p \in Phy : f[p].lb < n PROVE n = top
  <2>1. PICK p \in Phy : n = f[p].lb + 1  BY <1>5, Zenon
  <2>2. PICK q \in Phy : f[q].lb + 1 = top  BY <1>3, ZenonT(40)
  <2>3. f[p].lb \in Int /\ f[p].lb < top /\ f[q].lb \in Int /\ f[q].lb < n
    BY <1>2, <1>5, Zenon
  <2> QED BY <1>1, <2>1, <2>2, <2>3, SMTT(30)
<1>6. NextOf(f) = top
  BY <1>4, <1>5, ZenonT(40) DEF NextOf
<1> QED BY <1>6, ZenonT(40) DEF top

\* A set of numbers up to m - 1 that holds m - 1, and an empty one.
LEMMA LowOfSet ==
  ASSUME NEW f, NEW n \in Int, NEW m \in Int,
         n - physical_blocks <= m, m <= n,
         \A b \in n - physical_blocks .. n - 1 : b \in GoneOf(f, n) <=> b < m
  PROVE  LowOf(f, n) = m
<1> DEFINE G == GoneOf(f, n)
<1>1. \A b \in G : b \in n - physical_blocks .. n - 1
  BY ZenonT(40) DEF GoneOf
<1>2. \A b \in G : b \in Int /\ b < m
  BY <1>1
<1>3. CASE m = n - physical_blocks
  <2>1. \A b \in n - physical_blocks .. n - 1 : ~(b < m)
    BY <1>3, GeometryFacts, SMTT(30)
  <2>2. G = {}
    BY <1>1, <2>1, ZenonT(40)
  <2> QED BY <1>3, <2>2, ZenonT(40) DEF LowOf
<1>4. CASE m # n - physical_blocks
  <2>1. m - 1 \in n - physical_blocks .. n - 1 /\ m - 1 < m /\ (m - 1) + 1 = m
    BY <1>4, GeometryFacts, SMTT(30)
  <2>2. m - 1 \in G
    BY <2>1, Zenon
  <2> HIDE DEF G
  <2>3. m \in {b + 1 : b \in G} /\ \A b \in G : b < m
    BY <1>2, <2>1, <2>2, ZenonT(40)
  <2>4. ASSUME NEW l \in {b + 1 : b \in G}, \A b \in G : b < l PROVE l = m
    <3>1. PICK b \in G : l = b + 1  BY <2>4, ZenonT(40)
    <3>2. b \in Int /\ b < m /\ m - 1 < l
      BY <1>2, <2>2, <2>4, ZenonT(40)
    <3> QED BY <3>1, <3>2, SMTT(30)
  <2>5. (CHOOSE l \in {b + 1 : b \in G} : \A b \in G : b < l) = m
    BY <2>3, <2>4, ZenonT(40)
  <2>6. G # {}
    BY <2>2, Zenon
  <2> QED BY <2>5, <2>6, Zenon DEF LowOf, G
<1> QED BY <1>3, <1>4, Zenon

\* ... and from the first block that is left on.
LEMMA LowOfLayout ==
  ASSUME NEW f, NEW a, NEW u, NEW v, NEW g, Layout(f, a, u, v, g), FlashInRange(f)
  PROVE  LowOf(f, Top(a, u, v)) = Low(a, g)
<1> DEFINE n == Top(a, u, v)
           m == Low(a, g)
<1>1. n \in Nat /\ m \in Nat /\ m <= n
  BY TopFacts, Zenon DEF Layout
<1>2. n - physical_blocks <= m
  <2>1. /\ a \in Nat /\ v \in Nat /\ Base(a) \in Nat /\ Unit(u) \in Nat
        /\ Unit(u) + v \in Phy
        /\ g \in Nat /\ g >= Unit(u) + v
        /\ a > 0 => Base(a - 1) \in Nat /\ Base(a) = Base(a - 1) + physical_blocks
    BY PositionFacts, Zenon DEF Layout
  <2>2. CASE a = 0
    BY <2>1, <2>2, BaseZero, GeometryFacts, SMTT(30) DEF Top, Low, Phy
  <2>3. CASE a # 0
    BY <2>1, <2>3, GeometryFacts DEF Top, Low
  <2> QED BY <2>2, <2>3, ZenonT(40)
<1>3. ASSUME NEW b \in n - physical_blocks .. n - 1 PROVE b \in GoneOf(f, n) <=> b < m
  <2>1. b \in Int /\ b < n  BY <1>1, GeometryFacts, SMTT(30)
  <2>2. CASE b >= m
    <3>1. f[b % physical_blocks] = Cell(b)
      BY <2>1, <2>2, BlocksPresent, Zenon
    <3>2. ~(b < 0) /\ ~(b < m)  BY <1>1, <2>1, <2>2, SMTT(30)
    <3> QED BY <3>1, <3>2, ZenonT(40) DEF GoneOf
  <2>3. CASE b < m
    <3>1. b \in Nat => f[b % physical_blocks] # Cell(b)
      BY <2>3, BlocksGone, ZenonT(40)
    <3>2. b < 0 \/ b \in Nat  BY <2>1
    <3>3. b \in GoneOf(f, n)  BY <3>1, <3>2, ZenonT(40) DEF GoneOf
    <3> QED BY <2>3, <3>3, Zenon
  <2> QED BY <1>1, <2>1, <2>2, <2>3, SMTT(30)
<1>4. n \in Int /\ m \in Int  BY <1>1, SMTT(30)
<1> HIDE DEF n, m
<1>5. LowOf(f, n) = m
  BY <1>1, <1>2, <1>3, <1>4, LowOfSet, ZenonT(40)
<1> QED BY <1>5, ZenonT(40) DEF n, m

\* An empty log has no first block but 0.
LEMMA LowOfEmpty ==
  ASSUME NEW f PROVE LowOf(f, 0) = 0
<1>1. ASSUME NEW b \in 0 - physical_blocks .. 0 - 1
      PROVE  b \in GoneOf(f, 0) <=> b < 0
  <2>1. b < 0  BY GeometryFacts, SMTT(30)
  <2> QED BY <2>1, ZenonT(40) DEF GoneOf
<1>2. 0 \in Int /\ 0 - physical_blocks <= 0 /\ 0 <= 0  BY GeometryFacts, SMTT(30)
<1> QED BY <1>1, <1>2, LowOfSet, Zenon

\* The log of a logger in range that is not being erased is that of its layout.
LEMMA LogOfLayout ==
  ASSUME NEW a, NEW u, NEW v, NEW g, Layout(flash, a, u, v, g), InRange, ~erasing
  PROVE  LogNext = Top(a, u, v) /\ LogLow = Low(a, g)
<1>1. FlashInRange(flash)  BY InRangeFlash, ZenonT(40)
<1>2. NextOf(flash) = Top(a, u, v) /\ LowOf(flash, Top(a, u, v)) = Low(a, g)
  BY <1>1, NextOfLayout, LowOfLayout, Zenon
<1>3. LogNext = NextOf(flash)  BY Zenon DEF LogNext, NextOf, Newest
<1>4. LogLow = LowOf(flash, LogNext)  BY Zenon DEF LogLow, LowOf, GoneOf, Present
<1> QED BY <1>2, <1>3, <1>4, ZenonT(40)

\* The same after a step.
LEMMA LogOfLayoutNext ==
  ASSUME NEW a, NEW u, NEW v, NEW g, Layout(flash', a, u, v, g), InRange', ~erasing'
  PROVE  LogNext' = Top(a, u, v) /\ LogLow' = Low(a, g)
<1>1. FlashInRange(flash')  BY InRangeFlash, Zenon
<1>2. NextOf(flash') = Top(a, u, v) /\ LowOf(flash', Top(a, u, v)) = Low(a, g)
  BY <1>1, NextOfLayout, LowOfLayout, ZenonT(40)
<1>3. LogNext' = NextOf(flash')  BY Zenon DEF LogNext, NextOf, Newest
<1>4. LogLow' = LowOf(flash', LogNext')  BY ZenonT(40) DEF LogLow, LowOf, GoneOf, Present
<1> QED BY <1>2, <1>3, <1>4, ZenonT(40)

\* A logger that is being erased shows an empty log.
LEMMA LogOfErase ==
  /\ erasing => LogNext = 0 /\ LogLow = 0
  /\ erasing' => LogNext' = 0 /\ LogLow' = 0
<1>1. (erasing => LogNext = 0) /\ (erasing' => LogNext' = 0)
  BY ZenonT(40) DEF LogNext
<1>2. LogLow = LowOf(flash, LogNext) /\ LogLow' = LowOf(flash', LogNext')
  BY Zenon DEF LogLow, LowOf, GoneOf, Present
<1> QED BY <1>1, <1>2, LowOfEmpty, ZenonT(40)

\* Steps that leave the flash alone, and neither start nor end an erase.
LEMMA LogFrame ==
  ASSUME UNCHANGED flash, erasing' <=> erasing
  PROVE  UNCHANGED <<LogLow, LogNext>>
<1>1. InRange' <=> InRange  BY Zenon DEF InRange, Newest
<1>2. /\ LogNext = IF erasing \/ ~InRange THEN 0 ELSE NextOf(flash)
      /\ LogNext' = IF erasing' \/ ~InRange' THEN 0 ELSE NextOf(flash')
  BY ZenonT(40) DEF LogNext, NextOf, Newest
<1>3. LogLow = LowOf(flash, LogNext) /\ LogLow' = LowOf(flash', LogNext')
  BY Zenon DEF LogLow, LowOf, GoneOf, Present
<1>4. LogNext' = LogNext  BY <1>1, <1>2, ZenonT(40)
<1> QED BY <1>3, <1>4, ZenonT(40)

\* Erasing blocks of the unit that is about to be started gives up the oldest
\* blocks, if any of them was not erased yet.
LEMMA GiveUpStep ==
  ASSUME NEW a, NEW u, NEW g, NEW h, a > 0,
         Layout(flash, a, u, 0, g), Layout(flash', a, u, 0, h),
         InRange, InRange', ~erasing, ~erasing', h = g \/ g < h
  PROVE  Log!GiveUp \/ UNCHANGED <<LogLow, LogNext>>
<1>1. LogNext = Top(a, u, 0) /\ LogNext' = Top(a, u, 0)
      /\ LogLow = Low(a, g) /\ LogLow' = Low(a, h)
  BY LogOfLayout, LogOfLayoutNext, ZenonT(40)
<1>2. CASE h = g
  BY <1>1, <1>2, Zenon
<1>3. CASE g < h
  <2>1. Position(a, u, 0, g) /\ Position(a, u, 0, h)
    BY Zenon DEF Layout
  <2>2. /\ a \in Nat /\ Base(a) \in Nat /\ Unit(u) \in Nat /\ Base(a - 1) \in Nat
        /\ Base(a) = Base(a - 1) + physical_blocks
        /\ g \in Nat /\ h \in Nat /\ h <= Unit(u) + EraseBlocks
    BY <2>1, PositionFacts, ZenonT(40)
  <2>3. Top(a, u, 0) >= physical_blocks /\ Top(a, u, 0) % EraseBlocks = 0
    BY <2>1, TopFacts, Zenon
  <2>4. /\ Top(a, u, 0) - physical_blocks + EraseBlocks = Base(a - 1) + Unit(u) + EraseBlocks
        /\ Low(a, g) = Base(a - 1) + g /\ Low(a, h) = Base(a - 1) + h
    BY <2>2, GeometryAssumption, GeometryFacts, SMTT(30) DEF Top, Low
  <2>5. Low(a, h) \in Low(a, g) + 1 .. Top(a, u, 0) - physical_blocks + EraseBlocks
    BY <1>3, <2>2, <2>4, GeometryAssumption, SMTT(30)
  <2> QED BY <1>1, <2>3, <2>5, ZenonT(40) DEF Log!GiveUp
<1> QED BY <1>2, <1>3, Zenon

\* Programming the next block appends it to the log.
LEMMA AppendStep ==
  ASSUME NEW a, NEW u, NEW v, NEW g, Layout(flash, a, u, v, g),
         a = 0 \/ g = Unit(u) + EraseBlocks, flash \in FlashType,
         flash' \in Program(flash, Unit(u) + v, Top(a, u, v)),
         InRange, InRange', ~erasing, ~erasing'
  PROVE  Log!Append
<1>1. PICK a1, u1, v1, g1 :
        /\ Layout(flash', a1, u1, v1, g1)
        /\ Top(a1, u1, v1) = Top(a, u, v) + 1
        /\ Low(a1, g1) = Low(a, g)
  BY ProgramLayout, InRangeFlash
<1>2. LogNext = Top(a, u, v) /\ LogNext' = Top(a, u, v) + 1
      /\ LogLow = Low(a, g) /\ LogLow' = Low(a, g)
  BY <1>1, LogOfLayout, LogOfLayoutNext, SMTT(30)
<1>3. Top(a, u, v) - Low(a, g) < physical_blocks
  <2>1. /\ a \in Nat /\ v \in Nat /\ Base(a) \in Nat /\ Unit(u) \in Nat
        /\ Unit(u) + v \in Phy /\ v < EraseBlocks
        /\ a > 0 => Base(a - 1) \in Nat /\ Base(a) = Base(a - 1) + physical_blocks
    BY PositionFacts, ZenonT(40) DEF Layout
  <2>2. CASE a = 0
    BY <2>1, <2>2, BaseZero, GeometryFacts, SMTT(30) DEF Top, Low, Phy
  <2>3. CASE a # 0
    BY <2>1, <2>3, GeometryFacts, GeometryAssumption, SMTT(30) DEF Top, Low
  <2> QED BY <2>2, <2>3, Zenon
<1> QED BY <1>2, <1>3, ZenonT(40) DEF Log!Append

\* A reboot finishes or drops the operation of the commit thread.
LEMMA RebootLog ==
  ASSUME LogInv, EraseHazards = {}, InRange, InRange', Reboot
  PROVE  Log!Next \/ UNCHANGED <<LogLow, LogNext>>
<1>1. er.pc = "idle" /\ er' = ErIdle /\ flash' \in AfterCommitThread(flash)
  BY ZenonT(40) DEF Reboot, AfterReset
<1>2. ~erasing /\ ~erasing' /\ FlashInv /\ flash \in FlashType /\ (~Up => ct.pc = "idle")
  BY <1>1, ZenonT(40) DEF LogInv, StateInv, erasing, TypeInv, TypeOK, ErIdle
<1>3. PICK a, u, v, g : Layout(flash, a, u, v, g) /\ (Up => CommitAgrees(a, u, v, g))
  BY <1>2, SMTT(30) DEF FlashInv, Agrees
<1>4. CASE ct.pc = "erase"
  <2>1. v = 0 /\ a > 0 /\ ct.phy = Unit(u)
    BY <1>2, <1>3, <1>4, ZenonT(40) DEF CommitAgrees
  <2>2. PICK k \in 0 .. EraseBlocks : flash' = EraseRange(flash, Unit(u), Unit(u) + k)
    BY <1>1, <1>4, <2>1, Zenon DEF AfterCommitThread
  <2>3. PICK h : /\ Layout(flash', a, u, 0, h)
                 /\ h = IF g > Unit(u) + k THEN g ELSE Unit(u) + k
    BY <1>3, <2>1, <2>2, EraseLayout, SMTT(30)
  <2>4. h = g \/ g < h
    <3>1. g \in Nat /\ Unit(u) \in Nat  BY <1>3, PositionFacts, ZenonT(40) DEF Layout
    <3> QED BY <2>3, <3>1, GeometryAssumption
  <2>5. Log!GiveUp \/ UNCHANGED <<LogLow, LogNext>>
    BY <1>2, <1>3, <2>1, <2>3, <2>4, GiveUpStep, Zenon
  <2> QED BY <2>5, Zenon DEF Log!Next
<1>5. CASE ct.pc = "write"
  <2>1. /\ a = 0 \/ g = Unit(u) + EraseBlocks
        /\ ct.lb = Top(a, u, v) /\ ct.phy = Unit(u) + v
    BY <1>2, <1>3, <1>5, Zenon DEF CommitAgrees
  <2>2. flash' = flash \/ flash' \in Program(flash, Unit(u) + v, Top(a, u, v))
    BY <1>1, <1>5, <2>1, ZenonT(40) DEF AfterCommitThread
  <2>3. CASE flash' = flash
    BY <1>2, <2>3, LogFrame, Zenon
  <2>4. CASE flash' \in Program(flash, Unit(u) + v, Top(a, u, v))
    <3>1. Log!Append  BY <1>2, <1>3, <2>1, <2>4, AppendStep, Zenon
    <3> QED BY <3>1, ZenonT(40) DEF Log!Next
  <2> QED BY <2>2, <2>3, <2>4, ZenonT(40)
<1>6. CASE ct.pc \notin {"erase", "write"}
  <2>1. flash' = flash  BY <1>1, <1>6, Zenon DEF AfterCommitThread
  <2> QED BY <1>2, <2>1, LogFrame, ZenonT(40)
<1> QED BY <1>4, <1>5, <1>6, Zenon

\* The commit thread gives up a unit, appends a block or does neither.
LEMMA CommitLog ==
  ASSUME LogInv, InRange, InRange', CommitThread
  PROVE  Log!Next \/ UNCHANGED <<LogLow, LogNext>>
<1>1. UNCHANGED er /\ (erasing' <=> erasing)
  BY Zenon DEF CommitThread, logger_commit_thread_fn, do_block_write_start, do_block_write_erase,
     do_block_write_program, do_block_write_done, erasing
<1>2. CASE UNCHANGED flash
  BY <1>1, <1>2, LogFrame, ZenonT(40)
<1>3. CASE do_block_write_erase /\ flash' # flash
  <2>1. ct.pc = "erase" /\ flash' = EraseRange(flash, ct.phy, ct.phy + EraseBlocks)
    BY <1>3, ZenonT(40) DEF do_block_write_erase
  <2>2. Up /\ ~erasing /\ FlashInv
    BY <2>1, CommitThreadFacts, ZenonT(40)
  <2>3. PICK a, u, v, g : Layout(flash, a, u, v, g) /\ CommitAgrees(a, u, v, g)
    BY <2>2, SMTT(30) DEF FlashInv, Agrees
  <2>4. a > 0 /\ v = 0 /\ ct.phy = Unit(u)
    BY <2>1, <2>3, ZenonT(40) DEF CommitAgrees
  <2>5. EraseBlocks \in 0 .. EraseBlocks  BY GeometryAssumption, SMTT(30)
  <2>6. PICK h : /\ Layout(flash', a, u, 0, h)
                 /\ h = IF g > Unit(u) + EraseBlocks THEN g ELSE Unit(u) + EraseBlocks
    BY <2>1, <2>3, <2>4, <2>5, EraseLayout, SMTT(30)
  <2>7. h = g \/ g < h
    <3>1. g \in Nat /\ Unit(u) \in Nat  BY <2>3, PositionFacts, Zenon DEF Layout
    <3> QED BY <2>6, <3>1, GeometryAssumption, SMTT(30)
  <2>8. Log!GiveUp \/ UNCHANGED <<LogLow, LogNext>>
    BY <1>1, <2>2, <2>3, <2>4, <2>6, <2>7, GiveUpStep, ZenonT(40)
  <2> QED BY <2>8, Zenon DEF Log!Next
<1>4. CASE do_block_write_program /\ flash' # flash
  <2>1. ct.pc = "write" /\ flash' \in Program(flash, ct.phy, ct.lb)
    BY <1>4, Zenon DEF do_block_write_program
  <2>2. Up /\ ~erasing /\ FlashInv /\ flash \in FlashType
    BY <2>1, CommitThreadFacts, ZenonT(40)
  <2>3. PICK a, u, v, g : Layout(flash, a, u, v, g) /\ CommitAgrees(a, u, v, g)
    BY <2>2, SMTT(30) DEF FlashInv, Agrees
  <2>4. /\ a = 0 \/ g = Unit(u) + EraseBlocks
        /\ ct.lb = Top(a, u, v) /\ ct.phy = Unit(u) + v
    BY <2>1, <2>3, ZenonT(40) DEF CommitAgrees
  <2>5. Log!Append
    BY <1>1, <2>1, <2>2, <2>3, <2>4, AppendStep, Zenon
  <2> QED BY <2>5, ZenonT(40) DEF Log!Next
<1> QED BY <1>2, <1>3, <1>4, ZenonT(40) DEF CommitThread, logger_commit_thread_fn,
        do_block_write_start, do_block_write_done

\* Every step is a step of the log, or invisible in it.
LEMMA LogStep ==
  ASSUME LogInv, EraseHazards = {}, InRange, InRange', [Next]_vars
  PROVE  Log!Next \/ UNCHANGED <<LogLow, LogNext>>
<1>1. CASE CommitThread
  BY <1>1, CommitLog, ZenonT(40)
<1>2. CASE Reboot
  BY <1>2, RebootLog, Zenon
<1>3. CASE \E erase_all \in BOOLEAN : data_logger_erase(erase_all)
  <2>1. erasing'
    BY <1>3, SMTT(30) DEF data_logger_erase, erasing
  <2>2. Log!Clear  BY <2>1, LogOfErase, ZenonT(40) DEF Log!Clear
  <2> QED BY <2>2, ZenonT(40) DEF Log!Next
<1>4. CASE logger_flash_map_reset
  <2>1. erasing /\ er \in ErType /\ er' = [er EXCEPT !.off = ResetEnd]
    BY <1>4, ZenonT(40) DEF logger_flash_map_reset, erasing, LogInv, TypeInv, TypeOK
  <2>2. erasing'
    BY <2>1, Zenon DEF erasing, ErType
  <2> QED BY <2>1, <2>2, LogOfErase, Zenon
<1>5. CASE data_logger_erase_done
  <2>1. er.pc = "reset" /\ er.off >= er.end /\ er' = ErIdle /\ UNCHANGED flash
    BY <1>5, Zenon DEF data_logger_erase_done
  <2>2. EraseInv /\ er.off \in Nat /\ er.end \in Nat /\ ~erasing'
    BY <2>1, ZenonT(40) DEF LogInv, StateInv, erasing, TypeInv, TypeOK, ErType, ErIdle
  <2>3. \A p \in Phy : flash'[p] = Erased
    BY <2>1, <2>2, GeometryFacts DEF EraseInv
  <2>4. Layout(flash', 0, 0, 0, 0) /\ Top(0, 0, 0) = 0 /\ Low(0, 0) = 0
    BY <2>3, EmptyLayout, ZenonT(40)
  <2>5. LogNext' = 0 /\ LogLow' = 0
    BY <2>2, <2>4, LogOfLayoutNext, Zenon
  <2> QED BY <2>5, ZenonT(40) DEF Log!Next, Log!Clear
<1>6. CASE UNCHANGED <<flash, er>>
  <2>1. erasing' <=> erasing  BY <1>6, Zenon DEF erasing
  <2> QED BY <1>6, <2>1, LogFrame, ZenonT(40)
<1>7. CASE data_logger_block_write \/ data_logger_flush \/ (\E r \in Requests : QueuePut(r))
  <2>1. data_logger_block_write \/ data_logger_flush => UNCHANGED <<flash, er>>
    BY Zenon DEF data_logger_block_write, data_logger_flush, CallerEnters
  <2>2. ASSUME NEW r \in Requests, QueuePut(r) PROVE UNCHANGED <<flash, er>>
    BY <2>2, ZenonT(40) DEF QueuePut
  <2>3. UNCHANGED <<flash, er>>
    BY <1>7, <2>1, <2>2, Zenon
  <2> QED BY <1>6, <2>3, ZenonT(40)
<1>8. CASE \/ \E first \in 0 .. current_block, n \in 1 .. MaxReadLen :
                data_logger_block_read(first, first + n - 1)
           \/ backend_read
  <2>1. UNCHANGED <<flash, er>>
    BY <1>8, ZenonT(40) DEF data_logger_block_read, backend_read
  <2> QED BY <1>6, <2>1, SMTT(30)
<1>9. CASE Boot
  <2>1. UNCHANGED <<flash, er>>
    BY <1>9, Zenon DEF Boot, BootReadFails, data_logger_common_init, current_block_search,
       current_block_search_done, earliest_block_search, BootFrame
  <2> QED BY <1>6, <2>1, SMTT(30)
<1>10. CASE UNCHANGED vars
  BY <1>6, <1>10, ZenonT(40) DEF vars
<1> QED BY <1>1, <1>2, <1>3, <1>4, <1>5, <1>7, <1>8, <1>9, <1>10, ZenonT(40) DEF Next

\* The flash alone is the circular log that BlockLog specifies, whatever the
\* geometry: do_block_write only appends at its end and gives up whole erase
\* units to make room, data_logger_erase empties it, and a reboot at any moment
\* only finishes or drops the operation it cut short.
THEOREM FlashAlwaysLog ==
  ASSUME EraseHazards = {}
  PROVE  Spec /\ []InRange => FlashIsLog
<1>1. Spec /\ []InRange => []LogInv  BY Induction
<1>2. Init /\ InRange => Log!Init
  <2> SUFFICES ASSUME Init, InRange PROVE LogLow = 0 /\ LogNext = 0
    BY Zenon DEF Log!Init
  <2>1. (\A p \in Phy : flash[p] = Erased) /\ ~erasing
    BY ZenonT(40) DEF Init, erasing, ErIdle
  <2> QED BY <2>1, EmptyLayout, LogOfLayout, ZenonT(40)
<1>3. LogInv /\ InRange /\ InRange' /\ [Next]_vars => [Log!Next]_<<LogLow, LogNext>>
  BY LogStep, Zenon
<1> QED BY <1>1, <1>2, <1>3, PTL DEF Spec, FlashIsLog, Log!Spec

-----------------------------------------------------------------------------
(***************************************************************************)
(* Reads.  What data_logger_block_read checked is used after other threads *)
(* ran: the counters may have moved, the range that was asked for has not. *)
(***************************************************************************)
ReadInv ==
  rd.pc # "idle" =>
    /\ rd.first \in Nat /\ rd.last \in Nat
    /\ rd.low <= rd.first /\ rd.first <= rd.last
    /\ rd.last - rd.first < physical_blocks
    /\ rd.phy = rd.first % physical_blocks
    /\ rd.pc = "second" => rd.phy = 0

\* A window is no longer than the device: two blocks a lap apart share a
\* physical block.
LEMMA WindowLength ==
  ASSUME WindowPresent, Up, ~erasing, InRange,
         NEW first \in Nat, NEW last \in Nat, first >= earliest_block, last < current_block,
         earliest_block \in Int, current_block \in Nat
  PROVE  last - first < physical_blocks
<1> DEFINE P == physical_blocks
           later == first + P
<1>1. P \in Nat \ {0}  BY GeometryFacts, SMTT(30)
<1> SUFFICES ASSUME last - first >= P PROVE FALSE
  BY <1>1, SMTT(30)
<1>2. /\ first \in earliest_block .. current_block - 1
      /\ later \in earliest_block .. current_block - 1
  BY <1>1, SMTT(30)
<1>3. Present(first) /\ Present(later)
  BY <1>2, Zenon DEF WindowPresent
<1>4. first % P = later % P
  <2> DEFINE q == first \div P
             m == first % P
  <2>1. first = P * q + m /\ m \in 0 .. P - 1 /\ q \in Nat
    BY <1>1, DivModFacts, ZenonT(40)
  <2> HIDE DEF q, m, P
  <2>2. later = P * (q + 1) + m /\ q + 1 \in Nat
    BY <1>1, <2>1, SMTT(30)
  <2> HIDE DEF later
  <2>3. later % P = m
    BY <1>1, <2>1, <2>2, DivModSum, ZenonT(40)
  <2> QED BY <2>3, Zenon DEF m
<1>5. Cell(first) = Cell(later)
  BY <1>3, <1>4, Zenon DEF Present
<1>6. first = later
  BY <1>5, SMTT(30) DEF Cell
<1> QED BY <1>1, <1>6, SMTT(30)

\* A read that goes round the end of the device does so once, and its second
\* part starts with the next lap.
LEMMA NextLap ==
  ASSUME NEW m \in Nat \ {0}, NEW first \in Nat, NEW last \in Nat, first <= last,
         last - first < m, NEW r, NEW s, r = first % m, s = last % m
  PROVE  /\ s < r => /\ first + (m - r) \in Nat
                     /\ first + (m - r) <= last
                     /\ (first + (m - r)) % m = 0
                     /\ first <= first + (m - r)
         /\ ~(s < r) => r + (last - first) < m
<1> DEFINE p == first \div m
           q == last \div m
<1>1. /\ first = m * p + r /\ r \in 0 .. m - 1 /\ p \in Nat
      /\ last = m * q + s /\ s \in 0 .. m - 1 /\ q \in Nat
  BY DivModFacts, ZenonT(40)
<1> HIDE DEF p, q
<1> DEFINE next == first + (m - r)
<1>2. m * (p + 1) = m * p + m /\ m * (p + 1) \in Nat /\ m * p \in Nat /\ m * q \in Nat
  BY <1>1, SMTT(30)
<1>3. next = m * (p + 1) + 0 /\ next \in Nat /\ first <= next
  BY <1>1, <1>2, SMTT(30)
<1>4. next % m = 0
  <2>1. p + 1 \in Nat /\ 0 \in 0 .. m - 1
    BY <1>1, SMTT(30)
  <2> QED BY <1>3, <2>1, DivModSum, ZenonT(40)
<1>5. q >= p
  <2> SUFFICES ASSUME p - q >= 1 PROVE FALSE
    BY <1>1, SMTT(30)
  <2>1. m * (p - q) >= m /\ m * (p - q) = m * p - m * q
    BY <1>1, TimesAtLeast, TimesMinus, SMTT(30)
  <2> QED BY <1>1, <1>2, <2>1, SMTT(30)
<1>6. ASSUME q > p PROVE next <= last
  <2>1. m * (q - p) >= m /\ m * (q - p) = m * q - m * p
    BY <1>1, <1>6, TimesAtLeast, TimesMinus, SMTT(30)
  <2> QED BY <1>1, <1>2, <1>3, <2>1, SMTT(30)
<1> HIDE DEF next
<1>7. ASSUME s < r PROVE next <= last
  <2>1. q # p
    BY <1>1, <1>2, <1>7, SMTT(30)
  <2> QED BY <1>1, <1>5, <1>6, <2>1, SMTT(30)
<1>8. ASSUME ~(s < r) PROVE r + (last - first) < m
  <2>1. q <= p
    BY <1>1, <1>2, <1>3, <1>6, <1>8, SMTT(30) DEF next
  <2>2. q = p
    BY <1>1, <1>5, <2>1, SMTT(30)
  <2> QED BY <1>1, <1>2, <2>2, SMTT(30)
<1>9. s < r => next \in Nat /\ next <= last /\ next % m = 0 /\ first <= next
  BY <1>3, <1>4, <1>7, Zenon
<1>10. ~(s < r) => r + (last - first) < m
  BY <1>8, Zenon
<1> QED BY <1>9, <1>10, Zenon DEF next

\* Only these steps are those of a reader.
LEMMA ReaderSteps ==
  ASSUME Next
  PROVE  \/ rd' = rd
         \/ \E first \in 0 .. current_block, n \in 1 .. MaxReadLen :
              data_logger_block_read(first, first + n - 1)
         \/ backend_read
         \/ rd' = RdIdle /\ ~Up'
<1>1. CASE data_logger_block_write \/ data_logger_flush \/ (\E r \in Requests : QueuePut(r))
  BY <1>1, ZenonT(40) DEF data_logger_block_write, data_logger_flush, QueuePut, CallerEnters
<1>2. CASE CommitThread
  BY <1>2, ZenonT(40) DEF CommitThread, logger_commit_thread_fn, do_block_write_start,
     do_block_write_erase, do_block_write_program, do_block_write_done
<1>3. CASE \E erase_all \in BOOLEAN : data_logger_erase(erase_all)
  BY <1>3, ZenonT(40) DEF data_logger_erase
<1>4. CASE logger_flash_map_reset
  BY <1>4, ZenonT(40) DEF logger_flash_map_reset
<1>5. CASE data_logger_erase_done
  BY <1>5, ZenonT(40) DEF data_logger_erase_done
<1>6. CASE Reboot
  BY <1>6, IdleTypes, ZenonT(40) DEF Reboot, Up
<1>7. CASE Boot
  BY <1>7, ZenonT(40) DEF Boot, BootReadFails, data_logger_common_init, current_block_search,
     current_block_search_done, earliest_block_search, BootFrame
<1> QED BY <1>1, <1>2, <1>3, <1>4, <1>5, <1>6, <1>7, ZenonT(40) DEF Next

\* The range of a read is kept, or its rest is.
LEMMA ReadInvStep ==
  ASSUME LogInv, InRange, ReadInv, [Next]_vars
  PROVE  ReadInv'
<1> DEFINE P == physical_blocks
<1>1. /\ rd \in RdType /\ P \in Nat \ {0} /\ earliest_block \in Int /\ current_block \in Nat
  BY GeometryFacts, SMTT(30) DEF LogInv, TypeInv, TypeOK
<1>2. CASE rd' = rd
  BY <1>2, Zenon DEF ReadInv
<1>3. CASE rd' = RdIdle
  BY <1>3, Zenon DEF ReadInv, RdIdle
<1>4. ASSUME NEW first \in 0 .. current_block, NEW n \in 1 .. MaxReadLen,
             data_logger_block_read(first, first + n - 1)
      PROVE  ReadInv'
  <2> DEFINE last == first + n - 1
  <2>1. first \in Nat /\ last \in Nat /\ first <= last
    BY <1>1, <1>4, BoundsAssumption, SMTT(30)
  <2>2. /\ Up /\ ~erasing /\ first >= earliest_block /\ last < current_block
        /\ rd' = [pc |-> "read", first |-> first, last |-> last, phy |-> first % P,
                  low |-> earliest_block]
    BY <1>4, Zenon DEF data_logger_block_read
  <2> HIDE DEF last
  <2>3. last - first < P
    BY <1>1, <2>1, <2>2, LogInvWindow, WindowLength, ZenonT(40)
  <2> HIDE DEF P
  <2>4. earliest_block <= first
    BY <1>1, <2>1, <2>2, SMTT(30)
  <2> QED BY <2>1, <2>2, <2>3, <2>4, ZenonT(40) DEF ReadInv, P
<1>5. CASE backend_read
  <2> DEFINE next == rd.first + ReadCount
             rest == [rd EXCEPT !.pc = "second", !.phy = 0, !.first = next]
  <2>1. \/ rd' = RdIdle
        \/ rd.pc = "read" /\ ReadWraps /\ rd' = rest
    BY <1>5, ZenonT(40) DEF backend_read
  <2>2. CASE rd.pc = "read" /\ ReadWraps /\ rd' = rest
    <3>1. /\ rd.first \in Nat /\ rd.last \in Nat /\ rd.low <= rd.first /\ rd.first <= rd.last
          /\ rd.last - rd.first < P /\ rd.phy = rd.first % P
      BY <2>2, ZenonT(40) DEF ReadInv
    <3>2. next = rd.first + (P - rd.phy) /\ rd.last % P < rd.phy
      <4>1. ReadCount = P - rd.phy
        BY <2>2, Zenon DEF ReadCount
      <4>2. rd.last % P < rd.first % P
        BY <2>2, Zenon DEF ReadWraps
      <4>3. rd.phy = rd.first % P
        BY <3>1, Zenon
      <4>4. next = rd.first + (P - rd.phy)
        BY <4>1, Zenon
      <4> QED BY <4>2, <4>3, <4>4, Zenon
    <3>3. next \in Nat /\ next <= rd.last /\ next % P = 0 /\ rd.first <= next
      <4> DEFINE s == rd.last % P
      <4>1. s = rd.last % P /\ s < rd.phy
        BY <3>2, Zenon
      <4> HIDE DEF s, next
      <4>2. /\ rd.first + (P - rd.phy) \in Nat
            /\ rd.first + (P - rd.phy) <= rd.last
            /\ (rd.first + (P - rd.phy)) % P = 0
            /\ rd.first <= rd.first + (P - rd.phy)
        BY <1>1, <3>1, <4>1, NextLap, ZenonT(40)
      <4> QED BY <3>2, <4>2, Zenon
    <3> HIDE DEF next, P
    <3>4. /\ rd'.first = next /\ rd'.last = rd.last /\ rd'.low = rd.low
          /\ rd'.phy = 0 /\ rd'.pc = "second"
      BY <1>1, <2>2, SMTT(30) DEF RdType
    <3>5. rd.low \in Int
      BY <1>1, SMTT(30) DEF RdType
    <3>6. rd.low <= next /\ rd.last - next < P
      BY <1>1, <3>1, <3>3, <3>5, SMTT(30)
    <3> QED BY <3>1, <3>3, <3>4, <3>6, ZenonT(40) DEF ReadInv, P
  <2> QED BY <1>3, <2>1, <2>2, Zenon
<1>6. rd' = rd \/ Next
  BY Zenon DEF vars
<1> QED BY <1>2, <1>3, <1>4, <1>5, <1>6, ReaderSteps, ZenonT(40)

\* A backend read returns what was asked for, as far as it is still there.
LEMMA ReadReturns ==
  ASSUME LogInv, InRange, ReadInv, Next, rd.pc # "idle", rd' # rd, Up',
         NEW i \in 0 .. ReadCount - 1
  PROVE  \/ flash[rd.phy + i] = Cell(rd.first + i)
         \/ rd.first + i \in rd.low .. earliest_block - 1
         \/ rd.first + i >= current_block
         \/ erasing
<1> DEFINE P == physical_blocks
           b == rd.first + i
<1>1. /\ rd \in RdType /\ P \in Nat \ {0} /\ earliest_block \in Int /\ current_block \in Nat
      /\ rd.low \in Int
  BY GeometryFacts, SMTT(30) DEF LogInv, TypeInv, TypeOK, RdType
<1>2. backend_read
  BY ReaderSteps, ZenonT(40) DEF data_logger_block_read
<1>3. Up
  BY <1>2, ZenonT(40) DEF backend_read, Up
<1>4. /\ rd.first \in Nat /\ rd.last \in Nat /\ rd.low <= rd.first /\ rd.first <= rd.last
      /\ rd.last - rd.first < P /\ rd.phy = rd.first % P /\ (rd.pc = "second" => rd.phy = 0)
  BY ZenonT(40) DEF ReadInv
<1>5. rd.phy \in 0 .. P - 1
  BY <1>1, <1>4, DivModFacts, ZenonT(40)
<1>6. /\ ReadCount \in Int /\ rd.phy + ReadCount <= P
  <2>1. CASE rd.pc = "read" /\ ReadWraps
    <3>1. ReadCount = P - rd.phy
      BY <2>1, Zenon DEF ReadCount
    <3> QED BY <1>1, <1>5, <3>1, SMTT(30)
  <2>2. CASE ~(rd.pc = "read" /\ ReadWraps)
    <3>1. ReadCount = rd.last - rd.first + 1
      BY <2>2, Zenon DEF ReadCount
    <3>2. rd.phy + (rd.last - rd.first) < P
      <4>1. CASE rd.pc = "second"
        BY <1>1, <1>4, <4>1, SMTT(30)
      <4>2. CASE rd.pc = "read"
        BY <1>1, <1>4, <2>2, <4>2, NextLap, ZenonT(40) DEF ReadWraps
      <4> QED BY <1>1, <4>1, <4>2, SMTT(30) DEF RdType
    <3> QED BY <1>1, <1>4, <1>5, <3>1, <3>2, SMTT(30)
  <2> QED BY <2>1, <2>2, Zenon
<1>7. i \in Nat /\ rd.phy + i \in 0 .. P - 1
  BY <1>1, <1>5, <1>6, SMTT(30)
<1>8. b \in Nat /\ b % P = rd.phy + i
  <2> DEFINE q == rd.first \div P
  <2>1. rd.first = P * q + rd.phy /\ q \in Nat
    BY <1>1, <1>4, DivModFacts, ZenonT(40)
  <2> HIDE DEF P, q
  <2>2. b = P * q + (rd.phy + i)
    BY <1>1, <1>5, <1>7, <2>1, SMTT(30)
  <2>3. b \in Nat
    BY <1>4, <1>7, SMTT(30)
  <2> HIDE DEF b
  <2> QED BY <1>1, <1>7, <2>1, <2>2, <2>3, DivModSum, ZenonT(40)
<1>9. ASSUME ~erasing, b >= earliest_block, b < current_block
      PROVE  flash[rd.phy + i] = Cell(b)
  <2>1. b \in earliest_block .. current_block - 1
    BY <1>1, <1>8, <1>9, SMTT(30)
  <2>2. Present(b)
    BY <1>3, <1>9, <2>1, LogInvWindow, Zenon DEF WindowPresent
  <2> QED BY <1>8, <2>2, Zenon DEF Present
<1>10. b >= rd.low
  BY <1>1, <1>4, <1>7, SMTT(30)
<1>11. b < earliest_block => b \in rd.low .. earliest_block - 1
  BY <1>1, <1>8, <1>10, SMTT(30)
<1>12. (b < earliest_block \/ b >= earliest_block) /\ (b < current_block \/ b >= current_block)
  BY <1>1, <1>8, SMTT(30)
<1> QED BY <1>9, <1>11, <1>12, Zenon

\* Whatever writers give up, erase and write between the check of
\* data_logger_block_read and the reads of the backend, and also when a read goes
\* round the end of the device: a read returns the blocks asked for, but for those
\* given up or erased since.
THEOREM ReadAlwaysSound ==
  ASSUME EraseHazards = {}
  PROVE  Spec /\ []InRange => ReadSound
<1>1. Spec /\ []InRange => []LogInv  BY Induction
<1>2. Init => ReadInv
  <2>1. Init => rd = RdIdle
    BY Zenon DEF Init
  <2>2. rd = RdIdle => rd.pc = "idle"
    BY SMTT(30) DEF RdIdle
  <2> QED BY <2>1, <2>2, Zenon DEF ReadInv
<1>3. LogInv /\ InRange /\ ReadInv /\ [Next]_vars => ReadInv'
  BY ReadInvStep, Zenon
<1> DEFINE Sound ==
      rd.pc # "idle" /\ rd' # rd /\ faults' = faults /\ Up' /\ InRange =>
        \A i \in 0 .. ReadCount - 1 :
          \/ flash[rd.phy + i] = Cell(rd.first + i)
          \/ rd.first + i \in rd.low .. earliest_block - 1
          \/ rd.first + i >= current_block
          \/ erasing
<1>4. LogInv /\ InRange /\ ReadInv /\ [Next]_vars => [Sound]_vars
  BY ReadReturns, ZenonT(40) DEF vars
<1> QED BY <1>1, <1>2, <1>3, <1>4, PTL DEF Spec, ReadSound

-----------------------------------------------------------------------------
(***************************************************************************)
(* The bound on how far the logger runs past its last logical block: the   *)
(* blocks on its queue are counted, and the invariant of DataLoggerProofs  *)
(* does the rest.                                                          *)
(***************************************************************************)
INSTANCE FiniteSetTheorems

\* The queue holds no more blocks than requests.
LEMMA BlocksBound ==
  ASSUME NEW s \in Seq(Requests)
  PROVE  /\ IsFiniteSet(Queued(s)) /\ Cardinality(Queued(s)) \in Nat
         /\ Cardinality(Queued(s)) <= Len(s)
<1>1. DOMAIN s = 1 .. Len(s) /\ Len(s) \in Nat /\ 1 \in Int /\ Len(s) \in Int
  OBVIOUS
<1>2. IsFiniteSet(1 .. Len(s)) /\ Cardinality(1 .. Len(s)) = Len(s)
  <2>1. \A a, b \in Int : IsFiniteSet(a .. b)
                          /\ Cardinality(a .. b) = IF a > b THEN 0 ELSE b - a + 1
    BY FS_Interval, Zenon
  <2> DEFINE n == Len(s)
  <2>2. n \in Nat  BY <1>1, SMTT(30)
  <2> HIDE DEF n
  <2>3. IsFiniteSet(1 .. n) /\ Cardinality(1 .. n) = n
    BY <2>1, <2>2, SMTT(30)
  <2> QED BY <2>3, ZenonT(40) DEF n
<1>3. Queued(s) \in SUBSET (1 .. Len(s))
  BY <1>1, ZenonT(40) DEF Queued
<1>4. IsFiniteSet(Queued(s)) /\ Cardinality(Queued(s)) <= Cardinality(1 .. Len(s))
  BY <1>2, <1>3, FS_Subset, Zenon
<1>5. Cardinality(Queued(s)) \in Nat
  BY <1>4, FS_CardinalityType, ZenonT(40)
<1> QED BY <1>2, <1>4, <1>5, ZenonT(40)

\* A queue without blocks.
LEMMA BlocksNone ==
  ASSUME NEW s \in Seq(Requests), \A i \in 1 .. Len(s) : s[i] = "flush"
  PROVE  Cardinality(Queued(s)) = 0
<1>1. Queued(s) = {}
  BY SMTT(30) DEF Queued
<1> QED BY <1>1, FS_EmptySet, Zenon

\* A request joins the queue.
LEMMA BlocksAppend ==
  ASSUME NEW s \in Seq(Requests), NEW r \in Requests
  PROVE  Cardinality(Queued(Append(s, r))) =
           Cardinality(Queued(s)) + (IF r = "block" THEN 1 ELSE 0)
<1>1. /\ DOMAIN s = 1 .. Len(s) /\ Len(s) \in Nat
      /\ DOMAIN Append(s, r) = 1 .. Len(s) + 1
      /\ Append(s, r)[Len(s) + 1] = r
      /\ \A i \in 1 .. Len(s) : Append(s, r)[i] = s[i]
  BY SMTT(30)
<1>2. IsFiniteSet(Queued(s)) /\ Cardinality(Queued(s)) \in Nat
  BY BlocksBound, Zenon
<1>3. Len(s) + 1 \notin Queued(s)
  BY <1>1, SMTT(30) DEF Queued
<1>4. CASE r = "block"
  <2>1. Queued(Append(s, r)) = Queued(s) \cup {Len(s) + 1}
    BY <1>1, <1>4, SMTT(30) DEF Queued
  <2>2. Cardinality(Queued(s) \cup {Len(s) + 1}) = Cardinality(Queued(s)) + 1
    BY <1>2, <1>3, FS_AddElement, ZenonT(40)
  <2> QED BY <1>4, <2>1, <2>2, ZenonT(40)
<1>5. CASE r # "block"
  <2>1. Queued(Append(s, r)) = Queued(s)
    BY <1>1, <1>5, SMTT(30) DEF Queued
  <2> QED BY <1>2, <1>5, <2>1, SMTT(30)
<1> QED BY <1>4, <1>5, SMTT(30)

\* A request leaves the queue.
LEMMA BlocksTail ==
  ASSUME NEW s \in Seq(Requests), s # << >>
  PROVE  Cardinality(Queued(s)) =
           Cardinality(Queued(Tail(s))) + (IF Head(s) = "block" THEN 1 ELSE 0)
<1>1. /\ DOMAIN s = 1 .. Len(s) /\ Len(s) \in Nat \ {0}
      /\ Tail(s) \in Seq(Requests)
      /\ DOMAIN Tail(s) = 1 .. Len(s) - 1
      /\ Head(s) = s[1]
      /\ \A i \in 1 .. Len(s) - 1 : Tail(s)[i] = s[i + 1]
  BY SMTT(30)
<1> DEFINE A == Queued(Tail(s))
           B == Queued(s) \ {1}
           f == [i \in A |-> i + 1]
<1>2. IsFiniteSet(Queued(s)) /\ Cardinality(Queued(s)) \in Nat
      /\ IsFiniteSet(A) /\ Cardinality(A) \in Nat
  BY <1>1, BlocksBound, ZenonT(40)
<1>3. \A i \in A : i \in 1 .. Len(s) - 1 /\ s[i + 1] = "block"
  BY <1>1, SMTT(30) DEF Queued
<1>4. \A j \in B : j \in 2 .. Len(s) /\ s[j] = "block"
  BY <1>1, SMTT(30) DEF Queued
<1>5. \A i \in A : f[i] \in B /\ f[i] = i + 1
  BY <1>1, <1>3, SMTT(30) DEF Queued
<1>6. \A j \in B : j - 1 \in A /\ f[j - 1] = j
  BY <1>1, <1>4, SMTT(30) DEF Queued
<1>7. f \in Bijection(A, B)
  <2>1. f \in [A -> B]  BY <1>5, SMTT(30)
  <2>2. \A i, j \in A : f[i] = f[j] => i = j
    BY <1>3, <1>5, SMTT(30)
  <2>3. \A j \in B : \E i \in A : f[i] = j
    BY <1>6, Zenon
  <2> HIDE DEF f, A, B
  <2>4. f \in Injection(A, B)
    BY <2>1, <2>2, SMTT(30) DEF Injection, IsInjective
  <2>5. f \in Surjection(A, B)
    BY <2>1, <2>3, SMTT(30) DEF Surjection
  <2> QED BY <2>4, <2>5, ZenonT(40) DEF Bijection
<1>8. Cardinality(B) = Cardinality(A)
  BY <1>2, <1>7, FS_Bijection, ZenonT(40) DEF ExistsBijection
<1>9. Cardinality(B) = IF 1 \in Queued(s) THEN Cardinality(Queued(s)) - 1
                       ELSE Cardinality(Queued(s))
  BY <1>2, FS_RemoveElement, ZenonT(40)
<1>10. 1 \in Queued(s) <=> Head(s) = "block"
  BY <1>1, SMTT(30) DEF Queued
<1> HIDE DEF A, B
<1> QED BY <1>2, <1>8, <1>9, <1>10 DEF A

\* The logger runs past its end by no more than the blocks that were pending
\* when it filled up, for every geometry, queue and number of callers, through
\* failed writes, erases and reboots (and what initialisation then makes of
\* the flash), when no erase is disturbed by writers or cut short:
\* data_logger_block_write checks for space when a block is accepted,
\* do_block_write does not when it is written.
THEOREM OverrunAlwaysBounded ==
  ASSUME EraseHazards = {}
  PROVE  Spec => []OverrunBounded
<1>1. QueueCounts
  BY BlocksBound, BlocksNone, BlocksAppend, BlocksTail, ZenonT(40) DEF QueueCounts
<1>2. Init => BoundInv
  BY <1>1, BoundInit, ZenonT(40)
<1>3. BoundInv /\ [Next]_vars => BoundInv'
  BY <1>1, BoundStep, Zenon
<1>4. BoundInv => OverrunBounded
  BY Zenon DEF BoundInv, CountInv
<1> QED BY <1>2, <1>3, <1>4, PTL DEF Spec
=============================================================================
