-------------------------- MODULE DataLoggerProofs --------------------------
(***************************************************************************)
(* Proofs about the data logger, for every geometry, queue length and      *)
(* number of faults and reboots: its types, the arithmetic of laps, erase  *)
(* units and blocks, the layouts of the log on the flash (which            *)
(* DataLoggerLayout shows to be kept), and the invariant that bounds the   *)
(* blocks past the last one.                                               *)
(***************************************************************************)
EXTENDS DataLogger, TLAPS

\* The sizes of the logger.
LEMMA GeometryFacts ==
  /\ physical_blocks \in Nat \ {0}
  /\ logical_blocks \in Nat
  /\ 0 \in Phy
  /\ Phy \subseteq Nat
  /\ WrapErased \in Nat
BY GeometryAssumption DEF physical_blocks, logical_blocks, Phy, WrapErased

\* A logical block number gives a physical block.
LEMMA ModInPhy == ASSUME NEW n \in Int PROVE n % physical_blocks \in Phy
BY GeometryFacts DEF Phy

\* Rounding up gives no less.
LEMMA RoundUpFacts ==
  ASSUME NEW n \in Nat, NEW m \in Nat \ {0}
  PROVE  RoundUp(n, m) \in Nat /\ RoundUp(n, m) >= n
<1> DEFINE q == (n + m - 1) \div m
<1>1. q \in Nat /\ m * q + ((n + m - 1) % m) = n + m - 1 /\ (n + m - 1) % m \in 0 .. m - 1
  OBVIOUS
<1> HIDE DEF q
<1>2. m * q \in Nat /\ q * m = m * q  BY <1>1
<1>3. m * q >= n  BY <1>1, <1>2
<1> QED BY <1>2, <1>3, Zenon DEF RoundUp, q

\* An erased block is a block.
LEMMA ErasedType == Erased \in [wrap : 0 .. WrapErased, lb : Nat \cup {NoBlock}]
BY GeometryFacts DEF Erased, NoBlock

\* Erasing keeps the type of the flash.
LEMMA EraseRangeType ==
  ASSUME NEW f \in FlashType, NEW from, NEW to
  PROVE  EraseRange(f, from, to) \in FlashType
BY ErasedType, Zenon DEF EraseRange, FlashType

\* A programmed block is a block: its wrap byte keeps its width.
LEMMA CellType ==
  ASSUME NEW b \in Nat
  PROVE  Cell(b) \in [wrap : 0 .. WrapErased, lb : Nat \cup {NoBlock}]
<1>1. b \div physical_blocks \in Nat  BY GeometryFacts
<1>2. Byte((b \div physical_blocks) + 1) \in 0 .. WrapErased
  BY <1>1, GeometryAssumption DEF Byte, WrapErased
<1> QED BY <1>2, Zenon DEF Cell

\* Programming keeps the type of the flash, over data too.
LEMMA ProgramType ==
  ASSUME NEW f \in FlashType, NEW p \in Phy, NEW b \in Nat,
         NEW g \in Program(f, p, b)
  PROVE  g \in FlashType
<1>1. CASE f[p] = Erased
  BY <1>1, CellType, Zenon DEF Program, FlashType
<1>2. CASE f[p] # Erased
  <2>1. PICK w : g = [f EXCEPT ![p] = [wrap |-> w, lb |-> NoBlock]]
                 /\ (w = Cell(b).wrap \/ w \in 0 .. MaxWraps)
    BY <1>2, Zenon DEF Program
  <2>2. w \in 0 .. WrapErased
    BY <2>1, CellType, GeometryAssumption DEF WrapErased
  <2> QED BY <2>1, <2>2, Zenon DEF FlashType
<1> QED BY <1>1, <1>2, Zenon

\* What the type invariant needs to be inductive: the commit thread counts
\* down to its last block, and the search looks for a wrap that is not zero.
TypeInv ==
  /\ TypeOK
  /\ ct.pc # "idle" => ct.todo > 0
  /\ boot.pc = "search" => boot.counter > 0

\* The threads at rest, and initialisation at each of its steps.
LEMMA IdleTypes ==
  /\ CtIdle \in CtType /\ CtIdle.pc = "idle"
  /\ ErIdle \in ErType
  /\ RdIdle \in RdType
  /\ \A pc \in {"run", "first", "search", "earliest", "failed"} :
       BootPc(pc) \in BootType /\ BootPc(pc).pc = pc
<1>1. CtIdle \in CtType /\ CtIdle.pc = "idle"
  BY GeometryFacts DEF CtIdle, CtType
<1>2. ErIdle \in ErType  BY Zenon DEF ErIdle, ErType
<1>3. RdIdle \in RdType  BY GeometryFacts DEF RdIdle, RdType
<1>4. \A pc \in {"run", "first", "search", "earliest", "failed"} :
        BootPc(pc) \in BootType /\ BootPc(pc).pc = pc
  BY SMT DEF BootPc, BootType
<1> QED BY <1>1, <1>2, <1>3, <1>4, Zenon

\* The types hold at the start.
LEMMA TypeInvInit == Init => TypeInv
<1> SUFFICES ASSUME Init PROVE TypeInv BY Zenon
<1>1. flash \in FlashType BY ErasedType, Zenon DEF Init, FlashType
<1>2. fifo \in Seq(Requests) /\ callers \in [Requests -> Nat]
  BY DEF Init
<1>3. boot \in BootType /\ boot.pc = "run"
  BY IdleTypes, Zenon DEF Init
<1>4. ct \in CtType /\ ct.pc = "idle" /\ er \in ErType /\ rd \in RdType
  BY IdleTypes, Zenon DEF Init
<1>5. TypeOK
  BY <1>1, <1>2, <1>3, <1>4 DEF Init, TypeOK
<1> QED
  BY <1>3, <1>4, <1>5, Zenon DEF TypeInv

\* The commit thread goes on to its next block, or is done.
LEMMA BlockDoneType ==
  ASSUME ct \in CtType, ct.todo > 0, BlockDone
  PROVE  ct' \in CtType /\ (ct'.pc # "idle" => ct'.todo > 0)
<1>1. CASE ct.todo = 1
  BY <1>1, IdleTypes, Zenon DEF BlockDone
<1>2. CASE ct.todo # 1
  <2>1. ct.todo - 1 \in Nat /\ ct.todo - 1 > 0  BY <1>2 DEF CtType
  <2> QED BY <1>2, <2>1, Zenon DEF BlockDone, CtType
<1> QED BY <1>1, <1>2, Zenon

\* The commit thread starts on the blocks of a request.
LEMMA WriteBlocksType ==
  ASSUME NEW n \in Nat, NEW buf \in 0 .. 1, WriteBlocks(n, buf)
  PROVE  ct' \in CtType /\ (ct'.pc # "idle" => ct'.todo > 0)
<1>1. CASE n = 0
  BY <1>1, IdleTypes, Zenon DEF WriteBlocks
<1>2. CASE n # 0
  <2>1. n > 0 /\ ct' = [CtIdle EXCEPT !.pc = "start", !.todo = n, !.buf = buf]
    BY <1>2 DEF WriteBlocks
  <2> QED BY <2>1, IdleTypes, Zenon DEF CtType
<1> QED BY <1>1, <1>2, Zenon

\* A restart inside an erase or a program leaves a flash.
LEMMA RebootFlashType ==
  ASSUME TypeOK, Reboot PROVE flash' \in FlashType
<1>1. flash \in FlashType /\ ct \in CtType
  BY Zenon DEF TypeOK
<1>2. PICK f \in AfterCommitThread(flash) : flash' \in AfterReset(f)
  BY Zenon DEF Reboot
<1>3. f \in FlashType
  <2>1. CASE ct.pc = "erase"
    BY <2>1, <1>1, <1>2, EraseRangeType, Zenon DEF AfterCommitThread
  <2>2. CASE ct.pc = "write"
    <3>1. ct.phy \in Phy /\ ct.lb \in Nat
      BY <1>1, Zenon DEF CtType
    <3> QED BY <2>2, <1>1, <1>2, <3>1, ProgramType, Zenon DEF AfterCommitThread
  <2>3. CASE ct.pc \notin {"erase", "write"}
    BY <2>3, <1>1, <1>2, ZenonT(40) DEF AfterCommitThread
  <2> QED BY <2>1, <2>2, <2>3, Zenon
<1> QED BY <1>2, <1>3, EraseRangeType, Zenon DEF AfterReset

\* Every step keeps the types.
LEMMA TypeInvStep == TypeInv /\ [Next]_vars => TypeInv'
<1> SUFFICES ASSUME TypeInv, [Next]_vars PROVE TypeInv'
  BY Zenon
<1>0. TypeOK /\ (ct.pc # "idle" => ct.todo > 0) /\ (boot.pc = "search" => boot.counter > 0)
  BY Zenon DEF TypeInv
<1>1. CASE data_logger_block_write \/ data_logger_flush
  <2>1. callers' \in [Requests -> Nat]
    <3>1. PICK r \in Requests : CallerEnters(r)
      BY <1>1, Zenon DEF data_logger_block_write, data_logger_flush, Requests
    <3>2. callers \in [Requests -> Nat] /\ callers[r] + 1 \in Nat
      BY <1>0 DEF TypeOK
    <3> QED BY <3>1, <3>2, Zenon DEF CallerEnters
  <2> QED
    BY <1>0, <1>1, <2>1, Zenon DEF data_logger_block_write, data_logger_flush, CallerEnters,
     TypeInv, TypeOK, counters
<1>2. ASSUME NEW r \in Requests, QueuePut(r) PROVE TypeInv'
  <2>1. callers' \in [Requests -> Nat]
    <3>1. callers \in [Requests -> Nat] /\ callers[r] > 0
      BY <1>0, <1>2, Zenon DEF QueuePut, TypeOK
    <3>2. callers[r] - 1 \in Nat  BY <3>1
    <3> QED BY <1>2, <3>1, <3>2, Zenon DEF QueuePut
  <2>2. fifo' \in Seq(Requests)
    BY <1>0, <1>2, SMTT(30) DEF QueuePut, TypeOK
  <2> QED BY <1>0, <1>2, <2>1, <2>2, Zenon DEF QueuePut, TypeInv, TypeOK, counters
<1>3. CASE logger_commit_thread_fn
  <2>1. ct' \in CtType /\ (ct'.pc # "idle" => ct'.todo > 0)
    BY <1>0, <1>3, WriteBlocksType, SMTT(30) DEF logger_commit_thread_fn, TypeOK
  <2>2. ram' \in Nat
    BY <1>0, <1>3, SMTT(30) DEF logger_commit_thread_fn, TypeOK
  <2>3. fifo' \in Seq(Requests)
    BY <1>0, <1>3 DEF logger_commit_thread_fn, TypeOK
  <2> QED
    BY <1>0, <1>3, <2>1, <2>2, <2>3, Zenon DEF logger_commit_thread_fn, TypeInv, TypeOK, counters
<1>4. CASE do_block_write_start
  <2>0. ct \in CtType /\ ct.todo > 0 /\ current_block \in Nat
    BY <1>0, <1>4, Zenon DEF do_block_write_start, TypeOK
  <2>1. ct' \in CtType /\ (ct'.pc # "idle" => ct'.todo > 0)
    <3>1. CASE BlockDone  BY <3>1, <2>0, BlockDoneType, Zenon
    <3>2. current_block % physical_blocks \in Phy  BY <2>0, ModInPhy
    <3>3. CASE ct' = [ct EXCEPT !.pc = "erase", !.phy = current_block % physical_blocks]
      BY <2>0, <3>2, <3>3, Zenon DEF CtType
    <3>4. CASE ct' = [ct EXCEPT !.pc = "write", !.lb = current_block,
                                !.phy = current_block % physical_blocks]
      BY <2>0, <3>2, <3>4, Zenon DEF CtType
    <3> QED BY <1>4, <3>1, <3>3, <3>4, Zenon DEF do_block_write_start
  <2>2. earliest_block' \in Int /\ faults' \in Nat
    <3>1. earliest_block \in Int /\ faults \in Nat /\ EraseBlocks \in Nat
      BY <1>0, GeometryAssumption, Zenon DEF TypeOK
    <3>2. /\ earliest_block' \in {earliest_block, earliest_block + EraseBlocks}
          /\ faults' \in {faults, faults + 1}
      BY <1>4, Zenon DEF do_block_write_start, Fault, NoFault
    <3> QED BY <3>1, <3>2
  <2> QED
    BY <1>0, <1>4, <2>1, <2>2, Zenon DEF do_block_write_start, TypeInv, TypeOK, queue
<1>5. CASE do_block_write_erase
  <2>0. ct \in CtType /\ ct.todo > 0 /\ current_block \in Nat
    BY <1>0, <1>5, Zenon DEF do_block_write_erase, TypeOK
  <2>1. ct' \in CtType /\ (ct'.pc # "idle" => ct'.todo > 0)
    <3>1. CASE BlockDone  BY <3>1, <2>0, BlockDoneType
    <3>2. CASE ct' = [ct EXCEPT !.pc = "write", !.lb = current_block]
      BY <2>0, <3>2, Zenon DEF CtType
    <3> QED BY <1>5, <3>1, <3>2, Zenon DEF do_block_write_erase
  <2>2. earliest_block' \in Int /\ faults' \in Nat
    <3>1. earliest_block \in Int /\ faults \in Nat /\ EraseBlocks \in Nat
      BY <1>0, GeometryAssumption DEF TypeOK
    <3>2. /\ earliest_block' \in {earliest_block, earliest_block - EraseBlocks}
          /\ faults' \in {faults, faults + 1}
      BY <1>5, Zenon DEF do_block_write_erase, Fault, NoFault
    <3> QED BY <3>1, <3>2, SMTT(30)
  <2>3. flash' \in FlashType
    BY <1>0, <1>5, EraseRangeType DEF do_block_write_erase, TypeOK
  <2> QED
    BY <1>0, <1>5, <2>1, <2>2, <2>3, Zenon DEF do_block_write_erase, TypeInv, TypeOK, queue
<1>6. CASE do_block_write_program
  <2>0. ct \in CtType /\ ct.todo > 0 /\ ct.phy \in Phy /\ ct.lb \in Nat
    BY <1>0, <1>6, Zenon DEF do_block_write_program, TypeOK, CtType
  <2>1. ct' \in CtType /\ (ct'.pc # "idle" => ct'.todo > 0)
    <3>1. CASE BlockDone  BY <3>1, <2>0, BlockDoneType, Zenon
    <3>2. CASE ct' = [ct EXCEPT !.pc = "written"]
      BY <2>0, <3>2, Zenon DEF CtType
    <3> QED BY <1>6, <3>1, <3>2, Zenon DEF do_block_write_program
  <2>2. faults' \in Nat
    BY <1>0, <1>6 DEF do_block_write_program, TypeOK, Fault, NoFault
  <2>3. flash' \in FlashType
    BY <1>0, <1>6, <2>0, ProgramType, Zenon DEF do_block_write_program, TypeOK
  <2> QED
    BY <1>0, <1>6, <2>1, <2>2, <2>3, Zenon DEF do_block_write_program, TypeInv, TypeOK, queue, counters
<1>7. CASE do_block_write_done
  <2>0. ct \in CtType /\ ct.todo > 0
    BY <1>0, <1>7, Zenon DEF do_block_write_done, TypeOK
  <2>1. ct' \in CtType /\ (ct'.pc # "idle" => ct'.todo > 0)
    BY <1>7, <2>0, BlockDoneType, Zenon DEF do_block_write_done
  <2> QED
    BY <1>0, <1>7, <2>1 DEF do_block_write_done, TypeInv, TypeOK, queue
<1>8. ASSUME NEW first \in 0 .. current_block, NEW n \in 1 .. MaxReadLen,
             data_logger_block_read(first, first + n - 1)
      PROVE  TypeInv'
  <2>1. first \in Int /\ first + n - 1 \in Int /\ earliest_block \in Int
    BY <1>0, BoundsAssumption DEF TypeOK
  <2>2. rd' \in RdType
    BY <1>8, <2>1, ModInPhy, ZenonT(40) DEF data_logger_block_read, RdType
  <2> QED
    BY <1>0, <1>8, <2>2, Zenon DEF data_logger_block_read, TypeInv, TypeOK, counters, queue
<1>9. CASE backend_read
  <2>1. rd \in RdType
    BY <1>0, Zenon DEF TypeOK
  <2>2. rd' \in RdType
    <3>1. rd.first + ReadCount \in Int
      <4>1. rd.first \in Int /\ rd.last \in Int /\ rd.phy \in Nat
        BY <2>1, GeometryFacts, Zenon DEF RdType
      <4> QED BY <4>1, GeometryFacts DEF ReadCount
    <3>2. CASE rd' = RdIdle  BY <3>2, IdleTypes, Zenon
    <3>3. CASE rd' = [rd EXCEPT !.pc = "second", !.phy = 0, !.first = @ + ReadCount]
      BY <3>3, <3>1, <2>1, GeometryFacts, Zenon DEF RdType
    <3> QED BY <1>9, <3>2, <3>3, Zenon DEF backend_read
  <2>3. faults' \in Nat
    BY <1>0, <1>9 DEF backend_read, TypeOK, Fault, NoFault
  <2> QED
    BY <1>0, <1>9, <2>2, <2>3, Zenon DEF backend_read, TypeInv, TypeOK, counters, queue
<1>10. ASSUME NEW erase_all \in BOOLEAN, data_logger_erase(erase_all)
       PROVE  TypeInv'
  <2> DEFINE upto == IF erase_all \/ current_block > physical_blocks
                     THEN physical_blocks ELSE current_block
  <2>1. upto \in Nat
    BY <1>0, GeometryFacts, Zenon DEF TypeOK
  <2>2. RoundUp(upto, EraseBlocks) \in Nat
    BY <2>1, RoundUpFacts, GeometryAssumption, Zenon
  <2>3. er' \in ErType
    BY <1>10, <2>2, Zenon DEF data_logger_erase, ErType
  <2> QED
    BY <1>0, <1>10, <2>3, Zenon DEF data_logger_erase, TypeInv, TypeOK, counters, queue
<1>11. CASE logger_flash_map_reset
  <2>1. er \in ErType /\ er.off \in Nat /\ er.end \in Nat
    BY <1>0, Zenon DEF TypeOK, ErType
  <2>2. ResetEnd \in Nat
    BY <2>1, GeometryAssumption DEF ResetEnd
  <2>3. er' \in ErType
    BY <1>11, <2>1, <2>2, IdleTypes, Zenon DEF logger_flash_map_reset, ErType
  <2>4. flash' \in FlashType
    BY <1>0, <1>11, EraseRangeType, SMTT(30) DEF logger_flash_map_reset, TypeOK
  <2>5. faults' \in Nat
    BY <1>0, <1>11, SMTT(30) DEF logger_flash_map_reset, TypeOK, Fault, NoFault
  <2> QED
    BY <1>0, <1>11, <2>3, <2>4, <2>5, Zenon
    DEF logger_flash_map_reset, TypeInv, TypeOK, counters, queue
<1>12. CASE data_logger_erase_done
  BY <1>0, <1>12, IdleTypes, SMTT(30) DEF data_logger_erase_done, TypeInv, TypeOK, queue
<1>13. CASE Reboot
  <2>1. flash' \in FlashType  BY <1>0, <1>13, RebootFlashType, Zenon
  <2>2. boot' \in BootType /\ boot'.pc = "first"  BY <1>13, IdleTypes, Zenon DEF Reboot
  <2>3. ct' \in CtType /\ ct'.pc = "idle" /\ er' \in ErType /\ rd' \in RdType
    BY <1>13, IdleTypes, Zenon DEF Reboot
  <2>4. callers' \in [Requests -> Nat] /\ fifo' \in Seq(Requests)
    BY <1>13 DEF Reboot
  <2>5. current_block' \in Nat /\ earliest_block' \in Int /\ ram' \in Nat
        /\ faults' \in Nat /\ reboots' \in Nat
    BY <1>0, <1>13, BoundsAssumption DEF Reboot, TypeOK
  <2> QED BY <2>1, <2>2, <2>3, <2>4, <2>5, Zenon DEF TypeInv, TypeOK
<1>14. CASE BootReadFails
  <2>1. boot' \in BootType /\ boot'.pc = "failed"
    BY <1>14, IdleTypes, Zenon DEF BootReadFails
  <2> QED
    BY <1>0, <1>14, <2>1
    DEF BootReadFails, BootFrame, Fault, TypeInv, TypeOK, counters, queue
<1>15. CASE data_logger_common_init
  <2>1. \A p \in Phy : flash[p].wrap \in Nat
    BY <1>0 DEF TypeOK, FlashType
  <2>2. 0 \in Phy /\ physical_blocks - 1 \in Phy
    BY GeometryFacts DEF Phy
  <2> DEFINE first == flash[0].wrap  last == flash[physical_blocks - 1].wrap
  <2>3. first \in Nat /\ last \in Nat
    BY <2>1, <2>2, Zenon
  <2> HIDE DEF first, last
  <2>4. boot' \in BootType /\ (boot'.pc = "search" => boot'.counter > 0)
    <3>1. CASE boot' = BootPc("run")
      BY <3>1, IdleTypes, Zenon
    <3>2. CASE /\ ~LooksErased(first)
               /\ boot' = [BootPc("search") EXCEPT !.high = physical_blocks - 1,
                                                   !.counter = first]
      <4>1. first > 0  BY <2>3, <3>2 DEF LooksErased
      <4>2. BootPc("search") \in BootType  BY IdleTypes, Zenon
      <4>3. physical_blocks - 1 \in Int  BY GeometryFacts
      <4> QED BY <3>2, <4>1, <4>2, <4>3, <2>3, Zenon DEF BootType, BootPc
    <3> QED BY <1>15, <3>1, <3>2, Zenon DEF data_logger_common_init, first
  <2>5. current_block' \in Nat /\ earliest_block' \in Int
    <3>1. first * physical_blocks \in Nat /\ last * physical_blocks \in Nat
      BY <2>3, GeometryFacts
    <3>2. (first - 1) * physical_blocks \in Int
          /\ (last - 1) * physical_blocks + EraseBlocks \in Int
      BY <2>3, GeometryFacts, GeometryAssumption
    <3>3. current_block \in Nat /\ earliest_block \in Int
      BY <1>0, Zenon DEF TypeOK
    <3> QED
      BY <1>15, <3>1, <3>2, <3>3, Zenon DEF data_logger_common_init, counters, first, last
  <2> QED
    BY <1>0, <1>15, <2>4, <2>5, Zenon
    DEF data_logger_common_init, BootFrame, NoFault, TypeInv, TypeOK, queue
<1>16. CASE current_block_search
  <2>1. boot \in BootType /\ boot.low \in Nat /\ boot.high \in Int /\ boot.counter > 0
    BY <1>0, <1>16, Zenon DEF current_block_search, TypeOK, BootType
  <2> DEFINE mid == (boot.low + boot.high) \div 2
  <2>2. mid \in Nat /\ mid + 1 \in Nat /\ mid - 1 \in Int
    BY <1>16, <2>1 DEF current_block_search
  <2> HIDE DEF mid
  <2>3. \/ boot' = [boot EXCEPT !.low = mid + 1, !.res = mid]
        \/ boot' = [boot EXCEPT !.high = mid - 1]
    BY <1>16, Zenon DEF current_block_search, mid
  <2>4. boot' \in BootType /\ (boot'.pc = "search" => boot'.counter > 0)
    BY <2>1, <2>2, <2>3, Zenon DEF BootType
  <2> QED
    BY <1>0, <1>16, <2>4, Zenon
    DEF current_block_search, BootFrame, NoFault, TypeInv, TypeOK, queue, counters
<1>17. CASE current_block_search_done
  <2>1. boot \in BootType /\ boot.res \in Nat /\ boot.counter \in Nat /\ boot.counter > 0
    BY <1>0, <1>17, Zenon DEF current_block_search_done, TypeOK, BootType
  <2> DEFINE current == (boot.counter - 1) * physical_blocks + boot.res + 1
  <2>2. current \in Nat
    BY <2>1, GeometryFacts
  <2> HIDE DEF current
  <2>3. current_block' \in Nat /\ earliest_block' \in Int
    BY <1>17, <2>2, GeometryFacts, SMTT(30) DEF current_block_search_done, current
  <2>4. boot' \in BootType /\ boot'.pc # "search"
    <3>1. CASE boot' = BootPc("run")  BY <3>1, IdleTypes, Zenon
    <3>2. CASE boot' = [BootPc("earliest") EXCEPT
                          !.res = (current - physical_blocks) % physical_blocks,
                          !.left = 2 * EraseBlocks]
      <4>1. (current - physical_blocks) % physical_blocks \in Nat
        BY <2>2, ModInPhy, GeometryFacts
      <4>2. 2 * EraseBlocks \in Nat  BY GeometryAssumption, SMTT(30)
      <4> QED BY <3>2, <4>1, <4>2, IdleTypes, Zenon DEF BootType
    <3> QED BY <1>17, <3>1, <3>2, Zenon DEF current_block_search_done, current
  <2> QED
    BY <1>0, <1>17, <2>3, <2>4, Zenon
    DEF current_block_search_done, BootFrame, NoFault, TypeInv, TypeOK, queue
<1>18. CASE earliest_block_search
  <2>1. boot \in BootType /\ boot.res \in Nat /\ boot.left \in Nat
    BY <1>0, Zenon DEF TypeOK, BootType
  <2>2. boot' \in BootType /\ boot'.pc # "search"
    <3>1. CASE boot' = BootPc("run") \/ boot' = BootPc("failed")
      BY <3>1, IdleTypes, Zenon
    <3>2. CASE boot.left > 0 /\ boot' = [boot EXCEPT !.res = @ + 1, !.left = @ - 1]
      <4>1. boot.left - 1 \in Nat /\ boot.res + 1 \in Nat  BY <2>1, <3>2
      <4>2. boot.pc = "earliest"  BY <1>18, Zenon DEF earliest_block_search
      <4> QED BY <3>2, <2>1, <4>1, <4>2, Zenon DEF BootType
    <3> QED BY <1>18, <3>1, <3>2, Zenon DEF earliest_block_search
  <2>3. earliest_block' \in Int
    BY <1>0, <1>18 DEF earliest_block_search, TypeOK
  <2> QED
    BY <1>0, <1>18, <2>2, <2>3, Zenon
    DEF earliest_block_search, BootFrame, NoFault, TypeInv, TypeOK, queue
<1>19. CASE UNCHANGED vars
  BY <1>19, Zenon DEF vars, TypeInv, TypeOK, queue, counters
<1> QED
  BY <1>1, <1>2, <1>3, <1>4, <1>5, <1>6, <1>7, <1>8, <1>9, <1>10, <1>11,
     <1>12, <1>13, <1>14, <1>15, <1>16, <1>17, <1>18, <1>19, Zenon
  DEF Next, CommitThread, Boot


\* Every reachable state is well typed.
THEOREM TypeCorrect == Spec => []TypeOK
<1>1. Init => TypeInv  BY TypeInvInit, Zenon
<1>2. TypeInv /\ [Next]_vars => TypeInv'  BY TypeInvStep, Zenon
<1>3. TypeInv => TypeOK  BY Zenon DEF TypeInv
<1> QED BY <1>1, <1>2, <1>3, PTL DEF Spec

-----------------------------------------------------------------------------
(***************************************************************************)
(* Arithmetic.                                                             *)
(***************************************************************************)
\* Quotient and remainder.
LEMMA DivModFacts ==
  ASSUME NEW n \in Nat, NEW m \in Nat \ {0}
  PROVE  /\ n = m * (n \div m) + (n % m)
         /\ n % m \in 0 .. m - 1
         /\ n \div m \in Nat
OBVIOUS

\* A multiple is no less than its factor.
LEMMA TimesAtLeast ==
  ASSUME NEW q \in Int, NEW m \in Nat \ {0}, q >= 1
  PROVE  m * q >= m
OBVIOUS

\* Multiplication distributes over a difference.
LEMMA TimesMinus ==
  ASSUME NEW m \in Int, NEW p \in Int, NEW q \in Int
  PROVE  m * (p - q) = m * p - m * q
OBVIOUS

\* Quotient and remainder are unique.
LEMMA DivModUnique ==
  ASSUME NEW m \in Nat \ {0}, NEW p \in Int, NEW q \in Int,
         NEW r \in 0 .. m - 1, NEW s \in 0 .. m - 1, m * p + r = m * q + s
  PROVE  p = q /\ r = s
<1>1. m * (p - q) = s - r /\ m * (q - p) = r - s
  BY TimesMinus
<1>2. p - q >= 1 => m * (p - q) >= m
  BY TimesAtLeast
<1>3. q - p >= 1 => m * (q - p) >= m
  BY TimesAtLeast
<1>4. p = q
  BY <1>1, <1>2, <1>3
<1> QED BY <1>4

\* Quotient and remainder are unique.
LEMMA DivModSum ==
  ASSUME NEW m \in Nat \ {0}, NEW q \in Nat, NEW r \in 0 .. m - 1
  PROVE  (m * q + r) \div m = q /\ (m * q + r) % m = r
<1> DEFINE n == m * q + r
<1>1. m * q \in Nat  OBVIOUS
<1>2. n \in Nat  BY <1>1
<1>3. n = m * q + r  BY Zenon
<1> HIDE DEF n
<1>4. n = m * (n \div m) + (n % m) /\ n % m \in 0 .. m - 1 /\ n \div m \in Nat
  BY <1>2, DivModFacts, Zenon
<1>5. m * (n \div m) + (n % m) = m * q + r
  BY <1>3, <1>4, Zenon
<1>6. n \div m \in Int /\ q \in Int
  BY <1>4
<1>7. n \div m = q /\ n % m = r
  BY <1>4, <1>5, <1>6, DivModUnique, ZenonT(40)
<1> QED BY <1>3, <1>7, Zenon

\* First logical block of lap a, first physical block of erase unit u.
Base(a) == physical_blocks * a
Unit(u) == EraseBlocks * u

\* The first block of a lap, and that of the next.
LEMMA BaseFacts ==
  ASSUME NEW a \in Nat
  PROVE  Base(a) \in Nat /\ Base(a + 1) = Base(a) + physical_blocks
BY GeometryFacts DEF Base

\* The first lap starts at zero.
LEMMA BaseZero == Base(0) = 0
BY GeometryFacts DEF Base

\* Laps follow one another.
LEMMA BaseMono ==
  ASSUME NEW a \in Nat, NEW b \in Nat, a < b
  PROVE  Base(a) + physical_blocks <= Base(b)
<1>1. b - a >= 1 /\ b - a \in Int  OBVIOUS
<1>2. physical_blocks * (b - a) >= physical_blocks
  BY <1>1, TimesAtLeast, GeometryFacts, Zenon
<1>3. physical_blocks * (b - a) = physical_blocks * b - physical_blocks * a
  BY TimesMinus, GeometryFacts
<1>4. physical_blocks * a \in Nat /\ physical_blocks * b \in Nat
  BY GeometryFacts
<1> QED BY <1>2, <1>3, <1>4, GeometryFacts DEF Base

\* The lap and the position of a block.
LEMMA BaseSplit ==
  ASSUME NEW a \in Nat, NEW p \in Phy
  PROVE  (Base(a) + p) % physical_blocks = p /\ (Base(a) + p) \div physical_blocks = a
BY DivModSum, GeometryFacts, Zenon DEF Base, Phy

\* Erase units follow one another and fill the device.
LEMMA UnitFacts ==
  ASSUME NEW u \in 0 .. EraseUnits - 1
  PROVE  /\ Unit(u) \in Nat
         /\ Unit(u + 1) = Unit(u) + EraseBlocks
         /\ Unit(u) + EraseBlocks <= physical_blocks
         /\ u + 1 = EraseUnits => Unit(u) + EraseBlocks = physical_blocks
         /\ u = 0 => Unit(u) = 0
         /\ u > 0 => Unit(u) >= EraseBlocks
<1>1. Unit(u) \in Nat /\ Unit(u + 1) = Unit(u) + EraseBlocks
  BY GeometryAssumption DEF Unit
<1>2. u + 1 = EraseUnits => Unit(u + 1) = physical_blocks
  BY GeometryAssumption, Zenon DEF Unit, physical_blocks
<1>3. Unit(u) + EraseBlocks <= physical_blocks
  <2>1. EraseUnits - u >= 1 /\ EraseUnits - u \in Int /\ u \in Int
    BY GeometryAssumption
  <2>2. EraseBlocks * (EraseUnits - u) >= EraseBlocks
    BY <2>1, TimesAtLeast, GeometryAssumption, Zenon
  <2>3. EraseBlocks * (EraseUnits - u) = EraseBlocks * EraseUnits - EraseBlocks * u
    BY <2>1, TimesMinus, GeometryAssumption
  <2>4. EraseBlocks * EraseUnits \in Nat /\ EraseBlocks * u \in Nat
    BY GeometryAssumption
  <2> QED BY <2>2, <2>3, <2>4, GeometryAssumption, SMTT(30) DEF Unit, physical_blocks
<1>4. u = 0 => Unit(u) = 0
  BY GeometryAssumption DEF Unit
<1>5. u > 0 => Unit(u) >= EraseBlocks
  BY TimesAtLeast, GeometryAssumption DEF Unit
<1> QED BY <1>1, <1>2, <1>3, <1>4, <1>5, Zenon

\* The position in its unit of a block.
LEMMA ModUnit ==
  ASSUME NEW a \in Nat, NEW u \in 0 .. EraseUnits - 1, NEW v \in 0 .. EraseBlocks - 1
  PROVE  (Base(a) + Unit(u) + v) % EraseBlocks = v
<1> DEFINE k == EraseUnits * a + u
<1>1. k \in Nat
  BY GeometryAssumption
<1>2. EraseBlocks * k = EraseBlocks * (EraseUnits * a) + EraseBlocks * u
  BY GeometryAssumption
<1>3. EraseBlocks * (EraseUnits * a) = (EraseBlocks * EraseUnits) * a
  BY GeometryAssumption
<1>4. EraseBlocks * k = Base(a) + Unit(u)
  BY <1>2, <1>3, Zenon DEF Base, Unit, physical_blocks
<1> HIDE DEF k
<1>5. (EraseBlocks * k + v) % EraseBlocks = v
  BY <1>1, DivModSum, GeometryAssumption, Zenon
<1> QED BY <1>4, <1>5, Zenon

-----------------------------------------------------------------------------
(***************************************************************************)
(* What is on the flash when n = Base(a) + Unit(u) + v blocks have been    *)
(* logged: the blocks of lap a before the write position, erased blocks up *)
(* to g, and from there on the blocks of the lap before.  Unless a unit is *)
(* being started (v = 0), the rest of its unit is erased.                  *)
(***************************************************************************)
Blk(a, p) == [wrap |-> a + 1, lb |-> Base(a) + p]

Position(a, u, v, g) ==
  /\ a \in Nat /\ u \in 0 .. EraseUnits - 1 /\ v \in 0 .. EraseBlocks - 1
  /\ g \in Unit(u) + v .. Unit(u) + EraseBlocks
  /\ v # 0 => g = Unit(u) + EraseBlocks

Holds(f, a, c, g) ==
  \A p \in Phy :
    /\ p < c => f[p] = Blk(a, p)
    /\ p >= c /\ (p < g \/ a = 0) => f[p] = Erased
    /\ p >= c /\ p >= g /\ a > 0 => f[p] = Blk(a - 1, p)

Layout(f, a, u, v, g) == Position(a, u, v, g) /\ Holds(f, a, Unit(u) + v, g)

\* The first block that is on the flash, and the next one to be logged.
Low(a, g) == IF a = 0 THEN 0 ELSE Base(a - 1) + g
Top(a, u, v) == Base(a) + Unit(u) + v

FlashInRange(f) == \A p \in Phy : f[p].lb < logical_blocks

\* The write position and the end of the gap ahead of it.
LEMMA PositionFacts ==
  ASSUME NEW a, NEW u, NEW v, NEW g, Position(a, u, v, g)
  PROVE  /\ a \in Nat /\ v \in Nat /\ Base(a) \in Nat /\ Unit(u) \in Nat
         /\ Unit(u) + v \in Phy
         /\ v < EraseBlocks
         /\ Unit(u) + EraseBlocks <= physical_blocks
         /\ g \in Nat /\ g >= Unit(u) + v /\ g <= Unit(u) + EraseBlocks
         /\ Unit(u) + v = 0 => g < physical_blocks
         /\ a > 0 => a - 1 \in Nat /\ Base(a - 1) \in Nat
                     /\ Base(a) = Base(a - 1) + physical_blocks
<1>1. a \in Nat /\ v \in Nat /\ v < EraseBlocks /\ u \in 0 .. EraseUnits - 1
  BY GeometryAssumption DEF Position
<1>2. Unit(u) \in Nat /\ Unit(u) + EraseBlocks <= physical_blocks
  BY <1>1, UnitFacts, Zenon
<1>3. Unit(u) + v \in Phy
  BY <1>1, <1>2, GeometryAssumption, GeometryFacts, SMTT(30) DEF Phy
<1>4. g \in Nat /\ g >= Unit(u) + v /\ g <= Unit(u) + EraseBlocks
  BY <1>1, <1>2, GeometryAssumption DEF Position
<1>5. Base(a) \in Nat
  BY <1>1, BaseFacts, SMTT(30)
<1>6. a > 0 => a - 1 \in Nat /\ Base(a - 1) \in Nat
               /\ Base(a) = Base(a - 1) + physical_blocks
  <2> SUFFICES ASSUME a > 0 PROVE a - 1 \in Nat /\ Base(a - 1) \in Nat
               /\ Base(a) = Base(a - 1) + physical_blocks
    BY Zenon
  <2>1. a - 1 \in Nat /\ (a - 1) + 1 = a  BY <1>1
  <2> QED BY <2>1, BaseFacts
<1>7. Unit(u) + v = 0 => g < physical_blocks
  <2> SUFFICES ASSUME Unit(u) + v = 0 PROVE g < physical_blocks
    BY Zenon
  <2>1. Unit(u) = 0 /\ u = 0
    BY <1>1, <1>2, UnitFacts, GeometryAssumption, SMTT(30)
  <2>2. Unit(1) = EraseBlocks /\ Unit(1) + EraseBlocks <= physical_blocks
    <3>1. 0 \in 0 .. EraseUnits - 1 /\ 1 \in 0 .. EraseUnits - 1 /\ 0 + 1 = 1
      BY GeometryAssumption
    <3>2. Unit(0 + 1) = Unit(0) + EraseBlocks
      BY <3>1, UnitFacts, Zenon
    <3> QED BY <3>1, <3>2, <2>1, UnitFacts, GeometryAssumption, SMTT(30)
  <2> QED BY <1>4, <2>1, <2>2, GeometryAssumption, GeometryFacts, SMTT(30)
<1> QED BY <1>1, <1>2, <1>3, <1>4, <1>5, <1>6, <1>7, Zenon

\* The header and data of a block of a lap.
LEMMA BlkFacts ==
  ASSUME NEW a \in Nat, NEW p
  PROVE  Blk(a, p).wrap = a + 1 /\ Blk(a, p).lb = Base(a) + p
BY Zenon DEF Blk

\* The header and data of an erased block.
LEMMA ErasedFacts ==
  Erased.wrap = WrapErased /\ Erased.lb = -1
BY Zenon DEF Erased, NoBlock

\* Block b = Base(a) + p of a lap in range is stored in physical block p.
LEMMA CellBlk ==
  ASSUME NEW a \in Nat, NEW p \in Phy, a <= MaxWraps
  PROVE  /\ Cell(Base(a) + p) = Blk(a, p)
         /\ (Base(a) + p) % physical_blocks = p
<1>1. (Base(a) + p) % physical_blocks = p /\ (Base(a) + p) \div physical_blocks = a
  BY BaseSplit, Zenon
<1>2. Byte(a + 1) = a + 1
  BY GeometryAssumption DEF Byte
<1> QED BY <1>1, <1>2, Zenon DEF Cell, Blk

\* Blocks in range belong to laps in range.
LEMMA LapInRange ==
  ASSUME NEW f, NEW a, NEW u, NEW v, NEW g, Layout(f, a, u, v, g), FlashInRange(f)
  PROVE  a <= MaxWraps /\ (Unit(u) + v > 0 => a < MaxWraps)
<1>1. Position(a, u, v, g) /\ Holds(f, a, Unit(u) + v, g)
  BY Zenon DEF Layout
<1> DEFINE c == Unit(u) + v
<1>2. a \in Nat /\ Base(a) \in Nat /\ g \in Nat /\ c \in Nat
      /\ (c = 0 => g < physical_blocks)
      /\ (a > 0 => a - 1 \in Nat /\ Base(a - 1) \in Nat)
  BY <1>1, PositionFacts
<1> HIDE DEF c
<1>3. logical_blocks = Base(MaxWraps) /\ MaxWraps \in Nat
  BY GeometryAssumption, Zenon DEF logical_blocks, Base
<1>4. 0 \in Phy /\ physical_blocks - 1 \in Phy
  BY GeometryFacts DEF Phy
<1>5. ASSUME c > 0 PROVE a < MaxWraps
  <2>1. f[0] = Blk(a, 0)
    BY <1>1, <1>2, <1>4, <1>5 DEF Holds, c
  <2>2. Base(a) < Base(MaxWraps)
    BY <2>1, <1>2, <1>3, <1>4, BlkFacts, SMTT(30) DEF FlashInRange
  <2>3. ~ MaxWraps < a
    BY <2>2, <1>2, <1>3, BaseMono, BaseFacts, GeometryFacts
  <2> QED BY <1>2, <1>3, <2>2, <2>3, SMTT(30)
<1>6. ASSUME c = 0, a > 0 PROVE a <= MaxWraps
  <2>1. f[physical_blocks - 1] = Blk(a - 1, physical_blocks - 1)
    BY <1>1, <1>2, <1>4, <1>6, GeometryFacts, SMTT(30) DEF Holds, c
  <2>2. Base(a - 1) + physical_blocks - 1 < Base(MaxWraps)
    BY <2>1, <1>2, <1>3, <1>4, <1>6, BlkFacts, GeometryFacts, SMTT(30) DEF FlashInRange
  <2>3. ~ MaxWraps < a - 1
    BY <2>2, <1>2, <1>3, <1>6, BaseMono, BaseFacts, GeometryFacts
  <2>4. a - 1 # MaxWraps
    BY <2>2, <1>2, <1>6, GeometryFacts, SMTT(30)
  <2> QED BY <1>2, <1>3, <1>6, <2>3, <2>4, SMTT(30)
<1> QED BY <1>2, <1>3, <1>5, <1>6 DEF c

-----------------------------------------------------------------------------
(***************************************************************************)
(* What the flash operations do to the layout.                             *)
(***************************************************************************)
\* An erased flash is an empty log.
LEMMA EmptyLayout ==
  ASSUME NEW f, \A p \in Phy : f[p] = Erased
  PROVE  Layout(f, 0, 0, 0, 0) /\ Top(0, 0, 0) = 0 /\ Low(0, 0) = 0
<1>1. Unit(0) = 0
  BY UnitFacts, GeometryAssumption, SMTT(30)
<1>2. Position(0, 0, 0, 0)
  BY <1>1, GeometryAssumption DEF Position
<1>3. Holds(f, 0, Unit(0) + 0, 0)
  BY <1>1, GeometryFacts DEF Holds
<1> QED BY <1>1, <1>2, <1>3, BaseZero DEF Layout, Top, Low

\* Erasing some blocks of the unit that is about to be started.
LEMMA EraseLayout ==
  ASSUME NEW f, NEW a, NEW u, NEW g, NEW k \in 0 .. EraseBlocks,
         Layout(f, a, u, 0, g)
  PROVE  \E h : /\ Layout(EraseRange(f, Unit(u), Unit(u) + k), a, u, 0, h)
                /\ h = IF g > Unit(u) + k THEN g ELSE Unit(u) + k
<1> DEFINE h == IF g > Unit(u) + k THEN g ELSE Unit(u) + k
           e == EraseRange(f, Unit(u), Unit(u) + k)
<1>1. Position(a, u, 0, g) /\ Holds(f, a, Unit(u) + 0, g)
  BY Zenon DEF Layout
<1>2. a \in Nat /\ Unit(u) \in Nat /\ g \in Nat /\ g >= Unit(u) /\ g <= Unit(u) + EraseBlocks
  BY <1>1, PositionFacts
<1>3. Unit(u) + 0 = Unit(u) /\ k \in Nat /\ k <= EraseBlocks
  BY <1>2, GeometryAssumption, SMTT(30)
<1>4. h \in Nat /\ h >= Unit(u) /\ h >= g /\ h >= Unit(u) + k /\ h <= Unit(u) + EraseBlocks
      /\ (h = g \/ h = Unit(u) + k)
  BY <1>2, <1>3, GeometryAssumption
<1> HIDE DEF h
<1>5. Position(a, u, 0, h)
  BY <1>1, <1>2, <1>3, <1>4, GeometryAssumption, SMTT(30) DEF Position
<1>6. ASSUME NEW p \in Phy
      PROVE  /\ p < Unit(u) => e[p] = Blk(a, p)
             /\ p >= Unit(u) /\ (p < h \/ a = 0) => e[p] = Erased
             /\ p >= Unit(u) /\ p >= h /\ a > 0 => e[p] = Blk(a - 1, p)
  <2>1. p \in Nat  BY GeometryFacts, Zenon
  <2>2. /\ p < Unit(u) => f[p] = Blk(a, p)
        /\ p >= Unit(u) /\ (p < g \/ a = 0) => f[p] = Erased
        /\ p >= Unit(u) /\ p >= g /\ a > 0 => f[p] = Blk(a - 1, p)
    BY <1>1, <1>3 DEF Holds
  <2>3. e[p] = IF p >= Unit(u) /\ p < Unit(u) + k THEN Erased ELSE f[p]
    BY <1>2, <1>3, <2>1, SMTT(30) DEF EraseRange
  <2> HIDE DEF e
  <2> QED BY <1>2, <1>3, <1>4, <2>1, <2>2, <2>3
<1>7. Layout(e, a, u, 0, h)
  BY <1>3, <1>5, <1>6, SMTT(30) DEF Layout, Holds
<1> QED BY <1>7, Zenon DEF h

\* Programming the next block into an erased physical block.
LEMMA ProgramLayout ==
  ASSUME NEW f \in FlashType, NEW a, NEW u, NEW v, NEW g, NEW h,
         Layout(f, a, u, v, g), a = 0 \/ g = Unit(u) + EraseBlocks,
         h \in Program(f, Unit(u) + v, Top(a, u, v)), FlashInRange(h)
  PROVE  \E a1, u1, v1, g1 :
           /\ Layout(h, a1, u1, v1, g1)
           /\ Top(a1, u1, v1) = Top(a, u, v) + 1
           /\ Low(a1, g1) = Low(a, g)
<1> DEFINE c == Unit(u) + v
<1>1. Position(a, u, v, g) /\ Holds(f, a, c, g)
  BY Zenon DEF Layout
<1>2. /\ a \in Nat /\ v \in Nat /\ Base(a) \in Nat /\ Unit(u) \in Nat
      /\ c \in Phy
      /\ v < EraseBlocks
      /\ Unit(u) + EraseBlocks <= physical_blocks
      /\ g \in Nat /\ g >= c /\ g <= Unit(u) + EraseBlocks
      /\ a > 0 => a - 1 \in Nat /\ Base(a - 1) \in Nat
                  /\ Base(a) = Base(a - 1) + physical_blocks
  BY <1>1, PositionFacts, SMTT(30)
<1>3. c \in Nat /\ EraseBlocks \in Nat /\ c < Unit(u) + EraseBlocks
      /\ Top(a, u, v) = Base(a) + c /\ u \in 0 .. EraseUnits - 1
  BY <1>1, <1>2, GeometryAssumption, SMTT(30) DEF Top, Position
<1> HIDE DEF c
<1>4. f[c] = Erased
  BY <1>1, <1>2, <1>3, SMTT(30) DEF Holds
<1>5. h = [f EXCEPT ![c] = Cell(Base(a) + c)]
  BY <1>3, <1>4, Zenon DEF Program, c
<1>6. h[c] = Cell(Base(a) + c) /\ \A p \in Phy : p # c => h[p] = f[p]
  BY <1>2, <1>5, ZenonT(40) DEF FlashType
<1>7. a <= MaxWraps
  <2>1. Cell(Base(a) + c).lb = Base(a) + c  BY Zenon DEF Cell
  <2>2. Base(a) + c < Base(MaxWraps)
    BY <1>2, <1>6, <2>1 DEF FlashInRange, logical_blocks, Base
  <2>3. ~ MaxWraps < a
    BY <2>2, <1>2, <1>3, BaseMono, BaseFacts, GeometryFacts, GeometryAssumption, SMTT(30)
  <2> QED BY <2>3, <1>2, GeometryAssumption
<1>8. h[c] = Blk(a, c)
  BY <1>2, <1>6, <1>7, CellBlk, Zenon
<1>9. ASSUME NEW p \in Phy
      PROVE  /\ p \in Nat
             /\ p < c + 1 => h[p] = Blk(a, p)
             /\ p >= c + 1 /\ (p < Unit(u) + EraseBlocks \/ a = 0) => h[p] = Erased
             /\ p >= c + 1 /\ p >= Unit(u) + EraseBlocks /\ a > 0 => h[p] = Blk(a - 1, p)
  <2>1. p \in Nat  BY GeometryFacts
  <2>2. /\ p < c => f[p] = Blk(a, p)
        /\ p >= c /\ (p < g \/ a = 0) => f[p] = Erased
        /\ p >= c /\ p >= g /\ a > 0 => f[p] = Blk(a - 1, p)
    BY <1>1, ZenonT(40) DEF Holds
  <2>3. p # c => h[p] = f[p]
    BY <1>6, SMTT(30)
  <2> QED BY <1>2, <1>3, <1>8, <2>1, <2>2, <2>3, SMTT(30)
<1>10. CASE v + 1 < EraseBlocks
  <2>1. Unit(u) + (v + 1) = c + 1
    BY <1>2 DEF c
  <2>2. Position(a, u, v + 1, Unit(u) + EraseBlocks)
    BY <1>2, <1>3, <1>10, <2>1, SMTT(30) DEF Position
  <2>3. Holds(h, a, c + 1, Unit(u) + EraseBlocks)
    BY <1>9 DEF Holds
  <2>4. Low(a, Unit(u) + EraseBlocks) = Low(a, g)
    BY Zenon DEF Low
  <2>5. Top(a, u, v + 1) = Top(a, u, v) + 1
    BY <1>2 DEF Top
  <2>6. Layout(h, a, u, v + 1, Unit(u) + EraseBlocks)
    BY <2>1, <2>2, <2>3, SMTT(30) DEF Layout
  <2> QED BY <2>4, <2>5, <2>6, SMTT(30)
<1>11. CASE v + 1 = EraseBlocks /\ u + 1 < EraseUnits
  <2>1. Unit(u + 1) = c + 1 /\ Unit(u + 1) = Unit(u) + EraseBlocks /\ Unit(u + 1) \in Nat
    BY <1>2, <1>3, <1>11, UnitFacts, SMTT(30) DEF c
  <2>2. Position(a, u + 1, 0, Unit(u + 1))
    BY <1>2, <1>3, <1>11, <2>1, GeometryAssumption, SMTT(30) DEF Position
  <2>3. Holds(h, a, Unit(u + 1) + 0, Unit(u + 1))
    BY <1>9, <2>1, SMTT(30) DEF Holds
  <2>4. Low(a, Unit(u + 1)) = Low(a, g)
    BY <2>1, Zenon DEF Low
  <2>5. Top(a, u + 1, 0) = Top(a, u, v) + 1
    BY <1>2, <1>3, <2>1, SMTT(30) DEF Top
  <2>6. Layout(h, a, u + 1, 0, Unit(u + 1))
    BY <2>2, <2>3 DEF Layout
  <2> QED BY <2>4, <2>5, <2>6, SMTT(30)
<1>12. CASE v + 1 = EraseBlocks /\ u + 1 = EraseUnits
  <2>1. Unit(u) + EraseBlocks = physical_blocks /\ c + 1 = physical_blocks
    BY <1>2, <1>3, <1>12, UnitFacts, SMTT(30) DEF c
  <2>2. a + 1 \in Nat /\ (a + 1) - 1 = a /\ a + 1 > 0 /\ Unit(0) = 0
        /\ Base(a + 1) = Base(a) + physical_blocks
    BY <1>2, BaseFacts, UnitFacts, GeometryAssumption, SMTT(30)
  <2>3. Position(a + 1, 0, 0, 0)
    BY <2>2, GeometryAssumption, SMTT(30) DEF Position
  <2>4. \A p \in Phy : p \in Nat /\ h[p] = Blk(a, p)
    BY <1>3, <1>9, <2>1, GeometryFacts, SMTT(30) DEF Phy
  <2>5. Holds(h, a + 1, Unit(0) + 0, 0)
    BY <2>2, <2>4 DEF Holds
  <2>6. Low(a + 1, 0) = Low(a, g)
    BY <1>2, <2>1, <2>2, BaseZero, SMTT(30) DEF Low
  <2>7. Top(a + 1, 0, 0) = Top(a, u, v) + 1
    BY <1>2, <1>3, <2>1, <2>2, GeometryFacts, SMTT(30) DEF Top
  <2>8. Layout(h, a + 1, 0, 0, 0)
    BY <2>3, <2>5, SMTT(30) DEF Layout
  <2> QED BY <2>6, <2>7, <2>8, SMTT(30)
<1> QED BY <1>2, <1>3, <1>10, <1>11, <1>12, GeometryAssumption, SMTT(30)

-----------------------------------------------------------------------------
(***************************************************************************)
(* What the layout says about logical blocks.                              *)
(***************************************************************************)
\* The newest and the first block of a log, and when the next write has to erase.
LEMMA TopFacts ==
  ASSUME NEW a, NEW u, NEW v, NEW g, Position(a, u, v, g)
  PROVE  /\ Top(a, u, v) \in Nat
         /\ Low(a, g) \in Nat
         /\ Low(a, g) <= Top(a, u, v)
         /\ Top(a, u, v) % physical_blocks = Unit(u) + v
         /\ (Top(a, u, v) >= physical_blocks /\ Top(a, u, v) % EraseBlocks = 0)
              <=> (a > 0 /\ v = 0)
<1>1. /\ a \in Nat /\ v \in Nat /\ Base(a) \in Nat /\ Unit(u) \in Nat
      /\ Unit(u) + v \in Phy
      /\ Unit(u) + EraseBlocks <= physical_blocks
      /\ g \in Nat /\ g <= Unit(u) + EraseBlocks
      /\ a > 0 => a - 1 \in Nat /\ Base(a - 1) \in Nat
                  /\ Base(a) = Base(a - 1) + physical_blocks
  BY PositionFacts, Zenon
<1>2. Top(a, u, v) \in Nat /\ Top(a, u, v) = Base(a) + (Unit(u) + v)
  BY <1>1 DEF Top
<1>3. Low(a, g) \in Nat /\ Low(a, g) <= Top(a, u, v)
  BY <1>1, <1>2, GeometryAssumption, GeometryFacts, SMTT(30) DEF Low
<1>4. Top(a, u, v) % physical_blocks = Unit(u) + v
  BY <1>1, <1>2, BaseSplit, SMTT(30)
<1>5. Top(a, u, v) % EraseBlocks = v
  BY <1>1, ModUnit, SMTT(30) DEF Top, Position
<1>6. Top(a, u, v) >= physical_blocks <=> a > 0
  <2>1. CASE a > 0
    BY <1>1, <1>2, <2>1, GeometryFacts, SMTT(30)
  <2>2. CASE a = 0
    BY <1>1, <1>2, <2>2, BaseZero, GeometryFacts, SMTT(30) DEF Phy
  <2> QED BY <1>1, <2>1, <2>2
<1> QED BY <1>2, <1>3, <1>4, <1>5, <1>6

\* Every block on the flash is one of Low .. Top - 1.
LEMMA BlocksOnFlash ==
  ASSUME NEW f, NEW a, NEW u, NEW v, NEW g, Layout(f, a, u, v, g), NEW p \in Phy
  PROVE  f[p].lb = -1 \/ (f[p].lb \in Nat /\ f[p].lb >= Low(a, g) /\ f[p].lb < Top(a, u, v))
<1>1. Position(a, u, v, g) /\ Holds(f, a, Unit(u) + v, g)
  BY Zenon DEF Layout
<1>2. /\ a \in Nat /\ v \in Nat /\ Base(a) \in Nat /\ Unit(u) \in Nat
      /\ Unit(u) + v \in Phy
      /\ Unit(u) + EraseBlocks <= physical_blocks
      /\ g \in Nat /\ g >= Unit(u) + v /\ g <= Unit(u) + EraseBlocks
      /\ a > 0 => a - 1 \in Nat /\ Base(a - 1) \in Nat
                  /\ Base(a) = Base(a - 1) + physical_blocks
  BY <1>1, PositionFacts, SMTT(30)
<1>3. p \in Nat /\ p < physical_blocks
  BY GeometryFacts, SMTT(30) DEF Phy
<1>4. /\ p < Unit(u) + v => f[p] = Blk(a, p)
      /\ p >= Unit(u) + v /\ (p < g \/ a = 0) => f[p] = Erased
      /\ p >= Unit(u) + v /\ p >= g /\ a > 0 => f[p] = Blk(a - 1, p)
  BY <1>1, SMTT(30) DEF Holds
<1>5. CASE p < Unit(u) + v
  <2>1. f[p].lb = Base(a) + p  BY <1>2, <1>4, <1>5, BlkFacts, SMTT(30)
  <2> QED BY <1>2, <1>3, <1>5, <2>1, GeometryAssumption, GeometryFacts, SMTT(30) DEF Low, Top
<1>6. CASE p >= Unit(u) + v /\ (p < g \/ a = 0)
  BY <1>4, <1>6, ErasedFacts, ZenonT(40)
<1>7. CASE p >= Unit(u) + v /\ p >= g /\ a > 0
  <2>1. f[p].lb = Base(a - 1) + p  BY <1>2, <1>4, <1>7, BlkFacts, SMTT(30)
  <2> QED BY <1>2, <1>3, <1>7, <2>1, GeometryFacts, SMTT(30) DEF Low, Top
<1> QED BY <1>2, <1>3, <1>5, <1>6, <1>7, SMTT(30)

\* Every one of them is on the flash.
LEMMA BlocksPresent ==
  ASSUME NEW f, NEW a, NEW u, NEW v, NEW g, Layout(f, a, u, v, g), FlashInRange(f),
         NEW b \in Int, b >= Low(a, g), b < Top(a, u, v)
  PROVE  f[b % physical_blocks] = Cell(b)
<1>1. Position(a, u, v, g) /\ Holds(f, a, Unit(u) + v, g)
  BY Zenon DEF Layout
<1>2. /\ a \in Nat /\ v \in Nat /\ Base(a) \in Nat /\ Unit(u) \in Nat
      /\ Unit(u) + v \in Phy
      /\ Unit(u) + EraseBlocks <= physical_blocks
      /\ g \in Nat /\ g >= Unit(u) + v /\ g <= Unit(u) + EraseBlocks
      /\ a > 0 => a - 1 \in Nat /\ Base(a - 1) \in Nat
                  /\ Base(a) = Base(a - 1) + physical_blocks
  BY <1>1, PositionFacts, SMTT(30)
<1>3. a <= MaxWraps
  BY LapInRange, SMTT(30)
<1>4. CASE b >= Base(a)
  <2> DEFINE p == b - Base(a)
  <2>1. p \in Phy /\ p < Unit(u) + v /\ b = Base(a) + p
    BY <1>2, <1>4, GeometryFacts, SMTT(30) DEF Phy, Top
  <2> HIDE DEF p
  <2>2. f[p] = Blk(a, p)
    BY <1>1, <2>1, SMTT(30) DEF Holds
  <2> QED BY <1>2, <1>3, <2>1, <2>2, CellBlk, SMTT(30)
<1>5. CASE b < Base(a)
  <2>1. a > 0
    BY <1>2, <1>5, BaseZero, SMTT(30) DEF Low
  <2> DEFINE p == b - Base(a - 1)
  <2>2. p \in Phy /\ p >= g /\ b = Base(a - 1) + p
    BY <1>2, <1>5, <2>1, GeometryFacts, SMTT(30) DEF Phy, Low
  <2> HIDE DEF p
  <2>3. f[p] = Blk(a - 1, p)
    BY <1>1, <1>2, <2>1, <2>2, GeometryFacts, SMTT(30) DEF Holds
  <2>4. a - 1 \in Nat /\ a - 1 <= MaxWraps
    BY <1>2, <1>3, <2>1, GeometryAssumption, SMTT(30)
  <2> QED BY <2>2, <2>3, <2>4, CellBlk, SMTT(30)
<1> QED BY <1>2, <1>4, <1>5, SMTT(30)

\* No older one is.
LEMMA BlocksGone ==
  ASSUME NEW f, NEW a, NEW u, NEW v, NEW g, Layout(f, a, u, v, g),
         NEW b \in Nat, b < Low(a, g)
  PROVE  f[b % physical_blocks] # Cell(b)
<1>1. b % physical_blocks \in Phy
  BY ModInPhy, SMTT(30)
<1>2. Low(a, g) \in Nat
  BY TopFacts, SMTT(30) DEF Layout
<1>3. f[b % physical_blocks].lb # b
  BY <1>1, <1>2, BlocksOnFlash
<1>4. Cell(b).lb = b
  BY Zenon DEF Cell
<1> QED BY <1>3, <1>4, SMTT(30)
-----------------------------------------------------------------------------
(***************************************************************************)
(* How far the logger runs past its last logical block: the check for      *)
(* space in data_logger_block_write looks at current_block only, and the   *)
(* requests between that check and the flash are bounded by the threads,   *)
(* the queue and the RAM buffer.  The lemmas take what they need to know   *)
(* of counting the blocks on the queue as a hypothesis, QueueCounts, which *)
(* DataLoggerOverrun proves.                                               *)
(***************************************************************************)
Queued(s) == {i \in DOMAIN s : s[i] = "block"}

QueueCounts ==
  \A s \in Seq(Requests) :
    /\ Cardinality(Queued(s)) \in Nat /\ Cardinality(Queued(s)) <= Len(s)
    /\ (\A i \in 1 .. Len(s) : s[i] = "flush") => Cardinality(Queued(s)) = 0
    /\ \A r \in Requests : Cardinality(Queued(Append(s, r))) =
                            Cardinality(Queued(s)) + (IF r = "block" THEN 1 ELSE 0)
    /\ s # << >> => Cardinality(Queued(s)) =
                      Cardinality(Queued(Tail(s))) + (IF Head(s) = "block" THEN 1 ELSE 0)

(***************************************************************************)
(* The inductive invariant.  No more requests are under way than the       *)
(* threads, the queue and the RAM buffer hold, and none that logs a block  *)
(* while the logger initialises or is erased.                              *)
(***************************************************************************)
Slack == MaxCallers + QueueLen + RamBlocks

NothingPending ==
  /\ callers["block"] = 0 /\ ram = 0 /\ ct.pc = "idle"
  /\ \A i \in 1 .. Len(fifo) : fifo[i] = "flush"

CountInv ==
  /\ callers["block"] + callers["flush"] <= MaxCallers
  /\ Len(fifo) + ct.buf <= QueueLen
  /\ ram <= RamBlocks
  /\ ct.pc = "idle" => ct.todo = 0 /\ ct.buf = 0
  /\ ct.pc # "idle" => ram = 0 /\ ct.todo <= RamBlocks + ct.buf
  /\ ~Up \/ erasing => NothingPending
  /\ OverrunBounded

BootInv ==
  /\ boot.pc = "first" => current_block = 0
  /\ boot.pc = "search" => /\ boot.counter \in 1 .. MaxWraps
                         /\ boot.res < physical_blocks /\ boot.high < physical_blocks

(***************************************************************************)
(* data_logger_common_init takes a wrap of 0xFF in the last block for a    *)
(* lap only behind a wrap of 0x00 in the first one.  No first block gets   *)
(* that wrap unless the logger runs past its end by a whole lap: it is     *)
(* programmed over a wrap of 0xFF.                                         *)
(***************************************************************************)
FirstErased == flash[0].wrap = WrapErased

FirstInv ==
  /\ flash[0].wrap # 0
  /\ Up /\ ~erasing /\ current_block = 0 /\ ct.pc # "written" => FirstErased
  /\ ct.pc = "erase" => ct.phy = current_block % physical_blocks /\ current_block > 0
  /\ ct.pc = "write" => /\ ct.lb = current_block
                        /\ ct.phy = current_block % physical_blocks
                        /\ ct.phy = 0 => FirstErased
  /\ erasing /\ (er.end = 0 \/ er.off > 0) => FirstErased
  /\ erasing => Up
  /\ boot.pc = "earliest" => current_block > 0

BoundInv ==
  TypeInv /\ CountInv /\ BootInv /\ (Slack < physical_blocks => FirstInv)

\* The numbers that are added up.
LEMMA CountTypes ==
  ASSUME QueueCounts, TypeInv
  PROVE  /\ callers["block"] \in Nat /\ callers["flush"] \in Nat
         /\ ram \in Nat /\ ct.todo \in Nat /\ ct.buf \in 0 .. 1
         /\ fifo \in Seq(Requests) /\ Len(fifo) \in Nat
         /\ Cardinality(Queued(fifo)) \in Nat /\ Cardinality(Queued(fifo)) <= Len(fifo)
         /\ current_block \in Nat
<1>1. /\ callers \in [Requests -> Nat] /\ ct \in CtType /\ fifo \in Seq(Requests)
      /\ ram \in Nat /\ current_block \in Nat
  BY Zenon DEF TypeInv, TypeOK
<1>2. callers["block"] \in Nat /\ callers["flush"] \in Nat
  BY <1>1 DEF Requests
<1>3. ct.todo \in Nat /\ ct.buf \in 0 .. 1
  BY <1>1 DEF CtType
<1>4. Len(fifo) \in Nat
  BY <1>1
<1> QED BY <1>1, <1>2, <1>3, <1>4, Zenon DEF QueueCounts

\* The sum, and the bound on it.
LEMMA PendingSum ==
  /\ Pending = callers["block"] + ram + ct.todo + Cardinality(Queued(fifo))
  /\ OverrunBounded <=>
       current_block + Pending <= logical_blocks + MaxCallers + QueueLen + RamBlocks
BY Zenon DEF Pending, Queued, OverrunBounded

\* The constants of the bound.
LEMMA BoundTypes ==
  /\ MaxCallers \in Nat /\ QueueLen \in Nat /\ RamBlocks \in Nat
  /\ logical_blocks \in Nat /\ physical_blocks \in Nat \ {0}
  /\ Slack = MaxCallers + QueueLen + RamBlocks
BY BoundsAssumption, GeometryFacts DEF Slack

\* The sum is a number.
LEMMA PendingType ==
  ASSUME QueueCounts
  PROVE  /\ TypeInv => Pending \in Nat /\ current_block \in Nat
         /\ TypeInv' => Pending' \in Nat /\ current_block' \in Nat
<1>1. ASSUME NEW c \in Nat, NEW r \in Nat, NEW t \in Nat, NEW q \in Nat PROVE c + r + t + q \in Nat
  OBVIOUS
<1>2. TypeInv => Pending \in Nat /\ current_block \in Nat
  BY <1>1, CountTypes, PendingSum, ZenonT(40)
<1>3. ASSUME TypeInv' PROVE Pending' \in Nat /\ current_block' \in Nat
  <2>1. /\ callers' \in [Requests -> Nat] /\ ct' \in CtType /\ fifo' \in Seq(Requests)
        /\ ram' \in Nat /\ current_block' \in Nat
    BY <1>3, Zenon DEF TypeInv, TypeOK
  <2>2. callers'["block"] \in Nat /\ ct'.todo \in Nat
    BY <2>1 DEF CtType, Requests
  <2>3. Cardinality(Queued(fifo')) \in Nat
    BY <2>1, Zenon DEF QueueCounts
  <2>4. Pending' = callers'["block"] + ram' + ct'.todo + Cardinality(Queued(fifo'))
    BY Zenon DEF Pending, Queued
  <2> QED BY <1>1, <2>1, <2>2, <2>3, <2>4, Zenon
<1> QED BY <1>2, <1>3, Zenon

\* Steps that do not increase the sum keep the bound.
LEMMA BoundKept ==
  ASSUME QueueCounts, TypeInv, TypeInv', OverrunBounded,
         current_block' + Pending' <= current_block + Pending
  PROVE  OverrunBounded'
<1>1. ASSUME NEW m \in Int, NEW n \in Int, NEW b \in Int, m <= n, n <= b PROVE m <= b
  BY <1>1
<1>2. /\ current_block' + Pending' \in Int /\ current_block + Pending \in Int
      /\ logical_blocks + MaxCallers + QueueLen + RamBlocks \in Int
  BY PendingType, BoundTypes
<1> QED BY <1>1, <1>2, Zenon DEF OverrunBounded

\* Nothing is added where nothing is pending.
LEMMA PendingNone ==
  ASSUME QueueCounts, TypeInv, NothingPending, ct.todo = 0
  PROVE  Pending = 0
<1>1. Cardinality(Queued(fifo)) = 0
  BY CountTypes, Zenon DEF QueueCounts, NothingPending
<1>2. callers["block"] = 0 /\ ram = 0
  BY Zenon DEF NothingPending
<1>3. Pending = 0 + 0 + 0 + 0
  BY <1>1, <1>2, PendingSum, ZenonT(40)
<1> QED BY <1>3

-----------------------------------------------------------------------------
(***************************************************************************)
(* Every step keeps the bound.                                             *)
(***************************************************************************)
\* Steps that only move the counters of an idle logger, or lower them.
LEMMA CountFrame ==
  ASSUME QueueCounts, TypeInv, TypeInv', CountInv, UNCHANGED <<queue, ct>>,
         current_block' <= current_block, ~Up' => ~Up, erasing' => erasing \/ NothingPending
  PROVE  CountInv'
<1>1. callers' = callers /\ fifo' = fifo /\ ram' = ram /\ ct' = ct
  BY Zenon DEF queue
<1>2. Pending' = Pending
  BY <1>1, Zenon DEF Pending
<1>3. current_block' + Pending <= current_block + Pending
  BY PendingType
<1>4. OverrunBounded'
  BY <1>2, <1>3, BoundKept, Zenon DEF CountInv
<1>5. ~Up' \/ erasing' => NothingPending'
  BY <1>1, Zenon DEF CountInv, NothingPending
<1> QED BY <1>1, <1>4, <1>5, Zenon DEF CountInv

\* data_logger_block_write takes a block while there is space.
LEMMA BlockWriteCount ==
  ASSUME QueueCounts, TypeInv, TypeInv', CountInv, data_logger_block_write
  PROVE  CountInv'
<1>1. /\ Up /\ current_block < logical_blocks /\ ~erasing
      /\ callers["block"] + callers["flush"] < MaxCallers
      /\ callers' = [callers EXCEPT !["block"] = @ + 1]
      /\ UNCHANGED <<current_block, fifo, ram, ct, er, boot>>
  BY Zenon DEF data_logger_block_write, CallerEnters, counters
<1>2. callers'["block"] = callers["block"] + 1 /\ callers'["flush"] = callers["flush"]
  BY <1>1 DEF TypeInv, TypeOK, Requests
<1>3. /\ Len(fifo) + ct.buf <= QueueLen /\ ram <= RamBlocks
      /\ (ct.todo = 0 /\ ct.buf = 0) \/ (ram = 0 /\ ct.todo <= RamBlocks + ct.buf)
  BY Zenon DEF CountInv
<1>4. /\ (callers["block"] + 1) + callers["flush"] <= MaxCallers
      /\ current_block + ((callers["block"] + 1) + ram + ct.todo + Cardinality(Queued(fifo)))
           <= logical_blocks + MaxCallers + QueueLen + RamBlocks
  <2> DEFINE cb == callers["block"]
             cf == callers["flush"]
             q == Cardinality(Queued(fifo))
             len == Len(fifo)
  <2>1. /\ cb \in Nat /\ cf \in Nat /\ ram \in Nat /\ ct.todo \in Nat /\ ct.buf \in 0 .. 1
        /\ len \in Nat /\ q \in Nat /\ q <= len /\ current_block \in Nat
    BY CountTypes, Zenon
  <2>2. /\ cb + cf < MaxCallers /\ len + ct.buf <= QueueLen /\ ram <= RamBlocks
        /\ (ct.todo = 0 /\ ct.buf = 0) \/ (ram = 0 /\ ct.todo <= RamBlocks + ct.buf)
        /\ current_block < logical_blocks
    BY <1>1, <1>3, ZenonT(40)
  <2> HIDE DEF cb, cf, q, len
  <2>3. /\ (cb + 1) + cf <= MaxCallers
        /\ current_block + ((cb + 1) + ram + ct.todo + q)
             <= logical_blocks + MaxCallers + QueueLen + RamBlocks
    BY <2>1, <2>2, BoundTypes
  <2> QED BY <2>3, Zenon DEF cb, cf, q
<1>5. Pending' = callers["block"] + 1 + ram + ct.todo + Cardinality(Queued(fifo))
  BY <1>1, <1>2, Zenon DEF Pending, Queued
<1>6. OverrunBounded'
  BY <1>1, <1>4, <1>5, Zenon DEF OverrunBounded
<1>7. Up' /\ ~erasing'
  BY <1>1, ZenonT(40) DEF Up, erasing
<1> QED BY <1>1, <1>2, <1>4, <1>6, <1>7, ZenonT(40) DEF CountInv

\* data_logger_flush adds no block.
LEMMA FlushCount ==
  ASSUME QueueCounts, TypeInv, TypeInv', CountInv, data_logger_flush
  PROVE  CountInv'
<1>1. /\ Up /\ callers["block"] + callers["flush"] < MaxCallers
      /\ callers' = [callers EXCEPT !["flush"] = @ + 1]
      /\ UNCHANGED <<current_block, fifo, ram, ct, er, boot>>
  BY ZenonT(40) DEF data_logger_flush, CallerEnters, counters
<1>2. callers'["block"] = callers["block"] /\ callers'["flush"] = callers["flush"] + 1
  BY <1>1, SMTT(30) DEF TypeInv, TypeOK, Requests
<1>3. callers["block"] + (callers["flush"] + 1) <= MaxCallers
  BY <1>1, CountTypes, BoundTypes, SMTT(30)
<1>4. Pending' = Pending
  BY <1>1, <1>2, Zenon DEF Pending
<1>5. OverrunBounded'
  BY <1>1, <1>4, Zenon DEF OverrunBounded, CountInv
<1>6. Up' /\ (erasing' => NothingPending')
  BY <1>1, <1>2, Zenon DEF Up, erasing, CountInv, NothingPending
<1> QED BY <1>1, <1>2, <1>3, <1>5, <1>6, Zenon DEF CountInv

\* A request moves from its caller to the queue.
LEMMA PutCount ==
  ASSUME QueueCounts, TypeInv, TypeInv', CountInv, NEW r \in Requests, QueuePut(r)
  PROVE  CountInv'
<1>1. /\ callers[r] > 0 /\ Len(fifo) + ct.buf < QueueLen
      /\ callers' = [callers EXCEPT ![r] = @ - 1]
      /\ fifo' = Append(fifo, r)
      /\ UNCHANGED <<current_block, ram, ct, er, boot>>
  BY Zenon DEF QueuePut, counters
<1>2. /\ callers'["block"] = callers["block"] - (IF r = "block" THEN 1 ELSE 0)
      /\ callers'["flush"] = callers["flush"] - (IF r = "block" THEN 0 ELSE 1)
  BY <1>1, SMTT(30) DEF TypeInv, TypeOK, Requests
<1>3. Cardinality(Queued(fifo')) = Cardinality(Queued(fifo)) + (IF r = "block" THEN 1 ELSE 0)
  BY <1>1, CountTypes, Zenon DEF QueueCounts
<1>4. Pending' = callers'["block"] + ram + ct.todo + Cardinality(Queued(fifo'))
  BY <1>1, Zenon DEF Pending, Queued
<1>5. Pending' = Pending
  <2> DEFINE cb == callers["block"]
             q == Cardinality(Queued(fifo))
             d == IF r = "block" THEN 1 ELSE 0
  <2>1. /\ cb \in Nat /\ ram \in Nat /\ ct.todo \in Nat /\ q \in Nat
        /\ Pending = cb + ram + ct.todo + q
    BY CountTypes, PendingSum, Zenon
  <2>2. d \in 0 .. 1  OBVIOUS
  <2> HIDE DEF d
  <2>3. Pending' = (cb - d) + ram + ct.todo + (q + d)
    BY <1>2, <1>3, <1>4, ZenonT(40) DEF d
  <2> HIDE DEF cb, q
  <2> QED BY <2>1, <2>2, <2>3, SMTT(30)
<1>6. OverrunBounded'
  BY <1>1, <1>5, Zenon DEF OverrunBounded, CountInv
<1>7. callers'["block"] + callers'["flush"] <= MaxCallers
  <2>1. callers["block"] + callers["flush"] <= MaxCallers  BY Zenon DEF CountInv
  <2> QED BY <1>2, <2>1, CountTypes, BoundTypes, SMTT(30)
<1>8. Len(fifo') + ct'.buf <= QueueLen
  <2>1. Len(fifo') = Len(fifo) + 1  BY <1>1, CountTypes
  <2> QED BY <1>1, <2>1, CountTypes, BoundTypes, SMTT(30)
<1>9. ~Up' \/ erasing' => NothingPending'
  <2> SUFFICES ASSUME NothingPending PROVE NothingPending'
    BY <1>1, Zenon DEF Up, erasing, CountInv
  <2>1. r = "flush"
    BY <1>1, CountTypes, SMTT(30) DEF Requests, NothingPending
  <2>2. callers'["block"] = 0
    BY <1>2, <2>1, SMTT(30) DEF NothingPending
  <2>3. \A i \in 1 .. Len(fifo') : fifo'[i] = "flush"
    BY <1>1, <2>1, CountTypes, SMTT(30) DEF NothingPending
  <2> QED BY <1>1, <2>2, <2>3, ZenonT(40) DEF NothingPending
<1> QED BY <1>1, <1>6, <1>7, <1>8, <1>9, ZenonT(40) DEF CountInv

\* The commit thread starts on n blocks.
LEMMA WriteBlocksFacts ==
  ASSUME NEW n \in Nat, NEW buf \in 0 .. 1, WriteBlocks(n, buf)
  PROVE  /\ ct'.todo = n /\ ct'.pc \in {"idle", "start"} /\ (ct'.pc = "idle" <=> n = 0)
         /\ ct'.buf = IF n = 0 THEN 0 ELSE buf
<1>1. CASE n = 0
  BY <1>1, ZenonT(40) DEF WriteBlocks, CtIdle
<1>2. CASE n # 0
  BY <1>2, ZenonT(40) DEF WriteBlocks, CtIdle
<1> QED BY <1>1, <1>2, Zenon

\* The commit thread is done with a block.
LEMMA BlockDoneFacts ==
  ASSUME ct \in CtType, ct.todo > 0, BlockDone
  PROVE  /\ ct'.todo = ct.todo - 1 /\ ct'.pc \in {"idle", "start"}
         /\ (ct'.pc = "idle" <=> ct.todo = 1)
         /\ ct'.buf = IF ct.todo = 1 THEN 0 ELSE ct.buf
<1>1. CASE ct.todo = 1
  BY <1>1 DEF BlockDone, CtIdle
<1>2. CASE ct.todo # 1
  BY <1>2, SMTT(30) DEF BlockDone, CtType
<1> QED BY <1>1, <1>2, SMTT(30)

\* logger_commit_thread_fn takes a request from the queue.
LEMMA CommitFnCount ==
  ASSUME QueueCounts, TypeInv, TypeInv', CountInv, logger_commit_thread_fn
  PROVE  CountInv'
<1>1. /\ Up /\ ct.pc = "idle" /\ fifo # << >> /\ fifo' = Tail(fifo)
      /\ UNCHANGED <<current_block, callers, er, boot>>
  BY Zenon DEF logger_commit_thread_fn, counters
<1>2. /\ callers["block"] + callers["flush"] <= MaxCallers
      /\ ct.todo = 0 /\ ct.buf = 0 /\ Len(fifo) + ct.buf <= QueueLen /\ ram <= RamBlocks
  BY <1>1, Zenon DEF CountInv
<1> DEFINE cb == callers["block"]
           q == Cardinality(Queued(fifo))
           tq == Cardinality(Queued(Tail(fifo)))
           len == Len(fifo)
<1>3. /\ cb \in Nat /\ ram \in Nat /\ q \in Nat /\ len \in Nat /\ current_block \in Nat
      /\ fifo \in Seq(Requests)
  BY CountTypes, ZenonT(40)
<1>4. /\ Tail(fifo) \in Seq(Requests) /\ Len(Tail(fifo)) = Len(fifo) - 1
      /\ Head(fifo) = fifo[1] /\ 1 \in 1 .. Len(fifo)
      /\ \A i \in 1 .. Len(Tail(fifo)) : Tail(fifo)[i] = fifo[i + 1] /\ i + 1 \in 1 .. Len(fifo)
  BY <1>1, <1>3, SMTT(30)
<1>5. tq \in Nat /\ q = tq + (IF Head(fifo) = "block" THEN 1 ELSE 0)
  <2>1. /\ \A s \in Seq(Requests) : Cardinality(Queued(s)) \in Nat
        /\ \A s \in Seq(Requests) : s # << >> =>
             Cardinality(Queued(s)) =
               Cardinality(Queued(Tail(s))) + (IF Head(s) = "block" THEN 1 ELSE 0)
    BY Zenon DEF QueueCounts
  <2> QED BY <1>1, <1>3, <1>4, <2>1, ZenonT(40)
<1>6. Pending = cb + ram + 0 + q /\ Pending' = cb + ram' + ct'.todo + tq
  BY <1>1, <1>2, ZenonT(40) DEF Pending, Queued
<1>7. Len(fifo') = len - 1
  BY <1>1, <1>4, Zenon
<1>8. /\ ct'.pc = "idle" => ct'.todo = 0 /\ ct'.buf = 0
      /\ ct'.pc # "idle" => ram' = 0 /\ ct'.todo <= RamBlocks + ct'.buf
      /\ ram' <= RamBlocks /\ ct'.buf \in 0 .. 1 /\ Pending' = Pending
      /\ Head(fifo) = "flush" => ram' = 0 /\ ct'.todo = ram /\ (ct'.pc = "idle" <=> ram = 0)
  <2> HIDE DEF cb, q, tq, len
  <2>1. CASE Head(fifo) = "flush" /\ WriteBlocks(ram, 0) /\ ram' = 0
    <3>1. /\ ct'.todo = ram /\ (ct'.pc = "idle" <=> ram = 0) /\ ct'.buf = 0
      BY <1>3, <2>1, WriteBlocksFacts, SMTT(30)
    <3>2. q = tq /\ Pending' = cb + 0 + ram + tq
      BY <1>5, <1>6, <2>1, <3>1, SMTT(30)
    <3> QED BY <1>2, <1>3, <1>5, <1>6, <2>1, <3>1, <3>2, BoundTypes, SMTT(30)
  <2>2. CASE Head(fifo) = "block" /\ ram < RamBlocks /\ ram' = ram + 1 /\ UNCHANGED ct
    <3>1. q = tq + 1 /\ Pending' = cb + (ram + 1) + 0 + tq
      BY <1>2, <1>5, <1>6, <2>2, SMTT(30)
    <3> QED BY <1>1, <1>2, <1>3, <1>5, <1>6, <2>2, <3>1, BoundTypes, SMTT(30)
  <2>3. CASE Head(fifo) = "block" /\ ram >= RamBlocks /\ WriteBlocks(ram + 1, 1) /\ ram' = 0
    <3>1. ct'.todo = ram + 1 /\ ct'.pc # "idle" /\ ct'.buf = 1
      BY <1>3, <2>3, WriteBlocksFacts, SMTT(30)
    <3>2. q = tq + 1 /\ Pending' = cb + 0 + (ram + 1) + tq
      BY <1>5, <1>6, <2>3, <3>1, SMTT(30)
    <3> QED BY <1>2, <1>3, <1>5, <1>6, <2>3, <3>1, <3>2, BoundTypes, SMTT(30)
  <2> QED BY <2>1, <2>2, <2>3, ZenonT(40) DEF logger_commit_thread_fn
<1>9. Len(fifo') + ct'.buf <= QueueLen
  <2> HIDE DEF len
  <2>1. len + 0 <= QueueLen  BY <1>2, Zenon DEF len
  <2> QED BY <1>3, <1>7, <1>8, <2>1, BoundTypes, SMTT(30)
<1>10. OverrunBounded'
  BY <1>1, <1>8, ZenonT(40) DEF OverrunBounded, CountInv
<1>11. ~Up' \/ erasing' => NothingPending'
  <2> SUFFICES ASSUME NothingPending PROVE NothingPending'
    BY <1>1, Zenon DEF Up, erasing, CountInv
  <2>1. callers'["block"] = 0 /\ ram = 0 /\ \A i \in 1 .. Len(fifo) : fifo[i] = "flush"
    BY <1>1, Zenon DEF NothingPending
  <2>2. Head(fifo) = "flush"  BY <1>4, <2>1, ZenonT(40)
  <2>3. \A i \in 1 .. Len(fifo') : fifo'[i] = "flush"
    BY <1>1, <1>4, <2>1, ZenonT(40)
  <2> QED BY <1>8, <2>1, <2>2, <2>3, Zenon DEF NothingPending
<1> QED BY <1>1, <1>2, <1>8, <1>9, <1>10, <1>11, ZenonT(40) DEF CountInv

\* The steps of do_block_write: it goes on with its block, or is done with it.
LEMMA WriteCount ==
  ASSUME QueueCounts, TypeInv, TypeInv', CountInv, ct.pc # "idle", UNCHANGED <<queue, er, boot>>,
         \/ /\ ct'.pc # "idle" /\ ct'.todo = ct.todo /\ ct'.buf = ct.buf
            /\ current_block' = current_block
         \/ BlockDone /\ (current_block' = current_block \/ current_block' = current_block + 1)
  PROVE  CountInv'
<1>1. /\ callers' = callers /\ fifo' = fifo /\ ram' = ram
      /\ Up /\ ~erasing /\ Up' /\ ~erasing'
  BY Zenon DEF queue, CountInv, NothingPending, Up, erasing
<1>2. /\ callers["block"] + callers["flush"] <= MaxCallers
      /\ ct.todo <= RamBlocks + ct.buf /\ Len(fifo) + ct.buf <= QueueLen /\ ram = 0
  BY Zenon DEF CountInv
<1> DEFINE cb == callers["block"]
           q == Cardinality(Queued(fifo))
           len == Len(fifo)
<1>3. /\ cb \in Nat /\ q \in Nat /\ len \in Nat /\ current_block \in Nat
      /\ ct.todo \in Nat /\ ct.buf \in 0 .. 1
  BY CountTypes, Zenon
<1>4. ct \in CtType /\ ct.todo > 0
  BY Zenon DEF TypeInv, TypeOK
<1>5. Pending = cb + 0 + ct.todo + q /\ Pending' = cb + 0 + ct'.todo + q
  BY <1>1, <1>2, ZenonT(40) DEF Pending, Queued
<1>6. len + ct.buf <= QueueLen
  BY <1>2, Zenon
<1> HIDE DEF cb, q, len
<1>7. /\ ct'.pc = "idle" => ct'.todo = 0 /\ ct'.buf = 0
      /\ ct'.pc # "idle" => ct'.todo <= RamBlocks + ct'.buf
      /\ len + ct'.buf <= QueueLen
      /\ current_block' + Pending' <= current_block + Pending
  <2>1. CASE /\ ct'.pc # "idle" /\ ct'.todo = ct.todo /\ ct'.buf = ct.buf
             /\ current_block' = current_block
    BY <1>2, <1>3, <1>5, <1>6, <2>1, SMTT(30)
  <2>2. CASE BlockDone /\ (current_block' = current_block \/ current_block' = current_block + 1)
    <3>1. /\ ct'.todo = ct.todo - 1 /\ (ct'.pc = "idle" <=> ct.todo = 1)
          /\ ct'.buf = IF ct.todo = 1 THEN 0 ELSE ct.buf
      BY <1>4, <2>2, BlockDoneFacts, Zenon
    <3>2. current_block' + Pending' <= current_block + Pending
      BY <1>3, <1>5, <2>2, <3>1, SMTT(30)
    <3>3. CASE ct.todo = 1
      BY <1>3, <1>6, <3>1, <3>2, <3>3, BoundTypes, SMTT(30)
    <3>4. CASE ct.todo # 1
      BY <1>2, <1>3, <1>6, <3>1, <3>2, <3>4, BoundTypes, SMTT(30)
    <3> QED BY <3>3, <3>4, SMTT(30)
  <2> QED BY <2>1, <2>2, SMTT(30)
<1>8. OverrunBounded'
  BY <1>7, BoundKept, ZenonT(40) DEF CountInv
<1>9. Len(fifo') + ct'.buf <= QueueLen /\ ram' <= RamBlocks /\ ram' = 0
  BY <1>1, <1>2, <1>7, BoundTypes, SMTT(30) DEF len
<1> QED BY <1>1, <1>2, <1>7, <1>8, <1>9, Zenon DEF CountInv

\* Inside do_block_write the bound is kept.
LEMMA CommitCount ==
  ASSUME QueueCounts, TypeInv, TypeInv', CountInv, CommitThread
  PROVE  CountInv'
<1>1. ct \in CtType
  BY Zenon DEF TypeInv, TypeOK
<1>2. CASE logger_commit_thread_fn
  BY <1>2, CommitFnCount, ZenonT(40)
<1>3. CASE do_block_write_start
  <2>1. ct.pc = "start" /\ UNCHANGED <<queue, er, boot>> /\ current_block' = current_block
    BY <1>3, ZenonT(40) DEF do_block_write_start
  <2>2. BlockDone \/ (ct'.pc # "idle" /\ ct'.todo = ct.todo /\ ct'.buf = ct.buf)
    BY <1>1, <1>3, Zenon DEF do_block_write_start, CtType
  <2> QED BY <2>1, <2>2, WriteCount
<1>4. CASE do_block_write_erase
  <2>1. ct.pc = "erase" /\ UNCHANGED <<queue, er, boot>> /\ current_block' = current_block
    BY <1>4, Zenon DEF do_block_write_erase
  <2>2. BlockDone \/ (ct'.pc # "idle" /\ ct'.todo = ct.todo /\ ct'.buf = ct.buf)
    BY <1>1, <1>4, ZenonT(40) DEF do_block_write_erase, CtType
  <2> QED BY <2>1, <2>2, WriteCount, SMTT(30)
<1>5. CASE do_block_write_program
  <2>1. ct.pc = "write" /\ UNCHANGED <<queue, er, boot>> /\ current_block' = current_block
    BY <1>5, Zenon DEF do_block_write_program, counters
  <2>2. BlockDone \/ (ct'.pc # "idle" /\ ct'.todo = ct.todo /\ ct'.buf = ct.buf)
    BY <1>1, <1>5, SMTT(30) DEF do_block_write_program, CtType
  <2> QED BY <2>1, <2>2, WriteCount
<1>6. CASE do_block_write_done
  <2>1. /\ ct.pc = "written" /\ UNCHANGED <<queue, er, boot>>
        /\ BlockDone /\ current_block' = current_block + 1
    BY <1>6, Zenon DEF do_block_write_done
  <2> QED BY <2>1, WriteCount
<1> QED BY <1>2, <1>3, <1>4, <1>5, <1>6, Zenon DEF CommitThread

\* data_logger_erase only runs with nothing pending.
LEMMA EraseCount ==
  ASSUME QueueCounts, TypeInv, TypeInv', CountInv, EraseHazards = {},
         \/ \E erase_all \in BOOLEAN : data_logger_erase(erase_all)
         \/ logger_flash_map_reset
         \/ data_logger_erase_done
  PROVE  CountInv'
<1>1. UNCHANGED <<queue, ct, boot>>
  BY Zenon DEF data_logger_erase, logger_flash_map_reset, data_logger_erase_done
<1>2. current_block' = current_block \/ current_block' = 0
  BY Zenon DEF data_logger_erase, logger_flash_map_reset, data_logger_erase_done, counters
<1>3. current_block' <= current_block
  BY <1>2, CountTypes, SMTT(30)
<1>4. erasing' => erasing \/ NothingPending
  <2>1. ASSUME NEW erase_all \in BOOLEAN, data_logger_erase(erase_all) PROVE NothingPending
    <3>1. ct.pc = "idle" /\ fifo = << >> /\ ram = 0 /\ \A r \in Requests : callers[r] = 0
      BY <2>1, Zenon DEF data_logger_erase, Quiesced
    <3>2. callers["block"] = 0 /\ \A i \in 1 .. Len(fifo) : fifo[i] = "flush"
      BY <3>1 DEF Requests
    <3> QED BY <3>1, <3>2, Zenon DEF NothingPending
  <2>2. logger_flash_map_reset \/ data_logger_erase_done => erasing
    BY Zenon DEF logger_flash_map_reset, data_logger_erase_done, erasing
  <2> QED BY <2>1, <2>2, Zenon
<1>5. ~Up' => ~Up
  BY <1>1, Zenon DEF Up
<1> QED BY <1>1, <1>3, <1>4, <1>5, CountFrame, Zenon

\* Nothing is pending after a reboot.
LEMMA RebootCount ==
  ASSUME QueueCounts, TypeInv, TypeInv', CountInv, Reboot
  PROVE  CountInv'
<1>1. /\ current_block' = 0 /\ callers' = [r \in Requests |-> 0] /\ fifo' = << >>
      /\ ram' = 0 /\ ct' = CtIdle
  BY Zenon DEF Reboot
<1>2. callers'["block"] = 0 /\ callers'["flush"] = 0
  BY <1>1, Zenon DEF Requests
<1>3. ct'.pc = "idle" /\ ct'.todo = 0 /\ ct'.buf = 0
  BY <1>1, Zenon DEF CtIdle
<1>4. Len(fifo') = 0 /\ \A i \in 1 .. Len(fifo') : fifo'[i] = "flush"
  BY <1>1
<1>5. Cardinality(Queued(fifo')) = 0
  <2>1. fifo' \in Seq(Requests)  BY Zenon DEF TypeInv, TypeOK
  <2> QED BY <1>4, <2>1, Zenon DEF QueueCounts
<1>6. Pending' = 0 + 0 + 0 + 0
  BY <1>1, <1>2, <1>3, <1>5, ZenonT(40) DEF Pending, Queued
<1>7. current_block' + Pending' <= logical_blocks + MaxCallers + QueueLen + RamBlocks
  BY <1>1, <1>6, BoundTypes
<1>8. OverrunBounded'
  BY <1>7, Zenon DEF OverrunBounded
<1>9. /\ callers'["block"] + callers'["flush"] <= MaxCallers /\ Len(fifo') + ct'.buf <= QueueLen
      /\ ram' <= RamBlocks
  BY <1>1, <1>2, <1>3, <1>4, BoundTypes
<1>10. NothingPending'
  BY <1>1, <1>2, <1>3, <1>4, ZenonT(40) DEF NothingPending
<1> QED BY <1>3, <1>8, <1>9, <1>10, Zenon DEF CountInv

\* Nothing is pending while the logger initialises.
LEMMA BootCount ==
  ASSUME QueueCounts, TypeInv, TypeInv', CountInv, ~Up, UNCHANGED <<queue, ct, er>>,
         current_block' <= logical_blocks + Slack
  PROVE  CountInv'
<1>1. callers' = callers /\ fifo' = fifo /\ ram' = ram /\ ct' = ct
  BY Zenon DEF queue
<1>2. NothingPending /\ NothingPending' /\ ct.todo = 0
  BY <1>1, Zenon DEF CountInv, NothingPending
<1>3. Pending' = Pending /\ Pending = 0
  BY <1>1, <1>2, PendingNone, ZenonT(40) DEF Pending
<1>4. current_block' + Pending' <= logical_blocks + MaxCallers + QueueLen + RamBlocks
  BY <1>3, PendingType, BoundTypes, SMTT(30)
<1>5. OverrunBounded'
  BY <1>4, Zenon DEF OverrunBounded
<1> QED BY <1>1, <1>2, <1>5, Zenon DEF CountInv

\* A lap the wrap byte can hold ends in range, and 0xFF laps end one later.
LEMMA LapBound ==
  ASSUME NEW w \in Nat
  PROVE  /\ w * physical_blocks \in Nat
         /\ w <= MaxWraps => w * physical_blocks <= logical_blocks
         /\ w = MaxWraps + 1 => w * physical_blocks = logical_blocks + physical_blocks
<1>1. MaxWraps \in Nat /\ physical_blocks \in Nat \ {0}
  BY GeometryAssumption, GeometryFacts, SMTT(30)
<1>2. w * physical_blocks = Base(w) /\ Base(w) \in Nat
  BY <1>1, BaseFacts, SMTT(30) DEF Base
<1>3. logical_blocks = Base(MaxWraps)
  BY Zenon DEF logical_blocks, Base
<1>4. w < MaxWraps => Base(w) + physical_blocks <= Base(MaxWraps)
  BY <1>1, BaseMono, Zenon
<1>5. Base(MaxWraps + 1) = Base(MaxWraps) + physical_blocks /\ Base(MaxWraps) \in Nat
  BY <1>1, BaseFacts, Zenon
<1> QED BY <1>1, <1>2, <1>3, <1>4, <1>5, SMTT(30)

\* What initialisation finds is in range, but for a wrap of 0xFF in the last
\* block behind one of 0x00 in the first.
LEMMA CommonInitBound ==
  ASSUME QueueCounts, BoundInv, TypeInv', data_logger_common_init
  PROVE  CountInv' /\ BootInv'
<1> DEFINE first == flash[0].wrap
           last == flash[physical_blocks - 1].wrap
<1>1. /\ TypeInv /\ CountInv /\ boot.pc = "first" /\ current_block = 0
      /\ Slack < physical_blocks => first # 0
  BY Zenon DEF BoundInv, BootInv, FirstInv, data_logger_common_init
<1>2. /\ first \in 0 .. WrapErased /\ last \in 0 .. WrapErased
      /\ WrapErased = MaxWraps + 1 /\ MaxWraps \in Nat
  <2>1. 0 \in Phy /\ physical_blocks - 1 \in Phy  BY GeometryFacts, SMTT(30) DEF Phy
  <2>2. flash \in FlashType  BY <1>1, Zenon DEF TypeInv, TypeOK
  <2>3. first \in 0 .. WrapErased /\ last \in 0 .. WrapErased
    BY <2>1, <2>2, SMTT(30) DEF FlashType
  <2> QED BY <2>3, GeometryAssumption, Zenon DEF WrapErased
<1>3. UNCHANGED <<queue, ct, er>> /\ ~Up
  BY <1>1 DEF data_logger_common_init, BootFrame, Up
<1> HIDE DEF first, last
<1>4. /\ current_block' <= logical_blocks + Slack
      /\ boot'.pc # "first"
      /\ boot'.pc = "search" => /\ boot'.counter \in 1 .. MaxWraps
                                /\ boot'.res < physical_blocks /\ boot'.high < physical_blocks
  <2>1. CASE boot' = BootPc("run") /\ UNCHANGED counters
    <3>1. current_block' = 0  BY <1>1, <2>1, ZenonT(40) DEF counters
    <3> QED BY <2>1, <3>1, BoundTypes, SMTT(30) DEF BootPc
  <2>2. CASE /\ first = last /\ ~LooksErased(first) /\ boot' = BootPc("run")
             /\ current_block' = first * physical_blocks
    <3>1. first \in Nat /\ first <= MaxWraps
      BY <1>2, <2>2, SMTT(30) DEF LooksErased
    <3> QED BY <2>2, <3>1, LapBound, BoundTypes, SMTT(30) DEF BootPc
  <2>3. CASE /\ first # last /\ LooksErased(first) /\ boot' = BootPc("run")
             /\ current_block' = last * physical_blocks
    <3>1. last \in Nat /\ (last <= MaxWraps \/ (last = MaxWraps + 1 /\ first = 0))
      BY <1>2, <2>3, SMTT(30) DEF LooksErased
    <3>2. current_block' <= logical_blocks + Slack
      <4>1. CASE last <= MaxWraps
        BY <2>3, <3>1, <4>1, LapBound, BoundTypes, SMTT(30)
      <4>2. CASE last = MaxWraps + 1 /\ first = 0
        <5>1. ~(Slack < physical_blocks)  BY <1>1, <4>2, ZenonT(40)
        <5>2. current_block' = logical_blocks + physical_blocks
          BY <2>3, <3>1, <4>2, LapBound, SMTT(30)
        <5> QED BY <5>1, <5>2, BoundTypes, SMTT(30)
      <4> QED BY <3>1, <4>1, <4>2, SMTT(30)
    <3> QED BY <2>3, <3>2, SMTT(30) DEF BootPc
  <2>4. CASE /\ ~LooksErased(first) /\ UNCHANGED counters
             /\ boot' = [BootPc("search") EXCEPT !.high = physical_blocks - 1,
                                                 !.counter = first]
    <3>1. current_block' = 0  BY <1>1, <2>4, ZenonT(40) DEF counters
    <3>2. first \in 1 .. MaxWraps
      BY <1>2, <2>4, SMTT(30) DEF LooksErased
    <3> QED BY <2>4, <3>1, <3>2, BoundTypes, SMTT(30) DEF BootPc
  <2> QED BY <2>1, <2>2, <2>3, <2>4, ZenonT(40) DEF data_logger_common_init, first, last
<1>5. CountInv'
  BY <1>1, <1>3, <1>4, BootCount, ZenonT(40)
<1> QED BY <1>4, <1>5, Zenon DEF BootInv

\* The search for the current block stays on the device.
LEMMA SearchBound ==
  ASSUME QueueCounts, BoundInv, TypeInv', current_block_search
  PROVE  CountInv' /\ BootInv'
<1> DEFINE mid == (boot.low + boot.high) \div 2
<1>1. /\ TypeInv /\ CountInv /\ boot.pc = "search" /\ boot.low <= boot.high
      /\ boot.counter \in 1 .. MaxWraps
      /\ boot.res < physical_blocks /\ boot.high < physical_blocks
  BY ZenonT(40) DEF BoundInv, BootInv, current_block_search
<1>2. boot \in BootType  BY <1>1, Zenon DEF TypeInv, TypeOK
<1>3. UNCHANGED <<queue, ct, er, current_block>> /\ ~Up
  BY <1>1, SMTT(30) DEF current_block_search, BootFrame, counters, Up
<1>4. boot.low \in Nat /\ boot.high \in Int
  BY <1>2, SMTT(30) DEF BootType
<1>5. mid \in Int /\ mid <= boot.high /\ mid < physical_blocks /\ mid - 1 < physical_blocks
  BY <1>1, <1>4, BoundTypes, SMTT(30)
<1>6. \/ boot' = [boot EXCEPT !.low = mid + 1, !.res = mid]
      \/ boot' = [boot EXCEPT !.high = mid - 1]
  BY Zenon DEF current_block_search
<1> HIDE DEF mid
<1>7. /\ boot'.pc = "search" /\ boot'.counter = boot.counter
      /\ boot'.res < physical_blocks /\ boot'.high < physical_blocks
  BY <1>1, <1>2, <1>5, <1>6, Zenon DEF BootType
<1>8. current_block' <= current_block /\ (erasing' => erasing)
  BY <1>1, <1>3, CountTypes DEF erasing
<1>9. CountInv'
  BY <1>1, <1>3, <1>8, CountFrame
<1> QED BY <1>1, <1>7, <1>9, Zenon DEF BootInv

\* The search ends within the lap it searched.
LEMMA SearchDoneBound ==
  ASSUME QueueCounts, BoundInv, TypeInv', current_block_search_done
  PROVE  CountInv' /\ BootInv'
<1>1. /\ TypeInv /\ CountInv /\ boot.pc = "search"
      /\ boot.counter \in 1 .. MaxWraps /\ boot.res < physical_blocks
      /\ current_block' = (boot.counter - 1) * physical_blocks + boot.res + 1
  BY ZenonT(40) DEF BoundInv, BootInv, current_block_search_done
<1>2. UNCHANGED <<queue, ct, er>> /\ ~Up
  BY <1>1, SMTT(30) DEF current_block_search_done, BootFrame, Up
<1>3. boot.res \in Nat
  BY <1>1, SMTT(30) DEF TypeInv, TypeOK, BootType
<1>4. current_block' <= logical_blocks
  <2> DEFINE c == boot.counter
             k == boot.counter - 1
  <2>1. c \in Nat /\ k \in Nat /\ k + 1 = c /\ c <= MaxWraps /\ MaxWraps \in Nat
    BY <1>1, GeometryAssumption, SMTT(30)
  <2>2. current_block' = k * physical_blocks + boot.res + 1
    BY <1>1, Zenon
  <2> HIDE DEF c, k
  <2>3. Base(c) <= logical_blocks /\ Base(c) = Base(k) + physical_blocks /\ Base(k) \in Nat
    <3>1. c * physical_blocks = Base(c)  BY <2>1, BoundTypes DEF Base
    <3>2. Base(k + 1) = Base(k) + physical_blocks /\ Base(k) \in Nat
      BY <2>1, BaseFacts, SMTT(30)
    <3> QED BY <2>1, <3>1, <3>2, LapBound, SMTT(30)
  <2>4. k * physical_blocks = Base(k)  BY <2>1, BoundTypes, SMTT(30) DEF Base
  <2> QED BY <1>1, <1>3, <2>2, <2>3, <2>4, BoundTypes, SMTT(30)
<1>5. current_block' <= logical_blocks + Slack
  <2>1. current_block' \in Nat  BY Zenon DEF TypeInv, TypeOK
  <2> QED BY <1>4, <2>1, BoundTypes, SMTT(30)
<1>6. boot'.pc = "run" \/ boot'.pc = "earliest"
  <2> DEFINE b == [BootPc("earliest") EXCEPT
                     !.res = (current_block' - physical_blocks) % physical_blocks,
                     !.left = 2 * EraseBlocks]
  <2>1. boot' = BootPc("run") \/ boot' = b
    BY Zenon DEF current_block_search_done
  <2>2. BootPc("run").pc = "run"
    BY IdleTypes
  <2>3. \A r, l : [BootPc("earliest") EXCEPT !.res = r, !.left = l].pc = "earliest"
    BY DEF BootPc
  <2>4. b.pc = "earliest"
    BY <2>3, ZenonT(40)
  <2> HIDE DEF b
  <2> QED BY <2>1, <2>2, <2>4, ZenonT(40)
<1>7. CountInv'
  BY <1>1, <1>2, <1>5, BootCount, ZenonT(40)
<1> QED BY <1>6, <1>7 DEF BootInv

\* Initialisation that only looks for the earliest block, or fails.
LEMMA BootRestBound ==
  ASSUME QueueCounts, BoundInv, TypeInv', BootReadFails \/ earliest_block_search
  PROVE  CountInv' /\ BootInv'
<1>1. TypeInv /\ CountInv /\ ~Up
  BY DEF BoundInv, BootReadFails, earliest_block_search, Up
<1>2. UNCHANGED <<queue, ct, er, current_block>>
  BY Zenon DEF BootReadFails, earliest_block_search, BootFrame, counters
<1>3. boot'.pc \notin {"first", "search"}
  <2> DEFINE b == [boot EXCEPT !.res = boot.res + 1, !.left = boot.left - 1]
  <2>1. \/ boot' = BootPc("run") \/ boot' = BootPc("failed")
        \/ boot.pc = "earliest" /\ boot' = b
    BY Zenon DEF BootReadFails, earliest_block_search
  <2>2. BootPc("run").pc = "run" /\ BootPc("failed").pc = "failed"
    BY IdleTypes
  <2>3. b.pc = boot.pc
    <3>1. boot \in BootType  BY <1>1, Zenon DEF TypeInv, TypeOK
    <3>2. \A r, l : [boot EXCEPT !.res = r, !.left = l].pc = boot.pc
      BY <3>1, SMTT(30) DEF BootType
    <3> QED BY <3>2, Zenon
  <2> HIDE DEF b
  <2>4. boot'.pc = "run" \/ boot'.pc = "failed" \/ boot'.pc = "earliest"
    BY <2>1, <2>2, <2>3, ZenonT(40)
  <2> QED BY <2>4
<1>4. current_block' <= current_block /\ (erasing' => erasing)
  BY <1>1, <1>2, CountTypes, SMTT(30) DEF erasing
<1>5. CountInv'
  BY <1>1, <1>2, <1>4, CountFrame
<1> QED BY <1>3, <1>5, SMTT(30) DEF BootInv

-----------------------------------------------------------------------------
(***************************************************************************)
(* The wrap of the first block.                                            *)
(***************************************************************************)
\* Steps that leave the flash and the counters alone.
LEMMA FirstFrame ==
  ASSUME FirstInv, UNCHANGED <<flash, current_block, er, boot>>,
         ct' = ct \/ (ct.pc # "written" /\ ct'.pc \in {"idle", "start"})
  PROVE  FirstInv'
<1>1. (FirstErased' <=> FirstErased) /\ (Up' <=> Up) /\ (erasing' <=> erasing)
  BY Zenon DEF FirstErased, Up, erasing
<1>2. CASE ct' = ct
  BY <1>1, <1>2, ZenonT(40) DEF FirstInv
<1>3. CASE ct.pc # "written" /\ ct'.pc \in {"idle", "start"}
  <2>1. ct'.pc # "erase" /\ ct'.pc # "write"  BY <1>3, SMTT(30)
  <2> QED BY <1>1, <1>3, <2>1, Zenon DEF FirstInv
<1> QED BY <1>2, <1>3, ZenonT(40)

\* A block at the start of the device is the first of a lap.
LEMMA LapStart ==
  ASSUME NEW n \in Nat, n % physical_blocks = 0
  PROVE  /\ n % EraseBlocks = 0 /\ (n < physical_blocks => n = 0)
         /\ n < logical_blocks + physical_blocks => Cell(n).wrap # 0
<1> DEFINE a == n \div physical_blocks
<1>1. a \in Nat /\ n = Base(a)
  BY DivModFacts, GeometryFacts, SMTT(30) DEF Base
<1>2. Base(a) \in Nat /\ Unit(0) = 0 /\ 0 \in 0 .. EraseUnits - 1 /\ 0 \in 0 .. EraseBlocks - 1
  BY <1>1, BaseFacts, UnitFacts, GeometryAssumption, SMTT(30)
<1> HIDE DEF a
<1>3. n % EraseBlocks = 0
  <2>1. (Base(a) + Unit(0) + 0) % EraseBlocks = 0
    BY <1>1, <1>2, ModUnit, SMTT(30)
  <2> QED BY <1>1, <1>2, <2>1, SMTT(30)
<1>4. n < physical_blocks => n = 0
  <2>1. a > 0 => Base(0) + physical_blocks <= Base(a)
    BY <1>1, BaseMono
  <2>2. a = 0 => n = 0  BY <1>1, BaseZero, SMTT(30)
  <2> QED BY <1>1, <1>2, <2>1, <2>2, BaseZero, GeometryFacts, SMTT(30)
<1>5. ASSUME n < logical_blocks + physical_blocks PROVE Cell(n).wrap # 0
  <2>1. MaxWraps \in Nat /\ MaxWraps + 1 \in Nat
        /\ Base(MaxWraps + 1) = logical_blocks + physical_blocks
    BY GeometryAssumption, BaseFacts, SMTT(30) DEF Base, logical_blocks
  <2>2. MaxWraps + 1 < a => Base(MaxWraps + 1) + physical_blocks <= Base(a)
    BY <1>1, <2>1, BaseMono, ZenonT(40)
  <2>3. a # MaxWraps + 1 /\ ~(MaxWraps + 1 < a)
    BY <1>1, <1>2, <1>5, <2>1, <2>2, GeometryFacts, SMTT(30)
  <2>4. a <= MaxWraps  BY <1>1, <2>1, <2>3, SMTT(30)
  <2>5. Cell(Base(a) + 0) = Blk(a, 0)
    BY <1>1, <2>4, CellBlk, GeometryFacts, SMTT(30)
  <2>6. Blk(a, 0).wrap = a + 1  BY <1>1, BlkFacts, SMTT(30)
  <2> QED BY <1>1, <1>2, <2>5, <2>6, SMTT(30)
<1> QED BY <1>3, <1>4, <1>5, SMTT(30)

\* Programming a block leaves no wrap of 0x00 in the first one.
LEMMA FirstProgrammed ==
  ASSUME FirstInv, TypeInv, ct.pc = "write", current_block < logical_blocks + physical_blocks,
         NEW f \in Program(flash, ct.phy, ct.lb)
  PROVE  f[0].wrap # 0
<1>1. /\ flash \in FlashType /\ current_block \in Nat /\ ct \in CtType
  BY Zenon DEF TypeInv, TypeOK
<1>2. /\ ct.lb = current_block /\ ct.phy = current_block % physical_blocks
      /\ (ct.phy = 0 => flash[0].wrap = WrapErased) /\ flash[0].wrap # 0
  BY Zenon DEF FirstInv, FirstErased
<1>3. ct.phy \in Phy /\ 0 \in Phy
  BY <1>1, GeometryFacts DEF CtType
<1>4. CASE ct.phy # 0
  <2>1. f[0] = flash[0]
    BY <1>1, <1>3, <1>4, ZenonT(40) DEF Program, FlashType
  <2> QED BY <1>2, <2>1, ZenonT(40)
<1>5. CASE ct.phy = 0
  <2>1. f[0].wrap = Cell(ct.lb).wrap
    <3>1. CASE flash[0] = Erased
      <4>1. f = [flash EXCEPT ![0] = Cell(ct.lb)]  BY <1>5, <3>1, SMTT(30) DEF Program
      <4> QED BY <1>1, <1>3, <4>1 DEF FlashType
    <3>2. CASE flash[0] # Erased
      <4>1. f = [flash EXCEPT ![0] = [wrap |-> Cell(ct.lb).wrap, lb |-> NoBlock]]
        BY <1>2, <1>5, <3>2, ZenonT(40) DEF Program
      <4> QED BY <1>1, <1>3, <4>1, SMTT(30) DEF FlashType
    <3> QED BY <3>1, <3>2
  <2>2. Cell(current_block).wrap # 0
    BY <1>1, <1>2, <1>5, LapStart
  <2> QED BY <1>2, <2>1, <2>2, ZenonT(40)
<1> QED BY <1>4, <1>5, SMTT(30)

\* Erasing leaves no such wrap either.
LEMMA FirstErasedRange ==
  ASSUME flash[0].wrap # 0, NEW from, NEW to
  PROVE  /\ EraseRange(flash, from, to)[0].wrap # 0
         /\ flash[0].wrap = WrapErased => EraseRange(flash, from, to)[0].wrap = WrapErased
         /\ 0 \in from .. to - 1 => EraseRange(flash, from, to)[0].wrap = WrapErased
<1>1. EraseRange(flash, from, to)[0] = IF 0 \in from .. to - 1 THEN Erased ELSE flash[0]
  BY GeometryFacts, SMTT(30) DEF EraseRange
<1>2. Erased.wrap = WrapErased /\ WrapErased # 0
  BY ErasedFacts, GeometryAssumption, SMTT(30) DEF WrapErased
<1> QED BY <1>1, <1>2, Zenon

\* The commit thread.
LEMMA FirstCommit ==
  ASSUME FirstInv, TypeInv, CommitThread, current_block < logical_blocks + physical_blocks,
         ct.pc # "idle" => Up /\ ~erasing
  PROVE  FirstInv'
<1>1. /\ flash \in FlashType /\ current_block \in Nat /\ ct \in CtType
      /\ ct.pc # "idle" => ct.todo > 0
  BY Zenon DEF TypeInv, TypeOK
<1>2. UNCHANGED <<er, boot>>
  BY Zenon DEF CommitThread, logger_commit_thread_fn, do_block_write_start,
     do_block_write_erase, do_block_write_program, do_block_write_done
<1>3. ct.pc # "idle" => Up' /\ ~erasing' /\ boot'.pc # "earliest"
  BY <1>2, SMTT(30) DEF Up, erasing
<1>4. CASE logger_commit_thread_fn
  <2>1. ct.pc = "idle" /\ UNCHANGED <<flash, current_block>>
    BY <1>4, ZenonT(40) DEF logger_commit_thread_fn, counters
  <2>2. ram \in Nat /\ ram + 1 \in Nat  BY SMTT(30) DEF TypeInv, TypeOK
  <2>3. ct' = ct \/ ct'.pc \in {"idle", "start"}
    BY <1>4, <2>2, WriteBlocksFacts, SMTT(30) DEF logger_commit_thread_fn
  <2> QED BY <1>2, <2>1, <2>3, FirstFrame, SMTT(30)
<1>5. CASE BlockDone /\ ct.pc \notin {"idle", "written"} /\ UNCHANGED <<flash, current_block>>
  <2>1. ct'.pc \in {"idle", "start"}  BY <1>1, <1>5, BlockDoneFacts, SMTT(30)
  <2> QED BY <1>2, <1>5, <2>1, FirstFrame, SMTT(30)
<1>6. CASE do_block_write_start
  <2>1. ct.pc = "start" /\ UNCHANGED <<flash, current_block>>
    BY <1>6, ZenonT(40) DEF do_block_write_start
  <2>0. Up /\ Up' /\ ~erasing /\ ~erasing' /\ boot'.pc # "earliest"  BY <1>3, <2>1
  <2>2. CASE /\ NeedsErase
             /\ ct' = [ct EXCEPT !.pc = "erase", !.phy = current_block % physical_blocks]
    <3>1. ct'.pc = "erase" /\ ct'.phy = current_block % physical_blocks
      BY <1>1, <2>2 DEF CtType
    <3>2. current_block > 0
      BY <1>1, <2>2, GeometryFacts, SMTT(30) DEF NeedsErase
    <3>3. FirstErased' <=> FirstErased  BY <2>1, Zenon DEF FirstErased
    <3>4. ct'.pc # "write" /\ current_block # 0  BY <1>1, <3>1, <3>2, SMTT(30)
    <3> QED BY <2>0, <2>1, <3>1, <3>2, <3>3, <3>4, ZenonT(40) DEF FirstInv
  <2>3. CASE /\ ~NeedsErase
             /\ ct' = [ct EXCEPT !.pc = "write", !.lb = current_block,
                                 !.phy = current_block % physical_blocks]
    <3>1. ct'.pc = "write" /\ ct'.lb = current_block /\ ct'.phy = current_block % physical_blocks
      BY <1>1, <2>3, SMTT(30) DEF CtType
    <3>2. ct'.phy = 0 => current_block = 0
      BY <1>1, <2>3, <3>1, LapStart, GeometryFacts, SMTT(30) DEF NeedsErase
    <3>3. FirstErased' <=> FirstErased  BY <2>1, Zenon DEF FirstErased
    <3>4. current_block = 0 => FirstErased
      BY <2>0, <2>1, Zenon DEF FirstInv
    <3>5. ct'.pc # "erase"  BY <3>1
    <3> QED BY <2>0, <2>1, <3>1, <3>2, <3>3, <3>4, <3>5, Zenon DEF FirstInv
  <2> QED BY <1>5, <1>6, <2>1, <2>2, <2>3, SMTT(30) DEF do_block_write_start
<1>7. CASE do_block_write_erase
  <2>1. ct.pc = "erase" /\ UNCHANGED current_block
    BY <1>7, Zenon DEF do_block_write_erase
  <2>2. CASE /\ flash' = EraseRange(flash, ct.phy, ct.phy + EraseBlocks)
             /\ ct' = [ct EXCEPT !.pc = "write", !.lb = current_block]
    <3>1. /\ ct'.pc = "write" /\ ct'.pc # "erase"
          /\ ct'.lb = current_block /\ ct'.phy = ct.phy
      BY <1>1, <2>2 DEF CtType
    <3>2. /\ ct.phy = current_block % physical_blocks /\ current_block > 0 /\ flash[0].wrap # 0
      BY <2>1, ZenonT(40) DEF FirstInv
    <3>4. flash'[0].wrap # 0 /\ (ct'.phy = 0 => FirstErased')
      <4> DEFINE to == ct.phy + EraseBlocks
                 g == EraseRange(flash, ct.phy, to)
      <4>1. /\ g[0].wrap # 0
            /\ 0 \in ct.phy .. to - 1 => g[0].wrap = WrapErased
        <5> HIDE DEF to
        <5> QED BY <3>2, FirstErasedRange, ZenonT(40)
      <4>2. flash' = g
        BY <2>2, Zenon
      <4> HIDE DEF g
      <4>3. ct.phy = 0 => 0 \in ct.phy .. to - 1
        BY GeometryAssumption, SMTT(30)
      <4> HIDE DEF to
      <4> QED BY <3>1, <4>1, <4>2, <4>3, Zenon DEF FirstErased
    <3>5. current_block' # 0  BY <1>1, <2>1, <3>2
    <3>6. ct'.lb = current_block' /\ ct'.phy = current_block' % physical_blocks
      BY <2>1, <3>1, <3>2, ZenonT(40)
    <3>7. Up' /\ ~erasing' /\ boot'.pc # "earliest"  BY <1>3, <2>1
    <3> QED BY <3>1, <3>4, <3>5, <3>6, <3>7, ZenonT(40) DEF FirstInv
  <2> QED BY <1>5, <1>7, <2>1, <2>2, SMTT(30) DEF do_block_write_erase
<1>8. CASE do_block_write_program
  <2>1. ct.pc = "write" /\ UNCHANGED current_block
    BY <1>8, Zenon DEF do_block_write_program, counters
  <2>2. CASE flash' \in Program(flash, ct.phy, ct.lb) /\ ct' = [ct EXCEPT !.pc = "written"]
    <3>1. ct'.pc = "written" /\ ct'.pc # "erase" /\ ct'.pc # "write"
      BY <1>1, <2>2 DEF CtType
    <3>2. flash'[0].wrap # 0  BY <2>1, <2>2, FirstProgrammed, Zenon
    <3>3. Up' /\ ~erasing' /\ boot'.pc # "earliest"  BY <1>3, <2>1
    <3> QED BY <3>1, <3>2, <3>3, Zenon DEF FirstInv
  <2> QED BY <1>5, <1>8, <2>1, <2>2, SMTT(30) DEF do_block_write_program
<1>9. CASE do_block_write_done
  <2>1. ct.pc = "written" /\ UNCHANGED flash /\ BlockDone /\ current_block' = current_block + 1
    BY <1>9, Zenon DEF do_block_write_done
  <2>0. Up' /\ ~erasing' /\ boot'.pc # "earliest"  BY <1>3, <2>1, SMTT(30)
  <2>2. ct'.pc \in {"idle", "start"}  BY <1>1, <2>1, BlockDoneFacts, SMTT(30)
  <2>3. ct'.pc # "erase" /\ ct'.pc # "write" /\ current_block' # 0
    BY <1>1, <2>1, <2>2, SMTT(30)
  <2>4. flash'[0].wrap # 0  BY <2>1, Zenon DEF FirstInv
  <2> QED BY <2>0, <2>3, <2>4, Zenon DEF FirstInv
<1> QED BY <1>4, <1>5, <1>6, <1>7, <1>8, <1>9, ZenonT(40) DEF CommitThread

\* Erasing the logger, from its first block on.
LEMMA FirstReset ==
  ASSUME FirstInv, TypeInv, CountInv, EraseHazards = {},
         \/ \E erase_all \in BOOLEAN : data_logger_erase(erase_all)
         \/ logger_flash_map_reset
         \/ data_logger_erase_done
  PROVE  FirstInv'
<1>1. current_block \in Nat /\ er \in ErType
  BY Zenon DEF TypeInv, TypeOK
<1>2. UNCHANGED <<ct, boot>>
  BY ZenonT(40) DEF data_logger_erase, logger_flash_map_reset, data_logger_erase_done
<1>3. /\ er.pc \in {"idle", "reset"} /\ er.off \in Nat /\ er.end \in Nat
  BY <1>1, SMTT(30) DEF ErType
<1>4. ASSUME NEW erase_all \in BOOLEAN, data_logger_erase(erase_all) PROVE FirstInv'
  <2> DEFINE upto == IF erase_all \/ current_block > physical_blocks
                     THEN physical_blocks ELSE current_block
             end == RoundUp(upto, EraseBlocks)
  <2>1. /\ Up /\ ~erasing /\ UNCHANGED <<flash, current_block>>
        /\ er' = [pc |-> "reset", off |-> 0, end |-> end]
    BY <1>4, Zenon DEF data_logger_erase, counters, erasing
  <2>2. ct.pc = "idle"
    BY <1>4, ZenonT(40) DEF data_logger_erase, Quiesced
  <2>3. upto \in Nat /\ (upto = 0 => current_block = 0)
    BY <1>1, GeometryFacts, SMTT(30)
  <2> HIDE DEF upto
  <2>4. end \in Nat /\ end >= upto
    BY <2>3, RoundUpFacts, GeometryAssumption, SMTT(30)
  <2> HIDE DEF end
  <2>5. end = 0 => current_block = 0
    BY <2>3, <2>4, SMTT(30)
  <2>6. er'.pc = "reset" /\ er'.off = 0 /\ er'.end = end
    BY <2>1, SMTT(30)
  <2>7. current_block = 0 => FirstErased
    BY <2>1, <2>2, SMTT(30) DEF FirstInv
  <2>8. /\ ct'.pc = "idle" /\ Up' /\ erasing' /\ (FirstErased' <=> FirstErased)
        /\ boot'.pc # "earliest" /\ ~(er'.off > 0) /\ flash'[0].wrap # 0
    BY <1>2, <2>1, <2>2, <2>6, SMTT(30) DEF Up, erasing, FirstErased, FirstInv
  <2>9. ct'.pc # "erase" /\ ct'.pc # "write" /\ (er'.end = 0 => FirstErased')
    BY <2>5, <2>6, <2>7, <2>8
  <2> QED BY <2>8, <2>9, Zenon DEF FirstInv
<1>5. CASE logger_flash_map_reset \/ data_logger_erase_done
  <2>1. er.pc = "reset" /\ erasing
    BY <1>5, SMTT(30) DEF logger_flash_map_reset, data_logger_erase_done, erasing
  <2>2. Up' /\ boot'.pc # "earliest"
    BY <1>2, <2>1, SMTT(30) DEF FirstInv, Up
  <2>3. ct'.pc # "erase" /\ ct'.pc # "write"
    BY <1>2, <2>1 DEF CountInv, NothingPending
  <2>4. flash[0].wrap # 0
    BY ZenonT(40) DEF FirstInv
  <2>5. flash'[0].wrap # 0 /\ FirstErased'
    <3>1. CASE logger_flash_map_reset
      <4>1. er.off < er.end /\ flash' = EraseRange(flash, er.off, ResetEnd)
        BY <3>1, SMTT(30) DEF logger_flash_map_reset
      <4>2. ResetEnd > er.off /\ ResetEnd \in Int
        <5> DEFINE chunk == ResetUnits * EraseBlocks
        <5>1. chunk \in Nat \ {0}
          BY GeometryAssumption
        <5> HIDE DEF chunk
        <5> QED BY <1>3, <4>1, <5>1, SMTT(30) DEF ResetEnd, chunk
      <4>3. er.off > 0 => FirstErased
        BY <2>1, Zenon DEF FirstInv
      <4>4. er.off = 0 => 0 \in er.off .. ResetEnd - 1
        BY <4>2
      <4>5. EraseRange(flash, er.off, ResetEnd)[0].wrap # 0
        BY <2>4, FirstErasedRange, ZenonT(40)
      <4>6. EraseRange(flash, er.off, ResetEnd)[0].wrap = WrapErased
        <5>1. er.off = 0 \/ er.off > 0  BY <1>3, SMTT(30)
        <5> QED BY <2>4, <4>3, <4>4, <5>1, FirstErasedRange, Zenon DEF FirstErased
      <4> QED BY <4>1, <4>5, <4>6, ZenonT(40) DEF FirstErased
    <3>2. CASE data_logger_erase_done
      <4>1. er.off >= er.end /\ UNCHANGED flash
        BY <3>2, ZenonT(40) DEF data_logger_erase_done
      <4>2. er.end = 0 \/ er.off > 0
        BY <1>3, <4>1
      <4>3. FirstErased
        BY <2>1, <4>2, ZenonT(40) DEF FirstInv
      <4> QED BY <2>4, <4>1, <4>3, Zenon DEF FirstErased
    <3> QED BY <1>5, <3>1, <3>2
  <2> QED BY <2>2, <2>3, <2>5, ZenonT(40) DEF FirstInv
<1> QED BY <1>4, <1>5, Zenon

\* A reboot in the middle of an erase or of a program operation.
LEMMA FirstReboot ==
  ASSUME FirstInv, TypeInv, EraseHazards = {}, Reboot,
         current_block < logical_blocks + physical_blocks
  PROVE  FirstInv'
<1>1. /\ ct' = CtIdle /\ er' = ErIdle /\ boot' = BootPc("first")
      /\ ("interrupted" \in EraseHazards \/ er.pc = "idle")
      /\ \E f \in AfterCommitThread(flash) : flash' \in AfterReset(f)
  BY ZenonT(40) DEF Reboot
<1>2. er.pc = "idle"
  BY <1>1, Zenon
<1>3. flash' \in AfterCommitThread(flash)
  BY <1>1, <1>2, SMTT(30) DEF AfterReset
<1>4. ct'.pc = "idle" /\ er'.pc = "idle" /\ boot'.pc = "first"
  BY <1>1 DEF CtIdle, ErIdle, BootPc
<1>5. ~Up' /\ ~erasing' /\ ct'.pc # "erase" /\ ct'.pc # "write" /\ boot'.pc # "earliest"
  BY <1>4, SMTT(30) DEF Up, erasing
<1>6. flash[0].wrap # 0
  BY Zenon DEF FirstInv
<1>7. flash'[0].wrap # 0
  <2>1. CASE flash' = flash
    BY <1>6, <2>1, Zenon
  <2>2. CASE ct.pc = "erase"
    <3>1. PICK k \in 0 .. EraseBlocks : flash' = EraseRange(flash, ct.phy, ct.phy + k)
      BY <1>3, <2>2 DEF AfterCommitThread
    <3> QED BY <1>6, <3>1, FirstErasedRange, ZenonT(40)
  <2>3. CASE ct.pc = "write" /\ flash' \in Program(flash, ct.phy, ct.lb)
    BY <2>3, FirstProgrammed, ZenonT(40)
  <2> QED BY <1>3, <2>1, <2>2, <2>3, SMTT(30) DEF AfterCommitThread
<1> QED BY <1>5, <1>7, Zenon DEF FirstInv

\* Initialisation: an empty log is found only on a device whose first block
\* is erased.
LEMMA FirstBoot ==
  ASSUME FirstInv, TypeInv, CountInv, BootInv, Boot
  PROVE  FirstInv'
<1>1. UNCHANGED <<flash, ct, er>>
  BY ZenonT(40) DEF Boot, BootFrame, BootReadFails, data_logger_common_init, current_block_search,
     current_block_search_done, earliest_block_search
<1>2. ~Up
  BY SMTT(30) DEF Boot, BootReadFails, data_logger_common_init, current_block_search,
     current_block_search_done, earliest_block_search, Up
<1>3. ct'.pc # "erase" /\ ct'.pc # "write" /\ ~erasing' /\ flash'[0].wrap # 0
      /\ (FirstErased' <=> FirstErased)
  BY <1>1, <1>2, SMTT(30) DEF FirstInv, CountInv, NothingPending, erasing, FirstErased
<1>4. /\ boot \in BootType /\ flash \in FlashType /\ current_block \in Nat
  BY Zenon DEF TypeInv, TypeOK
<1>5. /\ BootPc("run").pc = "run" /\ BootPc("failed").pc = "failed"
  BY IdleTypes, SMTT(30)
<1>6. /\ Up' /\ current_block' = 0 => FirstErased
      /\ boot'.pc = "earliest" => current_block' > 0
  <2>1. CASE BootReadFails
    <3>1. boot'.pc = "failed"  BY <1>5, <2>1, Zenon DEF BootReadFails
    <3> QED BY <3>1, SMTT(30) DEF Up
  <2>2. CASE data_logger_common_init
    <3> DEFINE first == flash[0].wrap
    <3>1. first \in Nat /\ first # 0
      <4>1. 0 \in Phy  BY GeometryFacts, Zenon
      <4> QED BY <1>4, <4>1, GeometryAssumption DEF FlashType, FirstInv, WrapErased
    <3>2. LooksErased(first) => FirstErased
      BY <3>1, Zenon DEF LooksErased, FirstErased
    <3>3. \/ LooksErased(first) /\ boot' = BootPc("run")
          \/ /\ boot' = BootPc("run") /\ current_block' = first * physical_blocks
          \/ boot' = [BootPc("search") EXCEPT !.high = physical_blocks - 1, !.counter = first]
      BY <2>2, Zenon DEF data_logger_common_init
    <3> HIDE DEF first
    <3>4. first * physical_blocks # 0
      BY <3>1, GeometryFacts
    <3>5. [BootPc("search") EXCEPT !.high = physical_blocks - 1, !.counter = first].pc = "search"
      BY SMTT(30) DEF BootPc
    <3>6. CASE LooksErased(first) /\ boot' = BootPc("run")
      <4>1. boot'.pc # "earliest"  BY <1>5, <3>6, SMTT(30)
      <4> QED BY <3>2, <3>6, <4>1, Zenon
    <3>7. CASE boot' = BootPc("run") /\ current_block' = first * physical_blocks
      <4>1. boot'.pc # "earliest"  BY <1>5, <3>7, SMTT(30)
      <4> QED BY <3>4, <3>7, <4>1, Zenon
    <3>8. CASE boot'.pc = "search"
      BY <3>8 DEF Up
    <3> QED BY <3>3, <3>5, <3>6, <3>7, <3>8, ZenonT(40)
  <2>3. CASE current_block_search
    <3> DEFINE mid == (boot.low + boot.high) \div 2
               b == [boot EXCEPT !.low = mid + 1, !.res = mid]
               c == [boot EXCEPT !.high = mid - 1]
    <3>1. boot.pc = "search" /\ (boot' = b \/ boot' = c)
      BY <2>3 DEF current_block_search
    <3>2. \A l, r : /\ [boot EXCEPT !.low = l, !.res = r].pc = boot.pc
                    /\ [boot EXCEPT !.high = r].pc = boot.pc
      BY <1>4, SMTT(30) DEF BootType
    <3>3. boot'.pc = "search"
      <4>1. b.pc = boot.pc /\ c.pc = boot.pc  BY <3>2, ZenonT(40)
      <4> HIDE DEF b, c
      <4> QED BY <3>1, <4>1, Zenon
    <3> QED BY <3>3, SMTT(30) DEF Up
  <2>4. CASE current_block_search_done
    <3>1. /\ boot.counter \in 1 .. MaxWraps /\ boot.res \in Nat
          /\ current_block' = (boot.counter - 1) * physical_blocks + boot.res + 1
      BY <1>4, <2>4, SMTT(30) DEF current_block_search_done, BootInv, BootType
    <3> DEFINE k == boot.counter - 1
    <3>2. k \in Nat /\ current_block' = k * physical_blocks + boot.res + 1
      BY <3>1, GeometryAssumption
    <3> HIDE DEF k
    <3>3. k * physical_blocks \in Nat
      BY <3>2, LapBound, ZenonT(40)
    <3> QED BY <3>1, <3>2, <3>3, SMTT(30)
  <2>5. CASE earliest_block_search
    <3>1. current_block' = current_block /\ current_block > 0
      BY <2>5, ZenonT(40) DEF earliest_block_search, FirstInv
    <3> QED BY <1>4, <3>1, SMTT(30)
  <2> QED BY <2>1, <2>2, <2>3, <2>4, <2>5, ZenonT(40) DEF Boot
<1> QED BY <1>3, <1>6, Zenon DEF FirstInv

-----------------------------------------------------------------------------
\* While initialisation runs nothing else moves its state.
LEMMA BootKept ==
  ASSUME BootInv, boot' = boot, current_block' = current_block \/ current_block' = 0 \/ Up
  PROVE  BootInv'
BY Zenon DEF BootInv, Up

\* Before the logger has run past its end by a lap.
LEMMA WithinLap ==
  ASSUME QueueCounts, TypeInv, CountInv, Slack < physical_blocks
  PROVE  current_block < logical_blocks + physical_blocks
<1>1. current_block \in Nat /\ Pending \in Nat
  BY CountTypes, PendingType
<1>2. current_block + Pending <= logical_blocks + MaxCallers + QueueLen + RamBlocks
  BY ZenonT(40) DEF CountInv, OverrunBounded
<1> QED BY <1>1, <1>2, BoundTypes, SMTT(30) DEF Slack

\* The invariant holds on a device that has never been written.
LEMMA BoundInit ==
  ASSUME QueueCounts, Init
  PROVE  BoundInv
<1>1. TypeInv  BY TypeInvInit, SMTT(30)
<1>2. /\ current_block = 0 /\ callers["block"] = 0 /\ callers["flush"] = 0
      /\ fifo = << >> /\ ram = 0 /\ ct.pc = "idle" /\ ct.todo = 0 /\ ct.buf = 0
      /\ er.pc = "idle" /\ boot.pc = "run"
  BY Zenon DEF Init, Requests, CtIdle, ErIdle, BootPc
<1>3. Len(fifo) = 0 /\ \A i \in 1 .. Len(fifo) : fifo[i] = "flush"
  BY <1>2, SMTT(30)
<1>4. NothingPending
  BY <1>2, <1>3, ZenonT(40) DEF NothingPending
<1>5. OverrunBounded
  <2>1. Pending = 0  BY <1>1, <1>2, <1>4, PendingNone, SMTT(30)
  <2> QED BY <1>2, <2>1, BoundTypes, SMTT(30) DEF OverrunBounded
<1>6. CountInv
  <2>1. MaxCallers \in Nat /\ QueueLen \in Nat /\ RamBlocks \in Nat  BY BoundTypes
  <2>2. 0 + 0 <= MaxCallers /\ 0 + 0 <= QueueLen /\ 0 <= RamBlocks  BY <2>1, SMTT(30)
  <2> QED BY <1>2, <1>3, <1>4, <1>5, <2>2, ZenonT(40) DEF CountInv
<1>7. BootInv  BY <1>2, SMTT(30) DEF BootInv
<1>8. FirstInv
  <2>1. flash[0].wrap = WrapErased /\ WrapErased # 0
    BY ErasedFacts, GeometryFacts, GeometryAssumption, SMTT(30) DEF Init, WrapErased
  <2>2. FirstErased  BY <2>1, SMTT(30) DEF FirstErased
  <2> QED BY <1>2, <2>1, <2>2, SMTT(30) DEF FirstInv, Up
<1> QED BY <1>1, <1>6, <1>7, <1>8, SMTT(30) DEF BoundInv

\* Every step keeps it, unless an erase is disturbed.
LEMMA BoundStep ==
  ASSUME QueueCounts, EraseHazards = {}, BoundInv, [Next]_vars
  PROVE  BoundInv'
<1>1. TypeInv /\ CountInv /\ BootInv /\ (Slack < physical_blocks => FirstInv)
  BY ZenonT(40) DEF BoundInv
<1>2. TypeInv'
  BY <1>1, TypeInvStep, Zenon
<1>3. Slack < physical_blocks => current_block < logical_blocks + physical_blocks
  BY <1>1, WithinLap, ZenonT(40)
<1>4. ASSUME CountInv', BootInv', FirstInv => FirstInv' PROVE BoundInv'
  BY <1>1, <1>2, <1>4, Zenon DEF BoundInv, Slack
<1>5. CASE data_logger_block_write
  <2>1. UNCHANGED <<flash, current_block, er, boot, ct>>
    BY <1>5, Zenon DEF data_logger_block_write, CallerEnters, counters
  <2> QED BY <1>1, <1>2, <1>4, <1>5, <2>1, BlockWriteCount, BootKept, FirstFrame, ZenonT(40)
<1>6. CASE data_logger_flush
  <2>1. UNCHANGED <<flash, current_block, er, boot, ct>>
    BY <1>6, Zenon DEF data_logger_flush, CallerEnters, counters
  <2> QED BY <1>1, <1>2, <1>4, <1>6, <2>1, FlushCount, BootKept, FirstFrame, ZenonT(40)
<1>7. ASSUME NEW r \in Requests, QueuePut(r) PROVE BoundInv'
  <2>1. UNCHANGED <<flash, current_block, er, boot, ct>>
    BY <1>7, Zenon DEF QueuePut, counters
  <2> QED BY <1>1, <1>2, <1>4, <1>7, <2>1, PutCount, BootKept, FirstFrame, ZenonT(40)
<1>8. CASE CommitThread
  <2>1. CountInv'  BY <1>1, <1>2, <1>8, CommitCount, SMTT(30)
  <2>2. /\ boot' = boot /\ (current_block' = current_block \/ ct.pc = "written")
    BY <1>8, ZenonT(40) DEF CommitThread, logger_commit_thread_fn, do_block_write_start,
       do_block_write_erase, do_block_write_program, do_block_write_done, counters
  <2>3. ct.pc # "idle" => Up /\ ~erasing
    BY <1>1, Zenon DEF CountInv, NothingPending
  <2>4. current_block' = current_block \/ Up
    BY <2>2, <2>3, SMTT(30)
  <2>5. BootInv'  BY <1>1, <2>2, <2>4, BootKept, ZenonT(40)
  <2>6. Slack < physical_blocks => FirstInv'
    BY <1>1, <1>3, <1>8, <2>3, FirstCommit, ZenonT(40)
  <2> QED BY <1>2, <2>1, <2>5, <2>6, ZenonT(40) DEF BoundInv, Slack
<1>9. CASE \/ \E first \in 0 .. current_block, n \in 1 .. MaxReadLen :
                data_logger_block_read(first, first + n - 1)
           \/ backend_read
           \/ UNCHANGED vars
  <2>1. UNCHANGED <<flash, current_block, er, boot, queue, ct>>
    BY <1>9, ZenonT(40) DEF data_logger_block_read, backend_read, counters, queue, vars
  <2>2. (Up' <=> Up) /\ (erasing' <=> erasing)
    BY <2>1, ZenonT(40) DEF Up, erasing
  <2>3. current_block' <= current_block
    BY <1>1, <2>1, CountTypes, SMTT(30)
  <2>4. CountInv'  BY <1>1, <1>2, <2>1, <2>2, <2>3, CountFrame, Zenon
  <2> QED BY <1>1, <1>4, <2>1, <2>4, BootKept, FirstFrame, Zenon
<1>10. CASE \/ \E erase_all \in BOOLEAN : data_logger_erase(erase_all)
            \/ logger_flash_map_reset
            \/ data_logger_erase_done
  <2>1. /\ boot' = boot /\ (current_block' = current_block \/ current_block' = 0)
    BY <1>10, Zenon DEF data_logger_erase, logger_flash_map_reset, data_logger_erase_done,
       counters
  <2>2. CountInv'  BY <1>1, <1>2, <1>10, EraseCount, ZenonT(40)
  <2>3. BootInv'  BY <1>1, <2>1, BootKept, ZenonT(40)
  <2> QED BY <1>1, <1>4, <1>10, <2>2, <2>3, FirstReset, ZenonT(40)
<1>11. CASE Reboot
  <2>1. CountInv'  BY <1>1, <1>2, <1>11, RebootCount, ZenonT(40)
  <2>2. current_block' = 0 /\ boot' = BootPc("first")
    BY <1>11, Zenon DEF Reboot
  <2>3. boot'.pc = "first"  BY <2>2, IdleTypes, SMTT(30)
  <2>4. BootInv'  BY <2>2, <2>3 DEF BootInv
  <2>5. Slack < physical_blocks => FirstInv'
    BY <1>1, <1>3, <1>11, FirstReboot, ZenonT(40)
  <2> QED BY <1>2, <2>1, <2>4, <2>5, Zenon DEF BoundInv, Slack
<1>12. CASE Boot
  <2>1. CountInv' /\ BootInv'
    BY <1>2, <1>12, CommonInitBound, SearchBound, SearchDoneBound, BootRestBound, Zenon DEF Boot
  <2> QED BY <1>1, <1>4, <1>12, <2>1, FirstBoot, Zenon
<1> QED
  BY <1>5, <1>6, <1>7, <1>8, <1>9, <1>10, <1>11, <1>12, ZenonT(40) DEF Next
=============================================================================
