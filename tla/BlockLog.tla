------------------------------ MODULE BlockLog ------------------------------
(***************************************************************************)
(* What a persistent data logger promises: a circular log of numbered      *)
(* blocks.  Blocks low .. next - 1 are on the device.                      *)
(***************************************************************************)
EXTENDS Naturals

CONSTANTS
  Capacity,  \* blocks the device holds
  Unit       \* blocks that have to be given up together

VARIABLES low, next

Init == low = 0 /\ next = 0

\* The next block is logged, if there is room for it.
Append ==
  /\ next' = next + 1
  /\ next - low < Capacity
  /\ UNCHANGED low

\* Room is made for one more unit of blocks, by giving up the oldest ones.
GiveUp ==
  /\ next >= Capacity
  /\ next % Unit = 0
  /\ low' \in low + 1 .. next - Capacity + Unit
  /\ UNCHANGED next

\* The log is erased.
Clear == next' = 0 /\ low' = 0

Next == Append \/ GiveUp \/ Clear

Spec == Init /\ [][Next]_<<low, next>>
=============================================================================
