---------------------------- MODULE MCTdfLogger -----------------------------
(***************************************************************************)
(* TdfLogger for TLC: two threads that log and flush, an interface with    *)
(* two payload sizes, a buffer of 40 bytes.                                *)
(***************************************************************************)
EXTENDS TdfLogger, TLC

Request(format, len, num, time, idx_period) ==
  [len |-> len, num |-> num, format |-> format, pre |-> FALSE, time |-> time,
   idx_period |-> idx_period, valid |-> [k \in 1 .. num - 1 |-> TRUE], data |-> << >>]

T0 == 20000000

\* A sample that only fits in a large block; an index array with one sample that
\* does not fit in any with its array header; an array that is stored as two plain
\* samples and three differences, with a period that is scaled; an earlier index
\* array across the 16 bit rollover; an array long after the others.
MixedRequests ==
  {Request("SINGLE", 22, 1, 0, 0),
   Request("IDX_ARRAY", 31, 1, T0, 0),
   [Request("DIFF_16_8", 4, 5, T0 + 70000, 40960) EXCEPT !.valid = <<TRUE, FALSE, TRUE, TRUE>>],
   Request("IDX_ARRAY", 3, 4, T0 - 5, 65534),
   Request("TIME_ARRAY", 5, 3, T0 + 9000000, 7)}

\* The threads that log and flush are interchangeable.
ThreadSymmetry == Permutations(Loggers)

=============================================================================
