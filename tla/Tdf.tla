-------------------------------- MODULE Tdf ---------------------------------
(***************************************************************************)
(* The TDF (Tagged Data Format) buffer of subsys/tdf/tdf.c: adding samples *)
(* to a buffer and parsing them back.  All sizes are in bytes and are the  *)
(* ones of the code; the bytes themselves are abstracted to the fields     *)
(* they encode.  A sample is its number in the order of logging; 0 stands  *)
(* for a sample whose bytes are not those of any logged sample.            *)
(*                                                                         *)
(*   buffer   [size, len, time, tdfs]: struct tdf_buffer_state (net_buf    *)
(*            size and len, time of the last stamped TDF), and the TDFs    *)
(*   request  [len, num, format, pre, time, idx_period, valid, data]: the  *)
(*            arguments of tdf_add_core; pre is the DIFF_PRECOMPUTED flag, *)
(*            valid[k] whether sample k+1 can be encoded as a diff of      *)
(*            sample k, data the num samples                               *)
(*   TDF      [ts, tv, array, len, format, period, data]: one encoded TDF  *)
(***************************************************************************)
EXTENDS Integers, Sequences

ENOMEM == -12
EINVAL == -22
ENOSPC == -28

SIZEOF_TDF_HEADER == 3
SIZEOF_TDF_TIME == 6
SIZEOF_ARRAY_HEADER == 3
TDF_MAXIMUM_DIFFS == 64
TDF_ARRAY_TIME_PERIOD_VAL_MASK == 32767
TDF_ARRAY_TIME_SCALE_FACTOR == 8192
TDF_ARRAY_TIME_PERIOD_MAX ==
  TDF_ARRAY_TIME_PERIOD_VAL_MASK * TDF_ARRAY_TIME_SCALE_FACTOR

\* tdf_diff_divisor and tdf_diff_size: bytes of a field, and of its diff.
tdf_diff_divisor == [DIFF_16_8 |-> 2, DIFF_32_8 |-> 4, DIFF_32_16 |-> 4]
tdf_diff_size == [DIFF_16_8 |-> 1, DIFF_32_8 |-> 1, DIFF_32_16 |-> 2]
DiffFormats == DOMAIN tdf_diff_divisor

Least(S) == CHOOSE x \in S : \A y \in S : x <= y
AtMost(a, b) == IF a <= b THEN a ELSE b

\* tdf_buffer_state_reset
tdf_buffer_state_reset(b) == [b EXCEPT !.len = 0, !.time = 0, !.tdfs = << >>]

\* net_buf_simple_tailroom, kept in 16 unsigned bits
UINT16_COUNT == 65536
tailroom(b) == (b.size - b.len) % UINT16_COUNT

-----------------------------------------------------------------------------
\* How many diffs the array starts with (at least two), or minus the number of
\* samples to log undiffed first.  The scan skips both samples of a lone valid
\* diff, which is why an array that ends in one stops a sample short.
tdf_num_valid_diffs(valid, num) ==
  LET pairs == {i \in 0 .. num - 3 : valid[i + 1] /\ valid[i + 2]}
      n == AtMost(num, TDF_MAXIMUM_DIFFS)
  IN IF pairs = {} THEN IF valid[num - 2] THEN -(num - 1) ELSE -num
     ELSE IF Least(pairs) > 0 THEN -Least(pairs)
     ELSE Least({i \in 2 .. n - 1 : i = n - 1 \/ ~valid[i + 1]})

\* Mutant: a sample larger than the buffer is not refused.
tdf_input_validate_any(r, min_size, max_space) ==
  IF \/ r.len = 0 \/ r.num = 0
     \/ r.format # "IDX_ARRAY" /\ r.idx_period > TDF_ARRAY_TIME_PERIOD_MAX
  THEN EINVAL
  ELSE 0

tdf_input_validate(r, min_size, max_space) ==
  IF \/ r.len = 0 \/ r.num = 0
     \/ r.format # "IDX_ARRAY" /\ r.idx_period > TDF_ARRAY_TIME_PERIOD_MAX
  THEN EINVAL
  ELSE IF min_size > max_space THEN ENOSPC ELSE 0

\* The timestamp header: relative to the last stamped TDF of the buffer where
\* the difference fits in 16 (unsigned) or 24 (signed) bits.
TimeHeader(time, last) ==
  LET delta == time - last
  IN IF time = 0 THEN [ts |-> "NONE", tv |-> 0, size |-> 0]
     ELSE IF last # 0 /\ 0 <= delta /\ delta <= 65535
          THEN [ts |-> "RELATIVE", tv |-> delta, size |-> 2]
     ELSE IF last # 0 /\ -8388608 <= delta /\ delta <= 8388607
          THEN [ts |-> "EXTENDED_RELATIVE", tv |-> delta % 16777216, size |-> 3]
     ELSE [ts |-> "ABSOLUTE", tv |-> time, size |-> SIZEOF_TDF_TIME]

\* The period or index field of the array header, 16 bits wide.
ArrayPeriod(r) ==
  IF r.format = "IDX_ARRAY" THEN r.idx_period % UINT16_COUNT
  ELSE IF r.idx_period > TDF_ARRAY_TIME_PERIOD_VAL_MASK
       THEN 32768 + r.idx_period \div TDF_ARRAY_TIME_SCALE_FACTOR
       ELSE r.idx_period

\* Whether the samples are stored as diffs, and how many of them are tried.
DiffPlan(r) ==
  LET diffs == IF r.format \in DiffFormats /\ r.num > 2 /\ ~r.pre
               THEN tdf_num_valid_diffs(r.valid, r.num) ELSE 0
      is_diff == r.format \in DiffFormats /\ r.num > 2 /\ diffs >= 0
      num == IF diffs < 0 THEN -diffs ELSE IF diffs > 0 THEN 1 + diffs ELSE r.num
  IN [is_diff |-> is_diff /\ num > 1, num |-> num]

\* Bytes of num samples, the first in full and the others as diffs or in full.
DataSize(r, is_diff, num) ==
  IF is_diff
  THEN r.len + (num - 1) * ((r.len \div tdf_diff_divisor[r.format])
                              * tdf_diff_size[r.format])
  ELSE r.len * num

\* Mutant: a sample that fits in part is counted.
CanFit_rounded(r, is_diff, num, space) ==
  IF DataSize(r, is_diff, num) <= space THEN num ELSE (space + r.len - 1) \div r.len

\* How many of num samples fit in space bytes of payload (0: none).  When not
\* one fits, the room reserved for the array header is tried as well.
CanFit(r, is_diff, num, space) ==
  LET diff_size == (r.len \div tdf_diff_divisor[r.format]) * tdf_diff_size[r.format]
      fit == IF ~is_diff THEN space \div r.len
             ELSE IF space >= r.len THEN 1 + (space - r.len) \div diff_size ELSE 0
  IN IF DataSize(r, is_diff, num) <= space THEN num
     ELSE IF fit = 0 /\ num > 1 /\ r.format # "IDX_ARRAY"
          THEN (space + SIZEOF_ARRAY_HEADER) \div r.len
          ELSE fit

\* The samples a TDF ends up with.  Precomputed diffs that are stored as plain
\* samples (two samples are never diffed) copy the diff, not the sample.
StoredData(r, is_diff, num) ==
  [k \in 1 .. num |-> IF r.pre /\ ~is_diff /\ k > 1 THEN 0 ELSE r.data[k]]

\* tdf_add_core: the return code (samples added, or an error) and the buffer.
tdf_add_core(b, r) ==
  LET stamp == TimeHeader(r.time, b.time)
      is_idx == r.format = "IDX_ARRAY"
      check == tdf_input_validate(r,
                 SIZEOF_TDF_HEADER + (IF r.time # 0 THEN SIZEOF_TDF_TIME ELSE 0) + r.len,
                 b.size)
      plan == DiffPlan(r)
      total_header == SIZEOF_TDF_HEADER + stamp.size
                      + (IF plan.num > 1 \/ is_idx THEN SIZEOF_ARRAY_HEADER ELSE 0)
      remaining == tailroom(b)
      num == CanFit(r, plan.is_diff, plan.num, remaining - total_header)
      array == IF num <= 1 /\ ~is_idx THEN "NONE"
               ELSE IF is_idx THEN "IDX" ELSE IF plan.is_diff THEN "DIFF" ELSE "TIME"
      tdf == [ts |-> stamp.ts, tv |-> stamp.tv, array |-> array, len |-> r.len,
              format |-> IF array = "DIFF" THEN r.format ELSE "NONE",
              period |-> IF array = "NONE" THEN 0 ELSE ArrayPeriod(r),
              data |-> StoredData(r, plan.is_diff, num)]
      added == SIZEOF_TDF_HEADER + stamp.size
               + (IF array = "NONE" THEN 0 ELSE SIZEOF_ARRAY_HEADER)
               + DataSize(r, plan.is_diff, num)
  IN IF check < 0 THEN [rc |-> check, buf |-> b]
     ELSE IF r.format \in DiffFormats /\ r.len % tdf_diff_divisor[r.format] # 0
          THEN [rc |-> EINVAL, buf |-> b]
     ELSE IF remaining <= total_header \/ num = 0 THEN [rc |-> ENOMEM, buf |-> b]
     ELSE [rc |-> num,
           buf |-> [b EXCEPT !.len = @ + added,
                             !.time = IF r.time # 0 THEN r.time ELSE @,
                             !.tdfs = Append(@, tdf)]]

-----------------------------------------------------------------------------
\* tdf_time_flags_consume: the parser's time after a TDF, -1 when a relative
\* time has nothing to be relative to.
ParsedTime(tdf, time) ==
  CASE tdf.ts = "NONE" -> time
    [] tdf.ts = "ABSOLUTE" -> tdf.tv
    [] tdf.ts = "RELATIVE" -> IF time = 0 THEN -1 ELSE time + tdf.tv
    [] tdf.ts = "EXTENDED_RELATIVE" ->
         IF time = 0 THEN -1
         ELSE time + (IF tdf.tv >= 8388608 THEN tdf.tv - 16777216 ELSE tdf.tv)

ParsedPeriod(tdf) ==
  IF tdf.array # "IDX" /\ tdf.period >= 32768
  THEN TDF_ARRAY_TIME_SCALE_FACTOR * (tdf.period - 32768) ELSE tdf.period

\* tdf_parse of one TDF, as the request that the block size change logs again
\* (a diff array carries the DIFF_PRECOMPUTED flag).
tdf_parse(tdf, time) ==
  [len |-> tdf.len, num |-> Len(tdf.data), pre |-> tdf.array = "DIFF",
   format |-> CASE tdf.array = "NONE" -> "SINGLE" [] tdf.array = "TIME" -> "TIME_ARRAY"
                [] tdf.array = "IDX" -> "IDX_ARRAY" [] tdf.array = "DIFF" -> tdf.format,
   time |-> IF tdf.ts = "NONE" THEN 0 ELSE ParsedTime(tdf, time),
   idx_period |-> ParsedPeriod(tdf), valid |-> << >>, data |-> tdf.data]

\* The samples of a request as a reader sees them: which sample, its time and,
\* in an index array, its index.  The time of an index array is its first one's.
Samples(r) ==
  [k \in 1 .. r.num |->
     [sample |-> r.data[k],
      time |-> IF r.time = 0 \/ (r.format = "IDX_ARRAY" /\ k > 1) THEN 0
               ELSE r.time + (IF r.format = "IDX_ARRAY" THEN 0 ELSE (k - 1) * r.idx_period),
      idx |-> IF r.format = "IDX_ARRAY" THEN (r.idx_period + k - 1) % UINT16_COUNT ELSE -1]]

\* Parsing a whole buffer from its start: [time, last, samples, ok] after its
\* first n TDFs; last is the time of the last TDF parsed.
ParseFrom(tdfs) ==
  LET parsed[n \in 0 .. Len(tdfs)] ==
        IF n = 0 THEN [time |-> 0, last |-> 0, samples |-> << >>, ok |-> TRUE]
        ELSE LET before == parsed[n - 1]
                 time == ParsedTime(tdfs[n], before.time)
                 tdf == tdf_parse(tdfs[n], before.time)
             IN IF ~before.ok \/ time = -1 THEN [before EXCEPT !.ok = FALSE]
                ELSE [time |-> time, last |-> tdf.time, ok |-> TRUE,
                      samples |-> before.samples \o Samples(tdf)]
  IN parsed[Len(tdfs)]

=============================================================================
