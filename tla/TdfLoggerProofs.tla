-------------------------- MODULE TdfLoggerProofs ---------------------------
(***************************************************************************)
(* The buffer of the TDF data logger never outgrows its block, a block is  *)
(* refused for its size only while a size change waits for the lock, and   *)
(* the relog loop gets on but in one case: for any number of threads, any  *)
(* requests, sizes, calls, size changes and reboots.  A hypothesis of all, *)
(* PlainRequests, is that no request has samples of two bytes, for which   *)
(* tdf_add_core does overrun the buffer.                                   *)
(***************************************************************************)
EXTENDS TdfLogger, WellFoundedInduction, TLAPS

Formats == {"SINGLE", "TIME_ARRAY", "IDX_ARRAY", "DIFF_16_8", "DIFF_32_8", "DIFF_32_16"}

RequestType ==
  [len : Nat \ {2}, num : Nat, format : Formats, pre : BOOLEAN, time : Int,
   idx_period : Int, valid : Seq(BOOLEAN), data : Seq(Int)]

PlainRequests == Requests \subseteq RequestType

TdfType ==
  {tdf \in [ts : {"NONE", "RELATIVE", "EXTENDED_RELATIVE", "ABSOLUTE"}, tv : Int,
            array : {"NONE", "TIME", "IDX", "DIFF"}, len : Nat \ {2},
            format : Formats \cup {"NONE"}, period : Int, data : Seq(Int)] :
     tdf.array = "DIFF" => tdf.format \in DiffFormats}

BufferType == [size : Nat, len : Nat, time : Int, tdfs : Seq(TdfType)]

-----------------------------------------------------------------------------
\* Integer division, as CanFit uses it: a quotient times its divisor is at most
\* the dividend, and the quotient is below any number that is too many.
LEMMA Quotient ==
  ASSUME NEW x \in Nat, NEW d \in Nat, d > 0
  PROVE  x \div d \in Nat /\ d * (x \div d) <= x
OBVIOUS

\* A quotient is below what its divisor takes beyond the dividend.
LEMMA QuotientBelow ==
  ASSUME NEW x \in Nat, NEW d \in Nat, NEW n \in Nat, d > 0, d * n > x
  PROVE  x \div d < n
OBVIOUS

\* A number that fits its width is not cut.
LEMMA SmallModulo ==
  ASSUME NEW x \in Nat, NEW m \in Nat, x < m
  PROVE  x % m = x
OBVIOUS

\* Least is the least element of a set of naturals that has one.
LEMMA LeastElement ==
  ASSUME NEW S \in SUBSET Nat, S # {}
  PROVE  Least(S) \in S
<1> DEFINE less == OpToRel(<, Nat)
<1>1. \E x \in S : \A y \in S : ~(<<y, x>> \in less)
  BY NatLessThanWellFounded, WFMin, Zenon
<1>2. \A x, y \in Nat : y < x => <<y, x>> \in less
  BY DEF OpToRel
<1> HIDE DEF less
<1>3. PICK x \in S : \A y \in S : ~(<<y, x>> \in less)
  BY <1>1
<1>4. \A y \in S : ~(y < x)
  BY <1>2, <1>3, Zenon
<1>5. \A y \in S : x <= y
  BY <1>4
<1> QED
  BY <1>5, Zenon DEF Least

\* The fields of the time header have their types and its size is one of four.
LEMMA TimeHeaderType ==
  ASSUME NEW time \in Int, NEW last \in Int
  PROVE  /\ TimeHeader(time, last).size \in {0, 2, 3, 6}
         /\ TimeHeader(time, last).tv \in Int
         /\ TimeHeader(time, last).ts \in {"NONE", "RELATIVE", "EXTENDED_RELATIVE", "ABSOLUTE"}
BY DEF TimeHeader, SIZEOF_TDF_TIME

\* tdf_num_valid_diffs never asks for more samples than there are.
LEMMA ValidDiffsInArray ==
  ASSUME NEW valid, NEW num \in Nat, num > 2
  PROVE  /\ tdf_num_valid_diffs(valid, num) \in Int
         /\ tdf_num_valid_diffs(valid, num) # 0
         /\ -num <= tdf_num_valid_diffs(valid, num)
         /\ tdf_num_valid_diffs(valid, num) < num
<1> DEFINE pairs == {i \in 0 .. num - 3 : valid[i + 1] /\ valid[i + 2]}
           n == AtMost(num, TDF_MAXIMUM_DIFFS)
           ends == {i \in 2 .. n - 1 : i = n - 1 \/ ~valid[i + 1]}
<1>1. n \in Nat /\ 2 < n /\ n <= num
  BY DEF AtMost, TDF_MAXIMUM_DIFFS
<1>2. n - 1 \in ends
  BY <1>1
<1>3. Least(ends) \in 2 .. n - 1
  BY <1>1, <1>2, LeastElement
<1>4. pairs # {} => Least(pairs) \in 0 .. num - 3
  BY LeastElement
<1>5. tdf_num_valid_diffs(valid, num) =
        IF pairs = {} THEN IF valid[num - 2] THEN -(num - 1) ELSE -num
        ELSE IF Least(pairs) > 0 THEN -Least(pairs) ELSE Least(ends)
  BY DEF tdf_num_valid_diffs
<1> HIDE DEF pairs, n, ends
<1> QED
  BY <1>1, <1>3, <1>4, <1>5

\* DiffPlan tries some of the samples of the request, and diffs only diff formats.
LEMMA PlanInArray ==
  ASSUME NEW r \in RequestType, r.num # 0
  PROVE  /\ DiffPlan(r).num \in Nat
         /\ 0 < DiffPlan(r).num
         /\ DiffPlan(r).num <= r.num
         /\ DiffPlan(r).is_diff \in BOOLEAN
         /\ DiffPlan(r).is_diff => r.format \in DiffFormats /\ 1 < DiffPlan(r).num
<1> DEFINE diffs == IF r.format \in DiffFormats /\ r.num > 2 /\ ~r.pre
                    THEN tdf_num_valid_diffs(r.valid, r.num) ELSE 0
           num == IF diffs < 0 THEN -diffs ELSE IF diffs > 0 THEN 1 + diffs ELSE r.num
           is_diff == r.format \in DiffFormats /\ r.num > 2 /\ diffs >= 0
<1>1. r.num \in Nat /\ r.num > 0
  BY SMTT(30) DEF RequestType
<1>2. diffs \in Int /\ -r.num <= diffs /\ diffs < r.num
  BY <1>1, ValidDiffsInArray, SMTT(30)
<1>3. DiffPlan(r) = [is_diff |-> is_diff /\ num > 1, num |-> num]
  BY DEF DiffPlan
<1> HIDE DEF diffs
<1>4. num \in Nat /\ 0 < num /\ num <= r.num
  BY <1>1, <1>2
<1> HIDE DEF num
<1>5. is_diff => r.format \in DiffFormats
  OBVIOUS
<1> DEFINE used == is_diff /\ num > 1
<1>6. used \in BOOLEAN /\ (used => r.format \in DiffFormats /\ 1 < num)
  BY <1>4, <1>5
<1> HIDE DEF used, is_diff
<1>7. DiffPlan(r).num = num /\ DiffPlan(r).is_diff = used
  BY <1>3, SMTT(30) DEF used
<1> QED
  BY <1>4, <1>5, <1>6, <1>7, Zenon

\* The bytes of one diff: at least one, for the lengths tdf_add_core lets through.
LEMMA DiffSize ==
  ASSUME NEW format \in DiffFormats, NEW len \in Nat, len # 0,
         len % tdf_diff_divisor[format] = 0
  PROVE  /\ (len \div tdf_diff_divisor[format]) * tdf_diff_size[format] \in Nat
         /\ (len \div tdf_diff_divisor[format]) * tdf_diff_size[format] > 0
<1>1. format \in {"DIFF_16_8", "DIFF_32_8", "DIFF_32_16"}
  BY SMTT(30) DEF DiffFormats, tdf_diff_divisor
<1>2. CASE format = "DIFF_16_8"
  BY <1>2 DEF tdf_diff_divisor, tdf_diff_size
<1>3. CASE format = "DIFF_32_8"
  BY <1>3, SMTT(30) DEF tdf_diff_divisor, tdf_diff_size
<1>4. CASE format = "DIFF_32_16"
  BY <1>4, SMTT(30) DEF tdf_diff_divisor, tdf_diff_size
<1> QED
  BY <1>1, <1>2, <1>3, <1>4, SMTT(30)

\* n of num samples fit in space bytes, or in that and the array header's when
\* there is only one.
Fits(r, is_diff, num, space, n) ==
  /\ DataSize(r, is_diff, n) \in Nat
  /\ DataSize(r, is_diff, n) <=
       space + (IF n = 1 /\ 1 < num /\ r.format # "IDX_ARRAY" THEN 3 ELSE 0)

\* CanFit returns a number of samples that fit in the payload space, or a single
\* one that fits when the array header is not written.  Samples of two bytes are
\* left out: of those, two fit in the three bytes of the header and one more.
LEMMA CanFitFits ==
  ASSUME NEW r \in RequestType, r.len # 0, NEW is_diff \in BOOLEAN,
         NEW num \in Nat, 0 < num, NEW space \in Nat, 0 < space,
         is_diff => /\ 1 < num /\ r.format \in DiffFormats
                    /\ r.len % tdf_diff_divisor[r.format] = 0
  PROVE  /\ CanFit(r, is_diff, num, space) \in Nat
         /\ CanFit(r, is_diff, num, space) <= num
         /\ CanFit(r, is_diff, num, space) > 0 =>
              Fits(r, is_diff, num, space, CanFit(r, is_diff, num, space))
<1> DEFINE d == (r.len \div tdf_diff_divisor[r.format]) * tdf_diff_size[r.format]
           n == CanFit(r, is_diff, num, space)
           more == (space + SIZEOF_ARRAY_HEADER) \div r.len
           whole == DataSize(r, is_diff, num)
           size == DataSize(r, is_diff, n)
           array == 1 < num /\ r.format # "IDX_ARRAY"
<1>1. r.len \in Nat /\ r.len > 0 /\ r.len # 2
  BY SMTT(30) DEF RequestType
<1>2. /\ more \in Nat /\ r.len * more <= space + 3
      /\ r.len > space => more <= 1
  <2>1. more \in Nat /\ r.len * more <= space + 3
    BY <1>1, Quotient, SMTT(30) DEF SIZEOF_ARRAY_HEADER
  <2>2. ASSUME r.len > space PROVE r.len * 2 > space + 3
    BY <1>1, <2>2
  <2>3. ASSUME r.len > space PROVE more < 2
    BY <1>1, <2>2, <2>3, QuotientBelow, SMTT(30) DEF SIZEOF_ARRAY_HEADER
  <2> QED
    BY <2>1, <2>3
<1>3. r.len * 1 = r.len
  BY <1>1
<1> SUFFICES /\ n \in Nat /\ n <= num /\ whole \in Nat
             /\ n > 0 => /\ size \in Nat
                         /\ size <= space + (IF n = 1 /\ array THEN 3 ELSE 0)
  BY SMTT(30) DEF Fits
<1>4. CASE ~is_diff
  <2> DEFINE fit == space \div r.len
  <2>1. fit \in Nat /\ r.len * fit <= space /\ r.len * fit \in Nat
    BY <1>1, Quotient, SMTT(30)
  <2>2. r.len * num > space => fit < num
    BY <1>1, QuotientBelow
  <2>3. fit = 0 => r.len > space
    BY <1>1, SMTT(30)
  <2>4. n = IF whole <= space THEN num ELSE IF fit = 0 /\ array THEN more ELSE fit
    BY <1>4 DEF CanFit
  <2>5. size = r.len * n /\ whole = r.len * num /\ whole \in Nat
    BY <1>1, <1>4, SMTT(30) DEF DataSize
  <2> HIDE DEF n, fit, more, whole, size
  <2>6. CASE whole <= space
    BY <2>4, <2>5, <2>6, SMTT(30)
  <2>7. CASE ~(whole <= space) /\ fit = 0 /\ array
    <3>1. n = more /\ n \in Nat /\ n <= 1
      BY <1>2, <2>3, <2>4, <2>7, SMTT(30)
    <3>2. size = r.len * more
      BY <2>5, <3>1, SMTT(30)
    <3> QED
      BY <1>1, <1>2, <1>3, <2>5, <2>7, <3>1, <3>2, SMTT(30)
  <2>8. CASE ~(whole <= space) /\ ~(fit = 0 /\ array)
    <3>1. n = fit
      BY <2>4, <2>8, SMTT(30)
    <3>2. size = r.len * fit
      BY <2>5, <3>1, SMTT(30)
    <3> HIDE DEF array
    <3> QED
      BY <2>1, <2>2, <2>5, <2>8, <3>1, <3>2, SMTT(30)
  <2> QED
    BY <2>6, <2>7, <2>8
<1>5. CASE is_diff
  <2> DEFINE fit == IF space >= r.len THEN 1 + (space - r.len) \div d ELSE 0
  <2>1. d \in Nat /\ d > 0 /\ num > 1 /\ r.format \in DiffFormats
    BY <1>1, <1>5, DiffSize, SMTT(30)
  <2>2. n = IF whole <= space THEN num ELSE IF fit = 0 /\ array THEN more ELSE fit
    BY <1>5, SMTT(30) DEF CanFit
  <2>3. size = r.len + (n - 1) * d /\ whole = r.len + (num - 1) * d
    BY <1>5, SMTT(30) DEF DataSize
  <2> HIDE DEF d
  <2>4. whole \in Nat
    BY <1>1, <2>1, <2>3, SMTT(30)
  <2>5. ASSUME space >= r.len
        PROVE  /\ fit \in Nat /\ fit > 0 /\ (fit - 1) * d \in Nat
               /\ r.len + (fit - 1) * d <= space
               /\ r.len + (num - 1) * d > space => fit < num
    <3> DEFINE rest == space - r.len
               k == rest \div d
    <3>1. rest \in Nat
      BY <1>1, <2>5, SMTT(30)
    <3>2. k \in Nat /\ d * k <= rest
      BY <2>1, <3>1, Quotient, SMTT(30)
    <3>3. d * (num - 1) > rest => k < num - 1
      BY <2>1, <3>1, QuotientBelow
    <3>4. fit = 1 + k
      BY <2>5
    <3> HIDE DEF k, fit
    <3>5. (fit - 1) * d = d * k /\ d * k \in Nat /\ (num - 1) * d = d * (num - 1)
      BY <2>1, <3>2, <3>4
    <3> QED
      BY <1>1, <2>1, <3>2, <3>3, <3>4, <3>5, SMTT(30)
  <2>6. ~(space >= r.len) => fit = 0
    BY SMTT(30)
  <2> HIDE DEF n, fit, more, whole, size
  <2>7. CASE whole <= space
    <3>1. n = num /\ size = whole
      BY <2>2, <2>3, <2>7, SMTT(30)
    <3> QED
      BY <2>4, <2>7, <3>1, SMTT(30)
  <2>8. CASE ~(whole <= space) /\ fit = 0 /\ array
    <3>1. r.len > space
      BY <1>1, <2>5, <2>8, SMTT(30)
    <3>2. n = more /\ n \in Nat /\ n <= 1
      BY <1>2, <2>2, <2>8, <3>1, SMTT(30)
    <3>3. n = 1 => size = r.len /\ r.len <= space + 3
      BY <1>1, <1>2, <1>3, <2>1, <2>3, <3>2, SMTT(30)
    <3> QED
      BY <1>1, <2>4, <2>8, <3>2, <3>3, SMTT(30)
  <2>9. CASE ~(whole <= space) /\ ~(fit = 0 /\ array)
    <3>1. n = fit
      BY <2>2, <2>9
    <3>2. size = r.len + (fit - 1) * d
      BY <2>3, <3>1, SMTT(30)
    <3> HIDE DEF array
    <3>3. CASE space >= r.len
      BY <1>1, <2>3, <2>4, <2>5, <2>9, <3>1, <3>2, <3>3, SMTT(30)
    <3>4. CASE ~(space >= r.len)
      BY <2>4, <2>6, <3>1, <3>4, SMTT(30)
    <3> QED
      BY <3>3, <3>4, SMTT(30)
  <2> QED
    BY <2>7, <2>8, <2>9
<1> QED
  BY <1>4, <1>5

\* The TDF that tdf_add_core stores has its type.
LEMMA StoredType ==
  ASSUME NEW r \in RequestType, NEW is_diff \in BOOLEAN, NEW num \in Nat,
         num <= r.num, Len(r.data) = r.num
  PROVE  StoredData(r, is_diff, num) \in Seq(Int) /\ ArrayPeriod(r) \in Int
<1>1. /\ r.num \in Nat /\ r.data \in Seq(Int) /\ r.idx_period \in Int
  BY DEF RequestType
<1>2. \A k \in 1 .. num : r.data[k] \in Int
  BY <1>1
<1>3. \A k \in 1 .. num : (IF r.pre /\ ~is_diff /\ k > 1 THEN 0 ELSE r.data[k]) \in Int
  BY <1>2, SMTT(30)
<1>4. StoredData(r, is_diff, num) \in Seq(Int)
  BY <1>3 DEF StoredData
<1>5. ArrayPeriod(r) \in Int
  BY <1>1, SMT, SMTT(30) DEF ArrayPeriod, UINT16_COUNT, TDF_ARRAY_TIME_SCALE_FACTOR, TDF_ARRAY_TIME_PERIOD_VAL_MASK
<1> QED
  BY <1>4, <1>5, SMTT(30)

\* The room reserved for an array header is written, reclaimed or left.
LEMMA HeaderSum ==
  ASSUME NEW stamp \in Nat, NEW bytes \in Nat, NEW remaining \in Int, NEW written \in Nat,
         NEW reclaimed \in Nat, NEW reserved \in Nat, written + reclaimed <= reserved,
         bytes <= remaining - (3 + stamp + reserved) + reclaimed
  PROVE  3 + stamp + written + bytes \in Nat /\ 3 + stamp + written + bytes <= remaining
BY SMTT(30)

\* tdf_add_core stays within the buffer and adds at most the samples asked for.
LEMMA AddFits ==
  ASSUME NEW b \in BufferType, b.len <= b.size, b.size < UINT16_COUNT,
         NEW r \in RequestType, Len(r.data) = r.num
  PROVE  LET add == tdf_add_core(b, r)
         IN /\ add.buf \in BufferType
            /\ add.buf.size = b.size
            /\ add.buf.len <= b.size
            /\ add.rc \in Int /\ add.rc <= r.num
<1> DEFINE stamp == TimeHeader(r.time, b.time)
           is_idx == r.format = "IDX_ARRAY"
           check == tdf_input_validate(r,
                      SIZEOF_TDF_HEADER + (IF r.time # 0 THEN SIZEOF_TDF_TIME ELSE 0) + r.len,
                      b.size)
           plan == DiffPlan(r)
           total_header == SIZEOF_TDF_HEADER + stamp.size
                           + (IF plan.num > 1 \/ is_idx THEN SIZEOF_ARRAY_HEADER ELSE 0)
           remaining == tailroom(b)
           num == CanFit(r, plan.is_diff, plan.num, remaining - total_header)
           array == IF num <= 1 /\ ~is_idx THEN "NONE"
                    ELSE IF is_idx THEN "IDX" ELSE IF plan.is_diff THEN "DIFF" ELSE "TIME"
           tdf == [ts |-> stamp.ts, tv |-> stamp.tv, array |-> array, len |-> r.len,
                   format |-> IF array = "DIFF" THEN r.format ELSE "NONE",
                   period |-> IF array = "NONE" THEN 0 ELSE ArrayPeriod(r),
                   data |-> StoredData(r, plan.is_diff, num)]
           added == SIZEOF_TDF_HEADER + stamp.size
                    + (IF array = "NONE" THEN 0 ELSE SIZEOF_ARRAY_HEADER)
                    + DataSize(r, plan.is_diff, num)
           refused == r.format \in DiffFormats /\ r.len % tdf_diff_divisor[r.format] # 0
           add == tdf_add_core(b, r)
           stored == [b EXCEPT !.len = @ + added,
                               !.time = IF r.time # 0 THEN r.time ELSE @,
                               !.tdfs = Append(@, tdf)]
<1>1. add = IF check < 0 THEN [rc |-> check, buf |-> b]
            ELSE IF refused THEN [rc |-> EINVAL, buf |-> b]
            ELSE IF remaining <= total_header \/ num = 0 THEN [rc |-> ENOMEM, buf |-> b]
            ELSE [rc |-> num, buf |-> stored]
  BY DEF tdf_add_core
<1> HIDE DEF stamp, is_idx, check, plan, total_header, remaining, num, array, tdf, added,
             refused, add, stored
<1>2. /\ r.len \in Nat \ {2} /\ r.num \in Nat /\ r.time \in Int /\ r.format \in Formats
      /\ b.size \in Nat /\ b.len \in Nat /\ b.time \in Int /\ b.tdfs \in Seq(TdfType)
  BY SMTT(30) DEF RequestType, BufferType
<1>3. /\ check \in Int /\ check <= 0
      /\ check = 0 => r.len # 0 /\ r.num # 0
  BY DEF check, tdf_input_validate, EINVAL, ENOSPC
<1>4. CASE check < 0 \/ refused \/ remaining <= total_header \/ num = 0
  <2>1. add.buf = b /\ add.rc \in {check, EINVAL, ENOMEM}
    BY <1>1, <1>4, SMTT(30)
  <2> QED
    BY <1>2, <1>3, <2>1, SMTT(30) DEF EINVAL, ENOMEM, add
<1>5. CASE ~(check < 0 \/ refused \/ remaining <= total_header \/ num = 0)
  <2>1. r.len # 0 /\ r.num # 0
    BY <1>3, <1>5
  <2>2. add = [rc |-> num, buf |-> stored]
    BY <1>1, <1>5, SMTT(30)
  <2>3. /\ plan.num \in Nat /\ 0 < plan.num /\ plan.num <= r.num /\ plan.is_diff \in BOOLEAN
        /\ plan.is_diff => r.format \in DiffFormats /\ 1 < plan.num
    BY <2>1, PlanInArray, SMTT(30) DEF plan
  <2>4. /\ stamp.size \in {0, 2, 3, 6} /\ stamp.tv \in Int
        /\ stamp.ts \in {"NONE", "RELATIVE", "EXTENDED_RELATIVE", "ABSOLUTE"}
    BY <1>2, TimeHeaderType, SMTT(30) DEF stamp
  <2>5. remaining = b.size - b.len
    <3>1. b.size - b.len \in Nat /\ b.size - b.len < UINT16_COUNT
      BY <1>2, SMT, SMTT(30) DEF UINT16_COUNT
    <3>2. UINT16_COUNT \in Nat
      BY SMT DEF UINT16_COUNT
    <3> QED
      BY <3>1, <3>2, SmallModulo, SMTT(30) DEF remaining, tailroom
  <2> DEFINE space == remaining - total_header
  <2>6. /\ total_header = 3 + stamp.size + (IF plan.num > 1 \/ is_idx THEN 3 ELSE 0)
        /\ total_header \in Nat /\ space \in Nat /\ 0 < space
    <3>1. total_header = 3 + stamp.size + (IF plan.num > 1 \/ is_idx THEN 3 ELSE 0)
      BY DEF total_header, SIZEOF_TDF_HEADER, SIZEOF_ARRAY_HEADER
    <3>2. (IF plan.num > 1 \/ is_idx THEN 3 ELSE 0) \in {0, 3}
      OBVIOUS
    <3>3. ~(remaining <= total_header)
      BY <1>5, SMTT(30)
    <3> HIDE DEF space
    <3>4. total_header \in Nat
      BY <2>4, <3>1, <3>2, SMTT(30)
    <3>5. space \in Nat /\ 0 < space
      BY <1>2, <2>5, <3>3, <3>4, SMTT(30) DEF space
    <3> QED
      BY <3>1, <3>4, <3>5
  <2>7. plan.is_diff => r.len % tdf_diff_divisor[r.format] = 0
    BY <1>5, <2>3 DEF refused
  <2>8. /\ num \in Nat /\ num <= plan.num
        /\ num > 0 => Fits(r, plan.is_diff, plan.num, space, num)
    <3>1. num = CanFit(r, plan.is_diff, plan.num, space)
      BY DEF num
    <3> HIDE DEF space
    <3> QED
      BY <2>1, <2>3, <2>6, <2>7, <3>1, CanFitFits, Zenon
  <2> DEFINE bytes == DataSize(r, plan.is_diff, num)
  <2>9. num # 0
    BY <1>5
  <2>10. added \in Nat /\ added <= remaining
    <3> DEFINE written == IF num <= 1 /\ ~is_idx THEN 0 ELSE 3
               reclaimed == IF num = 1 /\ 1 < plan.num /\ ~is_idx THEN 3 ELSE 0
               reserved == IF plan.num > 1 \/ is_idx THEN 3 ELSE 0
    <3>1. bytes \in Nat /\ bytes <= space + reclaimed
      BY <2>8, <2>9, SMTT(30) DEF is_idx, Fits
    <3>2. added = 3 + stamp.size + written + bytes
      BY DEF added, array, SIZEOF_TDF_HEADER, SIZEOF_ARRAY_HEADER
    <3>3. /\ written \in {0, 3} /\ reclaimed \in {0, 3} /\ reserved \in {0, 3}
          /\ written + reclaimed <= reserved
      BY <2>3, <2>8, <2>9, SMTT(30) DEF is_idx
    <3>4. space = remaining - (3 + stamp.size + reserved) /\ remaining \in Int
      BY <1>2, <2>5, <2>6
    <3>5. stamp.size \in Nat
      BY <2>4, SMTT(30)
    <3> HIDE DEF bytes, space, written, reclaimed, reserved
    <3> QED
      <4>1. written \in Nat /\ reclaimed \in Nat /\ reserved \in Nat
        BY <3>3
      <4>2. bytes <= remaining - (3 + stamp.size + reserved) + reclaimed
        BY <3>1, <3>4, ZenonT(40)
      <4>3. /\ 3 + stamp.size + written + bytes \in Nat
            /\ 3 + stamp.size + written + bytes <= remaining
        BY <3>1, <3>3, <3>4, <3>5, <4>1, <4>2, HeaderSum, Zenon
      <4> QED
        BY <3>2, <4>3, Zenon
  <2>11. tdf \in TdfType
    <3>1. StoredData(r, plan.is_diff, num) \in Seq(Int) /\ ArrayPeriod(r) \in Int
      BY <1>2, <2>3, <2>8, StoredType, SMTT(30)
    <3>2. /\ array \in {"NONE", "TIME", "IDX", "DIFF"}
          /\ array = "DIFF" => r.format \in DiffFormats
      BY <2>3 DEF array
    <3> QED
      BY <1>2, <2>4, <3>1, <3>2, SMTT(30) DEF tdf, TdfType
  <2>12. stored \in BufferType /\ stored.size = b.size /\ stored.len = b.len + added
    <3> DEFINE len == b.len + added
               time == IF r.time # 0 THEN r.time ELSE b.time
               tdfs == Append(b.tdfs, tdf)
    <3>1. len \in Nat /\ time \in Int /\ tdfs \in Seq(TdfType)
      BY <1>2, <2>10, <2>11, SMTT(30)
    <3>2. stored = [b EXCEPT !.len = len, !.time = time, !.tdfs = tdfs]
      BY DEF stored
    <3> HIDE DEF len, time, tdfs
    <3>3. stored \in BufferType /\ stored.size = b.size /\ stored.len = len
      BY <3>1, <3>2, Zenon DEF BufferType
    <3> QED
      BY <3>3, Zenon DEF len
  <2>13. /\ add.buf \in BufferType /\ add.buf.size = b.size /\ add.buf.len <= b.size
         /\ add.rc \in Int /\ add.rc <= r.num
    <3>1. add.rc = num /\ add.buf = stored
      BY <2>2
    <3>2. num \in Int /\ num <= r.num
      <4>1. num \in Nat /\ num <= plan.num
        BY <2>8, Zenon
      <4>2. plan.num \in Nat /\ plan.num <= r.num /\ r.num \in Nat
        BY <1>2, <2>3, ZenonT(40)
      <4> QED
        BY <4>1, <4>2, SMTT(30)
    <3>3. b.len + added <= b.size
      BY <1>2, <2>5, <2>10, SMTT(30)
    <3> QED
      BY <2>12, <3>1, <3>2, <3>3, ZenonT(40)
  <2> QED
    BY <2>13, SMTT(30) DEF add
<1> QED
  BY <1>4, <1>5, SMTT(30)

-----------------------------------------------------------------------------
\* Reading back: a stored TDF parses to a request that can be logged again.
LEMMA ParseType ==
  ASSUME NEW tdf \in TdfType, NEW time \in Int
  PROVE  /\ ParsedTime(tdf, time) \in Int
         /\ tdf_parse(tdf, time) \in RequestType
         /\ Len(tdf_parse(tdf, time).data) = tdf_parse(tdf, time).num
<1>1. /\ tdf.ts \in {"NONE", "RELATIVE", "EXTENDED_RELATIVE", "ABSOLUTE"} /\ tdf.tv \in Int
      /\ tdf.array \in {"NONE", "TIME", "IDX", "DIFF"} /\ tdf.len \in Nat \ {2}
      /\ tdf.period \in Int /\ tdf.data \in Seq(Int)
      /\ tdf.array = "DIFF" => tdf.format \in DiffFormats
  BY DEF TdfType
<1>2. ParsedTime(tdf, time) \in Int
  BY <1>1, SMTT(30) DEF ParsedTime
<1>3. ParsedPeriod(tdf) \in Int
  BY <1>1 DEF ParsedPeriod, TDF_ARRAY_TIME_SCALE_FACTOR
<1> DEFINE format == CASE tdf.array = "NONE" -> "SINGLE" [] tdf.array = "TIME" -> "TIME_ARRAY"
                       [] tdf.array = "IDX" -> "IDX_ARRAY" [] tdf.array = "DIFF" -> tdf.format
           at == IF tdf.ts = "NONE" THEN 0 ELSE ParsedTime(tdf, time)
           pre == tdf.array = "DIFF"
<1>4. format \in Formats
  BY <1>1, SMTT(30) DEF Formats, DiffFormats, tdf_diff_divisor
<1>5. at \in Int /\ Len(tdf.data) \in Nat /\ pre \in BOOLEAN
  BY <1>1, <1>2
<1>6. tdf_parse(tdf, time) =
        [len |-> tdf.len, num |-> Len(tdf.data), pre |-> pre, format |-> format, time |-> at,
         idx_period |-> ParsedPeriod(tdf), valid |-> << >>, data |-> tdf.data]
  BY SMTT(30) DEF tdf_parse
<1> HIDE DEF format, at, pre
<1>7. tdf_parse(tdf, time) \in RequestType
  BY <1>1, <1>3, <1>4, <1>5, <1>6, SMTT(30) DEF RequestType
<1> QED
  BY <1>2, <1>6, <1>7, SMTT(30)

\* What log_locked has left of a request is a request.
LEMMA RemainderType ==
  ASSUME NEW r \in RequestType, Len(r.data) = r.num, NEW rc \in Nat, rc <= r.num
  PROVE  Remainder(r, rc) \in RequestType /\ Len(Remainder(r, rc).data) = Remainder(r, rc).num
<1> DEFINE num == r.num - rc
           data == SubSeq(r.data, rc + 1, Len(r.data))
           valid == SubSeq(r.valid, rc + 1, Len(r.valid))
           idx == IF r.format = "IDX_ARRAY" THEN r.idx_period + rc ELSE r.idx_period
           time == IF r.format = "IDX_ARRAY" THEN 0 ELSE r.time + r.idx_period * rc
<1>1. /\ r.num \in Nat /\ r.time \in Int /\ r.idx_period \in Int
      /\ r.data \in Seq(Int) /\ r.valid \in Seq(BOOLEAN)
  BY DEF RequestType
<1>2. data \in Seq(Int) /\ Len(data) = num
  BY <1>1, SMTT(30)
<1>3. valid \in Seq(BOOLEAN)
  BY <1>1
<1>4. num \in Nat /\ idx \in Int /\ time \in Int
  BY <1>1, SMTT(30)
<1>5. Remainder(r, rc) = [r EXCEPT !.num = num, !.data = data, !.valid = valid,
                                   !.idx_period = idx, !.time = time]
  BY DEF Remainder
<1> HIDE DEF num, data, valid, idx, time
<1> QED
  <2>1. r.len \in Nat \ {2} /\ r.format \in Formats /\ r.pre \in BOOLEAN
    BY Zenon DEF RequestType
  <2>2. Remainder(r, rc) = [len |-> r.len, num |-> num, format |-> r.format, pre |-> r.pre,
                            time |-> time, idx_period |-> idx, valid |-> valid, data |-> data]
    BY <1>5, ZenonT(40) DEF RequestType
  <2>3. /\ Remainder(r, rc) \in RequestType
        /\ Remainder(r, rc).data = data /\ Remainder(r, rc).num = num
    BY <1>2, <1>3, <1>4, <2>1, <2>2, SMTT(30) DEF RequestType
  <2> QED
    BY <1>2, <2>3, Zenon

-----------------------------------------------------------------------------
ThreadType ==
  [pc : {"idle", "log", "relog", "flush", "write", "reset", "update", "parse"},
   req : RequestType, snap : Seq(TdfType), end : Int, time : Int,
   ret : {"none", "relog", "done"}, rc : Int]

SampleType == [sample : Int, time : Int, idx : Int]

\* A thread that is in the relog loop, or will be back in it after a flush, has
\* the samples its request counts.
Loaded(x) ==
  x.pc = "relog" \/ (x.pc \in {"write", "reset"} /\ x.ret = "relog")
    => Len(x.req.data) = x.req.num

ThreadsOK == th \in [Threads -> ThreadType] /\ \A t \in Threads : Loaded(th[t])

BufferOK == buf \in BufferType /\ buf.len <= buf.size /\ buf.size <= MaxSize

\* The buffer follows the block size but for a size change that waits for the lock.
SizesAgree == block_size # 0 /\ th[Iface].pc # "update" => buf.size <= block_size

IInv ==
  /\ BufferOK
  /\ ThreadsOK
  /\ block_size \in Nat
  /\ logged \in Seq(SampleType)
  /\ SizesAgree

\* Nothing is in the hands of an idle thread.
LEMMA IdleType == NoRequest \in RequestType /\ Idle \in ThreadType /\ Loaded(Idle)
<1>1. NoRequest \in RequestType
  BY DEF NoRequest, RequestType, Formats
<1> QED
  BY <1>1 DEF Idle, ThreadType, Loaded

\* One thread changes.
LEMMA OneThread ==
  ASSUME ThreadsOK, NEW t \in Threads, NEW x \in ThreadType, Loaded(x),
         th' = [th EXCEPT ![t] = x]
  PROVE  ThreadsOK' /\ th'[Iface] = IF t = Iface THEN x ELSE th[Iface]
<1>1. th' \in [Threads -> ThreadType] /\ \A u \in Threads : th'[u] = IF u = t THEN x ELSE th[u]
  BY DEF ThreadsOK
<1>2. \A u \in Threads : Loaded(th'[u])
  BY <1>1, Zenon DEF ThreadsOK
<1>3. Iface \in Threads
  BY DEF Threads
<1> QED
  BY <1>1, <1>2, <1>3, Zenon DEF ThreadsOK, Loaded

\* A thread other than the interface's changes, or the interface's outside "update":
\* the sizes agree as long as the buffer keeps its size.
LEMMA SizesKept ==
  ASSUME SizesAgree, NEW t \in Threads, th[t].pc # "update", NEW x,
         th'[Iface] = IF t = Iface THEN x ELSE th[Iface],
         buf'.size = buf.size, block_size' = block_size
  PROVE  SizesAgree'
BY DEF SizesAgree

\* Finish leaves a thread idle or parsing.
LEMMA FinishOK ==
  ASSUME ThreadsOK, NEW t \in Threads, Finish(t)
  PROVE  ThreadsOK' /\ \E x \in ThreadType : th'[Iface] = IF t = Iface THEN x ELSE th[Iface]
<1>1. th[t] \in ThreadType
  BY DEF ThreadsOK
<1>2. CASE t = Iface
  <2> DEFINE x == [th[t] EXCEPT !.pc = "parse", !.req = NoRequest]
  <2>1. th' = [th EXCEPT ![t] = x]
    BY <1>2, ZenonT(40) DEF Finish
  <2>2. x \in ThreadType /\ Loaded(x)
    BY <1>1, IdleType, Zenon DEF ThreadType, Loaded
  <2> HIDE DEF x
  <2> QED
    BY <2>1, <2>2, OneThread, Zenon
<1>3. CASE t # Iface
  <2>1. th' = [th EXCEPT ![t] = Idle]
    BY <1>3 DEF Finish
  <2> QED
    BY <2>1, IdleType, OneThread, Zenon
<1> QED
  BY <1>2, <1>3

\* A call to log keeps the invariant.
LEMMA LogCallKeeps ==
  ASSUME PlainRequests, IInv, NEW t \in Loggers, NEW r \in Requests,
         tdf_data_logger_log_core_dev(t, r)
  PROVE  IInv'
<1> DEFINE x == [th[t] EXCEPT !.pc = "log", !.req = r]
<1>1. t \in Threads /\ r \in RequestType
  BY DEF Threads, PlainRequests
<1>2. th[t] \in ThreadType /\ th[t].pc = "idle"
  BY <1>1 DEF IInv, ThreadsOK, tdf_data_logger_log_core_dev
<1>3. x \in ThreadType /\ Loaded(x)
  BY <1>1, <1>2, Zenon DEF ThreadType, Loaded
<1>4. /\ th' = [th EXCEPT ![t] = x]
      /\ UNCHANGED <<buf, block_size, logged>>
  BY Zenon DEF tdf_data_logger_log_core_dev, shared, history
<1> HIDE DEF x
<1>5. ThreadsOK' /\ th'[Iface] = IF t = Iface THEN x ELSE th[Iface]
  BY <1>1, <1>3, <1>4, OneThread, Zenon DEF IInv
<1>6. SizesAgree'
  BY <1>1, <1>2, <1>4, <1>5, SizesKept, SMTT(30) DEF IInv
<1> QED
  BY <1>4, <1>5, <1>6 DEF IInv, BufferOK

\* Taking the lock to log keeps the invariant.
LEMMA LogLockKeeps ==
  ASSUME IInv, NEW t \in Threads, LogLock(t)
  PROVE  IInv'
<1> DEFINE n == Len(logged)
           data == [k \in 1 .. th[t].req.num |-> n + k]
           r == [th[t].req EXCEPT !.data = data]
           x == [th[t] EXCEPT !.pc = "relog", !.req = r]
<1>1. th[t] \in ThreadType /\ th[t].pc = "log" /\ th[t].req \in RequestType /\ n \in Nat
  BY SMTT(30) DEF IInv, ThreadsOK, ThreadType, LogLock
<1>2. th[t].req.num \in Nat
  BY <1>1, SMTT(30) DEF RequestType
<1>3. data \in Seq(Int) /\ Len(data) = th[t].req.num
  BY <1>1, <1>2
<1>4. /\ th' = [th EXCEPT ![t] = x] /\ logged' = logged \o Samples(r)
      /\ UNCHANGED <<buf, block_size>>
  BY Zenon DEF LogLock
<1> HIDE DEF data
<1>5. r \in RequestType /\ Len(r.data) = r.num
  BY <1>1, <1>3, Zenon DEF RequestType
<1> HIDE DEF r
<1>6. x \in ThreadType /\ Loaded(x)
  BY <1>1, <1>5, Zenon DEF ThreadType, Loaded
<1> HIDE DEF x
<1>7. ThreadsOK' /\ th'[Iface] = IF t = Iface THEN x ELSE th[Iface]
  BY <1>4, <1>6, OneThread, ZenonT(40) DEF IInv
<1>8. SizesAgree'
  BY <1>1, <1>4, <1>7, SizesKept, Zenon DEF IInv
<1>9. Samples(r) \in Seq(SampleType)
  <2>1. r.num \in Nat /\ r.data \in Seq(Int) /\ r.time \in Int /\ r.idx_period \in Int
    BY <1>5, SMTT(30) DEF RequestType
  <2> DEFINE s(k) ==
        [sample |-> r.data[k],
         time |-> IF r.time = 0 \/ (r.format = "IDX_ARRAY" /\ k > 1) THEN 0
                  ELSE r.time + (IF r.format = "IDX_ARRAY" THEN 0 ELSE (k - 1) * r.idx_period),
         idx |-> IF r.format = "IDX_ARRAY" THEN (r.idx_period + k - 1) % UINT16_COUNT ELSE -1]
  <2>2. \A k \in 1 .. r.num : s(k) \in SampleType
    <3> SUFFICES ASSUME NEW k \in 1 .. r.num PROVE s(k) \in SampleType
      BY SMTT(30)
    <3>1. r.data[k] \in Int /\ (k - 1) * r.idx_period \in Int
      BY <1>5, <2>1, SMTT(30)
    <3>2. (r.idx_period + k - 1) % UINT16_COUNT \in Int
      BY <2>1, SMT, SMTT(30) DEF UINT16_COUNT
    <3> QED
      BY <2>1, <3>1, <3>2, SMTT(30) DEF SampleType
  <2>3. Samples(r) = [k \in 1 .. r.num |-> s(k)]
    BY SMTT(30) DEF Samples
  <2> HIDE DEF s
  <2> QED
    BY <2>1, <2>2, <2>3, SMTT(30)
<1>10. logged' \in Seq(SampleType)
  BY <1>4, <1>9, SMTT(30) DEF IInv
<1> QED
  BY <1>4, <1>7, <1>8, <1>10, SMTT(30) DEF IInv, BufferOK

\* One round of the relog loop: what is added fits, and what is left of the request
\* still has the samples it counts.
LEMMA RelogKeeps ==
  ASSUME IInv, NEW t \in Threads, log_locked(t)
  PROVE  IInv'
<1> DEFINE r == th[t].req
           add == tdf_add_core(buf, r)
           rest == Remainder(r, add.rc)
<1>1. th[t] \in ThreadType /\ th[t].pc = "relog" /\ r \in RequestType /\ Len(r.data) = r.num
  BY SMTT(30) DEF IInv, ThreadsOK, ThreadType, Loaded, log_locked
<1>2. /\ add.buf \in BufferType /\ add.buf.size = buf.size /\ add.buf.len <= buf.size
      /\ add.rc \in Int /\ add.rc <= r.num
  BY <1>1, AddFits, SizesAssumption, SMTT(30) DEF IInv, BufferOK, BufferType, UINT16_COUNT
<1>3. buf' = add.buf /\ UNCHANGED <<block_size, logged>>
  BY DEF log_locked
<1>4. \/ th' = th
      \/ th' = [th EXCEPT ![t] = [th[t] EXCEPT !.pc = "write", !.ret = "relog"]]
      \/ Finish(t)
      \/ add.rc > 0 /\ th' = [th EXCEPT ![t] = [th[t] EXCEPT !.req = rest]]
      \/ th' = [th EXCEPT ![t] = [th[t] EXCEPT !.pc = "write", !.ret = "done",
                                               !.req = NoRequest]]
  BY ZenonT(40) DEF log_locked
<1> HIDE DEF add
<1>5. ThreadsOK' /\ \E x \in ThreadType : th'[Iface] = IF t = Iface THEN x ELSE th[Iface]
  <2>1. CASE th' = th
    BY <1>1, <2>1 DEF IInv, ThreadsOK, Loaded
  <2>2. CASE th' = [th EXCEPT ![t] = [th[t] EXCEPT !.pc = "write", !.ret = "relog"]]
    <3> DEFINE x == [th[t] EXCEPT !.pc = "write", !.ret = "relog"]
    <3>1. x \in ThreadType /\ Loaded(x)
      BY <1>1, Zenon DEF ThreadType, Loaded
    <3> HIDE DEF x
    <3> QED
      BY <2>2, <3>1, OneThread, Zenon DEF IInv, x
  <2>3. CASE Finish(t)
    BY <2>3, FinishOK DEF IInv
  <2>4. CASE add.rc > 0 /\ th' = [th EXCEPT ![t] = [th[t] EXCEPT !.req = rest]]
    <3> DEFINE x == [th[t] EXCEPT !.req = rest]
    <3>1. rest \in RequestType /\ Len(rest.data) = rest.num
      BY <1>1, <1>2, <2>4, RemainderType, SMTT(30)
    <3> HIDE DEF rest
    <3>2. x \in ThreadType /\ Loaded(x)
      BY <1>1, <3>1, SMTT(30) DEF ThreadType, Loaded
    <3> HIDE DEF x
    <3> QED
      BY <2>4, <3>2, OneThread, ZenonT(40) DEF IInv, x
  <2>5. CASE th' = [th EXCEPT ![t] = [th[t] EXCEPT !.pc = "write", !.ret = "done",
                                                   !.req = NoRequest]]
    <3> DEFINE x == [th[t] EXCEPT !.pc = "write", !.ret = "done", !.req = NoRequest]
    <3>1. x \in ThreadType /\ Loaded(x)
      BY <1>1, IdleType, ZenonT(40) DEF ThreadType, Loaded
    <3> HIDE DEF x
    <3> QED
      BY <2>5, <3>1, OneThread, Zenon DEF IInv, x
  <2> QED
    BY <1>4, <2>1, <2>2, <2>3, <2>4, <2>5, SMTT(30)
<1>6. SizesAgree'
  BY <1>1, <1>2, <1>3, <1>5, SizesKept, SMTT(30) DEF IInv
<1>7. BufferOK'
  BY <1>2, <1>3, SMTT(30) DEF IInv, BufferOK
<1> QED
  BY <1>3, <1>5, <1>6, <1>7, SMTT(30) DEF IInv

\* A call to flush keeps the invariant.
LEMMA FlushCallKeeps ==
  ASSUME IInv, NEW t \in Flushers, tdf_data_logger_flush_dev(t)
  PROVE  IInv'
<1> DEFINE x == [th[t] EXCEPT !.pc = "flush"]
<1>1. t \in Threads
  BY DEF Threads
<1>2. th[t] \in ThreadType /\ th[t].pc = "idle"
  BY <1>1 DEF IInv, ThreadsOK, tdf_data_logger_flush_dev
<1>3. x \in ThreadType /\ Loaded(x)
  BY <1>2, SMTT(30) DEF ThreadType, Loaded
<1>4. th' = [th EXCEPT ![t] = x] /\ UNCHANGED <<buf, block_size, logged>>
  BY DEF tdf_data_logger_flush_dev, shared, history
<1> HIDE DEF x
<1>5. ThreadsOK' /\ th'[Iface] = IF t = Iface THEN x ELSE th[Iface]
  BY <1>1, <1>3, <1>4, OneThread, ZenonT(40) DEF IInv
<1>6. SizesAgree'
  BY <1>1, <1>2, <1>4, <1>5, SizesKept, SMTT(30) DEF IInv
<1> QED
  BY <1>4, <1>5, <1>6 DEF IInv, BufferOK

\* Taking the lock to flush keeps the invariant.
LEMMA FlushLockKeeps ==
  ASSUME IInv, NEW t \in Threads, FlushLock(t)
  PROVE  IInv'
<1> DEFINE x == [th[t] EXCEPT !.pc = "write", !.ret = "done"]
<1>1. th[t] \in ThreadType /\ th[t].pc = "flush"
  BY DEF IInv, ThreadsOK, FlushLock
<1>2. x \in ThreadType /\ Loaded(x)
  BY <1>1, Zenon DEF ThreadType, Loaded
<1>3. th' = [th EXCEPT ![t] = x] /\ UNCHANGED <<buf, block_size, logged>>
  BY Zenon DEF FlushLock, history
<1> HIDE DEF x
<1>4. ThreadsOK' /\ th'[Iface] = IF t = Iface THEN x ELSE th[Iface]
  BY <1>2, <1>3, OneThread, ZenonT(40) DEF IInv
<1>5. SizesAgree'
  BY <1>1, <1>3, <1>4, SizesKept, SMTT(30) DEF IInv
<1> QED
  BY <1>3, <1>4, <1>5, SMTT(30) DEF IInv, BufferOK

\* Handing the block to the data logger keeps the invariant.
LEMMA FlushWriteKeeps ==
  ASSUME IInv, NEW t \in Threads, FlushWrite(t)
  PROVE  IInv'
<1>1. th[t] \in ThreadType /\ th[t].pc = "write" /\ Loaded(th[t])
  BY DEF IInv, ThreadsOK, FlushWrite
<1>2. PICK rc \in Int : th' = [th EXCEPT ![t] = [th[t] EXCEPT !.pc = "reset", !.rc = rc]]
  <2>1. \E c : th' = [th EXCEPT ![t].pc = "reset", ![t].rc = IF c = "OK" THEN 0 ELSE -1]
    BY Zenon DEF FlushWrite
  <2>2. PICK c : th' = [th EXCEPT ![t].pc = "reset", ![t].rc = IF c = "OK" THEN 0 ELSE -1]
    BY <2>1, Zenon
  <2>3. th' = [th EXCEPT ![t] = [th[t] EXCEPT !.pc = "reset",
                                              !.rc = IF c = "OK" THEN 0 ELSE -1]]
    BY <2>2, Zenon
  <2>4. (IF c = "OK" THEN 0 ELSE -1) \in Int
    BY SMTT(30)
  <2> QED
    BY <2>3, <2>4, Zenon
<1> DEFINE x == [th[t] EXCEPT !.pc = "reset", !.rc = rc]
<1>3. x \in ThreadType /\ Loaded(x)
  BY <1>1, Zenon DEF ThreadType, Loaded
<1>4. UNCHANGED <<buf, block_size, logged>>
  BY SMTT(30) DEF FlushWrite, shared
<1>5. th' = [th EXCEPT ![t] = x]
  BY <1>2, SMTT(30)
<1> HIDE DEF x
<1>6. ThreadsOK' /\ th'[Iface] = IF t = Iface THEN x ELSE th[Iface]
  BY <1>3, <1>5, OneThread, ZenonT(40) DEF IInv
<1>7. SizesAgree'
  BY <1>1, <1>4, <1>6, SizesKept, SMTT(30) DEF IInv
<1> QED
  BY <1>4, <1>6, <1>7 DEF IInv, BufferOK

\* A reset buffer is an empty one of the same size.
LEMMA ResetType ==
  ASSUME NEW b \in BufferType
  PROVE  /\ tdf_buffer_state_reset(b) \in BufferType
         /\ tdf_buffer_state_reset(b).size = b.size
         /\ tdf_buffer_state_reset(b).len = 0
<1>1. b \in [size : Nat, len : Nat, time : Int, tdfs : Seq(TdfType)] /\ << >> \in Seq(TdfType)
  BY DEF BufferType
<1> DEFINE none == << >>
           zero == 0
<1>2. tdf_buffer_state_reset(b) = [b EXCEPT !.len = zero, !.time = zero, !.tdfs = none]
  BY DEF tdf_buffer_state_reset
<1>3. none \in Seq(TdfType) /\ zero \in Nat /\ zero \in Int
  BY <1>1, SMTT(30)
<1> HIDE DEF none, zero
<1>4. /\ tdf_buffer_state_reset(b) \in BufferType
      /\ tdf_buffer_state_reset(b).size = b.size
      /\ tdf_buffer_state_reset(b).len = zero
  BY <1>1, <1>2, <1>3, ZenonT(40) DEF BufferType
<1> QED
  BY <1>4, Zenon DEF zero

\* Resetting the buffer after a flush keeps the invariant.
LEMMA FlushResetKeeps ==
  ASSUME IInv, NEW t \in Threads, FlushReset(t)
  PROVE  IInv'
<1> DEFINE x == [th[t] EXCEPT !.pc = "relog", !.ret = "none"]
<1>1. th[t] \in ThreadType /\ th[t].pc = "reset" /\ Loaded(th[t])
  BY SMTT(30) DEF IInv, ThreadsOK, FlushReset
<1>2. buf' = tdf_buffer_state_reset(buf) /\ UNCHANGED <<block_size, logged>>
  BY SMTT(30) DEF FlushReset
<1>3. BufferOK' /\ buf'.size = buf.size
  BY <1>2, ResetType, SMTT(30) DEF IInv, BufferOK, BufferType
<1>4. ThreadsOK' /\ \E y \in ThreadType : th'[Iface] = IF t = Iface THEN y ELSE th[Iface]
  <2>1. CASE th[t].ret = "relog" /\ th[t].rc = 0
    <3>1. th' = [th EXCEPT ![t] = x]
      BY <2>1, ZenonT(40) DEF FlushReset
    <3>2. x \in ThreadType /\ Loaded(x)
      BY <1>1, <2>1, Zenon DEF ThreadType, Loaded
    <3> HIDE DEF x
    <3> QED
      BY <3>1, <3>2, OneThread, Zenon DEF IInv
  <2>2. CASE ~(th[t].ret = "relog" /\ th[t].rc = 0)
    <3>1. Finish(t)
      BY <2>2, SMTT(30) DEF FlushReset
    <3> QED
      BY <3>1, FinishOK, SMTT(30) DEF IInv
  <2> QED
    BY <2>1, <2>2
<1>5. SizesAgree'
  BY <1>1, <1>2, <1>3, <1>4, SizesKept, SMTT(30) DEF IInv
<1> QED
  BY <1>2, <1>3, <1>4, <1>5, SMTT(30) DEF IInv

\* A change of the block size below keeps the invariant.
LEMMA SizeChangeKeeps ==
  ASSUME IInv, NEW size \in PayloadSizes, data_logger_common_block_size_changed(size)
  PROVE  IInv'
<1> DEFINE x == [th[Iface] EXCEPT !.pc = "update"]
<1>1. Iface \in Threads
  BY DEF Threads
<1>2. th[Iface] \in ThreadType
  BY <1>1, SMTT(30) DEF IInv, ThreadsOK
<1>3. x \in ThreadType /\ Loaded(x) /\ x.pc = "update"
  BY <1>2, SMTT(30) DEF ThreadType, Loaded
<1>4. /\ th' = [th EXCEPT ![Iface] = x] /\ block_size' = size /\ UNCHANGED <<buf, logged>>
  BY DEF data_logger_common_block_size_changed, history
<1> HIDE DEF x
<1>5. ThreadsOK' /\ th'[Iface] = x
  BY <1>1, <1>3, <1>4, OneThread, Zenon DEF IInv
<1>6. SizesAgree' /\ block_size' \in Nat
  BY <1>3, <1>4, <1>5, SizesAssumption DEF SizesAgree
<1> QED
  BY <1>4, <1>5, <1>6, SMTT(30) DEF IInv, BufferOK

\* The buffer takes the new size under the lock, emptied first if it is too full.
LEMMA SizeUpdateKeeps ==
  ASSUME IInv, tdf_block_size_update
  PROVE  IInv'
<1> DEFINE limited == AtMost(block_size, MaxSize)
           fits == block_size = 0 \/ buf.len <= limited
           size == IF fits /\ block_size = 0 THEN MaxSize ELSE limited
           x == [th[Iface] EXCEPT !.pc = "parse", !.snap = buf.tdfs, !.end = buf.len,
                                  !.time = 0]
<1>1. Iface \in Threads
  BY DEF Threads
<1>2. /\ th[Iface] \in ThreadType /\ th[Iface].pc = "update"
      /\ buf.len \in Nat /\ buf.size \in Nat /\ buf.tdfs \in Seq(TdfType)
  BY <1>1, SMTT(30) DEF IInv, ThreadsOK, BufferOK, BufferType, tdf_block_size_update
<1>3. /\ limited \in Nat /\ limited <= block_size /\ limited <= MaxSize
      /\ MaxSize \in Nat /\ block_size \in Nat
  BY SizesAssumption DEF IInv, AtMost
<1>4. UNCHANGED <<block_size, logged>>
  BY SMTT(30) DEF tdf_block_size_update, history
<1>5. CASE fits
  <2>1. buf' = [buf EXCEPT !.size = size] /\ th' = [th EXCEPT ![Iface] = Idle]
    BY <1>5, SMTT(30) DEF tdf_block_size_update
  <2>2. /\ size \in Nat /\ size <= MaxSize /\ buf.len <= size
        /\ block_size # 0 => size <= block_size
    BY <1>2, <1>3, <1>5 DEF IInv, BufferOK
  <2> HIDE DEF size, limited
  <2>3. BufferOK' /\ buf'.size = size
    BY <2>1, <2>2, SMTT(30) DEF IInv, BufferOK, BufferType
  <2>4. ThreadsOK'
    BY <1>1, <2>1, IdleType, OneThread, Zenon DEF IInv
  <2>5. SizesAgree'
    BY <1>4, <2>2, <2>3, SMTT(30) DEF SizesAgree
  <2> QED
    BY <1>3, <1>4, <2>3, <2>4, <2>5 DEF IInv
<1>6. CASE ~fits
  <2>1. /\ buf' = tdf_buffer_state_reset([buf EXCEPT !.size = limited])
        /\ th' = [th EXCEPT ![Iface] = x]
    BY <1>6, ZenonT(40) DEF tdf_block_size_update
  <2> HIDE DEF limited
  <2> DEFINE b == [buf EXCEPT !.size = limited]
  <2>2. b \in BufferType /\ b.size = limited
    BY <1>3, SMTT(30) DEF IInv, BufferOK, BufferType
  <2> HIDE DEF b
  <2>3. buf' \in BufferType /\ buf'.size = limited /\ buf'.len = 0
    BY <2>1, <2>2, ResetType, Zenon DEF b
  <2>4. BufferOK'
    BY <1>3, <2>3 DEF BufferOK
  <2>5. x \in ThreadType /\ Loaded(x)
    <3> DEFINE zero == 0
               y == [th[Iface] EXCEPT !.pc = "parse", !.snap = buf.tdfs, !.end = buf.len,
                                      !.time = zero]
    <3>1. zero \in Int /\ buf.len \in Int
      BY <1>2
    <3>2. x = y
      OBVIOUS
    <3> HIDE DEF zero, x
    <3>3. y \in ThreadType /\ y.pc = "parse"
      BY <1>2, <3>1, ZenonT(40) DEF ThreadType
    <3> HIDE DEF y
    <3> QED
      BY <3>2, <3>3 DEF Loaded
  <2> HIDE DEF x
  <2>6. ThreadsOK'
    BY <1>1, <2>1, <2>5, OneThread, ZenonT(40) DEF IInv
  <2>7. SizesAgree'
    BY <1>3, <1>4, <2>3, SMTT(30) DEF SizesAgree
  <2> QED
    BY <1>3, <1>4, <2>4, <2>6, <2>7 DEF IInv
<1> QED
  BY <1>5, <1>6

\* The next TDF of the block size change is a request that can be logged.
LEMMA RelogNextKeeps ==
  ASSUME IInv, RelogNext
  PROVE  IInv'
<1> DEFINE t == th[Iface]
           head == Head(t.snap)
           time == ParsedTime(head, t.time)
           req == tdf_parse(head, t.time)
           x == [t EXCEPT !.pc = "relog", !.snap = Tail(t.snap), !.time = time, !.req = req]
<1>1. Iface \in Threads
  BY DEF Threads
<1>2. t \in ThreadType /\ t.pc = "parse" /\ t.snap \in Seq(TdfType) /\ t.time \in Int
  BY <1>1, SMTT(30) DEF IInv, ThreadsOK, ThreadType, RelogNext
<1>3. UNCHANGED <<buf, block_size, logged>>
  BY SMTT(30) DEF RelogNext
<1>4. ThreadsOK' /\ \E y \in ThreadType : th'[Iface] = y
  <2>1. CASE t.snap = << >> \/ time = -1
    <3>1. th' = [th EXCEPT ![Iface] = Idle]
      BY <2>1, SMTT(30) DEF RelogNext
    <3> QED
      BY <1>1, <3>1, IdleType, OneThread, ZenonT(40) DEF IInv
  <2>2. CASE ~(t.snap = << >> \/ time = -1)
    <3>1. th' = [th EXCEPT ![Iface] = x]
      BY <2>2, ZenonT(40) DEF RelogNext
    <3>2. head \in TdfType /\ Tail(t.snap) \in Seq(TdfType)
      BY <1>2, <2>2, SMTT(30)
    <3>3. time \in Int /\ req \in RequestType /\ Len(req.data) = req.num
      BY <1>2, <3>2, ParseType, SMTT(30)
    <3> HIDE DEF head, time, req
    <3>4. x \in ThreadType /\ Loaded(x)
      BY <1>2, <3>2, <3>3, Zenon DEF ThreadType, Loaded
    <3> HIDE DEF x
    <3> QED
      BY <1>1, <3>1, <3>4, OneThread, Zenon DEF IInv
  <2> QED
    BY <2>1, <2>2, SMTT(30)
<1>5. SizesAgree'
  BY <1>1, <1>2, <1>3, <1>4, SizesKept, SMTT(30) DEF IInv
<1> QED
  BY <1>3, <1>4, <1>5, SMTT(30) DEF IInv, BufferOK

\* A reboot keeps or empties the buffer, and takes the interface down.
LEMMA RebootKeeps ==
  ASSUME IInv, NEW warm \in BOOLEAN, Reboot(warm)
  PROVE  IInv'
<1>1. PICK b \in {buf, tdf_buffer_state_reset(buf)} : buf' = [b EXCEPT !.size = MaxSize]
  BY SMTT(30) DEF Reboot
<1>2. b \in BufferType /\ b.len <= MaxSize /\ MaxSize \in Nat
  BY ResetType, SizesAssumption, SMTT(30) DEF IInv, BufferOK, BufferType
<1>3. BufferOK'
  BY <1>1, <1>2 DEF BufferOK, BufferType
<1>4. block_size' = 0 /\ logged' = logged /\ th' = [t \in Threads |-> Idle]
  BY SMTT(30) DEF Reboot
<1>5. ThreadsOK'
  BY <1>4, IdleType DEF ThreadsOK
<1> QED
  BY <1>3, <1>4, <1>5 DEF IInv, SizesAgree

\* The invariant is inductive: the buffer fits, has the size of the block but for a
\* change in progress, and every request in the relog loop has its samples.
THEOREM TdfLoggerInvariant == ASSUME PlainRequests PROVE Spec => []IInv
<1>1. Init => IInv
  <2> SUFFICES ASSUME Init PROVE IInv
    BY SMTT(30)
  <2>1. BufferOK
    BY SizesAssumption, SMTT(30) DEF Init, BufferOK, BufferType
  <2>2. ThreadsOK
    BY IdleType, SMTT(30) DEF Init, ThreadsOK
  <2> QED
    BY <2>1, <2>2 DEF Init, IInv, SizesAgree
<1>2. IInv /\ [Next]_vars => IInv'
  <2> SUFFICES ASSUME IInv, [Next]_vars PROVE IInv'
    OBVIOUS
  <2>1. \A t \in Loggers \cup Flushers : t \in Threads
    BY DEF Threads
  <2>2. Iface \in Threads
    BY SMTT(30) DEF Threads
  <2>3. ASSUME NEW t \in Threads, Holding(t) PROVE IInv'
    BY <2>3, RelogKeeps, FlushWriteKeeps, FlushResetKeeps DEF Holding
  <2>4. CASE \E t \in Loggers : \E r \in Requests : tdf_data_logger_log_core_dev(t, r)
    BY <2>4, LogCallKeeps, SMTT(30)
  <2>5. CASE \E t \in Flushers : tdf_data_logger_flush_dev(t)
    BY <2>5, FlushCallKeeps
  <2>6. CASE \E t \in Loggers \cup Flushers : ThreadStep(t)
    BY <2>1, <2>3, <2>6, LogLockKeeps, FlushLockKeeps, SMTT(30) DEF ThreadStep
  <2>7. CASE \E size \in PayloadSizes : data_logger_common_block_size_changed(size)
    BY <2>7, SizeChangeKeeps
  <2>8. CASE IfaceStep
    BY <2>2, <2>3, <2>8, SizeUpdateKeeps, RelogNextKeeps, SMTT(30) DEF IfaceStep
  <2>9. CASE \E warm \in BOOLEAN : Reboot(warm)
    BY <2>9, RebootKeeps, SMTT(30)
  <2>10. CASE UNCHANGED vars
    BY <2>10 DEF vars, shared, history, IInv, BufferOK, ThreadsOK, Loaded, SizesAgree
  <2> QED
    BY <2>4, <2>5, <2>6, <2>7, <2>8, <2>9, <2>10, SMTT(30) DEF Next
<1> QED
  BY <1>1, <1>2, PTL DEF Spec

\* The buffer of the TDF logger never outgrows its block (tdf_add_core, log_locked,
\* tdf_block_size_update, tdf_data_logger_init).
THEOREM BufferAlwaysFits == ASSUME PlainRequests PROVE Spec => []BufferFits
<1>1. IInv => BufferFits
  BY DEF IInv, BufferOK, BufferFits
<1> QED
  BY <1>1, TdfLoggerInvariant, PTL

\* A flush is refused for its size only while a block size change waits for the lock
\* (flush_internal, data_logger_common_block_size_changed).
THEOREM RefusedOnlyInWindow == ASSUME PlainRequests PROVE Spec => []OversizeOnlyInWindow
<1>1. IInv => OversizeOnlyInWindow
  <2> SUFFICES ASSUME IInv, block_size # 0, th[Iface].pc # "update"
               PROVE  ~(buf.len > block_size)
    BY DEF OversizeOnlyInWindow
  <2> QED
    BY SMTT(30) DEF IInv, SizesAgree, BufferOK, BufferType
<1> QED
  BY <1>1, TdfLoggerInvariant, PTL

-----------------------------------------------------------------------------
(***************************************************************************)
(* The relog loop gets on: blocks are larger than the headers of an array. *)
(***************************************************************************)
HEADERS == SIZEOF_TDF_HEADER + SIZEOF_TDF_TIME + SIZEOF_ARRAY_HEADER

\* A block of the interface, when it is up, and the buffer have room for the
\* headers of an array and some data.
RoomForHeaders ==
  /\ MaxSize > HEADERS
  /\ \A size \in PayloadSizes : size = 0 \/ size > HEADERS

\* The stamp of a request that has no time is empty, any other has at most
\* SIZEOF_TDF_TIME bytes.
LEMMA StampSize ==
  ASSUME NEW time \in Int, NEW last \in Int
  PROVE  TimeHeader(time, last).size <= IF time # 0 THEN SIZEOF_TDF_TIME ELSE 0
BY SMTT(30) DEF TimeHeader, SIZEOF_TDF_TIME

\* A quotient that is zero has a dividend below its divisor.
LEMMA QuotientZero ==
  ASSUME NEW x \in Nat, NEW d \in Nat, d > 0, x \div d = 0
  PROVE  x < d
OBVIOUS

\* CanFit finds no sample that fits only if there is no room for one: in the
\* payload space, nor, but in an index array, in that and the array header.
LEMMA CanFitNone ==
  ASSUME NEW r \in RequestType, r.len # 0, NEW is_diff \in BOOLEAN,
         NEW num \in Nat, 0 < num, NEW space \in Nat, 0 < space,
         is_diff => /\ 1 < num /\ r.format \in DiffFormats
                    /\ r.len % tdf_diff_divisor[r.format] = 0,
         CanFit(r, is_diff, num, space) = 0
  PROVE  /\ space < r.len
         /\ 1 < num /\ r.format # "IDX_ARRAY" => space + SIZEOF_ARRAY_HEADER < r.len
<1> DEFINE d == (r.len \div tdf_diff_divisor[r.format]) * tdf_diff_size[r.format]
           fit == IF ~is_diff THEN space \div r.len
                  ELSE IF space >= r.len THEN 1 + (space - r.len) \div d ELSE 0
           more == (space + SIZEOF_ARRAY_HEADER) \div r.len
           array == 1 < num /\ r.format # "IDX_ARRAY"
<1>1. r.len \in Nat /\ r.len > 0
  BY SMTT(30) DEF RequestType
<1>2. /\ ~(DataSize(r, is_diff, num) <= space)
      /\ IF fit = 0 /\ array THEN more = 0 ELSE fit = 0
  BY SMTT(30) DEF CanFit
<1>3. fit = 0
  BY <1>2, Zenon
<1>4. space < r.len
  <2>1. CASE ~is_diff
    BY <1>1, <1>3, <2>1, QuotientZero, SMTT(30)
  <2>2. CASE is_diff
    <3>1. d \in Nat /\ d > 0
      BY <1>1, <2>2, DiffSize, SMTT(30)
    <3> HIDE DEF d
    <3>2. ASSUME space >= r.len PROVE FALSE
      <4>1. space - r.len \in Nat
        BY <1>1, <3>2, SMTT(30)
      <4>2. (space - r.len) \div d \in Nat
        BY <3>1, <4>1, Quotient, Zenon
      <4> QED
        BY <1>3, <2>2, <3>2, <4>2, SMTT(30)
    <3> QED
      BY <1>1, <3>2, SMTT(30)
  <2> QED
    BY <2>1, <2>2
<1>5. ASSUME array PROVE space + SIZEOF_ARRAY_HEADER < r.len
  <2>1. more = 0
    BY <1>2, <1>3, <1>5, Zenon
  <2>2. space + SIZEOF_ARRAY_HEADER \in Nat
    BY SMTT(30) DEF SIZEOF_ARRAY_HEADER
  <2> QED
    BY <1>1, <2>1, <2>2, QuotientZero, Zenon
<1> QED
  BY <1>4, <1>5, Zenon

\* tdf_add_core finds no room in an empty buffer that is larger than the headers
\* only for an index array of which one sample does not fit.
LEMMA EmptyHasRoom ==
  ASSUME NEW b \in BufferType, b.len = 0, b.size < UINT16_COUNT, b.size > HEADERS,
         NEW r \in RequestType, tdf_add_core(b, r).rc = ENOMEM
  PROVE  /\ r.format = "IDX_ARRAY"
         /\ SIZEOF_TDF_HEADER + (IF r.time # 0 THEN SIZEOF_TDF_TIME ELSE 0)
              + SIZEOF_ARRAY_HEADER + r.len > b.size
<1> DEFINE stamp == TimeHeader(r.time, b.time)
           most == IF r.time # 0 THEN SIZEOF_TDF_TIME ELSE 0
           is_idx == r.format = "IDX_ARRAY"
           check == tdf_input_validate(r, SIZEOF_TDF_HEADER + most + r.len, b.size)
           plan == DiffPlan(r)
           total_header == SIZEOF_TDF_HEADER + stamp.size
                           + (IF plan.num > 1 \/ is_idx THEN SIZEOF_ARRAY_HEADER ELSE 0)
           remaining == tailroom(b)
           num == CanFit(r, plan.is_diff, plan.num, remaining - total_header)
           refused == r.format \in DiffFormats /\ r.len % tdf_diff_divisor[r.format] # 0
<1>1. /\ check < 0 => tdf_add_core(b, r).rc = check
      /\ ~(check < 0) /\ refused => tdf_add_core(b, r).rc = EINVAL
      /\ ~(check < 0) /\ ~refused /\ ~(remaining <= total_header) /\ num # 0
           => tdf_add_core(b, r).rc = num
  BY ZenonT(40) DEF tdf_add_core
<1> HIDE DEF stamp, is_idx, check, plan, total_header, remaining, num, refused, most
<1>2. /\ r.len \in Nat /\ r.num \in Nat /\ r.time \in Int
      /\ b.size \in Nat /\ b.time \in Int
  BY SMTT(30) DEF RequestType, BufferType
<1>3. most \in {0, 6} /\ stamp.size \in {0, 2, 3, 6} /\ stamp.size <= most
  <2>1. most \in {0, 6}
    BY SMTT(30) DEF most, SIZEOF_TDF_TIME
  <2>2. stamp.size \in {0, 2, 3, 6}
    BY <1>2, TimeHeaderType, Zenon DEF stamp
  <2>3. stamp.size <= most
    BY <1>2, StampSize, Zenon DEF stamp, most
  <2> QED
    BY <2>1, <2>2, <2>3, Zenon
<1>4. /\ check \in {0, EINVAL, ENOSPC}
      /\ check = 0 => r.len # 0 /\ r.num # 0 /\ 3 + most + r.len <= b.size
  BY <1>2, <1>3, SMTT(30) DEF check, tdf_input_validate, EINVAL, ENOSPC, SIZEOF_TDF_HEADER
<1>5. check = 0 /\ ~refused
  BY <1>1, <1>4, SMTT(30) DEF EINVAL, ENOSPC, ENOMEM
<1>6. /\ plan.num \in Nat /\ 0 < plan.num /\ plan.is_diff \in BOOLEAN
      /\ plan.is_diff => r.format \in DiffFormats /\ 1 < plan.num
  BY <1>4, <1>5, PlanInArray, SMTT(30) DEF plan
<1>7. remaining = b.size
  <2>1. b.size - b.len = b.size /\ UINT16_COUNT \in Nat
    BY <1>2, SMTT(30) DEF UINT16_COUNT
  <2> QED
    BY <1>2, <2>1, SmallModulo, SMTT(30) DEF remaining, tailroom
<1> DEFINE reserved == IF plan.num > 1 \/ is_idx THEN 3 ELSE 0
           space == b.size - total_header
<1>8. total_header = 3 + stamp.size + reserved /\ reserved \in {0, 3}
  BY SMTT(30) DEF total_header, SIZEOF_TDF_HEADER, SIZEOF_ARRAY_HEADER
<1>9. b.size > 12
  BY SMTT(30) DEF HEADERS, SIZEOF_TDF_HEADER, SIZEOF_TDF_TIME, SIZEOF_ARRAY_HEADER
<1>10. space \in Nat /\ 0 < space /\ ~(remaining <= total_header)
  BY <1>2, <1>3, <1>7, <1>8, <1>9, SMTT(30)
<1>11. num = 0
  <2>1. num \in Nat
    <3>1. num = CanFit(r, plan.is_diff, plan.num, space)
      BY <1>7, Zenon DEF num
    <3>2. plan.is_diff => r.len % tdf_diff_divisor[r.format] = 0
      BY <1>5, <1>6, Zenon DEF refused
    <3> HIDE DEF space
    <3> QED
      BY <1>4, <1>5, <1>6, <1>10, <3>1, <3>2, CanFitFits, Zenon
  <2> QED
    BY <1>1, <1>5, <1>10, <2>1, SMTT(30) DEF ENOMEM
<1>12. /\ space < r.len
       /\ 1 < plan.num /\ ~is_idx => space + 3 < r.len
  <2>1. CanFit(r, plan.is_diff, plan.num, space) = 0
    BY <1>7, <1>11, Zenon DEF num
  <2>2. plan.is_diff => r.len % tdf_diff_divisor[r.format] = 0
    BY <1>5, <1>6, Zenon DEF refused
  <2> HIDE DEF space
  <2>3. /\ space < r.len
        /\ 1 < plan.num /\ r.format # "IDX_ARRAY" => space + SIZEOF_ARRAY_HEADER < r.len
    BY <1>4, <1>5, <1>6, <1>10, <2>1, <2>2, CanFitNone, Zenon
  <2> QED
    BY <2>3, SMTT(30) DEF SIZEOF_ARRAY_HEADER, is_idx
<1>13. 3 + most + r.len <= b.size
  BY <1>4, <1>5, Zenon
<1>14. is_idx
  <2> SUFFICES ASSUME ~is_idx PROVE FALSE
    OBVIOUS
  <2>1. CASE plan.num > 1
    <3>1. space + 3 < r.len /\ reserved = 3
      BY <1>6, <1>12, <2>1, SMTT(30)
    <3> QED
      BY <1>2, <1>3, <1>8, <1>13, <3>1, SMTT(30)
  <2>2. CASE ~(plan.num > 1)
    <3>1. reserved = 0
      BY <2>2, SMTT(30)
    <3> QED
      BY <1>2, <1>3, <1>8, <1>12, <1>13, <3>1, SMTT(30)
  <2> QED
    BY <2>1, <2>2
<1>15. 3 + most + 3 + r.len > b.size
  BY <1>2, <1>3, <1>8, <1>12, SMTT(30)
<1> QED
  BY <1>14, <1>15, SMTT(30) DEF is_idx, most, SIZEOF_TDF_HEADER, SIZEOF_ARRAY_HEADER

\* No block size below the headers reaches the buffer.
SizesLarge == buf.size > HEADERS /\ (block_size = 0 \/ block_size > HEADERS)

\* Sizes come from the interface, or are that of the buffer's memory.
LEMMA SizesLargeStep ==
  ASSUME PlainRequests, RoomForHeaders, IInv, SizesLarge, [Next]_vars
  PROVE  SizesLarge'
<1>1. MaxSize \in Nat /\ HEADERS \in Nat /\ buf \in BufferType /\ block_size \in Nat
  BY SizesAssumption, SMTT(30) DEF HEADERS, SIZEOF_TDF_HEADER, SIZEOF_TDF_TIME,
     SIZEOF_ARRAY_HEADER, IInv, BufferOK
<1>2. ASSUME buf'.size = buf.size, block_size' = block_size PROVE SizesLarge'
  BY <1>2, Zenon DEF SizesLarge
<1>3. ASSUME NEW t \in Threads, Holding(t) PROVE SizesLarge'
  <2>1. CASE log_locked(t)
    <3> DEFINE r == th[t].req
    <3>1. r \in RequestType /\ Len(r.data) = r.num
      BY <2>1, SMTT(30) DEF IInv, ThreadsOK, ThreadType, Loaded, log_locked
    <3>2. tdf_add_core(buf, r).buf.size = buf.size
      BY <3>1, AddFits, SizesAssumption, SMTT(30) DEF IInv, BufferOK, BufferType, UINT16_COUNT
    <3>3. buf' = tdf_add_core(buf, r).buf /\ block_size' = block_size
      BY <2>1, SMTT(30) DEF log_locked
    <3> QED
      BY <1>2, <3>2, <3>3, Zenon
  <2>2. CASE FlushWrite(t)
    BY <1>2, <2>2, SMTT(30) DEF FlushWrite, shared
  <2>3. CASE FlushReset(t)
    <3>1. buf' = tdf_buffer_state_reset(buf) /\ block_size' = block_size
      BY <2>3, SMTT(30) DEF FlushReset
    <3> QED
      BY <1>1, <1>2, <3>1, ResetType, Zenon
  <2> QED
    BY <1>3, <2>1, <2>2, <2>3, Zenon DEF Holding
<1>4. CASE tdf_block_size_update
  <2> DEFINE limited == AtMost(block_size, MaxSize)
             b == [buf EXCEPT !.size = limited]
  <2>1. MaxSize > HEADERS /\ (block_size # 0 => limited > HEADERS) /\ limited \in Nat
    BY <1>1, SMTT(30) DEF SizesLarge, RoomForHeaders, AtMost
  <2>2. block_size' = block_size
    BY <1>4, SMTT(30) DEF tdf_block_size_update
  <2>3. CASE block_size = 0 \/ buf.len <= limited
    <3>1. buf' = [buf EXCEPT !.size = IF block_size = 0 THEN MaxSize ELSE limited]
      BY <1>4, <2>3, SMTT(30) DEF tdf_block_size_update
    <3> HIDE DEF limited
    <3>2. buf'.size = IF block_size = 0 THEN MaxSize ELSE limited
      BY <1>1, <3>1, SMTT(30) DEF BufferType
    <3> QED
      BY <2>1, <2>2, <3>2, Zenon DEF SizesLarge
  <2>4. CASE ~(block_size = 0 \/ buf.len <= limited)
    <3>1. buf' = tdf_buffer_state_reset(b)
      BY <1>4, <2>4, SMTT(30) DEF tdf_block_size_update
    <3> HIDE DEF limited
    <3>2. b \in BufferType /\ b.size = limited
      BY <1>1, <2>1, SMTT(30) DEF BufferType
    <3> HIDE DEF b
    <3>3. buf'.size = limited
      BY <3>1, <3>2, ResetType, Zenon
    <3> QED
      BY <2>1, <2>2, <2>4, <3>3, Zenon DEF SizesLarge
  <2> QED
    BY <2>3, <2>4, Zenon
<1>5. ASSUME NEW size \in PayloadSizes, data_logger_common_block_size_changed(size) PROVE SizesLarge'
  <2>1. buf' = buf /\ block_size' = size
    BY <1>5, SMTT(30) DEF data_logger_common_block_size_changed
  <2> QED
    BY <2>1, Zenon DEF SizesLarge, RoomForHeaders
<1>6. ASSUME NEW warm \in BOOLEAN, Reboot(warm) PROVE SizesLarge'
  <2>1. PICK b \in {buf, tdf_buffer_state_reset(buf)} : buf' = [b EXCEPT !.size = MaxSize]
    BY <1>6, SMTT(30) DEF Reboot
  <2>2. b \in BufferType
    BY <1>1, <2>1, ResetType, SMTT(30)
  <2>3. buf'.size = MaxSize /\ block_size' = 0
    BY <1>6, <2>1, <2>2, SMTT(30) DEF BufferType, Reboot
  <2> QED
    BY <2>3, Zenon DEF SizesLarge, RoomForHeaders
<1>7. ASSUME UNCHANGED <<buf, block_size>> PROVE SizesLarge'
  BY <1>2, <1>7, SMTT(30)
<1>8. ASSUME NEW t \in Loggers, NEW r \in Requests, tdf_data_logger_log_core_dev(t, r) PROVE SizesLarge'
  BY <1>7, <1>8, SMTT(30) DEF tdf_data_logger_log_core_dev, shared
<1>9. ASSUME NEW t \in Flushers, tdf_data_logger_flush_dev(t) PROVE SizesLarge'
  BY <1>7, <1>9, SMTT(30) DEF tdf_data_logger_flush_dev, shared
<1>10. ASSUME NEW t \in Threads, ThreadStep(t) PROVE SizesLarge'
  <2>1. LogLock(t) \/ FlushLock(t) => UNCHANGED <<buf, block_size>>
    BY SMTT(30) DEF LogLock, FlushLock
  <2> QED
    BY <1>3, <1>7, <1>10, <2>1, Zenon DEF ThreadStep
<1>11. CASE IfaceStep
  <2>1. RelogNext => UNCHANGED <<buf, block_size>>
    BY SMTT(30) DEF RelogNext
  <2>2. Iface \in Threads
    BY DEF Threads
  <2> QED
    BY <1>3, <1>4, <1>7, <1>11, <2>1, <2>2, Zenon DEF IfaceStep
<1>12. CASE UNCHANGED vars
  BY <1>7, <1>12, Zenon DEF vars, shared
<1>13. \A t \in Loggers \cup Flushers : t \in Threads
  BY Zenon DEF Threads
<1> QED
  BY <1>5, <1>6, <1>8, <1>9, <1>10, <1>11, <1>12, <1>13, ZenonT(40) DEF Next

\* A round of the relog loop that finds no room in an empty buffer has an index
\* array in hand of which one sample fits without its array header only: with
\* blocks of any size above the headers, any threads, requests and reboots
\* (log_locked, tdf_add_core).  In a block that is no larger than the headers an
\* array of any kind would be such a case.
THEOREM RelogAlwaysProgresses ==
  ASSUME PlainRequests, RoomForHeaders
  PROVE  Spec => []RelogProgress
<1>1. Init => SizesLarge
  <2> SUFFICES ASSUME Init PROVE SizesLarge
    OBVIOUS
  <2>1. buf.size = MaxSize /\ block_size = 0
    BY SMTT(30) DEF Init
  <2> QED
    BY <2>1, Zenon DEF SizesLarge, RoomForHeaders
<1>2. IInv /\ SizesLarge /\ [Next]_vars => SizesLarge'
  BY SizesLargeStep, Zenon
<1>3. IInv /\ SizesLarge => RelogProgress
  <2> SUFFICES ASSUME IInv, SizesLarge, NEW t \in Threads, th[t].pc = "relog", buf.len = 0,
                      tdf_add_core(buf, th[t].req).rc = ENOMEM
               PROVE  /\ th[t].req.format = "IDX_ARRAY"
                      /\ SIZEOF_TDF_HEADER
                           + (IF th[t].req.time # 0 THEN SIZEOF_TDF_TIME ELSE 0)
                           + SIZEOF_ARRAY_HEADER + th[t].req.len > buf.size
    BY ZenonT(40) DEF RelogProgress
  <2>1. th[t].req \in RequestType /\ buf \in BufferType
    BY SMTT(30) DEF IInv, ThreadsOK, ThreadType, BufferOK
  <2>2. buf.size < UINT16_COUNT
    BY <2>1, SizesAssumption, SMTT(30) DEF IInv, BufferOK, BufferType, UINT16_COUNT
  <2> QED
    BY <2>1, <2>2, EmptyHasRoom, Zenon DEF SizesLarge
<1> QED
  BY <1>1, <1>2, <1>3, TdfLoggerInvariant, PTL DEF Spec

=============================================================================
