--------------------------- MODULE NumberArguments ---------------------------
(***************************************************************************)
(* What becomes of the numbers JavaScript passes: the byte range of test   *)
(* (src/re2.ts, GetText), batchSize (src/binary.ts, GetBatchSize) and the  *)
(* arguments of the scheduling diagnostics (batch-binding.cc).             *)
(*                                                                         *)
(* A finite double is counted in halves, so that 3 is one and a half; the  *)
(* sign of an infinity is that of its halves.  A result is a value or the  *)
(* name of the exception thrown.                                           *)
(***************************************************************************)
EXTENDS BatchPlan

CONSTANT kMaxSafeInteger

\* size_t has 64 bits on the platforms with a prebuild.
ASSUME SafeAssumption == kMaxSafeInteger \in Nat /\ kMaxSafeInteger <= SizeMax

Undefined == [type |-> "undefined", halves |-> 0]
Other == [type |-> "other", halves |-> 0]
NaN == [type |-> "nan", halves |-> 0]
Infinity == [type |-> "infinity", halves |-> 1]
Finite(halves) == [type |-> "finite", halves |-> halves]
Whole(n) == Finite(2 * n)

\* What JavaScript may pass: a finite double counted in halves, or one of the others.
Passed ==
    [type: {"undefined", "other", "nan"}, halves: {0}]
        \cup [type: {"infinity"}, halves: {-1, 1}]
        \cup [type: {"finite"}, halves: Int]

IsNumber(x) == x.type \in {"nan", "infinity", "finite"}

IsInteger(x) == x.type = "finite" /\ x.halves % 2 = 0

IsSafeInteger(x) ==
    /\ IsInteger(x)
    /\ -2 * kMaxSafeInteger <= x.halves /\ x.halves <= 2 * kMaxSafeInteger

Throw(exception) == [thrown |-> exception]
Value(n) == [thrown |-> "none", value |-> n]
Throws(result) == result.thrown # "none"

-----------------------------------------------------------------------------
(* The byte range of test.                                                 *)

\* n - x on doubles, for an x that is a number.
Minus(n, x) ==
    IF x.type = "finite" THEN Finite(2 * n - x.halves) ELSE [x EXCEPT !.halves = -@]

ClampedIndex(x, maximum) ==
    IF x.type = "nan" \/ x.halves <= 0 THEN 0
    ELSE IF x.type = "infinity" \/ x.halves >= 2 * maximum THEN maximum
    ELSE x.halves \div 2

\* Seeded fault: the length is clamped to the whole view.
LengthOfView(size, begin) == size

Remaining(size, begin) == size - begin

\* The bytes begin .. begin + size - 1 of a view of the given size.
GetText(size, byteOffset, byteLength) ==
    IF ~IsNumber(byteOffset) \/ ~IsNumber(byteLength) THEN Throw("TypeError")
    ELSE LET begin == ClampedIndex(byteOffset, size) IN
         Value([begin |-> begin,
                size |-> ClampedIndex(byteLength, Remaining(size, begin))])

\* Seeded fault: the default is filled in after the length was computed from it.
DefaultTooLate(byteOffset) == IF byteOffset = Undefined THEN NaN ELSE byteOffset

DefaultOffset(byteOffset) == IF byteOffset = Undefined THEN Whole(0) ELSE byteOffset

\* RE2.test and RE2Set.test.  A byteOffset that is not a number makes the
\* subtraction or GetText throw.
Test(size, byteOffset, byteLength) ==
    LET offset == DefaultOffset(byteOffset) IN
    IF ~IsNumber(offset) THEN Throw("TypeError")
    ELSE GetText(size, offset,
                 IF byteLength = Undefined THEN Minus(size, offset) ELSE byteLength)

-----------------------------------------------------------------------------
(* batchSize and the diagnostics.                                          *)

normalizeBatchSizeValue(x) ==
    IF x = Undefined THEN Value(Whole(0))
    ELSE IF x = Infinity THEN Value(x)
    ELSE IF ~IsNumber(x) THEN Throw("TypeError")
    ELSE IF ~IsSafeInteger(x) \/ x.halves <= 0 THEN Throw("RangeError")
    ELSE Value(x)

\* Seeded fault: Infinity is converted like no batch size at all.
InfinityIsAutomatic == 0

InfiniteBatch == SizeMax

GetBatchSize(x) ==
    IF x = Undefined THEN Value(0)
    ELSE IF ~IsNumber(x) THEN Throw("TypeError")
    ELSE IF x = Infinity THEN Value(InfiniteBatch)
    ELSE IF ~IsSafeInteger(x) \/ x.halves < 0 THEN Throw("RangeError")
    ELSE Value(x.halves \div 2)

\* The chunk size testMany plans with.
RequestedBatchSize(x) ==
    LET normalized == normalizeBatchSizeValue(x) IN
    IF Throws(normalized) THEN normalized ELSE GetBatchSize(normalized.value)

GetSizeArgument(x) ==
    IF ~IsNumber(x) THEN Throw("TypeError")
    ELSE IF ~IsSafeInteger(x) \/ x.halves < 0 THEN Throw("RangeError")
    ELSE Value(x.halves \div 2)

BatchParallelism(size, total_bytes, batch_size) ==
    MakeBatchPlan(size, total_bytes, batch_size).thread_count

\* batch_parallelism, whose arguments no JavaScript has normalized: the first
\* that is refused decides what is thrown.
BatchThreadCount(x, y, z) ==
    LET size == GetSizeArgument(x)
        total_bytes == GetSizeArgument(y)
        batch_size == GetBatchSize(z)
    IN  IF Throws(size) THEN size
        ELSE IF Throws(total_bytes) THEN total_bytes
        ELSE IF Throws(batch_size) THEN batch_size
        ELSE Value(BatchParallelism(size.value, total_bytes.value, batch_size.value))
=============================================================================
