---------------------------- MODULE ArgumentProofs ----------------------------
(***************************************************************************)
(* Theorems about the pure functions for every width of size_t, every      *)
(* machine, every size and every number JavaScript can pass.  The inputs   *)
(* of a state never change, so that each theorem is one about the          *)
(* functions, lifted to the specification by InputsAlways.                 *)
(***************************************************************************)
EXTENDS ArgumentInputs, ArgumentFacts

WellFormed ==
    /\ input \in [size : SizeT, total_bytes : SizeT, batch_size : SizeT]
    /\ call = NoCall \/ call \in Calls

LEMMA InputsAlways == ArgumentsSpec => []WellFormed
<1>1. ArgumentsInit => WellFormed
  BY PlanAssumption DEF ArgumentsInit, Init, NoInput, WellFormed, SizeT
<1>2. WellFormed /\ [UNCHANGED <<input, call>>]_<<input, call>> => WellFormed'
  BY DEF WellFormed, Calls
<1> QED
  BY <1>1, <1>2, PTL DEF ArgumentsSpec

-----------------------------------------------------------------------------
(* The plan of a batch.                                                    *)

\* For every width of size_t, every machine and every request, the chunks are a
\* partition of the inputs and nothing computed leaves size_t.
THEOREM ChunksCover == ArgumentsSpec => []PlanCovers
<1>1. WellFormed => PlanCovers
  <2> SUFFICES ASSUME WellFormed PROVE PlanCovers
    OBVIOUS
  <2>1. /\ input.size \in SizeT /\ input.total_bytes \in SizeT
        /\ input.batch_size \in SizeT
    BY DEF WellFormed
  <2> QED
    BY <2>1, PlanFacts, PlanChunks DEF plan, PlanCovers, Chunks, Holds
<1> QED
  BY <1>1, InputsAlways, PTL

\* No machine and no request starts a thread without a chunk, or more threads than
\* the bytes of the inputs pay for.
THEOREM ThreadsArePaidFor == ArgumentsSpec => []ThreadsEarnTheirKeep
<1>1. WellFormed => ThreadsEarnTheirKeep
  <2> SUFFICES ASSUME WellFormed PROVE ThreadsEarnTheirKeep
    OBVIOUS
  <2>1. /\ input.size \in SizeT /\ input.total_bytes \in SizeT
        /\ input.batch_size \in SizeT /\ SizeT \subseteq Nat
    BY PlanAssumption DEF WellFormed, SizeT
  <2>2. plan \in BatchPlan
    BY <2>1, PlanFacts DEF plan
  <2>3. plan.thread_count \in Nat
    BY <2>1, <2>2 DEF BatchPlan
  <2>4. /\ plan.thread_count <= plan.work_count
        /\ plan.thread_count <= MaxBatchParallelism
        /\ input.size > 0 => plan.thread_count >= 1
        /\ plan.thread_count > 1 =>
              (plan.thread_count - 1) * kBatchBytesPerThread < input.total_bytes
    BY <2>1, PlanFacts DEF plan
  <2>5. input.size > 0 => plan.thread_count > 0
    BY <2>3, <2>4
  <2> QED
    BY <2>4, <2>5 DEF ThreadsEarnTheirKeep
<1> QED
  BY <1>1, InputsAlways, PTL

\* An input count is divided into n chunks of equal width: at most n of them, and
\* more than half as many unless a chunk is a single input.
LEMMA EvenChunks ==
    ASSUME NEW size \in Nat \ {0}, NEW n \in Nat \ {0}, n <= size,
           NEW k, k = CeilDiv(size, n), NEW c, c = CeilDiv(size, k)
    PROVE  c \in Nat /\ c <= n /\ (k = 1 \/ 2 * c > n)
<1>1. k \in Nat \ {0} /\ (k - 1) * n < size /\ size <= k * n
  BY CeilDivFacts
<1>2. c \in Nat \ {0} /\ (c - 1) * k < size /\ size <= c * k
  BY <1>1, CeilDivFacts
<1>3. c <= n
  <2> SUFFICES ASSUME n <= c - 1 PROVE FALSE
    BY <1>2
  <2>1. n * k <= (c - 1) * k
    BY <1>1, <1>2, ProductStep
  <2>2. n * k = k * n /\ n * k \in Nat /\ (c - 1) * k \in Nat
    BY <1>1, <1>2
  <2> QED
    BY <1>1, <1>2, <2>1, <2>2
<1>4. ASSUME k # 1, 2 * c <= n PROVE FALSE
  <2>1. (2 * c) * k <= n * k
    BY <1>1, <1>2, <1>4, ProductStep
  <2>2. 2 * n <= k * n
    BY <1>1, <1>4, ProductStep
  <2>3. /\ (2 * c) * k = 2 * (c * k) /\ c * k \in Nat
        /\ n * k = k * n /\ k * n \in Nat
        /\ (k - 1) * n = k * n - n
    BY <1>1, <1>2
  <2> QED
    BY <1>1, <1>2, <2>1, <2>2, <2>3
<1> QED
  BY <1>2, <1>3, <1>4

\* Omitting batchSize plans at most the wanted number of chunks for every thread and
\* more than half of it, on every machine and even where their product leaves size_t.
THEOREM ChunksAreAsMany == ArgumentsSpec => []AutomaticChunks
<1>1. WellFormed => AutomaticChunks
  <2> SUFFICES ASSUME WellFormed, OpenMp, input.size > 0, input.batch_size = 0
               PROVE  AutomaticChunks
    BY DEF AutomaticChunks
  <2> DEFINE size == input.size
             threads == MaximumThreads(size, input.total_bytes)
             wanted == kBatchesPerThread * threads
             batches == RequestedBatches(size, threads)
             n == Lesser(size, batches)
  <2>1. /\ size \in SizeT \ {0} /\ input.total_bytes \in SizeT
        /\ size \in Nat \ {0} /\ kBatchesPerThread \in Nat \ {0}
    BY PlanAssumption DEF WellFormed, SizeT
  <2>2. threads \in Nat \ {0} /\ threads <= size
    BY <2>1, ThreadsFacts
  <2>3. plan.batch_size = CeilDiv(size, n) /\ plan.work_count = CeilDiv(size, plan.batch_size)
    BY <2>1 DEF plan, MakeBatchPlan, BatchSize, WorkCount
  <2> HIDE DEF size, threads
  <2>4. /\ wanted \in Nat \ {0} /\ wanted = threads * kBatchesPerThread
        /\ batches \in Nat \ {0} /\ batches <= wanted
        /\ batches = size \/ batches = wanted
    BY <2>1, <2>2, RequestedFacts
  <2> HIDE DEF batches, wanted
  <2>5. n \in Nat \ {0} /\ n <= size /\ n <= wanted /\ (n = size \/ n = wanted)
    BY <2>1, <2>4 DEF Lesser
  <2> HIDE DEF n
  <2>6. /\ plan.work_count \in Nat /\ plan.work_count <= n
        /\ plan.batch_size = 1 \/ 2 * plan.work_count > n
    BY <2>1, <2>3, <2>5, EvenChunks
  <2>7. n = size => plan.batch_size = 1
    <3>1. CeilDiv(size, size) = 1
      <4>1. (size - 1) \div size = 0
        BY <2>1
      <4> QED
        BY <4>1 DEF CeilDiv
    <3> QED
      BY <2>3, <3>1
  <2>8. /\ plan.work_count <= wanted
        /\ plan.batch_size = 1 \/ 2 * plan.work_count > wanted
    BY <2>4, <2>5, <2>6, <2>7
  <2> QED
    BY <2>8 DEF AutomaticChunks, wanted, threads, size
<1> QED
  BY <1>1, InputsAlways, PTL

-----------------------------------------------------------------------------
(* The numbers JavaScript passes.                                          *)

\* It counts the indices before the offset.
LEMMA ClampedBegin ==
    ASSUME NEW x \in Passed, NEW size \in Nat, x.type # "other",
           NEW begin, begin = ClampedIndex(DefaultOffset(x), size)
    PROVE  /\ begin \in 0 .. size
           /\ \A i \in 0 .. size - 1 : AtOrPast(i, x) <=> i >= begin
<1> DEFINE o == DefaultOffset(x)
<1>1. o \in Passed /\ x.halves \in Int
  BY PassedFacts DEF DefaultOffset, Whole, Finite, Passed
<1>2. begin \in 0 .. size
  BY <1>1, ClampedRange
<1>3. CASE x.type = "undefined"
  <2>1. o = Finite(0)
    BY <1>3, PassedFacts DEF DefaultOffset, Whole
  <2>2. begin = 0
    BY <2>1 DEF ClampedIndex, Finite
  <2> QED
    BY <1>2, <1>3, <2>2 DEF AtOrPast
<1>4. ASSUME x.type # "undefined" PROVE o = x
  BY <1>4 DEF DefaultOffset, Undefined
<1>5. CASE x.type = "nan"
  BY <1>2, <1>4, <1>5 DEF AtOrPast, ClampedIndex
<1>6. CASE x.type = "infinity"
  BY <1>1, <1>2, <1>4, <1>6, PassedFacts DEF AtOrPast, ClampedIndex
<1>7. CASE x.type = "finite"
  <2>1. begin = IF x.halves <= 0 THEN 0 ELSE IF x.halves >= 2 * size THEN size
                ELSE x.halves \div 2
    BY <1>4, <1>7 DEF ClampedIndex
  <2>2. \A i \in Nat : AtOrPast(i, x) <=> x.halves < 2 * (i + 1)
    BY <1>7 DEF AtOrPast
  <2>3. ASSUME NEW i \in 0 .. size - 1 PROVE AtOrPast(i, x) <=> i >= begin
    <3>1. CASE x.halves <= 0
      BY <1>1, <2>1, <2>2, <3>1
    <3>2. CASE x.halves > 0 /\ x.halves >= 2 * size
      BY <1>1, <2>1, <2>2, <3>2
    <3>3. CASE x.halves > 0 /\ x.halves < 2 * size
      BY <1>1, <2>1, <2>2, <3>3
    <3> QED
      BY <1>1, <3>1, <3>2, <3>3
  <2> QED
    BY <1>2, <2>3
<1> QED
  BY <1>3, <1>5, <1>6, <1>7, PassedFacts

\* A clamped length counts the bytes between a begin and the end of the view that are
\* before the end of the range.
LEMMA ClampedLength ==
    ASSUME NEW x \in Passed, NEW size \in Nat, NEW begin \in 0 .. size, IsNumber(x),
           NEW length, length = ClampedIndex(x, size - begin)
    PROVE  /\ length \in 0 .. size - begin
           /\ \A i \in begin .. size - 1 : Before(i, begin, x) <=> i < begin + length
<1>1. x.halves \in Int /\ size - begin \in Nat
  BY PassedFacts
<1>2. length \in 0 .. size - begin
  BY <1>1, ClampedRange
<1>3. CASE x.type = "nan"
  BY <1>1, <1>2, <1>3 DEF Before, ClampedIndex
<1>4. CASE x.type = "infinity"
  BY <1>1, <1>2, <1>4, PassedFacts DEF Before, ClampedIndex
<1>5. CASE x.type = "finite"
  <2>1. length = IF x.halves <= 0 THEN 0 ELSE IF x.halves >= 2 * (size - begin)
                 THEN size - begin ELSE x.halves \div 2
    BY <1>5 DEF ClampedIndex
  <2>2. \A i \in Nat : Before(i, begin, x) <=> 2 * (i - begin + 1) <= x.halves
    BY <1>5 DEF Before
  <2>3. ASSUME NEW i \in begin .. size - 1 PROVE Before(i, begin, x) <=> i < begin + length
    <3>1. CASE x.halves <= 0
      BY <1>1, <2>1, <2>2, <3>1
    <3>2. CASE x.halves > 0 /\ x.halves >= 2 * (size - begin)
      BY <1>1, <2>1, <2>2, <3>2
    <3>3. CASE x.halves > 0 /\ x.halves < 2 * (size - begin)
      BY <1>1, <2>1, <2>2, <3>3
    <3> QED
      BY <1>1, <3>1, <3>2, <3>3
  <2> QED
    BY <1>2, <2>3
<1> QED
  BY <1>3, <1>4, <1>5 DEF IsNumber

LEMMA TestArguments ==
    ASSUME WellFormed, call.function = "test"
    PROVE  /\ call.size \in Nat /\ call.byteOffset \in Passed /\ call.byteLength \in Passed
<1>1. call \in [function: {"test"}, size: Sizes, byteOffset: Numbers, byteLength: Numbers]
  BY DEF WellFormed, NoCall, Calls
<1>2. call.size \in Sizes /\ call.byteOffset \in Numbers /\ call.byteLength \in Numbers
  BY <1>1
<1>3. Sizes \subseteq Nat
  BY InputsAssumption, SafeAssumption
<1> QED
  BY <1>2, <1>3, InputsAssumption

\* The range test takes is the bytes of the view between the bounds it was passed,
\* for every size of a view and every pair of numbers: clamping at both ends never
\* selects a byte past the view, and only what is not a number throws.
THEOREM RangesAreDocumented == ArgumentsSpec => []RangeIsDocumented
<1>1. WellFormed => RangeIsDocumented
  <2> SUFFICES ASSUME WellFormed, call.function = "test" PROVE RangeIsDocumented
    BY DEF RangeIsDocumented
  <2> DEFINE size == call.size
             x == call.byteOffset
             y == call.byteLength
             range == Test(size, x, y)
             begin == ClampedIndex(DefaultOffset(x), size)
             Least(i) == /\ i = size \/ AtOrPast(i, x)
                         /\ \A j \in 0 .. i - 1 : ~AtOrPast(j, x)
             first == CHOOSE i \in 0 .. size : Least(i)
  <2>1. size \in Nat /\ x \in Passed /\ y \in Passed
    BY TestArguments
  <2> HIDE DEF size, x, y
  <2>2. Throws(range) <=> Other \in {x, y}
    BY <2>1, TestFacts
  <2>3. ASSUME ~Throws(range), y # Undefined
        PROVE  Selected(range.value) =
                  {i \in 0 .. size - 1 : i >= first /\ Before(i, first, y)}
    <3>1. /\ x # Other /\ y # Other /\ IsNumber(y)
          /\ range.value.begin = begin
          /\ range.value.size = ClampedIndex(y, size - begin)
      BY <2>1, <2>2, <2>3, TestFacts
    <3>2. begin \in 0 .. size /\ \A i \in 0 .. size - 1 : AtOrPast(i, x) <=> i >= begin
      BY <2>1, <3>1, PassedFacts, ClampedBegin
    <3> DEFINE length == ClampedIndex(y, size - begin)
    <3>3. /\ length \in 0 .. size - begin
          /\ \A i \in begin .. size - 1 : Before(i, begin, y) <=> i < begin + length
      <4> HIDE DEF begin
      <4> QED
        BY <2>1, <3>1, <3>2, ClampedLength
    <3>4. Selected(range.value) = begin .. begin + length - 1
      BY <3>1 DEF Selected
    <3> HIDE DEF begin, length, range
    <3>5. Least(begin)
      BY <2>1, <3>2
    <3>6. ASSUME NEW i \in 0 .. size, Least(i) PROVE i = begin
      BY <2>1, <3>2, <3>6
    <3>7. first = begin
      <4> HIDE DEF Least
      <4> QED
        BY <3>2, <3>5, <3>6
    <3>8. {i \in 0 .. size - 1 : i >= begin /\ Before(i, begin, y)} = begin .. begin + length - 1
      BY <2>1, <3>2, <3>3
    <3> HIDE DEF first
    <3> QED
      BY <3>4, <3>7, <3>8
  <2> QED
    BY <2>2, <2>3 DEF RangeIsDocumented, size, x, y
<1> QED
  BY <1>1, InputsAlways, PTL

\* What is left out of a range whose length is omitted is exactly what its offset
\* costs: a byte for one that is fractional and inside the view, all for NaN.
THEOREM OmittedLengthsAreTheRest == ArgumentsSpec => []OmittedLengthIsTheRest
<1>1. WellFormed => OmittedLengthIsTheRest
  <2> SUFFICES ASSUME WellFormed, call.function = "test", call.byteLength = Undefined,
                      call.byteOffset # Other
               PROVE  OmittedLengthIsTheRest
    BY DEF OmittedLengthIsTheRest
  <2> DEFINE size == call.size
             x == call.byteOffset
             o == DefaultOffset(x)
             begin == ClampedIndex(o, size)
             rest == Minus(size, o)
             length == ClampedIndex(rest, size - begin)
             inside == 0 < x.halves /\ x.halves < 2 * size
             end == IF x = NaN THEN 0
                    ELSE IF Fractional(x) /\ inside THEN size - 1 ELSE size
  <2>1. size \in Nat /\ x \in Passed /\ Undefined \in Passed /\ x # Other
    BY TestArguments
  <2> HIDE DEF size, x
  <2>2. Undefined # Other
    BY DEF Undefined, Other
  <2>3. /\ Test(size, x, Undefined).value.begin = begin
        /\ Test(size, x, Undefined).value.size = length
        /\ begin \in 0 .. size
        /\ o \in Passed /\ IsNumber(o)
    BY <2>1, <2>2, TestFacts
  <2>4. /\ x.halves \in Int /\ o.halves \in Int
        /\ rest.type = o.type
        /\ o.type = "finite" => rest.halves = 2 * size - o.halves
        /\ o.type # "finite" => rest.halves = -o.halves
    BY <2>1, <2>3, PassedFacts, MinusFacts
  <2>5. x = NaN <=> x.type = "nan"
    BY <2>1, PassedFacts
  <2>6. begin = IF o.type = "nan" \/ o.halves <= 0 THEN 0
                ELSE IF o.type = "infinity" \/ o.halves >= 2 * size THEN size
                ELSE o.halves \div 2
    BY DEF ClampedIndex
  <2>7. length = IF rest.type = "nan" \/ rest.halves <= 0 THEN 0
                 ELSE IF rest.type = "infinity" \/ rest.halves >= 2 * (size - begin)
                   THEN size - begin
                 ELSE rest.halves \div 2
    BY DEF ClampedIndex
  <2>8. ASSUME x.type = "undefined" PROVE begin + length = end
    <3>1. o.type = "finite" /\ o.halves = 0 /\ x.halves = 0
      BY <2>1, <2>8, PassedFacts DEF o, DefaultOffset, Undefined, Whole, Finite
    <3> HIDE DEF o, begin, length, rest
    <3>2. begin = 0 /\ length = size
      BY <2>1, <2>4, <2>6, <2>7, <3>1
    <3> QED
      BY <2>1, <2>5, <2>8, <3>1, <3>2 DEF Fractional
  <2>9. ASSUME x.type # "undefined" PROVE o = x
    BY <2>9 DEF o, DefaultOffset, Undefined
  <2> HIDE DEF o, begin, length, rest
  <2>10. ASSUME x.type = "nan" PROVE begin + length = end
    BY <2>1, <2>4, <2>5, <2>6, <2>7, <2>9, <2>10
  <2>11. ASSUME x.type = "infinity" PROVE begin + length = end
    <3>1. x.halves = 1 \/ x.halves = -1
      BY <2>1, <2>11, PassedFacts
    <3>2. begin + length = size
      BY <2>1, <2>4, <2>6, <2>7, <2>9, <2>11, <3>1
    <3> QED
      BY <2>5, <2>11, <3>2 DEF Fractional
  <2>12. ASSUME x.type = "finite" PROVE begin + length = end
    <3> DEFINE h == x.halves
    <3>1. /\ h \in Int /\ end = IF h % 2 = 1 /\ 0 < h /\ h < 2 * size THEN size - 1 ELSE size
      BY <2>4, <2>5, <2>12 DEF Fractional
    <3>2. /\ begin = IF h <= 0 THEN 0 ELSE IF h >= 2 * size THEN size ELSE h \div 2
          /\ length = IF 2 * size - h <= 0 THEN 0
                      ELSE IF 2 * size - h >= 2 * (size - begin) THEN size - begin
                      ELSE (2 * size - h) \div 2
      BY <2>1, <2>4, <2>6, <2>7, <2>9, <2>12
    <3> HIDE DEF h, end
    <3>3. CASE h <= 0
      BY <2>1, <3>1, <3>2, <3>3
    <3>4. CASE h >= 2 * size
      BY <2>1, <3>1, <3>2, <3>4
    <3>5. CASE 0 < h /\ h < 2 * size
      <4>1. begin = h \div 2 /\ h = 2 * begin + (h % 2) /\ h % 2 \in {0, 1}
        <5>1. h = 2 * (h \div 2) + (h % 2) /\ h % 2 \in {0, 1}
          BY <3>1, <3>5, HalvesFacts
        <5>2. ~(h <= 0) /\ ~(h >= 2 * size)
          BY <2>1, <3>1, <3>5
        <5> QED
          BY <3>2, <5>1, <5>2
      <4>2. CASE h % 2 = 0
        BY <2>1, <3>1, <3>2, <3>5, <4>1, <4>2
      <4>3. CASE h % 2 = 1
        <5>1. begin \in Nat /\ h = 2 * begin + 1 /\ end = size - 1
          BY <3>1, <3>5, <4>1, <4>3
        <5>2. 2 * size - h = 2 * (size - begin - 1) + 1
          BY <2>1, <5>1
        <5>3. (2 * size - h) \div 2 = size - begin - 1
          BY <2>1, <5>1, <5>2
        <5>4. length = size - begin - 1
          BY <2>1, <3>2, <3>5, <5>1, <5>2, <5>3
        <5> QED
          BY <2>1, <5>1, <5>4
      <4> QED
        BY <4>1, <4>2, <4>3
    <3> QED
      BY <2>1, <3>1, <3>3, <3>4, <3>5
  <2>13. begin + length = end
    <3> HIDE DEF end
    <3> QED
      BY <2>1, <2>8, <2>10, <2>11, <2>12, PassedFacts
  <2> QED
    BY <2>3, <2>13 DEF OmittedLengthIsTheRest, size, x
<1> QED
  BY <1>1, InputsAlways, PTL

LEMMA WholeFacts ==
    ASSUME NEW n \in 0 .. kMaxSafeInteger
    PROVE  /\ n \in Nat /\ n \in SizeT
           /\ GetSizeArgument(Whole(n)) = Value(n)
<1>1. n \in Nat /\ kMaxSafeInteger \in Nat /\ n <= kMaxSafeInteger /\ n \in SizeT
  BY SafeAssumption, PlanAssumption DEF SizeT
<1>2. (2 * n) % 2 = 0 /\ (2 * n) \div 2 = n /\ 2 * n <= 2 * kMaxSafeInteger
      /\ -2 * kMaxSafeInteger <= 2 * n
  BY <1>1
<1> QED
  BY <1>1, <1>2 DEF GetSizeArgument, Whole, Finite, IsNumber, IsSafeInteger, IsInteger

\* What the library lets through means the same to the binding.
LEMMA BatchSizes ==
    ASSUME NEW x \in Passed
    PROVE  LET requested == RequestedBatchSize(x)
           IN  /\ Throws(requested) <=>
                     x \notin {Undefined, Infinity} \cup {Whole(n) : n \in 1 .. kMaxSafeInteger}
               /\ ~Throws(requested) =>
                     /\ GetBatchSize(x) = requested
                     /\ requested.value \in SizeT
                     /\ requested.value = 0 <=> x = Undefined
                     /\ x = Infinity => requested.value = SizeMax
                     /\ x \notin {Undefined, Infinity} => x.halves = 2 * requested.value
<1> DEFINE Safe == {Whole(n) : n \in 1 .. kMaxSafeInteger}
<1>1. /\ kMaxSafeInteger \in Nat /\ kMaxSafeInteger <= SizeMax /\ SizeMax \in Nat \ {0}
      /\ x.halves \in Int
  BY SafeAssumption, PlanAssumption, PassedFacts
<1>2. CASE x = Undefined
  <2>1. RequestedBatchSize(x) = Value(0)
    BY <1>1, <1>2 DEF RequestedBatchSize, normalizeBatchSizeValue, Throws, Value, Whole, Finite,
                 GetBatchSize, Undefined, Infinity, IsNumber, IsSafeInteger, IsInteger
  <2>2. GetBatchSize(x) = Value(0)
    BY <1>2 DEF GetBatchSize
  <2>3. x # Infinity /\ 0 \in SizeT
    BY <1>1, <1>2 DEF Undefined, Infinity, SizeT
  <2> QED
    BY <1>2, <2>1, <2>2, <2>3 DEF Throws, Value
<1>3. CASE x = Infinity
  <2>1. x # Undefined /\ IsNumber(x)
    BY <1>3 DEF Undefined, Infinity, IsNumber
  <2>2. RequestedBatchSize(x) = Value(SizeMax) /\ GetBatchSize(x) = Value(SizeMax)
    BY <1>3, <2>1 DEF RequestedBatchSize, normalizeBatchSizeValue, Throws, Value,
                 GetBatchSize, InfiniteBatch
  <2>3. SizeMax \in SizeT /\ SizeMax # 0
    BY <1>1 DEF SizeT
  <2> QED
    BY <1>3, <2>1, <2>2, <2>3 DEF Throws, Value
<1>4. CASE x \notin {Undefined, Infinity}
  <2>1. x \in Safe <=> IsNumber(x) /\ IsSafeInteger(x) /\ x.halves > 0
    <3>1. ASSUME x \in Safe PROVE IsNumber(x) /\ IsSafeInteger(x) /\ x.halves > 0
      <4>1. PICK n \in 1 .. kMaxSafeInteger : x = Whole(n)
        BY <3>1
      <4>2. (2 * n) % 2 = 0 /\ 2 * n <= 2 * kMaxSafeInteger /\ 2 * n > 0
            /\ -2 * kMaxSafeInteger <= 2 * n
        BY <1>1
      <4> QED
        BY <4>1, <4>2 DEF Whole, Finite, IsNumber, IsSafeInteger, IsInteger
    <3>2. ASSUME IsSafeInteger(x), x.halves > 0 PROVE x \in Safe
      <4>1. x = Finite(x.halves) /\ x.halves % 2 = 0 /\ x.halves <= 2 * kMaxSafeInteger
        BY <3>2, PassedFacts DEF IsSafeInteger, IsInteger
      <4>2. /\ x.halves \div 2 \in 1 .. kMaxSafeInteger
            /\ x.halves = 2 * (x.halves \div 2)
        BY <1>1, <3>2, <4>1
      <4> QED
        BY <4>1, <4>2 DEF Whole
    <3> QED
      BY <3>1, <3>2
  <2>2. CASE ~IsNumber(x)
    <3>1. Throws(RequestedBatchSize(x))
      BY <1>4, <2>2 DEF RequestedBatchSize, normalizeBatchSizeValue, Throws, Throw
    <3> QED
      BY <1>4, <2>1, <2>2, <3>1
  <2>3. CASE IsNumber(x) /\ (~IsSafeInteger(x) \/ x.halves <= 0)
    <3>1. Throws(RequestedBatchSize(x))
      BY <1>4, <2>3 DEF RequestedBatchSize, normalizeBatchSizeValue, Throws, Throw
    <3>2. x \notin Safe
      BY <1>1, <2>1, <2>3
    <3> HIDE DEF Safe
    <3> QED
      BY <1>4, <3>1, <3>2 DEF Safe
  <2>4. CASE IsNumber(x) /\ IsSafeInteger(x) /\ ~(x.halves <= 0)
    <3>1. GetBatchSize(x) = Value(x.halves \div 2)
      BY <1>1, <1>4, <2>4 DEF GetBatchSize
    <3>2. RequestedBatchSize(x) = GetBatchSize(x)
      BY <1>4, <2>4 DEF RequestedBatchSize, normalizeBatchSizeValue, Throws, Value
    <3>3. /\ x.halves % 2 = 0 /\ x.halves <= 2 * kMaxSafeInteger
      BY <2>4 DEF IsSafeInteger, IsInteger
    <3>4. /\ x.halves \div 2 \in 1 .. kMaxSafeInteger
          /\ x.halves = 2 * (x.halves \div 2)
      BY <1>1, <2>4, <3>3
    <3>5. x.halves \div 2 \in SizeT /\ x.halves \div 2 # 0
      BY <1>1, <3>4 DEF SizeT
    <3>6. x \in Safe
      BY <1>1, <2>1, <2>4
    <3> HIDE DEF Safe
    <3> QED
      BY <1>4, <3>1, <3>2, <3>4, <3>5, <3>6 DEF Throws, Value, Safe
  <2> QED
    BY <2>2, <2>3, <2>4
<1> QED
  BY <1>2, <1>3, <1>4

\* For every number, count of inputs and machine, a batchSize is refused exactly as
\* documented, and one that is Infinity or reaches the input count keeps a batch on
\* its caller, as batch_parallelism reports.
THEOREM BatchSizesAreDocumented == ArgumentsSpec => []BatchSizeIsDocumented
<1>1. WellFormed => BatchSizeIsDocumented
  <2> SUFFICES ASSUME WellFormed, call.function = "testMany" PROVE BatchSizeIsDocumented
    BY DEF BatchSizeIsDocumented
  <2> DEFINE count == call.count
             total_bytes == call.total_bytes
             x == call.batchSize
             requested == RequestedBatchSize(x)
             threads == BatchParallelism(count, total_bytes, requested.value)
  <2>1. /\ count \in 0 .. kMaxSafeInteger /\ total_bytes \in 0 .. kMaxSafeInteger
        /\ x \in Passed
    <3>1. call \in [function: {"testMany"}, count: Sizes, total_bytes: 0 .. kMaxSafeInteger,
                    batchSize: Numbers]
      BY DEF WellFormed, NoCall, Calls
    <3>2. count \in Sizes /\ total_bytes \in 0 .. kMaxSafeInteger /\ x \in Numbers
      BY <3>1
    <3> QED
      BY <3>2, InputsAssumption
  <2> HIDE DEF count, total_bytes, x
  <2>2. /\ count \in Nat /\ count \in SizeT /\ total_bytes \in SizeT
        /\ GetSizeArgument(Whole(count)) = Value(count)
        /\ GetSizeArgument(Whole(total_bytes)) = Value(total_bytes)
    BY <2>1, WholeFacts
  <2>3. Throws(requested) <=>
           x \notin {Undefined, Infinity} \cup {Whole(n) : n \in 1 .. kMaxSafeInteger}
    BY <2>1, BatchSizes
  <2>4. ASSUME ~Throws(requested)
        PROVE  /\ GetBatchSize(x) = requested
               /\ requested.value \in SizeT
               /\ requested.value = 0 <=> x = Undefined
               /\ x = Infinity => requested.value = SizeMax
               /\ x \notin {Undefined, Infinity} => x.halves = 2 * requested.value
    BY <2>1, <2>4, BatchSizes
  <2> HIDE DEF requested
  <2>5. ASSUME ~Throws(requested)
        PROVE  BatchThreadCount(Whole(count), Whole(total_bytes), x) = Value(threads)
    BY <2>2, <2>4, <2>5 DEF BatchThreadCount, Throws, Value
  <2>6. ASSUME ~Throws(requested), x = Infinity \/ (x # Undefined /\ x.halves >= 2 * count)
        PROVE  threads <= 1
    <3>1. requested.value \in SizeT /\ requested.value \in Nat
      BY <2>4, <2>6, PlanAssumption DEF SizeT
    <3>2. count <= requested.value
      <4>1. CASE x = Infinity
        BY <2>2, <2>4, <2>6, <4>1 DEF SizeT
      <4>2. CASE x # Infinity
        BY <2>2, <2>4, <2>6, <3>1, <4>2
      <4> QED
        BY <4>1, <4>2
    <3>3. ~(threads > 1)
      BY <2>2, <3>1, <3>2, ParallelPlans DEF BatchParallelism
    <3>4. threads \in Nat
      <4>1. threads \in SizeT
        BY <2>2, <3>1, PlanFacts DEF BatchParallelism, BatchPlan
      <4> QED
        BY <4>1, PlanAssumption DEF SizeT
    <3> QED
      BY <3>3, <3>4
  <2> QED
    BY <2>3, <2>4, <2>5, <2>6 DEF BatchSizeIsDocumented, requested, count, total_bytes, x
<1> QED
  BY <1>1, InputsAlways, PTL
=============================================================================
