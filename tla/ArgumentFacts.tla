---------------------------- MODULE ArgumentFacts ----------------------------
(***************************************************************************)
(* Lemmas about the pure functions: MakeBatchPlan and the chunks of a      *)
(* plan, and the ranges that numbers passed by JavaScript select.          *)
(***************************************************************************)
EXTENDS NumberArguments, TLAPS

LEMMA DivFacts ==
    ASSUME NEW a \in Nat, NEW b \in Nat \ {0}
    PROVE  /\ a \div b \in Nat
           /\ b * (a \div b) <= a
           /\ a < b * (a \div b) + b
OBVIOUS

LEMMA CeilDivFacts ==
    ASSUME NEW a \in Nat \ {0}, NEW b \in Nat \ {0}
    PROVE  /\ CeilDiv(a, b) \in Nat \ {0}
           /\ CeilDiv(a, b) <= a
           /\ (CeilDiv(a, b) - 1) * b < a
           /\ a <= CeilDiv(a, b) * b
<1> DEFINE q == (a - 1) \div b
<1>1. q \in Nat /\ b * q <= a - 1 /\ a - 1 < b * q + b
  BY DivFacts
<1>2. CeilDiv(a, b) = 1 + q
  BY DEF CeilDiv
<1> HIDE DEF q
<1>3. q <= b * q
  BY <1>1
<1>4. (1 + q) * b = b * q + b /\ q * b = b * q
  BY <1>1
<1> QED
  BY <1>1, <1>2, <1>3, <1>4

LEMMA ProductStep ==
    ASSUME NEW m \in Nat, NEW n \in Nat, NEW k \in Nat, m <= n
    PROVE  m * k <= n * k
OBVIOUS

LEMMA ParallelismFacts == MaxBatchParallelism \in Nat \ {0}
BY PlanAssumption DEF MaxBatchParallelism, Lesser, Greater

LEMMA ThreadsFacts ==
    ASSUME NEW size \in SizeT \ {0}, NEW total_bytes \in SizeT
    PROVE  LET threads == MaximumThreads(size, total_bytes)
           IN  /\ threads \in Nat \ {0}
               /\ threads <= MaxBatchParallelism
               /\ threads <= size
               /\ threads > 1 => (threads - 1) * kBatchBytesPerThread < total_bytes
<1> DEFINE work == WorkThreads(total_bytes)
<1>1. SizeT \subseteq Nat /\ kBatchBytesPerThread \in Nat \ {0}
  BY PlanAssumption DEF SizeT
<1>2. /\ work \in Nat \ {0}
      /\ work > 1 => (work - 1) * kBatchBytesPerThread < total_bytes
  <2>1. CASE total_bytes = 0
    BY <2>1 DEF WorkThreads
  <2>2. CASE total_bytes # 0
    BY <1>1, <2>2, CeilDivFacts DEF WorkThreads
  <2> QED
    BY <2>1, <2>2
<1> DEFINE threads == MaximumThreads(size, total_bytes)
<1> HIDE DEF work
<1>3. /\ threads \in Nat \ {0} /\ threads <= MaxBatchParallelism
      /\ threads <= size /\ threads <= work
  BY <1>1, <1>2, ParallelismFacts DEF MaximumThreads, Lesser, work
<1>4. ASSUME threads > 1
      PROVE  (threads - 1) * kBatchBytesPerThread < total_bytes
  <2>1. (threads - 1) * kBatchBytesPerThread <= (work - 1) * kBatchBytesPerThread
    BY <1>1, <1>2, <1>3, <1>4, ProductStep
  <2> HIDE DEF threads
  <2>2. /\ (threads - 1) * kBatchBytesPerThread \in Nat
        /\ (work - 1) * kBatchBytesPerThread \in Nat /\ total_bytes \in Nat
    BY <1>1, <1>2, <1>3
  <2> QED
    BY <1>2, <1>3, <1>4, <2>1, <2>2
<1> QED
  BY <1>3, <1>4

\* The product of threads and batches per thread never wraps.
LEMMA RequestedFacts ==
    ASSUME NEW size \in SizeT \ {0}, NEW threads \in Nat \ {0}, threads <= size
    PROVE  LET n == RequestedBatches(size, threads)
           IN  /\ n \in Nat \ {0}
               /\ n = size \/ n = threads * kBatchesPerThread
               /\ n <= threads * kBatchesPerThread
<1>1. SizeT \subseteq Nat /\ kBatchesPerThread \in Nat \ {0} /\ SizeMax \in Nat /\ size <= SizeMax
  BY PlanAssumption DEF SizeT
<1> DEFINE q == SizeMax \div kBatchesPerThread
           product == threads * kBatchesPerThread
<1>2. q \in Nat /\ kBatchesPerThread * q <= SizeMax /\ SizeMax < kBatchesPerThread * q + kBatchesPerThread
  BY <1>1, DivFacts
<1> HIDE DEF q
<1>3. product \in Nat \ {0}
  BY <1>1
<1>4. CASE threads > q
  <2>1. (q + 1) * kBatchesPerThread <= product
    BY <1>1, <1>2, <1>4, ProductStep
  <2>2. (q + 1) * kBatchesPerThread = kBatchesPerThread * q + kBatchesPerThread
    BY <1>1, <1>2
  <2>3. size < product
    BY <1>1, <1>2, <1>3, <2>1, <2>2
  <2> QED
    BY <1>1, <1>3, <1>4, <2>3 DEF RequestedBatches, q
<1>5. CASE ~(threads > q)
  <2>1. product <= q * kBatchesPerThread /\ q * kBatchesPerThread = kBatchesPerThread * q
    BY <1>1, <1>2, <1>5, ProductStep
  <2>2. product <= SizeMax
    BY <1>1, <1>2, <1>3, <2>1
  <2>3. product % (SizeMax + 1) = product
    <3> HIDE DEF product
    <3> QED
      BY <1>1, <1>3, <2>2
  <2> QED
    BY <1>1, <1>3, <1>5, <2>3 DEF RequestedBatches, q
<1> QED
  BY <1>4, <1>5

LEMMA BatchSizeFacts ==
    ASSUME NEW size \in SizeT \ {0}, NEW threads \in Nat \ {0}, threads <= size,
           NEW requested \in SizeT
    PROVE  BatchSize(size, threads, requested) \in 1 .. size
<1>1. SizeT \subseteq Nat
  BY PlanAssumption DEF SizeT
<1>2. CASE requested = 0
  <2> DEFINE count == Lesser(size, RequestedBatches(size, threads))
  <2>1. count \in Nat \ {0}
    BY <1>1, RequestedFacts DEF Lesser
  <2>2. CeilDiv(size, count) \in 1 .. size
    BY <1>1, <2>1, CeilDivFacts
  <2> QED
    BY <1>2, <2>2 DEF BatchSize
<1>3. CASE requested # 0
  BY <1>1, <1>3 DEF BatchSize, Lesser
<1> QED
  BY <1>2, <1>3

LEMMA PlanFacts ==
    ASSUME NEW size \in SizeT, NEW total_bytes \in SizeT, NEW requested \in SizeT
    PROVE  LET p == MakeBatchPlan(size, total_bytes, requested)
           IN  /\ p \in BatchPlan
               /\ p.thread_count <= p.work_count
               /\ p.thread_count <= MaxBatchParallelism
               /\ p.work_count <= size
               /\ size = 0 => p.work_count = 0
               /\ size > 0 => /\ p.thread_count >= 1
                              /\ p.batch_size \in 1 .. size
                              /\ (p.work_count - 1) * p.batch_size < size
                              /\ size <= p.work_count * p.batch_size
               /\ p.thread_count > 1 =>
                     (p.thread_count - 1) * kBatchBytesPerThread < total_bytes
<1> DEFINE p == MakeBatchPlan(size, total_bytes, requested)
<1>1. SizeT \subseteq Nat /\ SizeMax \in Nat \ {0} /\ \A n \in Nat : n <= SizeMax => n \in SizeT
  BY PlanAssumption DEF SizeT
<1>2. size <= SizeMax /\ kBatchBytesPerThread \in Nat \ {0}
  BY PlanAssumption DEF SizeT
<1>3. CASE size = 0
  BY <1>1, <1>3, ParallelismFacts DEF MakeBatchPlan, BatchPlan
<1>4. CASE size # 0 /\ ~OpenMp
  BY <1>1, <1>2, <1>4, ParallelismFacts DEF MakeBatchPlan, BatchPlan
<1>5. CASE size # 0 /\ OpenMp
  <2> DEFINE threads == MaximumThreads(size, total_bytes)
             batch_size == BatchSize(size, threads, requested)
             work_count == WorkCount(size, batch_size)
  <2>1. /\ threads \in Nat \ {0} /\ threads <= MaxBatchParallelism /\ threads <= size
        /\ threads > 1 => (threads - 1) * kBatchBytesPerThread < total_bytes
    BY <1>5, ThreadsFacts
  <2> HIDE DEF threads
  <2>2. batch_size \in 1 .. size
    BY <1>5, <2>1, BatchSizeFacts
  <2> HIDE DEF batch_size
  <2>3. /\ work_count \in Nat \ {0} /\ work_count <= size
        /\ (work_count - 1) * batch_size < size
        /\ size <= work_count * batch_size
    BY <1>1, <1>5, <2>2, CeilDivFacts DEF WorkCount
  <2> HIDE DEF work_count
  <2>4. p = [thread_count |-> UsefulThreads(threads, work_count),
             batch_size |-> batch_size, work_count |-> work_count]
    BY <1>5 DEF MakeBatchPlan, threads, batch_size, work_count
  <2>5. /\ UsefulThreads(threads, work_count) \in {threads, work_count}
        /\ UsefulThreads(threads, work_count) <= threads
        /\ UsefulThreads(threads, work_count) <= work_count
    BY <2>1, <2>3 DEF UsefulThreads, Lesser
  <2> DEFINE n == UsefulThreads(threads, work_count)
  <2>6. n \in Nat \ {0} /\ n <= MaxBatchParallelism /\ n <= size
    BY <1>1, <2>1, <2>3, <2>5, ParallelismFacts
  <2>7. n > 1 => (n - 1) * kBatchBytesPerThread < total_bytes
    <3> SUFFICES ASSUME n > 1 PROVE (n - 1) * kBatchBytesPerThread < total_bytes
      OBVIOUS
    <3>1. n <= threads
      BY <2>5
    <3> HIDE DEF n
    <3>2. (n - 1) * kBatchBytesPerThread <= (threads - 1) * kBatchBytesPerThread
      BY <1>2, <2>1, <2>6, <3>1, ProductStep
    <3>3. /\ (n - 1) * kBatchBytesPerThread \in Nat
          /\ (threads - 1) * kBatchBytesPerThread \in Nat /\ total_bytes \in Nat
      BY <1>1, <1>2, <2>1, <2>6
    <3> QED
      BY <2>1, <2>6, <3>1, <3>2, <3>3
  <2>8. p = [thread_count |-> n, batch_size |-> batch_size, work_count |-> work_count]
        /\ n <= work_count
    BY <2>4, <2>5
  <2> HIDE DEF n, p
  <2>9. p \in BatchPlan
    BY <1>1, <1>2, <2>2, <2>3, <2>6, <2>8 DEF BatchPlan
  <2>10. /\ p.thread_count = n /\ p.batch_size = batch_size /\ p.work_count = work_count
    BY <2>8
  <2> QED
    BY <1>5, <2>2, <2>3, <2>6, <2>7, <2>8, <2>9, <2>10 DEF p
<1> QED
  BY <1>3, <1>4, <1>5

-----------------------------------------------------------------------------
(* The chunks of a plan.                                                   *)

\* The begin of a chunk whose number is below the count is below the size.
LEMMA ChunkStarts ==
    ASSUME NEW size \in Nat, NEW c \in Nat \ {0}, NEW k \in Nat, NEW b \in 0 .. c - 1,
           (c - 1) * k < size
    PROVE  b * k \in Nat /\ b * k < size
<1>1. b \in Nat /\ c - 1 \in Nat /\ b <= c - 1
  OBVIOUS
<1>2. b * k <= (c - 1) * k
  BY <1>1, ProductStep
<1>3. b * k \in Nat /\ (c - 1) * k \in Nat
  BY <1>1
<1> QED
  BY <1>2, <1>3

\* Chunks of equal width that both hold an input are the same.
LEMMA ChunkUnique ==
    ASSUME NEW i \in Nat, NEW k \in Nat \ {0}, NEW b \in Nat, NEW d \in Nat,
           b * k <= i, i < b * k + k, d * k <= i, i < d * k + k
    PROVE  b = d
<1>1. b * k \in Nat /\ d * k \in Nat
  OBVIOUS
<1>2. ASSUME b + 1 <= d PROVE FALSE
  <2>1. (b + 1) * k <= d * k /\ (b + 1) * k = b * k + k
    BY <1>2, ProductStep
  <2> QED
    BY <1>1, <2>1
<1>3. ASSUME d + 1 <= b PROVE FALSE
  <2>1. (d + 1) * k <= b * k /\ (d + 1) * k = d * k + k
    BY <1>3, ProductStep
  <2> QED
    BY <1>1, <2>1
<1> QED
  BY <1>2, <1>3

\* The chunks of a plan partition the inputs, and none is empty.
LEMMA PlanChunks ==
    ASSUME NEW size \in SizeT, NEW total_bytes \in SizeT, NEW requested \in SizeT
    PROVE  LET p == MakeBatchPlan(size, total_bytes, requested)
           IN  /\ \A b \in 0 .. p.work_count - 1 :
                     /\ Begin(p, b) \in Nat /\ End(p, size, b) \in Nat
                     /\ Begin(p, b) < End(p, size, b) /\ End(p, size, b) <= size
               /\ \A i \in 0 .. size - 1 : \E b \in 0 .. p.work_count - 1 :
                     /\ Begin(p, b) <= i /\ i < End(p, size, b)
                     /\ \A d \in 0 .. p.work_count - 1 :
                           Begin(p, d) <= i /\ i < End(p, size, d) => d = b
<1> DEFINE p == MakeBatchPlan(size, total_bytes, requested)
           k == p.batch_size
           c == p.work_count
<1>1. /\ size \in Nat /\ c \in Nat /\ k \in Nat
      /\ size = 0 => c = 0
      /\ size > 0 => /\ k \in 1 .. size
                     /\ (c - 1) * k < size
                     /\ size <= c * k
  <2>1. SizeT \subseteq Nat
    BY PlanAssumption DEF SizeT
  <2> QED
    BY <2>1, PlanFacts DEF BatchPlan
<1>2. \A b : /\ Begin(p, b) = b * k
             /\ End(p, size, b) = b * k + Lesser(k, size - b * k)
  BY DEF Begin, End
<1> HIDE DEF p, k, c
<1>3. ASSUME NEW b \in 0 .. c - 1
      PROVE  /\ b * k \in Nat /\ b * k < size
             /\ b * k + Lesser(k, size - b * k) \in Nat
             /\ b * k + Lesser(k, size - b * k) > b * k
             /\ b * k + Lesser(k, size - b * k) <= size
             /\ \A i \in 0 .. size - 1 :
                   i < b * k + Lesser(k, size - b * k) <=> i < b * k + k
  <2>1. c \in Nat \ {0} /\ size > 0 /\ k \in Nat \ {0}
    BY <1>1
  <2>2. b * k \in Nat /\ b * k < size
    BY <1>1, <2>1, ChunkStarts
  <2> QED
    BY <1>1, <2>1, <2>2 DEF Lesser
<1>4. ASSUME NEW i \in 0 .. size - 1
      PROVE  \E b \in 0 .. c - 1 :
                /\ b * k <= i /\ i < b * k + Lesser(k, size - b * k)
                /\ \A d \in 0 .. c - 1 :
                      d * k <= i /\ i < d * k + Lesser(k, size - d * k) => d = b
  <2>1. k \in Nat \ {0} /\ i \in Nat /\ i < size /\ size <= c * k
    BY <1>1
  <2> DEFINE b == i \div k
  <2>2. b \in Nat /\ b * k <= i /\ i < b * k + k
    <3>1. b \in Nat /\ k * b <= i /\ i < k * b + k
      BY <2>1, DivFacts
    <3> HIDE DEF b
    <3> QED
      BY <2>1, <3>1
  <2> HIDE DEF b
  <2>3. b \in 0 .. c - 1
    <3>1. ASSUME c <= b PROVE FALSE
      <4>1. c * k <= b * k
        BY <1>1, <2>1, <2>2, <3>1, ProductStep
      <4>2. c * k \in Nat /\ b * k \in Nat
        BY <1>1, <2>1, <2>2
      <4> QED
        BY <1>1, <2>1, <2>2, <4>1, <4>2
    <3> QED
      BY <1>1, <2>2, <3>1
  <2>4. ASSUME NEW d \in 0 .. c - 1, d * k <= i, i < d * k + Lesser(k, size - d * k)
        PROVE  d = b
    <3>1. d \in Nat /\ i < d * k + k
      BY <1>3, <2>4
    <3> QED
      BY <2>1, <2>2, <2>4, <3>1, ChunkUnique
  <2>5. i < b * k + Lesser(k, size - b * k)
    BY <1>3, <2>2, <2>3
  <2> QED
    BY <2>2, <2>3, <2>4, <2>5
<1>5. \A b \in 0 .. c - 1 :
         /\ Begin(p, b) \in Nat /\ End(p, size, b) \in Nat
         /\ Begin(p, b) < End(p, size, b) /\ End(p, size, b) <= size
  <2> SUFFICES ASSUME NEW b \in 0 .. c - 1
               PROVE  /\ Begin(p, b) \in Nat /\ End(p, size, b) \in Nat
                      /\ Begin(p, b) < End(p, size, b) /\ End(p, size, b) <= size
    OBVIOUS
  <2> QED
    BY <1>1, <1>2, <1>3
<1>6. \A i \in 0 .. size - 1 : \E b \in 0 .. c - 1 :
         /\ Begin(p, b) <= i /\ i < End(p, size, b)
         /\ \A d \in 0 .. c - 1 : Begin(p, d) <= i /\ i < End(p, size, d) => d = b
  BY <1>2, <1>4
<1> QED
  BY <1>5, <1>6 DEF p, c

\* Only a chunk size below the number of inputs makes a plan parallel.
LEMMA ParallelPlans ==
    ASSUME NEW size \in SizeT, NEW total_bytes \in SizeT, NEW requested \in SizeT,
           MakeBatchPlan(size, total_bytes, requested).thread_count > 1
    PROVE  OpenMp /\ size > 0 /\ requested < size
<1> DEFINE p == MakeBatchPlan(size, total_bytes, requested)
<1>1. size \in Nat /\ requested \in Nat
  BY PlanAssumption DEF SizeT
<1>2. size # 0 /\ OpenMp
  BY DEF MakeBatchPlan
<1>3. /\ p.batch_size = BatchSize(size, MaximumThreads(size, total_bytes), requested)
      /\ p.work_count = WorkCount(size, p.batch_size)
  BY <1>2 DEF MakeBatchPlan
<1>4. p.thread_count \in Nat /\ p.work_count \in Nat /\ p.thread_count <= p.work_count
  BY PlanFacts, PlanAssumption DEF BatchPlan, SizeT
<1>5. ASSUME size <= requested PROVE FALSE
  <2>1. p.batch_size = size
    BY <1>1, <1>2, <1>3, <1>5 DEF BatchSize, Lesser
  <2>2. (size - 1) \div size = 0
    BY <1>1, <1>2
  <2>3. p.work_count = 1
    BY <1>3, <2>1, <2>2 DEF WorkCount, CeilDiv
  <2> QED
    BY <1>4, <2>3
<1> QED
  BY <1>1, <1>2, <1>5

-----------------------------------------------------------------------------
(* Byte ranges.                                                            *)

LEMMA HalvesFacts ==
    ASSUME NEW h \in Nat
    PROVE  /\ h \div 2 \in Nat /\ h % 2 \in {0, 1}
           /\ h = 2 * (h \div 2) + (h % 2)
<1>1. h % 2 \in 0 .. 1
  OBVIOUS
<1>2. h = 2 * (h \div 2) + (h % 2)
  OBVIOUS
<1> QED
  BY <1>1, <1>2

LEMMA PassedFacts ==
    ASSUME NEW x \in Passed
    PROVE  /\ x.halves \in Int
           /\ x.type \in {"undefined", "other", "nan", "infinity", "finite"}
           /\ x.type = "undefined" <=> x = Undefined
           /\ x.type = "other" <=> x = Other
           /\ x.type = "nan" <=> x = NaN
           /\ x.type = "infinity" => x.halves = 1 \/ x.halves = -1
           /\ x.type = "infinity" /\ x.halves > 0 <=> x = Infinity
           /\ x.type = "finite" => x = Finite(x.halves)
<1> USE DEF Undefined, Other, NaN, Infinity, Finite
<1>1. CASE x \in [type: {"undefined", "other", "nan"}, halves: {0}]
  BY <1>1
<1>2. CASE x \in [type: {"infinity"}, halves: {-1, 1}]
  BY <1>2
<1>3. CASE x \in [type: {"finite"}, halves: Int]
  BY <1>3
<1> QED
  BY <1>1, <1>2, <1>3 DEF Passed

LEMMA MinusFacts ==
    ASSUME NEW n \in Nat, NEW x \in Passed, IsNumber(x)
    PROVE  /\ Minus(n, x) \in Passed /\ IsNumber(Minus(n, x))
           /\ Minus(n, x).type = x.type
           /\ x.type = "finite" => Minus(n, x).halves = 2 * n - x.halves
           /\ x.type # "finite" => Minus(n, x).halves = -x.halves
<1>1. x \in [type: {x.type}, halves: {x.halves}] /\ x.halves \in Int
  BY DEF Passed
<1>2. CASE x.type = "finite"
  BY <1>1, <1>2 DEF Minus, Finite, Passed, IsNumber
<1>3. CASE x.type # "finite"
  <2>1. Minus(n, x) = [type |-> x.type, halves |-> -x.halves]
    BY <1>1, <1>3 DEF Minus
  <2>2. -x.halves \in Int
    BY <1>1
  <2>3. \/ x.type = "nan" /\ x.halves = 0
        \/ x.type = "infinity" /\ x.halves \in {-1, 1}
    <3>1. x \notin [type: {"finite"}, halves: Int] /\ x.type \in {"nan", "infinity"}
      BY <1>3 DEF IsNumber
    <3> QED
      BY <3>1 DEF Passed
  <2> QED
    BY <1>3, <2>1, <2>2, <2>3 DEF Passed, IsNumber
<1> QED
  BY <1>2, <1>3

\* A clamped index is in range.
LEMMA ClampedRange ==
    ASSUME NEW x \in Passed, NEW maximum \in Nat
    PROVE  ClampedIndex(x, maximum) \in 0 .. maximum
<1>1. x.halves \in Int
  BY PassedFacts
<1>2. ASSUME x.halves > 0, x.halves < 2 * maximum
      PROVE  x.halves \div 2 \in 0 .. maximum
  BY <1>1, <1>2
<1> QED
  BY <1>1, <1>2 DEF ClampedIndex

\* What a call of test throws, and the range it takes otherwise.
LEMMA TestFacts ==
    ASSUME NEW size \in Nat, NEW x \in Passed, NEW y \in Passed
    PROVE  LET range == Test(size, x, y)
               begin == ClampedIndex(DefaultOffset(x), size)
               rest == IF y = Undefined THEN Minus(size, DefaultOffset(x)) ELSE y
           IN  /\ Throws(range) <=> x = Other \/ y = Other
               /\ x # Other /\ y # Other =>
                     /\ range.value.begin = begin
                     /\ range.value.size = ClampedIndex(rest, size - begin)
                     /\ begin \in 0 .. size
                     /\ DefaultOffset(x) \in Passed /\ IsNumber(DefaultOffset(x))
                     /\ rest \in Passed /\ IsNumber(rest)
<1> DEFINE o == DefaultOffset(x)
           rest == IF y = Undefined THEN Minus(size, o) ELSE y
<1>1. o \in Passed /\ (IsNumber(o) <=> x # Other)
  <2>1. CASE x = Undefined
    BY <2>1 DEF DefaultOffset, Whole, Finite, Passed, IsNumber, Undefined, Other
  <2>2. CASE x # Undefined
    BY <2>2, PassedFacts DEF DefaultOffset, IsNumber, Other
  <2> QED
    BY <2>1, <2>2
<1>2. ASSUME x # Other PROVE rest \in Passed /\ (IsNumber(rest) <=> y # Other)
  <2>1. CASE y = Undefined
    BY <1>1, <1>2, <2>1, MinusFacts DEF Undefined, Other
  <2>2. CASE y # Undefined
    BY <2>2, PassedFacts DEF IsNumber, Other
  <2> QED
    BY <2>1, <2>2
<1>3. ClampedIndex(o, size) \in 0 .. size
  BY <1>1, ClampedRange
<1>4. Test(size, x, y) = IF x = Other \/ y = Other THEN Throw("TypeError")
                         ELSE Value([begin |-> ClampedIndex(o, size),
                                     size |-> ClampedIndex(rest, size - ClampedIndex(o, size))])
  <2> HIDE DEF o
  <2>1. Test(size, x, y) = IF ~IsNumber(o) THEN Throw("TypeError") ELSE GetText(size, o, rest)
    BY DEF Test, o
  <2> HIDE DEF rest
  <2> QED
    BY <1>1, <1>2, <2>1 DEF GetText, Remaining
<1> HIDE DEF o, rest
<1>5. /\ Throws(Test(size, x, y)) <=> x = Other \/ y = Other
      /\ x # Other /\ y # Other =>
            /\ Test(size, x, y).value.begin = ClampedIndex(o, size)
            /\ Test(size, x, y).value.size = ClampedIndex(rest, size - ClampedIndex(o, size))
  BY <1>4 DEF Throws, Throw, Value
<1> QED
  BY <1>1, <1>2, <1>3, <1>5 DEF o, rest

\* A range that is not refused is inside the view.
LEMMA RangeFacts ==
    ASSUME NEW size \in Nat, NEW x \in Passed, NEW y \in Passed,
           NEW range \in {GetText(size, x, y), Test(size, x, y)}, ~Throws(range)
    PROVE  /\ range.value.begin \in 0 .. size
           /\ range.value.size \in 0 .. size - range.value.begin
<1>1. CASE range = GetText(size, x, y)
  <2> DEFINE begin == ClampedIndex(x, size)
  <2>1. begin \in 0 .. size /\ size - begin \in Nat
    BY ClampedRange
  <2> HIDE DEF begin
  <2>2. ClampedIndex(y, size - begin) \in 0 .. size - begin
    BY <2>1, ClampedRange
  <2>3. range.value = [begin |-> begin, size |-> ClampedIndex(y, size - begin)]
    BY <1>1 DEF GetText, Throws, Throw, Value, Remaining, begin
  <2> QED
    BY <2>1, <2>2, <2>3
<1>2. CASE range = Test(size, x, y)
  <2> DEFINE begin == ClampedIndex(DefaultOffset(x), size)
             rest == IF y = Undefined THEN Minus(size, DefaultOffset(x)) ELSE y
  <2>1. /\ range.value.begin = begin /\ begin \in 0 .. size
        /\ range.value.size = ClampedIndex(rest, size - begin) /\ rest \in Passed
    BY <1>2, TestFacts
  <2> HIDE DEF begin, rest
  <2>2. ClampedIndex(rest, size - begin) \in 0 .. size - begin
    BY <2>1, ClampedRange
  <2> QED
    BY <2>1, <2>2
<1> QED
  BY <1>1, <1>2
=============================================================================
