------------------------------ MODULE BatchPlan ------------------------------
(***************************************************************************)
(* How a batch of inputs is divided among threads, native/batch-plan.h.    *)
(*                                                                         *)
(* Arithmetic is that of size_t.  Only the product of threads and batches  *)
(* per thread can leave its range; it is reduced modulo SizeMax + 1.       *)
(***************************************************************************)
EXTENDS Integers

CONSTANTS
    kBatchBytesPerThread,
    kBatchesPerThread,
    SizeMax,        \* largest size_t
    OpenMp,         \* NODE_RE2_OPENMP is defined
    available,      \* uv_available_parallelism()
    thread_limit    \* omp_get_thread_limit()

\* The two static_asserts, and what the platform guarantees.
ASSUME PlanAssumption ==
    /\ kBatchBytesPerThread \in Nat \ {0}
    /\ kBatchesPerThread \in Nat \ {0}
    /\ SizeMax \in Nat \ {0}
    /\ OpenMp \in BOOLEAN
    /\ available \in Nat
    /\ thread_limit \in Int

SizeT == 0 .. SizeMax

Lesser(a, b) == IF a <= b THEN a ELSE b
Greater(a, b) == IF a >= b THEN a ELSE b

\* a / b rounded up, written as the code writes it; a is at least 1.
CeilDiv(a, b) == 1 + ((a - 1) \div b)

BatchPlan == [thread_count: SizeT, batch_size: SizeT, work_count: SizeT]

\* Half of the CPUs the process may use, and never more than OpenMP allows.
MaxBatchParallelism ==
    IF OpenMp
      THEN Lesser(Greater(Greater(available, 1) \div 2, 1), Greater(thread_limit, 1))
      ELSE 1

\* Seeded fault: a full share of bytes already pays for another thread.
RoundedUpThreads(total_bytes) == 1 + (total_bytes \div kBatchBytesPerThread)

WorkThreads(total_bytes) ==
    IF total_bytes = 0 THEN 1 ELSE CeilDiv(total_bytes, kBatchBytesPerThread)

MaximumThreads(size, total_bytes) ==
    Lesser(Lesser(MaxBatchParallelism, size), WorkThreads(total_bytes))

\* Seeded fault: the test for overflow is missing.
UncheckedBatches(size, threads) == (threads * kBatchesPerThread) % (SizeMax + 1)

RequestedBatches(size, threads) ==
    IF threads > SizeMax \div kBatchesPerThread
      THEN size
      ELSE (threads * kBatchesPerThread) % (SizeMax + 1)

BatchSize(size, threads, requested) ==
    IF requested = 0
      THEN CeilDiv(size, Lesser(size, RequestedBatches(size, threads)))
      ELSE Lesser(requested, size)

\* Seeded fault: threads are not limited by the number of chunks.
IdleThreads(threads, work_count) == threads

UsefulThreads(threads, work_count) == Lesser(threads, work_count)

\* Seeded fault: the last, shorter chunk is forgotten.
FloorWorkCount(size, batch_size) == Greater(size \div batch_size, 1)

WorkCount(size, batch_size) == CeilDiv(size, batch_size)

MakeBatchPlan(size, total_bytes, requested) ==
    IF size = 0 THEN
        [thread_count |-> 0, batch_size |-> 0, work_count |-> 0]
    ELSE IF OpenMp THEN
        LET threads == MaximumThreads(size, total_bytes)
            batch_size == BatchSize(size, threads, requested)
            work_count == WorkCount(size, batch_size)
        IN  [thread_count |-> UsefulThreads(threads, work_count),
             batch_size |-> batch_size,
             work_count |-> work_count]
    ELSE
        [thread_count |-> 1, batch_size |-> size, work_count |-> 1]

\* The inputs of chunk b, as ParallelFor computes them: Begin(..) .. End(..) - 1.
Begin(plan, b) == b * plan.batch_size

\* Seeded fault: the last chunk is not clamped to the inputs.
UnclampedEnd(plan, size, b) == Begin(plan, b) + plan.batch_size

End(plan, size, b) ==
    Begin(plan, b) + Lesser(plan.batch_size, size - Begin(plan, b))
=============================================================================
