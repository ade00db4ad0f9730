--------------------------- MODULE BatchPlanInputs ---------------------------
(***************************************************************************)
(* MakeBatchPlan over all its inputs: a state is one input, and does not   *)
(* change.                                                                 *)
(***************************************************************************)
EXTENDS BatchPlan

VARIABLE input

Init == input \in [size: SizeT, total_bytes: SizeT, batch_size: SizeT]

plan == MakeBatchPlan(input.size, input.total_bytes, input.batch_size)

Chunks == 0 .. plan.work_count - 1

Holds(b, i) == Begin(plan, b) <= i /\ i < End(plan, input.size, b)

\* The chunks ParallelFor visits are a partition of the inputs, none is empty, and
\* nothing computed leaves size_t.
PlanCovers ==
    /\ plan \in BatchPlan
    /\ \A i \in 0 .. input.size - 1 :
          \E b \in Chunks : Holds(b, i) /\ \A d \in Chunks : Holds(d, i) => d = b
    /\ \A b \in Chunks : Begin(plan, b) < End(plan, input.size, b)
    /\ \A b \in Chunks : End(plan, input.size, b) <= input.size

\* Every thread gets a chunk, and every thread but the first is paid for by the
\* input bytes: "when a batch contains enough input bytes to amortize dispatch".
ThreadsEarnTheirKeep ==
    /\ plan.thread_count <= plan.work_count
    /\ plan.thread_count <= MaxBatchParallelism
    /\ input.size > 0 => plan.thread_count > 0
    /\ plan.thread_count > 1 =>
          (plan.thread_count - 1) * kBatchBytesPerThread < input.total_bytes

\* "Omitting batchSize keeps automatic scheduling at about 16 chunks per requested
\* OpenMP thread": never more, and more than half as many unless there are no more
\* inputs to divide.
AutomaticChunks ==
    LET wanted == kBatchesPerThread * MaximumThreads(input.size, input.total_bytes) IN
    OpenMp /\ input.size > 0 /\ input.batch_size = 0 =>
        /\ plan.work_count <= wanted
        /\ plan.batch_size = 1 \/ 2 * plan.work_count > wanted
=============================================================================
