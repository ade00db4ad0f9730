---------------------------- MODULE ArgumentInputs ----------------------------
(***************************************************************************)
(* The pure functions over their inputs: a state is one input of           *)
(* MakeBatchPlan, or one call with the numbers it is passed.               *)
(***************************************************************************)
EXTENDS BatchPlanInputs, NumberArguments

CONSTANTS Sizes, Numbers   \* sizes of views, numbers of inputs; what is passed

\* No view and no array of JavaScript is longer than a safe integer.
ASSUME InputsAssumption == Sizes \subseteq 0 .. kMaxSafeInteger /\ Numbers \subseteq Passed

VARIABLE call

NoInput == [size |-> 0, total_bytes |-> 0, batch_size |-> 0]
NoCall == [function |-> "none"]

Calls ==
    [function: {"test"}, size: Sizes, byteOffset: Numbers, byteLength: Numbers]
        \cup [function: {"testMany"}, count: Sizes, total_bytes: 0 .. kMaxSafeInteger,
              batchSize: Numbers]

ArgumentsInit ==
    \/ Init /\ call = NoCall
    \/ input = NoInput /\ call \in Calls

ArgumentsSpec == ArgumentsInit /\ [][UNCHANGED <<input, call>>]_<<input, call>>

\* Byte i of a view is at or past an offset, truncated if it is fractional ...
AtOrPast(i, x) ==
    /\ x.type = "finite" => x.halves < 2 * (i + 1)
    /\ x.type = "infinity" => x.halves < 0

\* ... and it is before the end of a range of that length.
Before(i, begin, x) ==
    \/ x.type = "infinity" /\ x.halves > 0
    \/ x.type = "finite" /\ 2 * (i - begin + 1) <= x.halves

Fractional(x) == x.type = "finite" /\ x.halves % 2 = 1

Selected(range) == range.begin .. range.begin + range.size - 1

\* README.md: "Negative values clamp to zero, values past the view clamp to its
\* bounds, and fractional values are truncated."  A range is the bytes of the view
\* between its two bounds, computed without clamping, whatever the numbers: never
\* a byte past the view.
RangeIsDocumented ==
    call.function = "test" =>
        LET range == Test(call.size, call.byteOffset, call.byteLength)
            offset == call.byteOffset
            begin == CHOOSE i \in 0 .. call.size :
                        /\ i = call.size \/ AtOrPast(i, offset)
                        /\ \A j \in 0 .. i - 1 : ~AtOrPast(j, offset)
        IN  /\ Throws(range) <=> Other \in {offset, call.byteLength}
            /\ ~Throws(range) /\ call.byteLength # Undefined =>
                  Selected(range.value) =
                      {i \in 0 .. call.size - 1 :
                          i >= begin /\ Before(i, begin, call.byteLength)}

\* Without a length the range is the rest of the view; but the rest is measured
\* from the offset as given, so that a fractional one costs the last byte, and NaN
\* every byte.
OmittedLengthIsTheRest ==
    call.function = "test" /\ call.byteLength = Undefined /\ call.byteOffset # Other =>
        LET range == Test(call.size, call.byteOffset, Undefined).value
            inside == 0 < call.byteOffset.halves /\ call.byteOffset.halves < 2 * call.size
        IN  range.begin + range.size =
                IF call.byteOffset = NaN THEN 0
                ELSE IF Fractional(call.byteOffset) /\ inside THEN call.size - 1
                ELSE call.size

\* "Infinity or a value at least as large as the input count disables intra-call
\* parallelism", and a finite batchSize is refused unless it is a positive safe
\* integer: what src/binary.ts lets through the binding takes, means the same to
\* it, and batch_parallelism reports the threads the batch is planned with.
BatchSizeIsDocumented ==
    call.function = "testMany" =>
        LET x == call.batchSize
            batch_size == RequestedBatchSize(x)
            threads == BatchParallelism(call.count, call.total_bytes, batch_size.value)
        IN  /\ Throws(batch_size) <=>
                   x \notin {Undefined, Infinity} \cup {Whole(n) : n \in 1 .. kMaxSafeInteger}
            /\ ~Throws(batch_size) =>
                   /\ batch_size.value = 0 <=> x = Undefined
                   /\ x = Infinity \/ (x # Undefined /\ x.halves >= 2 * call.count) =>
                         threads <= 1
                   /\ BatchThreadCount(Whole(call.count), Whole(call.total_bytes), x) =
                         Value(threads)
=============================================================================
