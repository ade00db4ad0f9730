----------------------------- MODULE AsyncBatch -----------------------------
(***************************************************************************)
(* Batch matching of RE2 and RE2Set in one environment: testManySync and   *)
(* testManyAsync from the call to its outcome, while the program goes on   *)
(* writing, detaching, dropping and replacing the buffers it passed and    *)
(* the collector frees those it no longer reaches.                         *)
(*                                                                         *)
(* A call matches in one of three modes: "sync" borrows the buffers and    *)
(* blocks the JavaScript thread; "safe" copies their bytes first;          *)
(* "unsafe" borrows them for a pool thread and retains the inputs array.   *)
(* The loop over the inputs is ParallelFor, taken for what ForEach says of *)
(* it.  Matching one input is one step.  Which queued work the pool starts *)
(* next is left open.                                                      *)
(***************************************************************************)
EXTENDS Naturals, SequencesExt

CONSTANTS
    Calls,
    SetCalls,    \* the calls on an RE2Set; the others are on an RE2
    Buffers,
    Contents,    \* what a buffer may hold
    Gone,        \* of memory that was detached or freed; a view of it is empty
    ErrorKinds,  \* RE2::Set::ErrorKind, kNoError excepted
    MaxInputs,   \* bound on the inputs of a call
    Stuck,       \* the calls whose reference cannot be deleted
    Faults,      \* the other failures this instance explores
    None

FaultKinds == {
    "setup",     \* options or inputs refused, or an exception while preparing
    "queue",     \* the async work is not created or not queued
    "cancel",    \* the host cancels queued work
    "status",    \* the work completes with another status
    "match",     \* an exception while matching
    "result",    \* the result is not created, or not handed over
    "terminate"} \* the environment is torn down

ASSUME CallsAssumption ==
    SetCalls \subseteq Calls /\ Stuck \subseteq Calls /\ MaxInputs \in Nat
ASSUME ValuesAssumption ==
    /\ Gone \notin Contents
    /\ None \notin Contents \cup {Gone} \cup ErrorKinds
    /\ ErrorKinds \cap (Contents \cup {Gone}) = {}
    /\ "resolved" \notin ErrorKinds
    /\ None # "unsafe"
ASSUME FaultsAssumption == Faults \subseteq FaultKinds

VARIABLES
    argument,   \* the array the program passes
    known,      \* the buffers it keeps in other variables
    bytes,      \* the contents of each buffer
    disturbed,  \* the calls whose borrowed buffers it wrote or detached
    mode,       \* of each call: "sync", "safe" or "unsafe"
    inputs,     \* the array made by normalizeInputs
    submitted,  \* history: the contents of the inputs at the call
    snapshot,   \* AsyncBatch::snapshot
    reference,  \* whether AsyncBatch::borrowed_inputs holds the array
    stage,      \* how far each call is
    loop,       \* its ParallelFor; "threw" is RegexMatchWork::failed
    todo,       \* the inputs of the loop
    visits, raised, thrown,
    verdicts,   \* matches and errors: the bytes matched, or an error kind
    outcome,    \* what the caller is told
    closing     \* the environment is being torn down

programVars == <<argument, known, bytes, disturbed>>
callVars == <<mode, inputs, submitted, snapshot>>
loopVars == <<loop, todo, visits, raised, thrown>>
vars == <<programVars, callVars, reference, stage, loopVars, verdicts, outcome, closing>>

Indices == 0 .. MaxInputs - 1
Modes == {"sync", "safe", "unsafe"}
Stages == {"unused", "inline", "queued", "running", "executed", "cancelled", "settled"}
Failures == {"setup_error", "cancelled", "incomplete", "release_error", "failed",
             "result_error", "dropped"}
Outcomes == {"pending", "resolved"} \cup Failures \cup ErrorKinds

Loop == INSTANCE ForEach WITH
    Batches <- Calls, status <- loop, inputs <- todo, error <- thrown

Stored == Contents \cup {Gone}
NoVerdicts == [i \in Indices |-> None]

\* Well-typed state; only unsafe calls retain their inputs array, and only safe
\* ones hold a copy.
TypeOK ==
    /\ argument \in Seq(Buffers) /\ Len(argument) <= MaxInputs
    /\ known \subseteq Buffers
    /\ bytes \in [Buffers -> Stored]
    /\ disturbed \subseteq Calls
    /\ mode \in [Calls -> Modes \cup {None}]
    /\ inputs \in [Calls -> Seq(Buffers)]
    /\ submitted \in [Calls -> Seq(Stored)]
    /\ snapshot \in [Calls -> Seq(Stored)]
    /\ reference \in [Calls -> BOOLEAN]
    /\ stage \in [Calls -> Stages]
    /\ loop \in [Calls -> {"idle", "running", "returned", "threw"}]
    /\ todo \in [Calls -> SUBSET Indices]
    /\ visits \in [Calls -> [Indices -> {0, 1}]]
    /\ raised \in [Calls -> SUBSET Indices]
    /\ thrown \in [Calls -> Indices \cup {None}]
    /\ verdicts \in [Calls -> [Indices -> Stored \cup ErrorKinds \cup {None}]]
    /\ outcome \in [Calls -> Outcomes]
    /\ closing \in BOOLEAN
    /\ \A c \in Calls :
          /\ reference[c] => mode[c] = "unsafe"
          /\ snapshot[c] # <<>> => mode[c] = "safe"

Init ==
    /\ argument \in {s \in [1 .. MaxInputs -> Buffers] : IsInjective(s)}
    /\ known = Buffers
    /\ bytes \in [Buffers -> Contents]
    /\ disturbed = {}
    /\ mode = [c \in Calls |-> None]
    /\ inputs = [c \in Calls |-> <<>>]
    /\ submitted = [c \in Calls |-> <<>>]
    /\ snapshot = [c \in Calls |-> <<>>]
    /\ reference = [c \in Calls |-> FALSE]
    /\ stage = [c \in Calls |-> "unused"]
    /\ Loop!Init
    /\ verdicts = [c \in Calls |-> NoVerdicts]
    /\ outcome = [c \in Calls |-> "pending"]
    /\ closing = FALSE

Fault(kind) == kind \in Faults

\* The JavaScript thread is not inside a synchronous call.
JsFree == \A c \in Calls : stage[c] # "inline"

-----------------------------------------------------------------------------
(* The program and the collector.                                          *)

Mine == known \cup Range(argument)

Borrowers(b) == {c \in Calls : /\ mode[c] = "unsafe" /\ stage[c] # "settled"
                               /\ b \in Range(inputs[c])}

\* The program writes or detaches a buffer, an input of a pending call included.
Store(b, x) ==
    /\ JsFree /\ ~closing
    /\ b \in Mine /\ bytes[b] \notin {x, Gone}
    /\ bytes' = [bytes EXCEPT ![b] = x]
    /\ disturbed' = disturbed \cup Borrowers(b)
    /\ UNCHANGED <<argument, known, callVars, reference, stage, loopVars, verdicts,
                   outcome, closing>>

\* The program puts another buffer into the array it passed.
Replace(i, b) ==
    /\ JsFree /\ ~closing
    /\ b \in Mine /\ argument[i] # b
    /\ argument' = [argument EXCEPT ![i] = b]
    /\ UNCHANGED <<known, bytes, disturbed, callVars, reference, stage, loopVars,
                   verdicts, outcome, closing>>

Shorten ==
    /\ JsFree /\ ~closing
    /\ argument # <<>>
    /\ argument' = Front(argument)
    /\ UNCHANGED <<known, bytes, disturbed, callVars, reference, stage, loopVars,
                   verdicts, outcome, closing>>

Forget(b) ==
    /\ JsFree /\ ~closing
    /\ b \in known
    /\ known' = known \ {b}
    /\ UNCHANGED <<argument, bytes, disturbed, callVars, reference, stage, loopVars,
                   verdicts, outcome, closing>>

\* Seeded fault: normalizeInputs passes the caller's array on.
RetainedCallersArray(c) == Range(argument)

\* What the array of call c keeps alive.
Retained(c) == Range(inputs[c])

\* The arguments of a call in progress are handles; later only the reference
\* keeps the array, and nothing keeps it for a safe call.
Reachable ==
    Mine \cup UNION {Retained(c) : c \in {d \in Calls : reference[d] \/ stage[d] = "inline"}}

Collect(b) ==
    /\ b \notin Reachable /\ bytes[b] # Gone
    /\ bytes' = [bytes EXCEPT ![b] = Gone]
    /\ UNCHANGED <<argument, known, disturbed, callVars, reference, stage, loopVars,
                   verdicts, outcome, closing>>

-----------------------------------------------------------------------------
(* The calls, on the JavaScript thread.                                    *)

\* Seeded fault: a cancelled call is not settled.
SettleIfRun(c, result) ==
    outcome' = [outcome EXCEPT ![c] = IF result = "cancelled" THEN @ ELSE result]

\* Resolving or rejecting in an environment that can no longer run JavaScript
\* fails; the promise is never observed.
Settle(c, result) ==
    outcome' = [outcome EXCEPT ![c] = IF closing THEN "dropped" ELSE result]

\* Seeded fault: the array is retained whatever the mode.
RetainAlways(m) == m # "sync"

\* napi_create_reference of GetAsyncBatch.
Retain(m) == m = "unsafe"

\* Seeded fault: only the completion of executed work lets its inputs go.
ReleaseIfExecuted(c, had) == had /\ (c \in Stuck \/ stage[c] # "executed")

\* Whether the reference outlives ReleaseAsyncBatch.
ReleaseAsyncBatch(c, had) == had /\ c \in Stuck

Texts(array) == [i \in DOMAIN array |-> bytes[array[i]]]

\* Every call starts with normalizeInputs, which makes an array of its own.
Pass(c, m) ==
    /\ JsFree /\ ~closing
    /\ stage[c] = "unused"
    /\ mode' = [mode EXCEPT ![c] = m]
    /\ inputs' = [inputs EXCEPT ![c] = argument]
    /\ submitted' = [submitted EXCEPT ![c] = Texts(argument)]
    /\ UNCHANGED <<programVars, closing>>

\* GetAsyncBatch copies or retains the inputs.
GetAsyncBatch(c, m) ==
    /\ snapshot' = [snapshot EXCEPT ![c] = IF m = "safe" THEN Texts(argument) ELSE <<>>]
    /\ reference' = [reference EXCEPT ![c] = Retain(m)]

\* The work is queued; or something before that fails, and the call lets go of
\* what it retained and rejects.
TestManyAsync(c, m) ==
    /\ m \in {"safe", "unsafe"}
    /\ Pass(c, m)
    /\ \/ /\ GetAsyncBatch(c, m)
          /\ stage' = [stage EXCEPT ![c] = "queued"]
          /\ UNCHANGED outcome
       \/ /\ Fault("setup") \/ Fault("queue")
          /\ reference' = [reference EXCEPT ![c] = ReleaseAsyncBatch(c, Retain(m))]
          /\ stage' = [stage EXCEPT ![c] = "settled"]
          /\ Settle(c, "setup_error")
          /\ UNCHANGED snapshot
    /\ UNCHANGED <<loopVars, verdicts>>

RegexTestManyAsync(c, m) == c \notin SetCalls /\ TestManyAsync(c, m)
SetTestManyAsync(c, m) == c \in SetCalls /\ TestManyAsync(c, m)

\* ParallelFor over texts.size() inputs.
StartLoop(c) ==
    /\ Loop!Start(c)
    /\ todo'[c] = 0 .. Len(inputs'[c]) - 1

\* testManySync up to the loop; GetTexts borrows every buffer.
TestMany(c) ==
    /\ Pass(c, "sync")
    /\ \/ /\ stage' = [stage EXCEPT ![c] = "inline"]
          /\ StartLoop(c)
          /\ UNCHANGED outcome
       \/ /\ Fault("setup")
          /\ stage' = [stage EXCEPT ![c] = "settled"]
          /\ Settle(c, "setup_error")
          /\ UNCHANGED loopVars
    /\ UNCHANGED <<snapshot, reference, verdicts>>

-----------------------------------------------------------------------------
(* Matching, on a pool thread and its team, or on the JavaScript thread.   *)

\* Execute begins.
StartWork(c) ==
    /\ stage[c] = "queued"
    /\ stage' = [stage EXCEPT ![c] = "running"]
    /\ UNCHANGED callVars
    /\ StartLoop(c)
    /\ UNCHANGED <<programVars, reference, verdicts, outcome,
                   closing>>

\* Seeded fault: an asynchronous batch always reads the caller's buffers.
BorrowedText(c, i) == bytes[inputs[c][i + 1]]

\* AsyncBatch::operator[]; a synchronous call reads the buffers.
Text(c, i) == IF mode[c] = "safe" THEN snapshot[c][i + 1] ELSE bytes[inputs[c][i + 1]]

\* The loop applies PartialMatch or Set::Match to input i, with verdict v.
Match(c, i, v) ==
    /\ Loop!Visit(c, i)
    /\ raised' # raised => Fault("match")
    /\ verdicts' = IF raised' = raised THEN [verdicts EXCEPT ![c][i] = v] ELSE verdicts
    /\ UNCHANGED <<programVars, callVars, reference, stage, outcome, closing>>

MatchRegexBatch(c, i) == c \notin SetCalls /\ Match(c, i, Text(c, i))

MatchSetBatch(c, i) ==
    c \in SetCalls /\ \E v \in {Text(c, i)} \cup ErrorKinds : Match(c, i, v)

\* The loop ends; what was matched before an exception is discarded.
LoopEnds(c) ==
    \/ Loop!Return(c) /\ UNCHANGED verdicts
    \/ Loop!Throw(c) /\ verdicts' = [verdicts EXCEPT ![c] = NoVerdicts]

\* Execute ends, and the work is posted to the event loop.
Execute(c) ==
    /\ stage[c] = "running"
    /\ LoopEnds(c)
    /\ stage' = [stage EXCEPT ![c] = "executed"]
    /\ UNCHANGED <<programVars, callVars, reference, outcome, closing>>

RegexTestManyExecute(c) == c \notin SetCalls /\ Execute(c)
SetTestManyExecute(c) == c \in SetCalls /\ Execute(c)

CancelWork(c) ==
    /\ Fault("cancel")
    /\ stage[c] = "queued"
    /\ stage' = [stage EXCEPT ![c] = "cancelled"]
    /\ UNCHANGED <<programVars, callVars, reference, loopVars, verdicts, outcome, closing>>

-----------------------------------------------------------------------------
(* Outcomes, on the JavaScript thread.                                     *)

Failing(c) == {i \in Indices : verdicts[c][i] \in ErrorKinds}

\* CreateRegexBatchResult and CreateSetBatchResult: one element per input.
Result(c) == [i \in DOMAIN inputs[c] |-> verdicts[c][i - 1]]

\* The matches are handed over, or the error of the first input that has one.
Report(c) ==
    \/ \E i \in Failing(c) : /\ \A j \in Failing(c) : i <= j
                             /\ Settle(c, verdicts[c][i])
    \/ /\ Failing(c) = {}
       /\ Settle(c, "resolved") \/ (Fault("result") /\ Settle(c, "result_error"))

\* The inputs are let go of, then the promise is settled.
TestManyComplete(c) ==
    LET kept == ReleaseAsyncBatch(c, reference[c]) IN
    /\ JsFree
    /\ reference' = [reference EXCEPT ![c] = kept]
    /\ \/ stage[c] = "cancelled" /\ Settle(c, "cancelled")
       \/ /\ stage[c] = "executed"
          /\ \/ Fault("status") /\ Settle(c, "incomplete")
             \/ kept /\ Settle(c, "release_error")
             \/ ~kept /\ loop[c] = "threw" /\ Settle(c, "failed")
             \/ ~kept /\ loop[c] = "returned" /\ Report(c)
    /\ stage' = [stage EXCEPT ![c] = "settled"]
    /\ UNCHANGED <<programVars, callVars, loopVars, verdicts, closing>>

RegexTestManyComplete(c) == c \notin SetCalls /\ TestManyComplete(c)
SetTestManyComplete(c) == c \in SetCalls /\ TestManyComplete(c)

\* testManySync after its loop: it returns or throws.
TestManyReturns(c) ==
    /\ stage[c] = "inline"
    /\ LoopEnds(c)
    /\ stage' = [stage EXCEPT ![c] = "settled"]
    /\ IF loop'[c] = "threw" THEN Settle(c, "failed") ELSE Report(c)
    /\ UNCHANGED <<programVars, callVars, reference, closing>>

RegexTestMany(c) == c \notin SetCalls /\ (TestMany(c) \/ TestManyReturns(c))
SetTestMany(c) == c \in SetCalls /\ (TestMany(c) \/ TestManyReturns(c))

\* A Worker is terminated: the program stops, completions that are due still run.
TerminateEnv ==
    /\ Fault("terminate")
    /\ ~closing /\ closing' = TRUE
    /\ UNCHANGED <<programVars, callVars, reference, stage, loopVars, verdicts, outcome>>

-----------------------------------------------------------------------------
PoolStep(c) ==
    \/ StartWork(c)
    \/ \E i \in todo[c] : MatchRegexBatch(c, i) \/ MatchSetBatch(c, i)
    \/ RegexTestManyExecute(c)
    \/ SetTestManyExecute(c)

Complete(c) == RegexTestManyComplete(c) \/ SetTestManyComplete(c)

Program ==
    \/ \E b \in Buffers : Forget(b) \/ \E x \in Stored : Store(b, x)
    \/ \E b \in Buffers, i \in DOMAIN argument : Replace(i, b)
    \/ Shorten

Quiescent ==
    /\ closing \/ \A c \in Calls : stage[c] # "unused"
    /\ \A c \in Calls : stage[c] \in {"unused", "settled"}
    /\ UNCHANGED vars

Next ==
    \/ Program
    \/ \E b \in Buffers : Collect(b)
    \/ \E c \in Calls, m \in Modes : RegexTestManyAsync(c, m) \/ SetTestManyAsync(c, m)
    \/ \E c \in Calls : RegexTestMany(c) \/ SetTestMany(c)
    \/ \E c \in Calls : PoolStep(c) \/ CancelWork(c) \/ Complete(c)
    \/ TerminateEnv
    \/ Quiescent

\* The pool and OpenMP run their threads, a synchronous call goes on once it has
\* begun, and the program returns to its event loop, which runs completions.
Fairness ==
    \A c \in Calls :
        /\ WF_vars(PoolStep(c))
        /\ WF_vars(TestManyReturns(c))
        /\ WF_vars(Complete(c))

Spec == Init /\ [][Next]_vars
FairSpec == Spec /\ Fairness

-----------------------------------------------------------------------------
\* README.md: a safe call "snapshots all input bytes before returning by default,
\* so later mutation, resizing, transfer, or detachment cannot affect the result".
\* A call resolves to the matches of the contents its inputs had when it was made,
\* in their order: always if it is safe or synchronous, and if it is unsafe unless
\* the program touched a buffer before it was settled.  No error is passed over.
ResolvesToSubmitted ==
    \A c \in Calls :
        outcome[c] = "resolved" /\ (mode[c] = "unsafe" => c \notin disturbed)
        => Result(c) = submitted[c]

\* The program may drop every buffer it passed, and change the array it passed,
\* right after the call: until a pool thread has read them, and until a synchronous
\* call returns, the collector leaves the borrowed buffers of every call alone.
BorrowedStaysIntact ==
    \A c \in Calls :
        /\ mode[c] = "sync" \/ (mode[c] = "unsafe" /\ c \notin disturbed)
        /\ stage[c] \in {"inline", "queued", "running"}
        => Texts(inputs[c]) = submitted[c]

\* Whatever fails, an inputs array is not kept once its call is settled, unless
\* deleting the reference itself failed; then the call does not resolve.
NothingRetained ==
    \A c \in Calls : stage[c] = "settled" /\ reference[c] =>
        c \in Stuck /\ outcome[c] # "resolved"

\* Every call that reached the pool, or its own loop, is settled, whatever fails.
EveryBatchSettles ==
    \A c \in Calls :
        stage[c] \in {"queued", "inline"} ~> outcome[c] # "pending"
=============================================================================
