----------------------------- MODULE ParallelFor -----------------------------
(***************************************************************************)
(* ParallelFor of native/parallel-for.h and ObserveBatchParallelism of     *)
(* native/openmp-runtime.h.  Batches are concurrent calls, from event      *)
(* loops and pool threads of several environments; they share the          *)
(* submission mutex.  The inputs of a batch are numbered from 0.           *)
(*                                                                         *)
(* An OpenMP team hands out chunk numbers in order to whichever of its     *)
(* threads asks next, schedule(dynamic, 1), and joins at the end of the    *)
(* loop.  The flag stopped is loaded relaxed: a thread may miss another's  *)
(* store.                                                                  *)
(***************************************************************************)
EXTENDS BatchPlan

CONSTANTS
    Batches,              \* calls, each made once
    Observers,            \* those of them that only measure a team
    Requests,             \* sizes and bytes of inputs, and batchSize options
    None,
    kMaxBatchInputCount,  \* bound of GetInputValues on the inputs of one call
    MayRaise              \* whether matching an input may throw

ASSUME RequestsAssumption ==
    /\ kMaxBatchInputCount \in Nat /\ kMaxBatchInputCount <= SizeMax
    /\ Requests \subseteq [size: 0 .. kMaxBatchInputCount, total_bytes: SizeT,
                           batch_size: SizeT]
    /\ Observers \subseteq Batches
    /\ MayRaise \in BOOLEAN
    /\ None \notin Nat
    /\ None \notin Batches \cup Requests

VARIABLES
    pc,         \* where each call is
    request,    \* its arguments
    lock,       \* holder of OpenMpSubmissionMutex
    team,       \* threads OpenMP delivered to a call, the caller included
    dispensed,  \* chunks handed out
    phase,      \* where each thread of a team is
    chunk,      \* the chunk it works on
    cursor,     \* the input it works on
    stopped, error,
    aware,      \* threads that have set stopped or seen it set
    visits,     \* how often each input was visited: its result is written
    raised      \* the inputs whose visit threw

vars == <<pc, request, lock, team, dispensed, phase, chunk, cursor, stopped, error,
          aware, visits, raised>>

Indices == 0 .. kMaxBatchInputCount - 1
Workers == 1 .. MaxBatchParallelism
PcValues == {"idle", "lock", "team", "observe", "alone", "unwind", "returned", "threw"}
Phases == {"fetch", "check", "run", "caught", "record", "done"}

\* Well-typed state; the cursor of a thread stays within its call's inputs.
TypeOK ==
    /\ pc \in [Batches -> PcValues]
    /\ request \in [Batches -> Requests \cup {None}]
    /\ lock \in Batches \cup {None}
    /\ team \in [Batches -> 0 .. MaxBatchParallelism]
    /\ dispensed \in [Batches -> Nat]
    /\ phase \in [Batches -> [Workers -> Phases]]
    /\ chunk \in [Batches -> [Workers -> Nat]]
    /\ cursor \in [Batches -> [Workers -> Nat]]
    /\ stopped \in [Batches -> BOOLEAN]
    /\ error \in [Batches -> Indices \cup {None}]
    /\ aware \in [Batches -> SUBSET Workers]
    /\ visits \in [Batches -> [Indices -> Nat]]
    /\ raised \in [Batches -> SUBSET Indices]
    /\ \A s \in Batches : \A t \in Workers :
          phase[s][t] = "run" => cursor[s][t] < request[s].size

Init ==
    /\ pc = [s \in Batches |-> "idle"]
    /\ request = [s \in Batches |-> None]
    /\ lock = None
    /\ team = [s \in Batches |-> 0]
    /\ dispensed = [s \in Batches |-> 0]
    /\ phase = [s \in Batches |-> [t \in Workers |-> "done"]]
    /\ chunk = [s \in Batches |-> [t \in Workers |-> 0]]
    /\ cursor = [s \in Batches |-> [t \in Workers |-> 0]]
    /\ stopped = [s \in Batches |-> FALSE]
    /\ error = [s \in Batches |-> None]
    /\ aware = [s \in Batches |-> {}]
    /\ visits = [s \in Batches |-> [i \in Indices |-> 0]]
    /\ raised = [s \in Batches |-> {}]

Plan(s) == MakeBatchPlan(request[s].size, request[s].total_bytes, request[s].batch_size)

\* function(index): the result of input i is written, or matching it throws.
Apply(s, i, throws) ==
    /\ throws => MayRaise
    /\ visits' = [visits EXCEPT ![s][i] = @ + 1]
    /\ raised' = IF throws THEN [raised EXCEPT ![s] = @ \cup {i}] ELSE raised

-----------------------------------------------------------------------------
(* The calling thread.                                                     *)

\* Without parallelism ObserveBatchParallelism returns the plan's thread count.
Start(s, r) ==
    LET plan == MakeBatchPlan(r.size, r.total_bytes, r.batch_size) IN
    /\ pc[s] = "idle"
    /\ request' = [request EXCEPT ![s] = r]
    /\ pc' = [pc EXCEPT ![s] = IF plan.thread_count > 1 THEN "lock"
                               ELSE IF s \in Observers THEN "returned" ELSE "alone"]
    /\ UNCHANGED <<lock, team, dispensed, phase, chunk, cursor, stopped, error, aware,
                   visits, raised>>

\* Seeded fault: no submission lock.
NoSubmissionLock(s) == TRUE

SubmissionFree(s) == lock = None

\* The lock is taken and OpenMP forms a team, possibly a smaller one.
OpenTeam(s, n) ==
    /\ pc[s] = "lock"
    /\ SubmissionFree(s)
    /\ n \in 1 .. Plan(s).thread_count
    /\ lock' = s
    /\ team' = [team EXCEPT ![s] = n]
    /\ IF s \in Observers
         THEN /\ pc' = [pc EXCEPT ![s] = "observe"]
              /\ UNCHANGED phase
         ELSE /\ pc' = [pc EXCEPT ![s] = "team"]
              /\ phase' = [phase EXCEPT ![s] =
                              [t \in Workers |-> IF t <= n THEN "fetch" ELSE "done"]]
    /\ UNCHANGED <<request, dispensed, chunk, cursor, stopped, error, aware, visits, raised>>

\* Seeded fault: the lock is kept when the call throws.
KeepLockOnError(s) == lock' = IF error[s] = None THEN None ELSE lock

ReleaseSubmission(s) == lock' = None

\* Seeded fault: the caller does not wait for the other threads (nowait).
CallerDone(s) == phase[s][1] = "done"

TeamDone(s) == \A t \in Workers : phase[s][t] = "done"

\* The barrier at the end of the loop, then the error is rethrown if there is one.
CloseTeam(s) ==
    /\ pc[s] = "team" /\ TeamDone(s)
    /\ pc' = [pc EXCEPT ![s] = IF error[s] = None THEN "returned" ELSE "threw"]
    /\ team' = [team EXCEPT ![s] = 0]
    /\ ReleaseSubmission(s)
    /\ UNCHANGED <<request, dispensed, phase, chunk, cursor, stopped, error, aware, visits, raised>>

\* One thread of the team reports its size.
CloseObserve(s) ==
    /\ pc[s] = "observe"
    /\ pc' = [pc EXCEPT ![s] = "returned"]
    /\ team' = [team EXCEPT ![s] = 0]
    /\ ReleaseSubmission(s)
    /\ UNCHANGED <<request, dispensed, phase, chunk, cursor, stopped, error, aware, visits, raised>>

\* The sequential loop; the first error leaves it.
RunAlone(s) ==
    LET i == cursor[s][1] IN
    /\ pc[s] = "alone"
    /\ \/ /\ i = request[s].size
          /\ pc' = [pc EXCEPT ![s] = "returned"]
          /\ UNCHANGED <<cursor, error, aware, visits, raised>>
       \/ /\ i < request[s].size
          /\ Apply(s, i, FALSE)
          /\ cursor' = [cursor EXCEPT ![s][1] = i + 1]
          /\ UNCHANGED <<pc, error>>
       \/ /\ i < request[s].size
          /\ Apply(s, i, TRUE)
          /\ error' = [error EXCEPT ![s] = i]
          /\ pc' = [pc EXCEPT ![s] = "unwind"]
          /\ UNCHANGED cursor
    /\ UNCHANGED <<request, lock, team, dispensed, phase, chunk, stopped, aware>>

Unwind(s) ==
    /\ pc[s] = "unwind"
    /\ pc' = [pc EXCEPT ![s] = "threw"]
    /\ UNCHANGED <<request, lock, team, dispensed, phase, chunk, cursor, stopped, error,
                   aware, visits, raised>>

-----------------------------------------------------------------------------
(* Thread t of the team of call s.                                         *)

To(s, t, next) == phase' = [phase EXCEPT ![s][t] = next]

FetchChunk(s, t) ==
    /\ phase[s][t] = "fetch"
    /\ IF dispensed[s] < Plan(s).work_count
         THEN /\ chunk' = [chunk EXCEPT ![s][t] = dispensed[s]]
              /\ dispensed' = [dispensed EXCEPT ![s] = @ + 1]
              /\ To(s, t, "check")
         ELSE To(s, t, "done") /\ UNCHANGED <<chunk, dispensed>>
    /\ UNCHANGED <<pc, request, lock, team, cursor, stopped, error, aware, visits, raised>>

CheckStopped(s, t) ==
    /\ phase[s][t] = "check"
    /\ \/ /\ stopped[s]
          /\ To(s, t, "fetch")
          /\ aware' = [aware EXCEPT ![s] = @ \cup {t}]
          /\ UNCHANGED cursor
       \/ /\ t \notin aware[s]
          /\ To(s, t, "run")
          /\ cursor' = [cursor EXCEPT ![s][t] = Begin(Plan(s), chunk[s][t])]
          /\ UNCHANGED aware
    /\ UNCHANGED <<pc, request, lock, team, dispensed, chunk, stopped, error, visits, raised>>

VisitInput(s, t) ==
    LET i == cursor[s][t] IN
    /\ phase[s][t] = "run"
    /\ \/ /\ Apply(s, i, FALSE)
          /\ IF i + 1 < End(Plan(s), request[s].size, chunk[s][t])
               THEN cursor' = [cursor EXCEPT ![s][t] = i + 1] /\ UNCHANGED phase
               ELSE To(s, t, "fetch") /\ UNCHANGED cursor
       \/ /\ Apply(s, i, TRUE)
          /\ To(s, t, "caught")
          /\ UNCHANGED cursor
    /\ UNCHANGED <<pc, request, lock, team, dispensed, chunk, stopped, error, aware>>

\* stopped.exchange(true): the first thread to raise records its error.
CatchError(s, t) ==
    /\ phase[s][t] = "caught"
    /\ To(s, t, IF stopped[s] THEN "fetch" ELSE "record")
    /\ stopped' = [stopped EXCEPT ![s] = TRUE]
    /\ aware' = [aware EXCEPT ![s] = @ \cup {t}]
    /\ UNCHANGED <<pc, request, lock, team, dispensed, chunk, cursor, error, visits, raised>>

RecordError(s, t) ==
    /\ phase[s][t] = "record"
    /\ error' = [error EXCEPT ![s] = cursor[s][t]]
    /\ To(s, t, "fetch")
    /\ UNCHANGED <<pc, request, lock, team, dispensed, chunk, cursor, stopped, aware, visits,
                   raised>>

-----------------------------------------------------------------------------
WorkerStep(s, t) ==
    \/ FetchChunk(s, t)
    \/ CheckStopped(s, t)
    \/ VisitInput(s, t)
    \/ CatchError(s, t)
    \/ RecordError(s, t)

CallerStep(s) ==
    \/ \E n \in Workers : OpenTeam(s, n)
    \/ CloseTeam(s)
    \/ CloseObserve(s)
    \/ RunAlone(s)
    \/ Unwind(s)

Finished ==
    /\ \A s \in Batches : pc[s] \in {"returned", "threw"}
    /\ UNCHANGED vars

Next ==
    \/ \E s \in Batches, r \in Requests : Start(s, r)
    \/ \E s \in Batches : CallerStep(s)
    \/ \E s \in Batches, t \in Workers : WorkerStep(s, t)
    \/ Finished

\* Threads run, and the mutex, with finitely many calls, does not starve one.
Fairness ==
    /\ \A s \in Batches : WF_vars(CallerStep(s))
    /\ \A s \in Batches, t \in Workers : WF_vars(WorkerStep(s, t))

Spec == Init /\ [][Next]_vars
FairSpec == Spec /\ Fairness

-----------------------------------------------------------------------------
\* README.md: concurrent environments "share one submission lock to avoid
\* oversubscribing that limit".  One team exists at a time, and it has no more
\* threads than the plan of its batch allows.
OneTeam ==
    /\ \A s, u \in Batches : team[s] > 0 /\ team[u] > 0 => s = u
    /\ \A s \in Batches : team[s] > 0 => team[s] <= Plan(s).thread_count

\* A batch with an explicit batchSize that covers its inputs never leaves the
\* calling thread, nor does one without OpenMP.
StaysOnCaller ==
    \A s \in Batches :
        team[s] > 0 => OpenMp /\ request[s].batch_size < request[s].size

-----------------------------------------------------------------------------
(* The abstract view of the calls that visit inputs.                       *)

Calls == Batches \ Observers

Status(s) == IF pc[s] \in {"idle", "returned", "threw"} THEN pc[s] ELSE "running"

InputsOf(s) == IF pc[s] = "idle" THEN {} ELSE 0 .. request[s].size - 1

Thrown(s) == IF pc[s] = "threw" THEN error[s] ELSE None

Promise == INSTANCE ForEach WITH
    Batches <- Calls,
    status <- [s \in Calls |-> Status(s)],
    inputs <- [s \in Calls |-> InputsOf(s)],
    visits <- [s \in Calls |-> visits[s]],
    raised <- [s \in Calls |-> raised[s]],
    error <- [s \in Calls |-> Thrown(s)]

\* ParallelFor does what ForEach promises: whatever the schedule of the team and
\* whichever inputs throw, every input is visited exactly once before the call
\* returns, a call with an input that threw throws the error of such an input, and
\* nothing is visited after the call has ended.
ImplementsForEach == Promise!Spec

\* Every call returns or throws, whatever throws in its team.
EveryBatchEnds ==
    \A s \in Batches : pc[s] # "idle" ~> pc[s] \in {"returned", "threw"}
=============================================================================
