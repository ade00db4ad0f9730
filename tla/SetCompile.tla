----------------------------- MODULE SetCompile -----------------------------
(***************************************************************************)
(* RE2Set.compileAsync from the call to the settlement of its promise:     *)
(* SetCompileAsync, SetCompileExecute and SetCompileComplete of            *)
(* native/set-binding.cc, over the registry of SetCache.                   *)
(*                                                                         *)
(* Each environment (the main thread or a Worker) has one JavaScript       *)
(* thread that starts calls and later runs their completions.  All share   *)
(* libuv's pool: one first-in first-out queue and PoolSize threads.        *)
(***************************************************************************)
EXTENDS SetCache

CONSTANTS
    Envs,         \* Node.js environments that loaded the addon
    InvalidKeys,  \* pattern sets RE2 refuses
    PoolSize,     \* UV_THREADPOOL_SIZE
    Faults        \* the failures this instance explores

FaultKinds == {
    "setup",      \* bad patterns, or a failure before the registry is entered
    "queue",      \* napi_queue_async_work fails
    "compile",    \* an exception while compiling
    "admit",      \* an exception while the set is admitted to the cache
    "context",    \* the set cannot be handed to JavaScript
    "cancel",     \* the host cancels queued work
    "terminate"}  \* an environment is torn down

ASSUME KeysAssumption == None \notin Keys /\ InvalidKeys \subseteq Keys
ASSUME EnvsAssumption == None \notin Envs
ASSUME PoolAssumption == PoolSize \in Nat \ {0}
ASSUME FaultsAssumption == Faults \subseteq FaultKinds

VARIABLES
    pc,         \* where each environment's JavaScript thread is
    call,       \* the call it is executing
    env,        \* the environment of each call
    stage,      \* how far each call is
    ticket,     \* the compilation a call owns or joined (SetCompileWork.pending)
    held,       \* the set in SetCompileWork, later in the SetContext
    promise,    \* what became of the promise
    queue,      \* work waiting for a pool thread
    completed,  \* per environment, work whose Complete is due
    closing     \* environments being torn down

callVars == <<env, ticket, held, promise>>
poolVars == <<queue, completed>>
vars == <<cacheVars, pc, call, stage, callVars, poolVars, closing>>

PcValues == {"idle", "acquire", "wait", "queue", "mark"}
Stages == {"unused", "calling", "queued", "running", "executed", "completing",
           "cancelled", "settled"}
Promises == {"pending", "resolved", "pattern_error", "unexpected", "cancelled",
             "setup_error", "context_error", "dropped"}

TypeOK ==
    /\ CacheTypeOK
    /\ pc \in [Envs -> PcValues]
    /\ call \in [Envs -> Calls \cup {None}]
    /\ env \in [Calls -> Envs \cup {None}]
    /\ stage \in [Calls -> Stages]
    /\ ticket \in [Calls -> Calls \cup {None}]
    /\ held \in [Calls -> Calls \cup {None}]
    /\ promise \in [Calls -> Promises]
    /\ queue \in Seq(Calls)
    /\ completed \in [Envs -> Seq(Calls)]
    /\ closing \subseteq Envs

Init ==
    /\ CacheInit
    /\ pc = [e \in Envs |-> "idle"]
    /\ call = [e \in Envs |-> None]
    /\ env = [c \in Calls |-> None]
    /\ stage = [c \in Calls |-> "unused"]
    /\ ticket = [c \in Calls |-> None]
    /\ held = [c \in Calls |-> None]
    /\ promise = [c \in Calls |-> "pending"]
    /\ queue = <<>>
    /\ completed = [e \in Envs |-> <<>>]
    /\ closing = {}

Owner(c) == ticket[c] = c   \* SetCompileWork.owner

\* A call that joined is not asleep, or no longer.
Awake(c) == c \notin asleep[ticket[c]]

Fault(kind) == kind \in Faults

\* Seeded fault: one teardown flag for the whole process.
SettleUnlessAnyClosing(e, c, result) ==
    promise' = [promise EXCEPT ![c] = IF closing # {} THEN "dropped" ELSE result]

\* Resolving or rejecting in an environment that can no longer run JavaScript
\* fails; the promise is never observed.
Settle(e, c, result) ==
    promise' = [promise EXCEPT ![c] = IF e \in closing THEN "dropped" ELSE result]

-----------------------------------------------------------------------------
(* The JavaScript thread of environment e.                                 *)

\* The native call returns; the thread is back in JavaScript or its loop.
Return(e) ==
    /\ pc' = [pc EXCEPT ![e] = "idle"]
    /\ call' = [call EXCEPT ![e] = None]

\* ResolveCompiledSet: the cached set d is handed to JavaScript.
ResolveCompiledSet(e, c, d) ==
    /\ stage' = [stage EXCEPT ![c] = "settled"]
    /\ \/ held' = [held EXCEPT ![c] = d] /\ Settle(e, c, "resolved")
       \/ Fault("context") /\ Settle(e, c, "context_error") /\ UNCHANGED held

\* SetCompileAsync up to the first, unlocked-again lookup (FindCachedSet).
SetCompileAsync(e, c, k) ==
    /\ pc[e] = "idle" /\ e \notin closing
    /\ stage[c] = "unused"
    /\ env' = [env EXCEPT ![c] = e]
    /\ encoded_patterns' = [encoded_patterns EXCEPT ![c] = k]
    /\ \/ /\ Fault("setup")
          /\ stage' = [stage EXCEPT ![c] = "settled"]
          /\ Settle(e, c, "setup_error")
          /\ UNCHANGED <<entries, in_flight, key_bytes, compilations, cache_hits,
                         deduplications, outcome, owner_queued, asleep, pc, call, held>>
       \/ \E i \in Cached(k) :
             /\ IsNewest(i, k)
             /\ FindCachedSetLocked(i)
             /\ ResolveCompiledSet(e, c, entries[i].set)
             /\ UNCHANGED <<pc, call>>
       \/ /\ Cached(k) = {}
          /\ stage' = [stage EXCEPT ![c] = "calling"]
          /\ pc' = [pc EXCEPT ![e] = "acquire"]
          /\ call' = [call EXCEPT ![e] = c]
          /\ UNCHANGED <<entries, in_flight, key_bytes, compilations, cache_hits,
                         deduplications, outcome, owner_queued, asleep, held, promise>>
    /\ UNCHANGED <<ticket, poolVars, closing>>

\* The async work is created, then AcquireSetCompilation looks again.
AcquireSetCompilation(e, c) ==
    LET k == encoded_patterns[c] IN
    /\ pc[e] = "acquire" /\ call[e] = c
    /\ \/ /\ Fault("setup")
          /\ stage' = [stage EXCEPT ![c] = "settled"]
          /\ Settle(e, c, "setup_error")
          /\ Return(e)
          /\ UNCHANGED <<entries, in_flight, key_bytes, compilations, cache_hits,
                         deduplications, outcome, owner_queued, asleep, ticket, held>>
       \/ \E i \in Cached(k) :
             /\ IsNewest(i, k)
             /\ FindCachedSetLocked(i)
             /\ ResolveCompiledSet(e, c, entries[i].set)
             /\ Return(e)
             /\ UNCHANGED ticket
       \/ \E d \in Pending(k) :
             /\ Cached(k) = {}
             /\ JoinSetCompilation
             /\ ticket' = [ticket EXCEPT ![c] = d]
             /\ pc' = [pc EXCEPT ![e] = "wait"]
             /\ UNCHANGED <<call, stage, held, promise>>
       \/ /\ Cached(k) = {} /\ Pending(k) = {}
          /\ CreateSetCompilation(c)
          /\ ticket' = [ticket EXCEPT ![c] = c]
          /\ pc' = [pc EXCEPT ![e] = "queue"]
          /\ UNCHANGED <<call, stage, held, promise>>
    /\ UNCHANGED <<encoded_patterns, env, poolVars, closing>>

\* The wait of AcquireSetCompilation: a call that joined blocks its JavaScript
\* thread until the owner's work is in the pool's queue, or done.
BlockLoop(e, c) ==
    /\ pc[e] = "wait" /\ call[e] = c
    /\ Awake(c) /\ ~OwnerQueuedOrDone(ticket[c])
    /\ Sleep(c, ticket[c])
    /\ UNCHANGED <<pc, call, stage, callVars, poolVars, closing>>

WaitOwnerQueued(e, c) ==
    /\ pc[e] = "wait" /\ call[e] = c
    /\ Awake(c) /\ OwnerQueuedOrDone(ticket[c])
    /\ pc' = [pc EXCEPT ![e] = "queue"]
    /\ UNCHANGED <<cacheVars, call, stage, callVars, poolVars, closing>>

\* napi_queue_async_work, and what SetCompileAsync does when it fails.
QueueWork(e, c) ==
    /\ pc[e] = "queue" /\ call[e] = c
    /\ \/ /\ queue' = Append(queue, c)
          /\ stage' = [stage EXCEPT ![c] = "queued"]
          /\ IF Owner(c)
               THEN pc' = [pc EXCEPT ![e] = "mark"] /\ UNCHANGED call
               ELSE Return(e)
          /\ UNCHANGED <<cacheVars, promise>>
       \/ /\ Fault("queue")
          /\ IF Owner(c)
               THEN CancelSetCompilation(c) /\ UNCHANGED encoded_patterns
               ELSE UNCHANGED cacheVars
          /\ stage' = [stage EXCEPT ![c] = "settled"]
          /\ Settle(e, c, "setup_error")
          /\ Return(e)
          /\ UNCHANGED queue
    /\ UNCHANGED <<env, ticket, held, completed, closing>>

\* The owner wakes the calls that joined before its work was queued.
MarkQueued(e, c) ==
    /\ pc[e] = "mark" /\ call[e] = c
    /\ MarkSetCompilationQueued(c)
    /\ Return(e)
    /\ UNCHANGED <<encoded_patterns, stage, callVars, poolVars, closing>>

-----------------------------------------------------------------------------
(* The thread pool.                                                        *)

Busy == {c \in Calls : stage[c] \in {"running", "executed"}}

StartWork ==
    /\ queue # <<>>
    /\ Cardinality(Busy) < PoolSize
    /\ stage' = [stage EXCEPT ![Head(queue)] = "running"]
    /\ queue' = Tail(queue)
    /\ UNCHANGED <<cacheVars, pc, call, callVars, completed, closing>>

CompileResult(k) ==
    {IF k \in InvalidKeys THEN "error" ELSE "set"}
        \cup (IF Fault("compile") THEN {"unexpected"} ELSE {})

\* SetCompileExecute of an owner.  The compilation proper runs unlocked, between
\* StartWork and this step.
RunSetCompilation(c) ==
    /\ stage[c] = "running" /\ Owner(c)
    /\ \E result \in CompileResult(encoded_patterns[c]),
          admitted \in {TRUE} \cup (IF Fault("admit") THEN {FALSE} ELSE {}) :
             /\ PublishSetCompilation(c, result, admitted)
             /\ held' = [held EXCEPT ![c] = CompiledSet(c, result)]
    /\ stage' = [stage EXCEPT ![c] = "executed"]
    /\ UNCHANGED <<encoded_patterns, pc, call, env, ticket, promise, poolVars, closing>>

\* SetCompileExecute of a call that joined: a pool thread blocks until done.
BlockThread(c) ==
    /\ stage[c] = "running" /\ ~Owner(c)
    /\ Awake(c) /\ ~Done(ticket[c])
    /\ Sleep(c, ticket[c])
    /\ UNCHANGED <<pc, call, stage, callVars, poolVars, closing>>

WaitForSetCompilation(c) ==
    /\ stage[c] = "running" /\ ~Owner(c)
    /\ Awake(c) /\ Done(ticket[c])
    /\ held' = [held EXCEPT ![c] = CompiledSet(ticket[c], outcome[ticket[c]])]
    /\ stage' = [stage EXCEPT ![c] = "executed"]
    /\ UNCHANGED <<cacheVars, pc, call, env, ticket, promise, poolVars, closing>>

\* The pool thread posts the work to its environment's loop and is free again.
FinishWork(c) ==
    /\ stage[c] = "executed"
    /\ stage' = [stage EXCEPT ![c] = "completing"]
    /\ completed' = [completed EXCEPT ![env[c]] = Append(@, c)]
    /\ UNCHANGED <<cacheVars, pc, call, callVars, queue, closing>>

\* uv_cancel reaches only work no thread has started.
CancelWork(c) ==
    /\ Fault("cancel")
    /\ \E i \in DOMAIN queue : queue[i] = c /\ queue' = RemoveAt(queue, i)
    /\ stage' = [stage EXCEPT ![c] = "cancelled"]
    /\ completed' = [completed EXCEPT ![env[c]] = Append(@, c)]
    /\ UNCHANGED <<cacheVars, pc, call, callVars, closing>>

-----------------------------------------------------------------------------
(* Completions, on the environment's loop.                                 *)

\* Seeded fault: the failure path forgets to leave the registry.
LeaveRegistryOnSuccess(c) ==
    IF Owner(c) /\ held[c] # None
      THEN ReleaseSetCompilation(c)
      ELSE UNCHANGED <<entries, in_flight, key_bytes, compilations, cache_hits,
                       deduplications, outcome, owner_queued, asleep>>

\* An owner leaves the registry before the promise is settled.
LeaveRegistry(c) ==
    IF Owner(c)
      THEN ReleaseSetCompilation(c)
      ELSE UNCHANGED <<entries, in_flight, key_bytes, compilations, cache_hits,
                       deduplications, outcome, owner_queued, asleep>>

\* Seeded fault: every failure is reported as one of the patterns.
BlamePatterns(c) == "pattern_error"

\* A failure is the patterns' fault only if RE2 said so.
Rejection(c) == IF outcome[ticket[c]] = "error" THEN "pattern_error" ELSE "unexpected"

\* SetCompileComplete.
SetCompileComplete(e, c) ==
    /\ pc[e] = "idle"
    /\ completed[e] # <<>> /\ c = Head(completed[e])
    /\ completed' = [completed EXCEPT ![e] = Tail(@)]
    /\ stage' = [stage EXCEPT ![c] = "settled"]
    /\ \/ /\ stage[c] = "cancelled"
          /\ IF Owner(c)
               THEN CancelSetCompilation(c)
               ELSE UNCHANGED <<entries, in_flight, key_bytes, compilations,
                                cache_hits, deduplications, outcome, owner_queued, asleep>>
          /\ Settle(e, c, "cancelled")
       \/ /\ stage[c] = "completing" /\ held[c] = None
          /\ LeaveRegistry(c)
          /\ Settle(e, c, Rejection(c))
       \/ /\ stage[c] = "completing" /\ held[c] # None
          /\ LeaveRegistry(c)
          /\ \/ Settle(e, c, "resolved")
             \/ Fault("context") /\ Settle(e, c, "context_error")
    /\ UNCHANGED <<encoded_patterns, pc, call, env, ticket, held, queue, closing>>

\* A Worker is terminated: its calls in progress return, it starts no others,
\* and its cleanup still runs the completions that are due.
TerminateEnv(e) ==
    /\ Fault("terminate")
    /\ closing' = closing \cup {e}
    /\ e \notin closing
    /\ UNCHANGED <<cacheVars, pc, call, stage, callVars, poolVars>>

-----------------------------------------------------------------------------
JsStep(e, c) ==
    \/ AcquireSetCompilation(e, c)
    \/ BlockLoop(e, c)
    \/ WaitOwnerQueued(e, c)
    \/ QueueWork(e, c)
    \/ MarkQueued(e, c)
    \/ SetCompileComplete(e, c)

PoolStep(c) ==
    \/ RunSetCompilation(c)
    \/ BlockThread(c)
    \/ WaitForSetCompilation(c)
    \/ FinishWork(c)

\* Nothing is left to do: every call made has been settled.
Quiescent ==
    /\ \A c \in Calls : stage[c] \in {"unused", "settled"}
    /\ UNCHANGED vars

Next ==
    \/ \E e \in Envs, c \in Calls, k \in Keys : SetCompileAsync(e, c, k)
    \/ \E e \in Envs, c \in Calls : JsStep(e, c)
    \/ StartWork
    \/ \E c \in Calls : PoolStep(c) \/ CancelWork(c)
    \/ \E e \in Envs : TerminateEnv(e)
    \/ Quiescent

\* A native call in progress returns, a loop runs its completions, and the pool
\* schedules its threads.  Nothing obliges a call, a fault or a teardown to happen.
Fairness ==
    /\ \A e \in Envs : WF_vars(\E c \in Calls : JsStep(e, c))
    /\ WF_vars(StartWork)
    /\ \A c \in Calls : WF_vars(PoolStep(c))

Spec == Init /\ [][Next]_vars

\* A loop with nothing due polls.  The disjunct keeps a system whose pool is
\* stuck while its loops are idle from being reported as a deadlock, so that
\* EveryCallSettles is what refutes it.
Poll ==
    /\ \E e \in Envs : pc[e] = "idle" /\ completed[e] = <<>>
    /\ UNCHANGED vars

FairSpec == Init /\ [][Next \/ Poll]_vars /\ Fairness

-----------------------------------------------------------------------------
(* Safety.                                                                 *)

InRegistry == {"calling", "queued", "running", "executed", "completing", "cancelled"}

Unfinished(c) == Owner(c) /\ ~Done(c)

\* "Concurrent calls for the same pattern set share one in-flight compilation":
\* at most one unfinished compilation of a key exists in the process, none while
\* the key is cached, and no key is cached twice.  The two lookups of a call are
\* separate critical sections, so another thread can compile in between.
SingleFlight ==
    /\ \A c, d \in Calls :
          /\ Unfinished(c) /\ Unfinished(d)
          /\ encoded_patterns[c] = encoded_patterns[d]
          => c = d
    /\ \A c \in Calls : Unfinished(c) => Cached(encoded_patterns[c]) = {}
    /\ \A i, j \in DOMAIN entries :
          entries[i].encoded_patterns = entries[j].encoded_patterns => i = j

\* A pool thread that runs, or will run, a joined call never waits for work
\* behind it: the owner holds a pool thread, is ahead in the queue, or was
\* cancelled and is about to be completed.  This is what owner_queued is for.
WaiterBehindOwner ==
    \A c \in Calls :
        LET d == ticket[c] IN
        /\ stage[c] \in {"queued", "running"}
        /\ ~Owner(c) /\ ~Done(d)
        => \/ stage[d] \in {"running", "cancelled"}
           \/ \E i, j \in DOMAIN queue : i < j /\ queue[i] = d /\ queue[j] = c

\* A JavaScript thread blocked in AcquireSetCompilation waits for another
\* environment whose own thread is about to queue the work, and so is not
\* blocked: no cycle of event loops can wait on each other.
BlockedLoopsWaitForRunningLoops ==
    \A e \in Envs :
        pc[e] = "wait" /\ ~OwnerQueuedOrDone(ticket[call[e]]) =>
            LET d == ticket[call[e]] IN
            /\ env[d] # e
            /\ call[env[d]] = d
            /\ pc[env[d]] \in {"queue", "mark"}

\* No wakeup is lost: a call is asleep only on the compilation it joined, and only
\* while what it waits for has not come about, however its test and the steps of the
\* owner, the pool and the failure paths interleave.
NoLostWakeup ==
    \A d \in Calls : \A c \in asleep[d] :
        /\ ticket[c] = d /\ ~Owner(c)
        /\ \/ pc[env[c]] = "wait" /\ call[env[c]] = c /\ ~OwnerQueuedOrDone(d)
           \/ stage[c] = "running" /\ ~Done(d)

\* A resolved promise holds a set compiled from the patterns of its own call,
\* whichever call compiled it and however it was handed over, and patterns RE2
\* refuses never resolve.
RightSet ==
    \A c \in Calls : promise[c] = "resolved" =>
        /\ held[c] # None
        /\ outcome[held[c]] = "set"
        /\ encoded_patterns[held[c]] = encoded_patterns[c]
        /\ encoded_patterns[c] \notin InvalidKeys

\* Whatever fails, a compilation leaves in_flight by the time its owner's promise
\* is settled; one left behind would answer every later call for its key.
RegistryOwned ==
    \A c \in in_flight : Owner(c) /\ stage[c] \in InRegistry

CacheBounded ==
    /\ key_bytes <= kSetCompileCacheMaxKeyBytes
    /\ Len(entries) <= kSetCompileCacheMaxSize

\* The byte counter is the size of the cached keys after any sequence of hits,
\* admissions and evictions, and both limits hold.
KeyBytesExact == key_bytes = Bytes(entries) /\ CacheBounded

\* Unless its admission throws, a set just compiled is cached: eviction makes
\* room for it and never takes it.
CompiledIsCached ==
    [][\A c \in Calls :
          ~Done(c) /\ outcome'[c] = "set" =>
              entries' # <<>> /\ Last(entries').set = c]_vars

\* The teardown of one environment reaches no other: in an environment still
\* alive every call for accepted patterns resolves, even when the environment
\* that compiled for it is gone.
TeardownIsIsolated ==
    \A c \in Calls :
        /\ stage[c] = "settled" /\ env[c] \notin closing
        /\ encoded_patterns[c] \notin InvalidKeys
        => promise[c] = "resolved"

\* What a caller sees of a promise.
AnswerOf(c) ==
    CASE promise[c] = "pending" -> "none"
      [] promise[c] = "resolved" -> "set"
      [] promise[c] = "pattern_error" -> "refused"
      [] promise[c] = "dropped" -> "dropped"
      [] OTHER -> "failed"

Service == INSTANCE CompileService WITH
    Patterns <- Keys,
    Refused <- InvalidKeys,
    MayFail <- Faults \ {"terminate"} # {},
    MayClose <- Fault("terminate"),
    patterns <- encoded_patterns,
    compiled <- {c \in Calls : outcome[c] = "set"},
    answer <- [c \in Calls |-> AnswerOf(c)],
    set <- [c \in Calls |-> IF promise[c] = "resolved" THEN held[c] ELSE None]

\* The registry, the pool and the loops together keep the promise of compileAsync:
\* whatever fails, every answer is final, right, and that of the call's own patterns.
ImplementsService == Service!Spec

(* Liveness.                                                               *)

\* Every promise is settled, whatever fails.
EveryCallSettles ==
    \A c \in Calls : stage[c] = "calling" ~> stage[c] = "settled"

\* README.md: "Failed compilations are not cached."  Once a promise has been
\* rejected, no later call of the same environment is handed the compilation
\* that failed it.
FailureIsNotReused ==
    [][\A c, d \in Calls :
          /\ promise[d] = "pattern_error"
          /\ env[c] = env[d]
          /\ ticket[c] = None /\ ticket'[c] # None
          => ticket'[c] # ticket[d]]_vars
=============================================================================
