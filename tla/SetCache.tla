------------------------------ MODULE SetCache ------------------------------
(***************************************************************************)
(* The process-wide registry of compiled RE2 sets, native/set-cache.cc.    *)
(* One mutex guards it, so every critical section is one operator below,   *)
(* named after the function that holds the lock; SetCompile composes them  *)
(* with the threads that run them.                                         *)
(*                                                                         *)
(* A compilation, and the set it yields, is named by the call that created *)
(* it.  The condition variable of a compilation is the set of calls asleep *)
(* on it: a waiter tests its condition (OwnerQueuedOrDone, Done) under the *)
(* mutex, sleeps if it is false, and tests it again once it is woken.      *)
(***************************************************************************)
EXTENDS Integers, Sequences, FiniteSets, SequencesExt

CONSTANTS
    Calls,      \* calls of RE2Set.compileAsync
    Keys,       \* encoded pattern sets (SetCompileCacheKey)
    KeyBytes,   \* size in bytes of each encoded pattern set
    None,       \* null pointer
    kSetCompileCacheMaxSize,
    kSetCompileCacheMaxKeyBytes

ASSUME CallsAssumption == None \notin Calls
ASSUME SizeAssumption == kSetCompileCacheMaxSize \in Nat \ {0}
\* GetPatterns bounds the patterns of one call at 16 MiB and 100000 patterns,
\* so that one key, its length prefixes included, is below the 32 MiB limit.
ASSUME KeyBytesAssumption ==
    /\ kSetCompileCacheMaxKeyBytes \in Nat
    /\ KeyBytes \in [Keys -> 0 .. kSetCompileCacheMaxKeyBytes]

VARIABLES
    entries,          \* cached sets, least recently used first
    in_flight,        \* compilations other calls may join
    key_bytes,        \* bytes of the cached keys
    compilations, cache_hits, deduplications,   \* statistics
    encoded_patterns, \* key of every call, of its compilation if it has one
    outcome,          \* set, error and unexpected_failure of a compilation
    owner_queued,     \* compilations whose owner has queued its work
    asleep            \* per compilation, calls blocked in the wait for ready

cacheVars == <<entries, in_flight, key_bytes, compilations, cache_hits,
               deduplications, encoded_patterns, outcome, owner_queued, asleep>>

CachedSet == [encoded_patterns: Keys, set: Calls]

\* "none" until the field done is set: Run and Cancel set both together.
Outcomes == {"none", "set", "error", "unexpected"}

CacheTypeOK ==
    /\ entries \in Seq(CachedSet)
    /\ in_flight \subseteq Calls
    /\ compilations \in Nat /\ cache_hits \in Nat /\ deduplications \in Nat
    /\ encoded_patterns \in [Calls -> Keys \cup {None}]
    /\ outcome \in [Calls -> Outcomes]
    /\ owner_queued \subseteq Calls
    /\ asleep \in [Calls -> SUBSET Calls]

CacheInit ==
    /\ entries = <<>>
    /\ in_flight = {}
    /\ key_bytes = 0
    /\ compilations = 0 /\ cache_hits = 0 /\ deduplications = 0
    /\ encoded_patterns = [c \in Calls |-> None]
    /\ outcome = [c \in Calls |-> "none"]
    /\ owner_queued = {}
    /\ asleep = [c \in Calls |-> {}]

-----------------------------------------------------------------------------
(* Lookups.                                                                *)

\* Seeded fault: keys compared by their length only.
CachedByLength(k) ==
    {i \in DOMAIN entries : KeyBytes[entries[i].encoded_patterns] = KeyBytes[k]}

Cached(k) == {i \in DOMAIN entries : entries[i].encoded_patterns = k}

\* Seeded fault: a compilation is joined only once its work is queued.
PendingOnceQueued(k) == {c \in in_flight \cap owner_queued : encoded_patterns[c] = k}

Pending(k) == {c \in in_flight : encoded_patterns[c] = k}

\* The loop of FindCachedSetLocked runs from the most recent entry.
IsNewest(i, k) == i \in Cached(k) /\ \A j \in Cached(k) : j <= i

Done(c) == outcome[c] # "none"

\* Seeded fault: a call that joined does not wait for the owner's work.
NoWait(c) == TRUE

OwnerQueuedOrDone(c) == c \in owner_queued \/ Done(c)

Bytes(s) == FoldLeft(LAMBDA n, entry : n + KeyBytes[entry.encoded_patterns], 0, s)

-----------------------------------------------------------------------------
(* Critical sections.                                                      *)

\* FindCachedSetLocked finds entry i: it becomes the most recently used.
FindCachedSetLocked(i) ==
    /\ entries' = Append(RemoveAt(entries, i), entries[i])
    /\ cache_hits' = cache_hits + 1
    /\ UNCHANGED <<in_flight, key_bytes, compilations, deduplications, outcome,
                   owner_queued, asleep>>

\* AcquireSetCompilation, once the key of call c is neither cached ...
JoinSetCompilation ==
    /\ deduplications' = deduplications + 1
    /\ UNCHANGED <<entries, in_flight, key_bytes, compilations, cache_hits,
                   outcome, owner_queued, asleep>>

\* ... nor in flight.
CreateSetCompilation(c) ==
    /\ in_flight' = in_flight \cup {c}
    /\ compilations' = compilations + 1
    /\ UNCHANGED <<entries, key_bytes, cache_hits, deduplications, outcome,
                   owner_queued, asleep>>

\* Seeded fault: notify_one.
NotifyOne(c) ==
    /\ asleep[c] # {} => \E d \in asleep[c] : asleep' = [asleep EXCEPT ![c] = @ \ {d}]
    /\ asleep[c] = {} => UNCHANGED asleep

\* ready.notify_all, called once the lock is released.  Between the two a call goes
\* on sleeping, as it would if it were woken and not yet scheduled.
NotifyAll(c) == asleep' = [asleep EXCEPT ![c] = {}]

\* ready.wait: the condition is tested under the lock, and found false.
Sleep(d, c) ==
    /\ asleep' = [asleep EXCEPT ![c] = @ \cup {d}]
    /\ UNCHANGED <<entries, in_flight, key_bytes, compilations, cache_hits,
                   deduplications, encoded_patterns, outcome, owner_queued>>

MarkSetCompilationQueued(c) ==
    /\ owner_queued' = owner_queued \cup {c}
    /\ NotifyAll(c)
    /\ UNCHANGED <<entries, in_flight, key_bytes, compilations, cache_hits,
                   deduplications, outcome>>

ReleaseSetCompilation(c) ==
    /\ in_flight' = in_flight \ {c}
    /\ UNCHANGED <<entries, key_bytes, compilations, cache_hits, deduplications,
                   outcome, owner_queued, asleep>>

\* Seeded fault: the waiters of a cancelled compilation are forgotten.
CancelSilently(c) == ReleaseSetCompilation(c)

\* Seeded fault: they are not woken.
CancelUnnotified(c) ==
    /\ outcome' = [outcome EXCEPT ![c] = IF Done(c) THEN @ ELSE "unexpected"]
    /\ owner_queued' = owner_queued \cup {c}
    /\ in_flight' = in_flight \ {c}
    /\ UNCHANGED <<entries, key_bytes, compilations, cache_hits, deduplications, asleep>>

CancelSetCompilation(c) ==
    /\ outcome' = [outcome EXCEPT ![c] = IF Done(c) THEN @ ELSE "unexpected"]
    /\ owner_queued' = owner_queued \cup {c}
    /\ in_flight' = in_flight \ {c}
    /\ NotifyAll(c)
    /\ UNCHANGED <<entries, key_bytes, compilations, cache_hits, deduplications>>

\* The negated test of the eviction loop.
WithinLimits(size, bytes) ==
    /\ size <= kSetCompileCacheMaxSize
    /\ bytes <= kSetCompileCacheMaxKeyBytes

\* Seeded fault: each entry is moved out before its size is read.
EvictedBytesLate(s, n) == Bytes(SubSeq(s, 2, IF n < Len(s) THEN n + 1 ELSE n))

\* What the loop has subtracted from key_bytes after n rounds.
EvictedBytes(s, n) == Bytes(SubSeq(s, 1, n))

\* Seeded fault: push_front.
PushedFront(s, entry) == <<entry>> \o s

Pushed(s, entry) == Append(s, entry)

\* push_back of the new entry, then eviction from the front: the loop drops
\* the shortest prefix that brings the cache within its limits.
AdmitSet(entry) ==
    LET pushed == Pushed(entries, entry)
        left(n) == key_bytes + KeyBytes[entry.encoded_patterns] - EvictedBytes(pushed, n)
    IN  \E n \in 0 .. Len(pushed) :
            /\ WithinLimits(Len(pushed) - n, left(n))
            /\ \A m \in 0 .. n - 1 : ~WithinLimits(Len(pushed) - m, left(m))
            /\ entries' = SubSeq(pushed, n + 1, Len(pushed))
            /\ key_bytes' = left(n)

\* The set a compilation of call c leaves behind: null when it failed.
CompiledSet(c, result) == IF result = "set" THEN c ELSE None

\* Seeded fault: the null set of a failed compilation is cached too.
AlwaysAdmissible(result) == TRUE

Admissible(result) == result = "set"

\* Second half of RunSetCompilation: the result, the admission to the cache and
\* the removal from in_flight are published together.  Admission is best effort
\* (admitted may be FALSE).  A failed compilation stays in flight: its owner
\* removes it in SetCompileComplete.
PublishSetCompilation(c, result, admitted) ==
    /\ outcome' = [outcome EXCEPT ![c] = result]
    /\ IF Admissible(result) /\ admitted
         THEN AdmitSet([encoded_patterns |-> encoded_patterns[c],
                        set |-> CompiledSet(c, result)])
         ELSE UNCHANGED <<entries, key_bytes>>
    /\ in_flight' = IF Admissible(result) THEN in_flight \ {c} ELSE in_flight
    /\ NotifyAll(c)
    /\ UNCHANGED <<compilations, cache_hits, deduplications, owner_queued>>
=============================================================================
