-------------------------- MODULE SetCompileProofs --------------------------
(***************************************************************************)
(* Theorems about SetCompile, for every number of calls, environments,     *)
(* keys and pool threads, every cache limit and every set of faults.       *)
(***************************************************************************)
EXTENDS SetCompile, SequenceFacts

-----------------------------------------------------------------------------
(* The two ways the cache changes.                                         *)

\* A cache hit moves one entry to the back and keeps the order of the others.
LEMMA HitFacts ==
    ASSUME entries \in Seq(CachedSet), NEW i \in DOMAIN entries, FindCachedSetLocked(i)
    PROVE  /\ entries' \in Seq(CachedSet)
           /\ Len(entries') = Len(entries)
           /\ \A j \in 1 .. i - 1 : entries'[j] = entries[j]
           /\ \A j \in i .. Len(entries) - 1 : entries'[j] = entries[j + 1]
           /\ entries'[Len(entries)] = entries[i]
<1> DEFINE rest == RemoveAt(entries, i)
<1>1. i \in 1 .. Len(entries) /\ Len(entries) \in Nat /\ entries[i] \in CachedSet
  BY LenProperties, ElementOfSeq
<1>2. /\ rest \in Seq(CachedSet) /\ Len(rest) = Len(entries) - 1
      /\ \A j \in 1 .. i - 1 : rest[j] = entries[j]
      /\ \A j \in i .. Len(entries) - 1 : rest[j] = entries[j + 1]
  BY RemoveAtFacts
<1>3. entries' = Append(rest, entries[i])
  BY DEF FindCachedSetLocked
<1> HIDE DEF rest
<1>4. /\ entries' \in Seq(CachedSet) /\ Len(entries') = Len(rest) + 1
      /\ \A j \in 1 .. Len(rest) : entries'[j] = rest[j]
      /\ entries'[Len(rest) + 1] = entries[i]
  BY <1>1, <1>2, <1>3, AppendProperties
<1> QED
  BY <1>1, <1>2, <1>4

\* Admission appends the new entry and drops a prefix; both limits hold after it.
LEMMA AdmitFacts ==
    ASSUME entries \in Seq(CachedSet), NEW entry \in CachedSet, AdmitSet(entry)
    PROVE  /\ entries' \in Seq(CachedSet)
           /\ Len(entries') <= kSetCompileCacheMaxSize
           /\ key_bytes' <= kSetCompileCacheMaxKeyBytes
           /\ \E n \in 0 .. Len(entries) + 1 :
                 /\ Len(entries') = Len(entries) + 1 - n
                 /\ \A j \in 1 .. Len(entries') :
                       entries'[j] = IF n + j <= Len(entries) THEN entries[n + j] ELSE entry
<1> DEFINE pushed == Append(entries, entry)
<1>1. /\ pushed \in Seq(CachedSet) /\ Len(pushed) = Len(entries) + 1
      /\ \A j \in 1 .. Len(entries) : pushed[j] = entries[j]
      /\ pushed[Len(entries) + 1] = entry
      /\ Len(entries) \in Nat
  BY AppendProperties, LenProperties
<1>2. PICK n \in 0 .. Len(pushed) :
         /\ WithinLimits(Len(pushed) - n, key_bytes')
         /\ entries' = SubSeq(pushed, n + 1, Len(pushed))
  BY DEF AdmitSet, Pushed
<1> HIDE DEF pushed
<1>3. /\ entries' \in Seq(CachedSet)
      /\ Len(entries') = Len(pushed) - n
      /\ \A j \in 1 .. Len(pushed) - n : entries'[j] = pushed[n + j]
  BY <1>1, <1>2, SubSeqProperties, ElementOfSeq
<1>4. /\ Len(pushed) - n <= kSetCompileCacheMaxSize
      /\ key_bytes' <= kSetCompileCacheMaxKeyBytes
  BY <1>2 DEF WithinLimits
<1>5. \A j \in 1 .. Len(entries') :
         entries'[j] = IF n + j <= Len(entries) THEN entries[n + j] ELSE entry
  <2> TAKE j \in 1 .. Len(entries')
  <2>1. CASE n + j <= Len(entries)
    BY <2>1, <1>1, <1>2, <1>3
  <2>2. CASE n + j = Len(entries) + 1
    BY <2>2, <1>1, <1>2, <1>3
  <2> QED
    BY <2>1, <2>2, <1>1, <1>2, <1>3
<1> QED
  BY <1>1, <1>2, <1>3, <1>4, <1>5

-----------------------------------------------------------------------------
(* Types.                                                                  *)

\* A call that was made has a key and an environment.
Keyed ==
    \A c \in Calls : stage[c] # "unused" => encoded_patterns[c] \in Keys /\ env[c] \in Envs

QueueKeyed == \A i \in DOMAIN queue : stage[queue[i]] # "unused"

CallMade == \A e \in Envs : call[e] # None => stage[call[e]] # "unused"

TypeInv == TypeOK /\ Keyed /\ QueueKeyed /\ CallMade

LEMMA TypeInit == Init => TypeInv
<1> SUFFICES ASSUME Init PROVE TypeInv
  OBVIOUS
<1> USE DEF Init, CacheInit
<1>1. entries \in Seq(CachedSet) /\ queue \in Seq(Calls) /\ completed \in [Envs -> Seq(Calls)]
  BY EmptySeq
<1>2. Keyed /\ QueueKeyed /\ CallMade
  BY EmptySeq DEF Keyed, QueueKeyed, CallMade
<1> QED
  BY <1>1, <1>2 DEF TypeInv, TypeOK, CacheTypeOK, Outcomes, PcValues, Stages, Promises

\* A call once made stays made.
LEMMA MadeStep ==
    ASSUME TypeInv, UNCHANGED <<env, encoded_patterns, queue>>,
           \A d \in Calls : stage[d] # "unused" => stage'[d] # "unused",
           \A d \in Calls : stage'[d] # "unused" => stage[d] # "unused",
           \A e \in Envs : call'[e] \in {call[e], None}
    PROVE  Keyed' /\ QueueKeyed' /\ CallMade'
<1> USE DEF TypeInv
<1>1. Keyed'
  BY DEF Keyed
<1>2. \A i \in DOMAIN queue : queue[i] \in Calls
  BY ElementOfSeq, LenProperties DEF TypeOK
<1>3. QueueKeyed'
  BY <1>2 DEF QueueKeyed
<1>4. CallMade'
  BY DEF CallMade, TypeOK
<1> QED
  BY <1>1, <1>3, <1>4

LEMMA SettleType ==
    ASSUME TypeOK, NEW e, NEW c, NEW r \in Promises, Settle(e, c, r)
    PROVE  promise' \in [Calls -> Promises]
<1>1. "dropped" \in Promises
  BY DEF Promises
<1> QED
  BY <1>1 DEF TypeOK, CacheTypeOK, Settle

LEMMA ReturnType ==
    ASSUME TypeOK, NEW e, Return(e)
    PROVE  pc' \in [Envs -> PcValues] /\ call' \in [Envs -> Calls \cup {None}]
<1>1. "idle" \in PcValues
  BY DEF PcValues
<1> QED
  BY <1>1 DEF TypeOK, CacheTypeOK, Return

LEMMA PcType ==
    ASSUME TypeOK, NEW e, NEW v \in PcValues, pc' = [pc EXCEPT ![e] = v]
    PROVE  pc' \in [Envs -> PcValues]
BY DEF TypeOK

LEMMA StageType ==
    ASSUME TypeOK, NEW c, NEW s \in Stages, stage' = [stage EXCEPT ![c] = s]
    PROVE  stage' \in [Calls -> Stages]
BY DEF TypeOK, CacheTypeOK

LEMMA CancelType ==
    ASSUME CacheTypeOK, NEW c \in Calls, CancelSetCompilation(c), UNCHANGED encoded_patterns
    PROVE  CacheTypeOK'
BY DEF CacheTypeOK, CancelSetCompilation, NotifyAll, Outcomes

\* What SetCompileAsync and AcquireSetCompilation do once the key is cached.
LEMMA ResolveType ==
    ASSUME TypeInv, NEW e \in Envs, NEW c \in Calls, NEW i \in DOMAIN entries,
           ResolveCompiledSet(e, c, entries[i].set)
    PROVE  /\ stage' \in [Calls -> Stages]
           /\ held' \in [Calls -> Calls \cup {None}]
           /\ promise' \in [Calls -> Promises]
<1> USE DEF TypeInv
<1>0. entries[i] \in CachedSet
  BY ElementOfSeq, LenProperties DEF TypeOK, CacheTypeOK
<1>1. entries[i].set \in Calls
  BY <1>0 DEF CachedSet
<1>2. stage' \in [Calls -> Stages]
  BY StageType DEF ResolveCompiledSet, Stages
<1>3. held' \in [Calls -> Calls \cup {None}]
  BY <1>1 DEF ResolveCompiledSet, TypeOK, CacheTypeOK
<1>4. promise' \in [Calls -> Promises]
  BY SettleType DEF ResolveCompiledSet, Promises
<1> QED
  BY <1>2, <1>3, <1>4

\* A call goes to sleep.
Blocks ==
    \/ \E e \in Envs, c \in Calls : BlockLoop(e, c)
    \/ \E c \in Calls : BlockThread(c)

LEMMA BlockFrame ==
    ASSUME Blocks
    PROVE  UNCHANGED <<entries, in_flight, key_bytes, compilations, cache_hits, deduplications,
                       encoded_patterns, outcome, owner_queued, pc, call, stage, env, ticket,
                       held, promise, queue, completed, closing>>
BY DEF Blocks, BlockLoop, BlockThread, Sleep, callVars, poolVars

LEMMA BlockType ==
    ASSUME TypeOK, Blocks
    PROVE  asleep' \in [Calls -> SUBSET Calls]
<1>1. PICK c \in Calls : Sleep(c, ticket[c])
  BY DEF Blocks, BlockLoop, BlockThread
<1>2. asleep' = [asleep EXCEPT ![ticket[c]] = @ \cup {c}]
  BY <1>1 DEF Sleep
<1>3. asleep \in [Calls -> SUBSET Calls]
  BY DEF TypeOK, CacheTypeOK
<1> QED
  BY <1>2, <1>3

LEMMA NotifyType ==
    ASSUME CacheTypeOK, NEW c \in Calls, NotifyAll(c)
    PROVE  asleep' \in [Calls -> SUBSET Calls]
BY DEF NotifyAll, CacheTypeOK

LEMMA TypeNext == TypeInv /\ [Next]_vars => TypeInv'
<1> SUFFICES ASSUME TypeInv, [Next]_vars PROVE TypeInv'
  OBVIOUS
<1> USE DEF TypeInv
<1>a. ASSUME NEW e \in Envs, NEW c \in Calls, NEW k \in Keys, SetCompileAsync(e, c, k)
      PROVE  TypeInv'
  <2>1. Keyed' /\ QueueKeyed' /\ CallMade'
    <3>1. /\ stage'[c] # "unused"
          /\ \A d \in Calls \ {c} : stage'[d] = stage[d]
      BY <1>a DEF SetCompileAsync, ResolveCompiledSet, TypeOK
    <3>2. \A f \in Envs : call'[f] \in {call[f], c}
      BY <1>a DEF SetCompileAsync, TypeOK
    <3>3. Keyed'
      BY <1>a, <3>1 DEF SetCompileAsync, Keyed, TypeOK, CacheTypeOK
    <3>4. \A i \in DOMAIN queue : queue[i] \in Calls
      BY ElementOfSeq, LenProperties DEF TypeOK
    <3>5. QueueKeyed'
      BY <1>a, <3>1, <3>4 DEF SetCompileAsync, QueueKeyed, poolVars
    <3>6. CallMade'
      BY <3>1, <3>2 DEF CallMade, TypeOK
    <3> QED
      BY <3>3, <3>5, <3>6
  <2>4. /\ env' \in [Calls -> Envs \cup {None}]
        /\ encoded_patterns' \in [Calls -> Keys \cup {None}]
        /\ UNCHANGED <<ticket, queue, completed, closing>>
    BY <1>a DEF SetCompileAsync, TypeOK, CacheTypeOK, poolVars
  <2>2. CASE UNCHANGED <<entries, in_flight, key_bytes, compilations, cache_hits,
                         deduplications, outcome, owner_queued, asleep, held>>
    <3>1. stage' \in [Calls -> Stages]
      BY <1>a, StageType DEF SetCompileAsync, ResolveCompiledSet, Stages
    <3>2. promise' \in [Calls -> Promises]
      BY <1>a, SettleType DEF SetCompileAsync, ResolveCompiledSet, TypeOK, CacheTypeOK, Promises
    <3>3. pc' \in [Envs -> PcValues] /\ call' \in [Envs -> Calls \cup {None}]
      <4>1. pc' \in [Envs -> PcValues]
        BY <1>a, PcType DEF SetCompileAsync, TypeOK, PcValues
      <4>2. call' \in [Envs -> Calls \cup {None}]
        BY <1>a DEF SetCompileAsync, TypeOK
      <4> QED
        BY <4>1, <4>2
    <3> QED
      BY <2>1, <2>2, <2>4, <3>1, <3>2, <3>3 DEF TypeOK, CacheTypeOK
  <2>3. ASSUME NEW i \in Cached(k), FindCachedSetLocked(i),
               ResolveCompiledSet(e, c, entries[i].set), UNCHANGED <<pc, call>>
        PROVE  TypeInv'
    <3>1. i \in DOMAIN entries
      BY DEF Cached
    <3>2. entries' \in Seq(CachedSet)
      BY <2>3, <3>1, HitFacts DEF TypeOK, CacheTypeOK
    <3>3. /\ stage' \in [Calls -> Stages]
          /\ held' \in [Calls -> Calls \cup {None}]
          /\ promise' \in [Calls -> Promises]
      BY <2>3, <3>1, ResolveType
    <3> QED
      BY <2>1, <2>3, <2>4, <3>2, <3>3 DEF FindCachedSetLocked, TypeOK, CacheTypeOK
  <2> QED
    BY <1>a, <2>2, <2>3 DEF SetCompileAsync
<1>b. ASSUME NEW e \in Envs, NEW c \in Calls, AcquireSetCompilation(e, c)
      PROVE  TypeInv'
  <2> DEFINE k == encoded_patterns[c]
  <2>1. Keyed' /\ QueueKeyed' /\ CallMade'
    <3>1. stage[c] # "unused"
      BY <1>b, CallsAssumption DEF AcquireSetCompilation, CallMade
    <3>2. \/ UNCHANGED stage
          \/ stage' = [stage EXCEPT ![c] = "settled"]
      BY <1>b DEF AcquireSetCompilation, ResolveCompiledSet
    <3>3. \A f \in Envs : call'[f] \in {call[f], None}
      BY <1>b DEF AcquireSetCompilation, Return, TypeOK
    <3> QED
      BY <1>b, <3>1, <3>2, <3>3, MadeStep DEF AcquireSetCompilation, TypeOK, poolVars
  <2>2. CASE UNCHANGED <<entries, in_flight, key_bytes, compilations, cache_hits,
                         deduplications, outcome, owner_queued, asleep, ticket, held>>
    <3>1. stage' \in [Calls -> Stages]
      BY <1>b, StageType DEF AcquireSetCompilation, ResolveCompiledSet, TypeOK, CacheTypeOK, Stages
    <3>2. promise' \in [Calls -> Promises]
      BY <1>b, SettleType DEF AcquireSetCompilation, ResolveCompiledSet, TypeOK, CacheTypeOK, Promises
    <3>3. pc' \in [Envs -> PcValues] /\ call' \in [Envs -> Calls \cup {None}]
      BY <1>b, ReturnType, PcType DEF AcquireSetCompilation, TypeOK, PcValues
    <3> QED
      BY <1>b, <2>1, <2>2, <3>1, <3>2, <3>3 DEF AcquireSetCompilation, TypeOK, CacheTypeOK, poolVars
  <2>3. ASSUME NEW i \in Cached(k), FindCachedSetLocked(i),
               ResolveCompiledSet(e, c, entries[i].set), Return(e), UNCHANGED ticket
        PROVE  TypeInv'
    <3>1. i \in DOMAIN entries
      BY DEF Cached
    <3>2. entries' \in Seq(CachedSet)
      BY <2>3, <3>1, HitFacts DEF TypeOK, CacheTypeOK
    <3>3. /\ stage' \in [Calls -> Stages]
          /\ held' \in [Calls -> Calls \cup {None}]
          /\ promise' \in [Calls -> Promises]
      BY <2>3, <3>1, ResolveType
    <3> QED
      BY <1>b, <2>1, <2>3, <3>2, <3>3
         DEF AcquireSetCompilation, FindCachedSetLocked, Return, TypeOK, CacheTypeOK, poolVars, PcValues
  <2>4. ASSUME NEW d \in Pending(k), JoinSetCompilation,
               ticket' = [ticket EXCEPT ![c] = d], pc' = [pc EXCEPT ![e] = "wait"],
               UNCHANGED <<call, stage, held, promise>>
        PROVE  TypeInv'
    BY <1>b, <2>1, <2>4
       DEF AcquireSetCompilation, JoinSetCompilation, Pending, TypeOK, CacheTypeOK, poolVars, PcValues
  <2>5. ASSUME CreateSetCompilation(c),
               ticket' = [ticket EXCEPT ![c] = c], pc' = [pc EXCEPT ![e] = "queue"],
               UNCHANGED <<call, stage, held, promise>>
        PROVE  TypeInv'
    BY <1>b, <2>1, <2>5
       DEF AcquireSetCompilation, CreateSetCompilation, TypeOK, CacheTypeOK, poolVars, PcValues
  <2> QED
    BY <1>b, <2>2, <2>3, <2>4, <2>5 DEF AcquireSetCompilation
<1>c. ASSUME NEW e \in Envs, NEW c \in Calls, WaitOwnerQueued(e, c)
      PROVE  TypeInv'
  BY <1>c DEF WaitOwnerQueued, TypeOK, CacheTypeOK, Keyed, QueueKeyed, CallMade, cacheVars, callVars, poolVars, PcValues
<1>s. CASE Blocks
  BY <1>s, BlockFrame, BlockType DEF TypeOK, CacheTypeOK, Keyed, QueueKeyed, CallMade
<1>d. ASSUME NEW e \in Envs, NEW c \in Calls, QueueWork(e, c)
      PROVE  TypeInv'
  <2>1. Keyed' /\ CallMade'
    <3>1. stage[c] # "unused"
      BY <1>d, CallsAssumption DEF QueueWork, CallMade
    <3>2. /\ stage'[c] # "unused"
          /\ \A d \in Calls \ {c} : stage'[d] = stage[d]
      BY <1>d DEF QueueWork, TypeOK
    <3>3. \A f \in Envs : call'[f] \in {call[f], None}
      BY <1>d DEF QueueWork, Return, TypeOK
    <3>4. UNCHANGED <<env, encoded_patterns>>
      BY <1>d DEF QueueWork, cacheVars
    <3>5. Keyed'
      BY <3>1, <3>2, <3>4 DEF Keyed
    <3>6. CallMade'
      BY <3>1, <3>2, <3>3 DEF CallMade, TypeOK
    <3> QED
      BY <3>5, <3>6
  <2>4. stage' \in [Calls -> Stages]
    BY <1>d, StageType DEF QueueWork, Stages
  <2>5. promise' \in [Calls -> Promises]
    BY <1>d, SettleType DEF QueueWork, TypeOK, CacheTypeOK, Promises
  <2>6. pc' \in [Envs -> PcValues] /\ call' \in [Envs -> Calls \cup {None}]
    BY <1>d, ReturnType, PcType DEF QueueWork, TypeOK, PcValues
  <2>7. CacheTypeOK'
    BY <1>d, CancelType DEF QueueWork, TypeOK, CacheTypeOK, cacheVars
  <2>2. CASE queue' = Append(queue, c)
    <3>1. queue' \in Seq(Calls)
      BY <2>2, AppendProperties DEF TypeOK, CacheTypeOK
    <3>2. QueueKeyed'
      BY <1>d, <2>2, <3>1, AppendProperties, LenProperties
         DEF QueueWork, QueueKeyed, CallMade, TypeOK, CacheTypeOK, Stages
    <3> QED
      BY <1>d, <2>1, <2>4, <2>5, <2>6, <2>7, <3>1, <3>2 DEF QueueWork, TypeOK, CacheTypeOK
  <2>3. CASE UNCHANGED queue
    <3>1. QueueKeyed'
      BY <1>d, <2>3 DEF QueueWork, QueueKeyed, CallMade, TypeOK, CacheTypeOK
    <3> QED
      BY <1>d, <2>1, <2>3, <2>4, <2>5, <2>6, <2>7, <3>1 DEF QueueWork, TypeOK, CacheTypeOK
  <2> QED
    BY <1>d, <2>2, <2>3 DEF QueueWork
<1>e. ASSUME NEW e \in Envs, NEW c \in Calls, MarkQueued(e, c)
      PROVE  TypeInv'
  <2>1. Keyed' /\ QueueKeyed' /\ CallMade'
    BY <1>e, MadeStep DEF MarkQueued, Return, TypeOK, callVars, poolVars
  <2> QED
    BY <1>e, <2>1, ReturnType, NotifyType
       DEF MarkQueued, MarkSetCompilationQueued, TypeOK, CacheTypeOK, callVars, poolVars
<1>f. ASSUME NEW e \in Envs, NEW c \in Calls, SetCompileComplete(e, c)
      PROVE  TypeInv'
  <2>1. Keyed' /\ QueueKeyed' /\ CallMade'
    BY <1>f, HeadTailProperties DEF SetCompileComplete, Keyed, QueueKeyed, CallMade, TypeOK, CacheTypeOK
  <2>2. completed' \in [Envs -> Seq(Calls)]
    <3>1. Tail(completed[e]) \in Seq(Calls)
      BY <1>f, HeadTailProperties DEF SetCompileComplete, TypeOK, CacheTypeOK
    <3> QED
      BY <1>f, <3>1 DEF SetCompileComplete, TypeOK, CacheTypeOK
  <2>3. stage' \in [Calls -> Stages]
    BY <1>f, StageType DEF SetCompileComplete, Stages
  <2>4. promise' \in [Calls -> Promises]
    BY <1>f, SettleType DEF SetCompileComplete, Rejection, Promises
  <2>5. CacheTypeOK'
    <3>1. CASE CancelSetCompilation(c)
      BY <1>f, <3>1, CancelType DEF SetCompileComplete, TypeOK
    <3>2. CASE ~CancelSetCompilation(c)
      BY <1>f, <3>2 DEF SetCompileComplete, LeaveRegistry, ReleaseSetCompilation,
                        TypeOK, CacheTypeOK
    <3> QED
      BY <3>1, <3>2
  <2> QED
    BY <1>f, <2>1, <2>2, <2>3, <2>4, <2>5 DEF SetCompileComplete, TypeOK, CacheTypeOK
<1>g. CASE StartWork
  <2>1. Head(queue) \in Calls /\ Tail(queue) \in Seq(Calls)
    BY <1>g, HeadTailProperties DEF StartWork, TypeOK, CacheTypeOK
  <2>2. Head(queue) = queue[1] /\ 1 \in DOMAIN queue
    BY <1>g, LenProperties, EmptySeq DEF StartWork, TypeOK, CacheTypeOK
  <2>3. Keyed' /\ CallMade'
    BY <1>g, <2>1, <2>2 DEF StartWork, Keyed, QueueKeyed, CallMade, TypeOK, CacheTypeOK, cacheVars, callVars
  <2>4. \A i \in DOMAIN Tail(queue) : Tail(queue)[i] = queue[i + 1] /\ i + 1 \in DOMAIN queue
    BY <1>g, <2>1, HeadTailProperties, LenProperties DEF StartWork, TypeOK, CacheTypeOK
  <2>5. QueueKeyed'
    BY <1>g, <2>1, <2>4 DEF StartWork, QueueKeyed, CallMade, TypeOK, CacheTypeOK
  <2> QED
    BY <1>g, <2>1, <2>3, <2>5 DEF StartWork, TypeOK, CacheTypeOK, cacheVars, callVars, Stages
<1>h. ASSUME NEW c \in Calls, RunSetCompilation(c)
      PROVE  TypeInv'
  <2>1. PICK result \in Outcomes, admitted \in BOOLEAN :
           /\ PublishSetCompilation(c, result, admitted)
           /\ held' = [held EXCEPT ![c] = CompiledSet(c, result)]
    BY <1>h DEF RunSetCompilation, CompileResult, Outcomes
  <2>2. encoded_patterns[c] \in Keys
    BY <1>h DEF RunSetCompilation, Keyed
  <2>3. Keyed' /\ QueueKeyed' /\ CallMade'
    BY <1>h DEF RunSetCompilation, Keyed, QueueKeyed, CallMade, TypeOK, CacheTypeOK, poolVars
  <2>4. entries' \in Seq(CachedSet)
    <3>1. CASE Admissible(result) /\ admitted
      <4> DEFINE entry == [encoded_patterns |-> encoded_patterns[c],
                           set |-> CompiledSet(c, result)]
      <4>1. entry \in CachedSet
        BY <2>2, <3>1 DEF CachedSet, CompiledSet, Admissible
      <4>2. AdmitSet(entry)
        BY <2>1, <3>1 DEF PublishSetCompilation
      <4> QED
        BY <4>1, <4>2, AdmitFacts DEF TypeOK, CacheTypeOK
    <3>2. CASE ~(Admissible(result) /\ admitted)
      BY <2>1, <3>2 DEF PublishSetCompilation, TypeOK, CacheTypeOK
    <3> QED
      BY <3>1, <3>2
  <2>5. in_flight' \subseteq Calls
    BY <2>1 DEF PublishSetCompilation, TypeOK, CacheTypeOK
  <2> QED
    BY <1>h, <2>1, <2>3, <2>4, <2>5, NotifyType
       DEF RunSetCompilation, PublishSetCompilation, CompiledSet, TypeOK, CacheTypeOK, poolVars, Stages,
           Outcomes
<1>i. ASSUME NEW c \in Calls, WaitForSetCompilation(c)
      PROVE  TypeInv'
  BY <1>i DEF WaitForSetCompilation, CompiledSet, TypeOK, CacheTypeOK, Keyed, QueueKeyed, CallMade, cacheVars,
              poolVars, Stages
<1>j. ASSUME NEW c \in Calls, FinishWork(c)
      PROVE  TypeInv'
  <2>1. completed' \in [Envs -> Seq(Calls)]
    BY <1>j, AppendProperties DEF FinishWork, TypeOK, CacheTypeOK, Keyed
  <2> QED
    BY <1>j, <2>1 DEF FinishWork, TypeOK, CacheTypeOK, Keyed, QueueKeyed, CallMade, cacheVars, callVars, Stages
<1>k. ASSUME NEW c \in Calls, CancelWork(c)
      PROVE  TypeInv'
  <2>1. PICK i \in DOMAIN queue : queue[i] = c /\ queue' = RemoveAt(queue, i)
    BY <1>k DEF CancelWork
  <2>2. /\ queue' \in Seq(Calls)
        /\ \A j \in DOMAIN queue' : \E m \in DOMAIN queue : queue'[j] = queue[m]
    <3>1. /\ queue' \in Seq(Calls) /\ Len(queue') = Len(queue) - 1
          /\ \A j \in 1 .. i - 1 : queue'[j] = queue[j]
          /\ \A j \in i .. Len(queue) - 1 : queue'[j] = queue[j + 1]
      BY <2>1, RemoveAtFacts DEF TypeOK, CacheTypeOK
    <3>2. DOMAIN queue' = 1 .. Len(queue) - 1 /\ DOMAIN queue = 1 .. Len(queue)
          /\ Len(queue) \in Nat
      BY <3>1, LenProperties DEF TypeOK, CacheTypeOK
    <3>3. ASSUME NEW j \in DOMAIN queue'
          PROVE  \E m \in DOMAIN queue : queue'[j] = queue[m]
      <4>1. CASE j \in 1 .. i - 1
        BY <4>1, <3>1, <3>2
      <4>2. CASE j \in i .. Len(queue) - 1
        <5>1. queue'[j] = queue[j + 1] /\ j + 1 \in DOMAIN queue
          BY <4>2, <3>1, <3>2
        <5> QED
          BY <5>1
      <4> QED
        BY <4>1, <4>2, <3>2
    <3> QED
      BY <3>1, <3>3
  <2>3. stage[c] # "unused"
    BY <2>1 DEF QueueKeyed
  <2>4. completed' \in [Envs -> Seq(Calls)]
    BY <1>k, <2>3, AppendProperties DEF CancelWork, TypeOK, CacheTypeOK, Keyed
  <2>5. Keyed' /\ CallMade'
    BY <1>k, <2>3 DEF CancelWork, Keyed, CallMade, TypeOK, CacheTypeOK, cacheVars, callVars
  <2>6. QueueKeyed'
    BY <1>k, <2>2 DEF CancelWork, QueueKeyed, CallMade, TypeOK, CacheTypeOK
  <2> QED
    BY <1>k, <2>2, <2>4, <2>5, <2>6 DEF CancelWork, TypeOK, CacheTypeOK, cacheVars, callVars, Stages
<1>l. ASSUME NEW e \in Envs, TerminateEnv(e)
      PROVE  TypeInv'
  BY <1>l DEF TerminateEnv, TypeOK, CacheTypeOK, Keyed, QueueKeyed, CallMade, cacheVars, callVars, poolVars
<1>m. CASE UNCHANGED vars
  BY <1>m DEF vars, TypeOK, CacheTypeOK, Keyed, QueueKeyed, CallMade, cacheVars, callVars, poolVars
<1> QED
  BY <1>a, <1>b, <1>c, <1>d, <1>e, <1>f, <1>g, <1>h, <1>i, <1>j, <1>k, <1>l, <1>m, <1>s
     DEF Next, JsStep, PoolStep, Quiescent, Blocks

\* Every variable keeps its type: in particular no null set is ever cached, and
\* every piece of work in the pool is that of a call that was made.
THEOREM TypeCorrect == Spec => []TypeOK
<1>1. Spec => []TypeInv
  BY TypeInit, TypeNext, PTL DEF Spec
<1> QED
  BY <1>1, PTL DEF TypeInv

-----------------------------------------------------------------------------
(* Control: where calls, tickets and work can be relative to each other.   *)

QueueHoldsQueued ==
    /\ \A i \in DOMAIN queue : stage[queue[i]] = "queued"
    /\ \A c \in Calls : stage[c] = "queued" => \E i \in DOMAIN queue : queue[i] = c
    /\ \A i, j \in DOMAIN queue : queue[i] = queue[j] => i = j

ThreadState ==
    \A e \in Envs : LET c == call[e] IN
        /\ pc[e] # "idle" => c \in Calls /\ env[c] = e
        /\ pc[e] \in {"acquire", "wait", "queue"} => stage[c] = "calling"
        /\ pc[e] = "acquire" => ticket[c] = None
        /\ pc[e] = "wait" => ticket[c] \in Calls /\ ~Owner(c)
        /\ pc[e] = "queue" => /\ ticket[c] \in Calls
                              /\ Owner(c) \/ OwnerQueuedOrDone(ticket[c])
        /\ pc[e] = "mark" => Owner(c) /\ stage[c] # "calling"

\* A joined compilation has an owner, and was asked for the same patterns.
TicketState ==
    \A c \in Calls :
        /\ stage[c] = "unused" => ticket[c] = None
        /\ stage[c] \in InRegistry \ {"calling"} => ticket[c] # None
        /\ ticket[c] # None => /\ Owner(ticket[c])
                               /\ encoded_patterns[ticket[c]] = encoded_patterns[c]

\* Only owners appear in the registry.
OwnersOnly ==
    \A c \in Calls : ~Owner(c) => ~Done(c) /\ c \notin in_flight /\ c \notin owner_queued

\* The life of a compilation follows that of its owner's work.
OwnerState ==
    \A c \in Calls : Owner(c) =>
        /\ ~Done(c) => /\ stage[c] \in {"calling", "queued", "running", "cancelled"}
                       /\ c \in in_flight
        /\ Done(c) => stage[c] \in {"executed", "completing", "settled"}
        /\ c \in owner_queued => stage[c] # "calling"
        /\ c \in in_flight => stage[c] \in InRegistry
        /\ ~OwnerQueuedOrDone(c) => call[env[c]] = c /\ pc[env[c]] \in {"queue", "mark"}

ControlInv ==
    /\ QueueHoldsQueued
    /\ ThreadState
    /\ TicketState
    /\ OwnersOnly
    /\ OwnerState
    /\ WaiterBehindOwner

\* Steps that leave the pool's queue alone.
LEMMA QueueFrame ==
    ASSUME TypeInv, QueueHoldsQueued, UNCHANGED queue,
           \A d \in Calls : stage'[d] = "queued" <=> stage[d] = "queued"
    PROVE  QueueHoldsQueued'
<1>1. \A i \in DOMAIN queue : queue[i] \in Calls
  BY ElementOfSeq, LenProperties DEF TypeInv, TypeOK
<1> QED
  BY <1>1 DEF QueueHoldsQueued

LEMMA WaiterFrame ==
    ASSUME TypeInv, ControlInv, UNCHANGED queue,
           \A d \in Calls : stage'[d] \in {"queued", "running"} =>
               stage'[d] = stage[d] /\ ticket'[d] = ticket[d],
           \A d \in Calls : stage[d] \in {"queued", "running", "cancelled"} =>
               stage'[d] = stage[d] \/ Done(d)',
           \A d \in Calls : Done(d) => Done(d)'
    PROVE  WaiterBehindOwner'
<1> SUFFICES ASSUME NEW c \in Calls, stage'[c] \in {"queued", "running"},
                    ticket'[c] # c, ~Done(ticket[c])'
             PROVE  \/ stage'[ticket[c]] \in {"running", "cancelled"}
                    \/ \E i, j \in DOMAIN queue : i < j /\ queue[i] = ticket[c] /\ queue[j] = c
  BY DEF WaiterBehindOwner, Owner, Done
<1> DEFINE d == ticket[c]
<1>1. d \in Calls /\ d # c /\ ~Done(d)
  BY DEF ControlInv, TicketState, InRegistry, TypeInv, TypeOK
<1>2. \/ stage[d] \in {"running", "cancelled"}
      \/ \E i, j \in DOMAIN queue : i < j /\ queue[i] = d /\ queue[j] = c
  BY <1>1 DEF ControlInv, WaiterBehindOwner, Owner
<1> QED
  BY <1>1, <1>2

LEMMA ControlNext == TypeInv /\ ControlInv /\ [Next]_vars => ControlInv'
<1> SUFFICES ASSUME TypeInv, ControlInv, [Next]_vars PROVE ControlInv'
  OBVIOUS
<1> USE CallsAssumption DEF ControlInv, TypeInv, Owner, Done, OwnerQueuedOrDone
<1>s. CASE Blocks
  BY <1>s, BlockFrame
     DEF QueueHoldsQueued, ThreadState, TicketState, OwnersOnly, OwnerState, WaiterBehindOwner
<1>a. ASSUME NEW e \in Envs, NEW c \in Calls, NEW k \in Keys, SetCompileAsync(e, c, k)
      PROVE  ControlInv'
  <2>0. /\ stage[c] = "unused" /\ stage'[c] \in {"calling", "settled"}
        /\ \A d \in Calls \ {c} : stage'[d] = stage[d] /\ env'[d] = env[d]
                                    /\ encoded_patterns'[d] = encoded_patterns[d]
        /\ env'[c] = e
        /\ pc[e] = "idle"
        /\ UNCHANGED <<ticket, in_flight, outcome, owner_queued, queue>>
    BY <1>a DEF SetCompileAsync, ResolveCompiledSet, FindCachedSetLocked, poolVars, TypeOK,
                CacheTypeOK
  <2>1. QueueHoldsQueued'
    BY <2>0, QueueFrame
  <2>7. /\ \A f \in Envs \ {e} : pc'[f] = pc[f] /\ call'[f] = call[f]
        /\ \/ pc'[e] = "idle"
           \/ pc'[e] = "acquire" /\ call'[e] = c /\ stage'[c] = "calling"
    BY <1>a DEF SetCompileAsync, TypeOK
  <2>8. ticket[c] = None /\ ~Owner(c)
    BY <2>0 DEF TicketState
  <2>2. ThreadState'
    <3> SUFFICES ASSUME NEW f \in Envs PROVE ThreadState!(f)'
      BY DEF ThreadState
    <3>1. CASE f = e
      BY <3>1, <2>0, <2>7, <2>8 DEF ThreadState, TypeOK
    <3>2. CASE f # e
      <4>1. pc[f] # "idle" => call[f] \in Calls /\ call[f] # c
        BY <2>0, <2>8, <3>2 DEF ThreadState, CallMade
      <4> QED
        BY <3>2, <4>1, <2>0, <2>7 DEF ThreadState, TypeOK
    <3> QED
      BY <3>1, <3>2
  <2>3. TicketState'
    BY <2>0, <2>8 DEF TicketState, InRegistry, TypeOK
  <2>4. OwnersOnly'
    BY <2>0 DEF OwnersOnly
  <2>5. OwnerState'
    <3> SUFFICES ASSUME NEW d \in Calls, Owner(d)' PROVE OwnerState!(d)'
      BY DEF OwnerState
    <3>1. d # c /\ Owner(d) /\ stage'[d] = stage[d] /\ env'[d] = env[d]
      BY <2>0, <2>8
    <3>2. ~OwnerQueuedOrDone(d) => env[d] \in Envs \ {e}
      BY <2>0, <3>1 DEF OwnerState, TypeOK, Keyed
    <3> QED
      BY <2>0, <2>7, <3>1, <3>2 DEF OwnerState, InRegistry
  <2>6. WaiterBehindOwner'
    BY <2>0, WaiterFrame
  <2> QED
    BY <2>1, <2>2, <2>3, <2>4, <2>5, <2>6
<1>b. ASSUME NEW e \in Envs, NEW c \in Calls, AcquireSetCompilation(e, c)
      PROVE  ControlInv'
  <2>0. /\ pc[e] = "acquire" /\ call[e] = c
        /\ stage[c] = "calling" /\ stage'[c] \in {"calling", "settled"}
        /\ env[c] = e /\ ticket[c] = None
        /\ \A d \in Calls \ {c} : stage'[d] = stage[d] /\ ticket'[d] = ticket[d]
        /\ UNCHANGED <<outcome, owner_queued, queue, env, encoded_patterns>>
    BY <1>b DEF AcquireSetCompilation, ResolveCompiledSet, FindCachedSetLocked,
                JoinSetCompilation, CreateSetCompilation, poolVars, ThreadState, TypeOK,
                CacheTypeOK
  <2>1. QueueHoldsQueued'
    BY <2>0, QueueFrame
  <2>7. \A f \in Envs \ {e} : pc'[f] = pc[f] /\ call'[f] = call[f]
    BY <1>b DEF AcquireSetCompilation, Return, TypeOK
  <2>8. \/ pc'[e] = "idle" /\ ticket'[c] = None /\ in_flight' = in_flight
        \/ /\ pc'[e] = "wait" /\ call'[e] = c /\ stage'[c] = "calling"
           /\ ticket'[c] \in in_flight
           /\ encoded_patterns[ticket'[c]] = encoded_patterns[c] /\ in_flight' = in_flight
        \/ /\ pc'[e] = "queue" /\ call'[e] = c /\ stage'[c] = "calling"
           /\ ticket'[c] = c /\ in_flight' = in_flight \cup {c}
    BY <1>b, <2>0 DEF AcquireSetCompilation, Return, TypeOK, FindCachedSetLocked,
             JoinSetCompilation, CreateSetCompilation, Pending
  <2>9. /\ c \notin in_flight /\ c \notin owner_queued /\ ~Done(c)
        /\ \A d \in in_flight : Owner(d) /\ d \in Calls /\ d # c
        /\ \A d \in Calls : ticket[d] # c
    BY <2>0 DEF OwnersOnly, TypeOK, CacheTypeOK, TicketState
  <2>2. ThreadState'
    <3> SUFFICES ASSUME NEW f \in Envs PROVE ThreadState!(f)'
      BY DEF ThreadState
    <3>1. CASE f = e
      BY <3>1, <2>0, <2>8, <2>9 DEF ThreadState, TypeOK
    <3>2. CASE f # e
      <4>1. call[f] = c => pc[f] = "idle"
        BY <3>2, <2>0 DEF ThreadState
      <4> QED
        BY <3>2, <4>1, <2>0, <2>7 DEF ThreadState, TypeOK
    <3> QED
      BY <3>1, <3>2
  <2>3. TicketState'
    <3>1. \A d \in Calls : ticket[d] # None => ticket'[ticket[d]] = ticket[d]
      BY <2>0, <2>9 DEF TicketState, TypeOK
    <3>2. ticket'[c] # None => ticket'[ticket'[c]] = ticket'[c]
      BY <2>0, <2>8, <2>9
    <3>3. \A d \in Calls : ticket'[d] # None =>
             encoded_patterns[ticket'[d]] = encoded_patterns[d]
      BY <2>0, <2>8 DEF TicketState
    <3> QED
      BY <2>0, <3>1, <3>2, <3>3 DEF TicketState, InRegistry
  <2>4. OwnersOnly'
    BY <2>0, <2>8, <2>9 DEF OwnersOnly
  <2>5. OwnerState'
    <3> SUFFICES ASSUME NEW d \in Calls, Owner(d)' PROVE OwnerState!(d)'
      BY DEF OwnerState
    <3>1. CASE d = c
      BY <3>1, <2>0, <2>8, <2>9 DEF OwnerState, InRegistry
    <3>2. CASE d # c
      <4>1. Owner(d) /\ stage'[d] = stage[d]
        BY <3>2, <2>0
      <4>2. ~OwnerQueuedOrDone(d) => env[d] \in Envs \ {e}
        BY <3>2, <4>1, <2>0 DEF OwnerState, TypeOK, Keyed, TicketState
      <4> QED
        BY <3>2, <4>1, <4>2, <2>0, <2>7, <2>8 DEF OwnerState, InRegistry
    <3> QED
      BY <3>1, <3>2
  <2>6. WaiterBehindOwner'
    BY <2>0, WaiterFrame
  <2> QED
    BY <2>1, <2>2, <2>3, <2>4, <2>5, <2>6
<1>c. ASSUME NEW e \in Envs, NEW c \in Calls, WaitOwnerQueued(e, c)
      PROVE  ControlInv'
  <2>1. QueueHoldsQueued'
    BY <1>c DEF WaitOwnerQueued, cacheVars, callVars, TypeOK, poolVars, QueueHoldsQueued
  <2>2. ThreadState'
    BY <1>c DEF WaitOwnerQueued, cacheVars, callVars, TypeOK, ThreadState
  <2>3. TicketState'
    BY <1>c DEF WaitOwnerQueued, cacheVars, callVars, TypeOK, InRegistry, TicketState
  <2>4. OwnersOnly'
    BY <1>c DEF WaitOwnerQueued, cacheVars, callVars, TypeOK, OwnersOnly
  <2>5. OwnerState'
    BY <1>c DEF WaitOwnerQueued, cacheVars, callVars, TypeOK, InRegistry, OwnerState
  <2>6. WaiterBehindOwner'
    BY <1>c
       DEF WaitOwnerQueued, cacheVars, callVars, TypeOK, poolVars, WaiterBehindOwner
  <2> QED
    BY <2>1, <2>2, <2>3, <2>4, <2>5, <2>6
<1>d. ASSUME NEW e \in Envs, NEW c \in Calls, QueueWork(e, c)
      PROVE  ControlInv'
  <2>0. /\ pc[e] = "queue" /\ call[e] = c /\ stage[c] = "calling" /\ env[c] = e
        /\ ticket[c] \in Calls /\ (Owner(c) \/ OwnerQueuedOrDone(ticket[c]))
        /\ \A d \in Calls \ {c} : stage'[d] = stage[d]
        /\ UNCHANGED <<env, ticket, encoded_patterns>>
    BY <1>d DEF QueueWork, ThreadState, TypeOK, cacheVars
  <2>1. QueueHoldsQueued'
    <3>1. CASE queue' = Append(queue, c) /\ stage' = [stage EXCEPT ![c] = "queued"]
      BY <3>1, <2>0, AppendFacts DEF QueueHoldsQueued, TypeOK
    <3>2. CASE UNCHANGED queue /\ stage' = [stage EXCEPT ![c] = "settled"]
      BY <3>2, <2>0, QueueFrame DEF TypeOK
    <3> QED
      BY <1>d, <3>1, <3>2 DEF QueueWork
  <2>2. ThreadState'
    BY <1>d DEF QueueWork, CancelSetCompilation, Return, cacheVars, poolVars, TypeOK,
                CacheTypeOK, ThreadState
  <2>3. TicketState'
    BY <2>0, <1>d DEF TicketState, QueueWork, InRegistry, TypeOK
  <2>4. OwnersOnly'
    BY <1>d DEF QueueWork, CancelSetCompilation, cacheVars, TypeOK, CacheTypeOK, OwnersOnly
  <2>5. OwnerState'
    <3> SUFFICES ASSUME NEW d \in Calls, Owner(d) PROVE OwnerState!(d)'
      BY <2>0 DEF OwnerState
    <3>1. CASE d = c
      <4>1. CASE stage' = [stage EXCEPT ![c] = "queued"]
        <5>1. /\ stage'[c] = "queued" /\ pc'[e] = "mark" /\ call'[e] = c
              /\ UNCHANGED <<outcome, in_flight, owner_queued>>
          BY <3>1, <4>1, <1>d, <2>0 DEF QueueWork, cacheVars, TypeOK
        <5> QED
          BY <3>1, <5>1, <2>0 DEF OwnerState, InRegistry
      <4>2. CASE stage' = [stage EXCEPT ![c] = "settled"]
        <5>1. /\ stage'[c] = "settled" /\ c \in owner_queued' /\ c \notin in_flight'
              /\ outcome'[c] # "none"
          BY <3>1, <4>2, <1>d, <2>0
             DEF QueueWork, CancelSetCompilation, TypeOK, CacheTypeOK
        <5> QED
          BY <3>1, <5>1 DEF OwnerState, InRegistry
      <4> QED
        BY <1>d, <4>1, <4>2 DEF QueueWork
    <3>2. CASE d # c
      <4>1. stage'[d] = stage[d] /\ outcome'[d] = outcome[d]
            /\ (d \in in_flight' <=> d \in in_flight)
            /\ (d \in owner_queued' <=> d \in owner_queued)
        BY <3>2, <1>d, <2>0 DEF QueueWork, CancelSetCompilation, cacheVars, TypeOK, CacheTypeOK
      <4>2. ~OwnerQueuedOrDone(d) => env[d] \in Envs \ {e}
        BY <3>2, <2>0 DEF OwnerState, TypeOK, Keyed, TicketState
      <4>3. \A f \in Envs \ {e} : pc'[f] = pc[f] /\ call'[f] = call[f]
        BY <1>d DEF QueueWork, Return, TypeOK
      <4> QED
        BY <3>2, <4>1, <4>2, <4>3, <2>0 DEF OwnerState, InRegistry
    <3> QED
      BY <3>1, <3>2
  <2>6. WaiterBehindOwner'
    <3>1. CASE UNCHANGED queue
      <4>1. /\ stage'[c] = "settled"
            /\ \A d \in Calls : Done(d) => Done(d)'
        BY <3>1, <1>d, AppendFacts DEF QueueWork, CancelSetCompilation, cacheVars, TypeOK, CacheTypeOK
      <4> QED
        BY <3>1, <4>1, <2>0, WaiterFrame
    <3>2. CASE queue' = Append(queue, c)
      <4>0. stage'[c] = "queued" /\ UNCHANGED outcome
        BY <3>2, <1>d, AppendFacts DEF QueueWork, cacheVars, TypeOK
      <4> SUFFICES ASSUME NEW d \in Calls, stage'[d] \in {"queued", "running"},
                          ~Owner(d), ~Done(ticket[d])
                   PROVE  \/ stage'[ticket[d]] \in {"running", "cancelled"}
                          \/ \E i, j \in DOMAIN queue' :
                                i < j /\ queue'[i] = ticket[d] /\ queue'[j] = d
        BY <2>0, <4>0 DEF WaiterBehindOwner
      <4>q. /\ \A i \in DOMAIN queue : i \in DOMAIN queue' /\ queue'[i] = queue[i]
            /\ Len(queue) + 1 \in DOMAIN queue' /\ queue'[Len(queue) + 1] = c
            /\ \A i \in DOMAIN queue : i < Len(queue) + 1
        BY <3>2, AppendFacts DEF TypeOK
      <4>1. CASE d = c
        <5> DEFINE o == ticket[c]
        <5>1. /\ o \in Calls /\ o # c /\ Owner(o) /\ o \in owner_queued
              /\ stage[o] \in {"queued", "running", "cancelled"}
          BY <4>1, <2>0 DEF TicketState, OwnerState
        <5>2. stage'[o] = stage[o]
          BY <5>1, <2>0
        <5>3. stage[o] = "queued" => \E i \in DOMAIN queue : queue[i] = o
          BY <5>1 DEF QueueHoldsQueued
        <5> HIDE DEF o
        <5> QED
          BY <4>1, <4>q, <5>1, <5>2, <5>3 DEF o
      <4>2. CASE d # c
        <5>1. stage[d] \in {"queued", "running"} /\ ticket[d] \in Calls
          BY <4>2, <2>0 DEF TicketState, InRegistry, TypeOK
        <5>2. \/ stage[ticket[d]] \in {"running", "cancelled"}
              \/ \E i, j \in DOMAIN queue : i < j /\ queue[i] = ticket[d] /\ queue[j] = d
          BY <5>1 DEF WaiterBehindOwner
        <5>3. CASE stage[ticket[d]] \in {"running", "cancelled"}
          BY <5>1, <5>3, <2>0
        <5> QED
          BY <5>2, <5>3, <4>q
      <4> QED
        BY <4>1, <4>2
    <3> QED
      BY <1>d, <3>1, <3>2 DEF QueueWork
  <2> QED
    BY <2>1, <2>2, <2>3, <2>4, <2>5, <2>6
<1>e. ASSUME NEW e \in Envs, NEW c \in Calls, MarkQueued(e, c)
      PROVE  ControlInv'
  <2>1. QueueHoldsQueued'
    BY <1>e
       DEF MarkQueued, MarkSetCompilationQueued, Return, callVars, TypeOK, poolVars,
           QueueHoldsQueued
  <2>2. ThreadState'
    BY <1>e
       DEF MarkQueued, MarkSetCompilationQueued, Return, callVars, TypeOK, ThreadState
  <2>3. TicketState'
    BY <1>e
       DEF MarkQueued, MarkSetCompilationQueued, Return, callVars, TypeOK, InRegistry,
           TicketState
  <2>4. OwnersOnly'
    BY <1>e
       DEF MarkQueued, MarkSetCompilationQueued, Return, callVars, TypeOK, CacheTypeOK,
           OwnersOnly, ThreadState
  <2>5. OwnerState'
    BY <1>e
       DEF MarkQueued, MarkSetCompilationQueued, Return, callVars, TypeOK, CacheTypeOK,
           InRegistry, OwnerState, ThreadState
  <2>6. WaiterBehindOwner'
    BY <1>e
       DEF MarkQueued, MarkSetCompilationQueued, Return, callVars, TypeOK, poolVars,
           WaiterBehindOwner
  <2> QED
    BY <2>1, <2>2, <2>3, <2>4, <2>5, <2>6
<1>f. ASSUME NEW e \in Envs, NEW c \in Calls, SetCompileComplete(e, c)
      PROVE  ControlInv'
  <2>1. QueueHoldsQueued'
    BY <1>f
       DEF SetCompileComplete, LeaveRegistry, ReleaseSetCompilation,
           CancelSetCompilation, TypeOK, poolVars, QueueHoldsQueued
  <2>2. ThreadState'
    BY <1>f
       DEF SetCompileComplete, LeaveRegistry, ReleaseSetCompilation,
           CancelSetCompilation, TypeOK, CacheTypeOK, ThreadState
  <2>3. TicketState'
    BY <1>f
       DEF SetCompileComplete, LeaveRegistry, ReleaseSetCompilation,
           CancelSetCompilation, TypeOK, InRegistry, TicketState
  <2>4. OwnersOnly'
    BY <1>f
       DEF SetCompileComplete, LeaveRegistry, ReleaseSetCompilation,
           CancelSetCompilation, TypeOK, CacheTypeOK, OwnersOnly
  <2>5. OwnerState'
    BY <1>f
       DEF SetCompileComplete, LeaveRegistry, ReleaseSetCompilation,
           CancelSetCompilation, TypeOK, CacheTypeOK, InRegistry, OwnerState
  <2>6. WaiterBehindOwner'
    BY <1>f
       DEF SetCompileComplete, LeaveRegistry, ReleaseSetCompilation,
           CancelSetCompilation, TypeOK, CacheTypeOK, poolVars, WaiterBehindOwner,
           TicketState, InRegistry
  <2> QED
    BY <2>1, <2>2, <2>3, <2>4, <2>5, <2>6
<1>g. CASE StartWork
  <2>0. /\ Head(queue) = queue[1] /\ 1 \in DOMAIN queue /\ queue[1] \in Calls
        /\ \A i \in DOMAIN queue' : i + 1 \in DOMAIN queue /\ queue'[i] = queue[i + 1]
        /\ \A i \in DOMAIN queue : i # 1 => i - 1 \in DOMAIN queue' /\ queue'[i - 1] = queue[i]
        /\ DOMAIN queue \subseteq Nat /\ DOMAIN queue' \subseteq Nat \ {0}
    BY <1>g, TailFacts DEF StartWork, TypeOK
  <2>7. /\ stage'[queue[1]] = "running" /\ stage[queue[1]] = "queued"
        /\ \A d \in Calls : d # queue[1] => stage'[d] = stage[d]
        /\ UNCHANGED <<ticket, outcome>>
    BY <1>g, <2>0 DEF StartWork, QueueHoldsQueued, TypeOK, cacheVars, callVars
  <2>1. QueueHoldsQueued'
    <3>1. \A i \in DOMAIN queue : queue[i] \in Calls
      BY ElementOfSeq, LenProperties DEF TypeOK
    <3>2. \A i \in DOMAIN queue' : stage'[queue'[i]] = "queued"
      <4> TAKE i \in DOMAIN queue'
      <4>1. i + 1 \in DOMAIN queue /\ queue'[i] = queue[i + 1] /\ i + 1 # 1
        BY <2>0
      <4>2. queue[i + 1] # queue[1]
        BY <4>1, <2>0 DEF QueueHoldsQueued
      <4> QED
        BY <4>1, <4>2, <3>1, <2>7 DEF QueueHoldsQueued
    <3>3. ASSUME NEW c \in Calls, stage'[c] = "queued"
          PROVE  \E i \in DOMAIN queue' : queue'[i] = c
      <4>1. c # queue[1] /\ stage[c] = "queued"
        BY <3>3, <2>7
      <4>2. PICK i \in DOMAIN queue : queue[i] = c
        BY <4>1 DEF QueueHoldsQueued
      <4> QED
        BY <4>1, <4>2, <2>0
    <3>4. ASSUME NEW i \in DOMAIN queue', NEW j \in DOMAIN queue', queue'[i] = queue'[j]
          PROVE  i = j
      <4>1. i + 1 = j + 1
        BY <3>4, <2>0 DEF QueueHoldsQueued
      <4> QED
        BY <4>1, <2>0
    <3> QED
      BY <3>2, <3>3, <3>4 DEF QueueHoldsQueued
  <2>6. WaiterBehindOwner'
    <3> SUFFICES ASSUME NEW d \in Calls, stage'[d] \in {"queued", "running"},
                        ~Owner(d), ~Done(ticket[d])
                 PROVE  \/ stage'[ticket[d]] \in {"running", "cancelled"}
                        \/ \E i, j \in DOMAIN queue' :
                              i < j /\ queue'[i] = ticket[d] /\ queue'[j] = d
      BY <2>7 DEF WaiterBehindOwner
    <3>1. stage[d] \in {"queued", "running"} /\ ticket[d] \in Calls
      BY <2>7 DEF TicketState, InRegistry, TypeOK
    <3>2. CASE stage[ticket[d]] \in {"running", "cancelled"}
      BY <3>1, <3>2, <2>7
    <3>3. ASSUME NEW i \in DOMAIN queue, NEW j \in DOMAIN queue,
                 i < j, queue[i] = ticket[d], queue[j] = d
          PROVE  \/ stage'[ticket[d]] \in {"running", "cancelled"}
                 \/ \E m, n \in DOMAIN queue' :
                       m < n /\ queue'[m] = ticket[d] /\ queue'[n] = d
      <4>1. CASE i = 1
        BY <3>3, <4>1, <2>7
      <4>2. CASE i # 1
        <5>1. i \in Nat /\ j \in Nat /\ j # 1
          BY <3>3, <4>2, <2>0 DEF QueueHoldsQueued
        <5>2. /\ i - 1 \in DOMAIN queue' /\ queue'[i - 1] = ticket[d]
              /\ j - 1 \in DOMAIN queue' /\ queue'[j - 1] = d /\ i - 1 < j - 1
          BY <3>3, <4>2, <5>1, <2>0
        <5> QED
          BY <5>2
      <4> QED
        BY <4>1, <4>2
    <3> QED
      BY <3>1, <3>2, <3>3 DEF WaiterBehindOwner
  <2>2. ThreadState'
    BY <1>g, <2>0, <2>7 DEF StartWork, cacheVars, callVars, ThreadState, TypeOK
  <2>3. TicketState'
    BY <1>g, <2>0, <2>7 DEF StartWork, cacheVars, callVars, TicketState, InRegistry
  <2>4. OwnersOnly'
    BY <1>g, <2>0, <2>7 DEF StartWork, cacheVars, callVars, OwnersOnly
  <2>5. OwnerState'
    BY <1>g, <2>0, <2>7 DEF StartWork, cacheVars, callVars, OwnerState, InRegistry
  <2> QED
    BY <2>1, <2>2, <2>3, <2>4, <2>5, <2>6
<1>h. ASSUME NEW c \in Calls, RunSetCompilation(c)
      PROVE  ControlInv'
  <2>1. QueueHoldsQueued'
    BY <1>h
       DEF RunSetCompilation, PublishSetCompilation, CompileResult, TypeOK, poolVars,
           QueueHoldsQueued
  <2>2. ThreadState'
    BY <1>h
       DEF RunSetCompilation, PublishSetCompilation, CompileResult, TypeOK, ThreadState
  <2>3. TicketState'
    BY <1>h
       DEF RunSetCompilation, PublishSetCompilation, CompileResult, TypeOK, InRegistry,
           TicketState
  <2>4. OwnersOnly'
    BY <1>h
       DEF RunSetCompilation, PublishSetCompilation, CompileResult, TypeOK, OwnersOnly
  <2>5. OwnerState'
    BY <1>h
       DEF RunSetCompilation, PublishSetCompilation, CompileResult, TypeOK, CacheTypeOK,
           InRegistry, OwnerState
  <2>6. WaiterBehindOwner'
    BY <1>h
       DEF RunSetCompilation, PublishSetCompilation, CompileResult, TypeOK, CacheTypeOK,
           poolVars, WaiterBehindOwner
  <2> QED
    BY <2>1, <2>2, <2>3, <2>4, <2>5, <2>6
<1>i. ASSUME NEW c \in Calls, WaitForSetCompilation(c)
      PROVE  ControlInv'
  <2>1. QueueHoldsQueued'
    BY <1>i DEF WaitForSetCompilation, cacheVars, TypeOK, poolVars, QueueHoldsQueued
  <2>2. ThreadState'
    BY <1>i DEF WaitForSetCompilation, cacheVars, TypeOK, ThreadState
  <2>3. TicketState'
    BY <1>i DEF WaitForSetCompilation, cacheVars, TypeOK, InRegistry, TicketState
  <2>4. OwnersOnly'
    BY <1>i DEF WaitForSetCompilation, cacheVars, TypeOK, OwnersOnly
  <2>5. OwnerState'
    BY <1>i DEF WaitForSetCompilation, cacheVars, TypeOK, InRegistry, OwnerState
  <2>6. WaiterBehindOwner'
    BY <1>i
       DEF WaitForSetCompilation, cacheVars, TypeOK, CacheTypeOK, poolVars,
           WaiterBehindOwner, TicketState, InRegistry
  <2> QED
    BY <2>1, <2>2, <2>3, <2>4, <2>5, <2>6
<1>j. ASSUME NEW c \in Calls, FinishWork(c)
      PROVE  ControlInv'
  <2>1. QueueHoldsQueued'
    BY <1>j DEF FinishWork, cacheVars, callVars, TypeOK, poolVars, QueueHoldsQueued
  <2>2. ThreadState'
    BY <1>j DEF FinishWork, cacheVars, callVars, TypeOK, ThreadState
  <2>3. TicketState'
    BY <1>j DEF FinishWork, cacheVars, callVars, TypeOK, InRegistry, TicketState
  <2>4. OwnersOnly'
    BY <1>j DEF FinishWork, cacheVars, callVars, TypeOK, OwnersOnly
  <2>5. OwnerState'
    BY <1>j DEF FinishWork, cacheVars, callVars, TypeOK, InRegistry, OwnerState
  <2>6. WaiterBehindOwner'
    BY <1>j DEF FinishWork, cacheVars, callVars, TypeOK, poolVars, WaiterBehindOwner
  <2> QED
    BY <2>1, <2>2, <2>3, <2>4, <2>5, <2>6
<1>k. ASSUME NEW c \in Calls, CancelWork(c)
      PROVE  ControlInv'
  <2>x. PICK x \in DOMAIN queue : queue[x] = c /\ queue' = RemoveAt(queue, x)
    BY <1>k DEF CancelWork
  <2>0. /\ DOMAIN queue \subseteq Nat
        /\ \A i \in DOMAIN queue' :
              \E m \in DOMAIN queue : /\ m # x /\ queue'[i] = queue[m]
                                      /\ m = IF i < x THEN i ELSE i + 1
        /\ \A m \in DOMAIN queue \ {x} :
              \E i \in DOMAIN queue' : /\ queue'[i] = queue[m]
                                       /\ i = IF m < x THEN m ELSE m - 1
    BY <2>x, RemoveAtDomain DEF TypeOK
  <2>7. /\ stage[c] = "queued" /\ stage'[c] = "cancelled"
        /\ \A d \in Calls : d # c => stage'[d] = stage[d]
        /\ UNCHANGED <<ticket, outcome>>
    BY <1>k, <2>x DEF CancelWork, QueueHoldsQueued, TypeOK, cacheVars, callVars
  <2>1. QueueHoldsQueued'
    <3>1. \A i \in DOMAIN queue : queue[i] \in Calls
      BY ElementOfSeq, LenProperties DEF TypeOK
    <3>2. \A i \in DOMAIN queue' : stage'[queue'[i]] = "queued"
      <4> TAKE i \in DOMAIN queue'
      <4>1. PICK m \in DOMAIN queue : m # x /\ queue'[i] = queue[m]
        BY <2>0
      <4>2. queue[m] # c /\ queue[m] \in Calls
        BY <4>1, <2>x, <3>1 DEF QueueHoldsQueued
      <4> QED
        BY <4>1, <4>2, <2>7 DEF QueueHoldsQueued
    <3>3. ASSUME NEW d \in Calls, stage'[d] = "queued"
          PROVE  \E i \in DOMAIN queue' : queue'[i] = d
      <4>1. d # c /\ stage[d] = "queued"
        BY <3>3, <2>7
      <4>2. PICK m \in DOMAIN queue : queue[m] = d
        BY <4>1 DEF QueueHoldsQueued
      <4> QED
        BY <4>1, <4>2, <2>0, <2>x
    <3>4. ASSUME NEW i \in DOMAIN queue', NEW j \in DOMAIN queue', queue'[i] = queue'[j]
          PROVE  i = j
      <4>1. PICK m \in DOMAIN queue : /\ m # x /\ queue'[i] = queue[m]
                                      /\ m = IF i < x THEN i ELSE i + 1
        BY <2>0
      <4>2. PICK n \in DOMAIN queue : /\ n # x /\ queue'[j] = queue[n]
                                      /\ n = IF j < x THEN j ELSE j + 1
        BY <2>0
      <4>3. m = n
        BY <3>4, <4>1, <4>2 DEF QueueHoldsQueued
      <4>4. i \in Nat /\ j \in Nat /\ x \in Nat
        BY <2>x, <2>0, RemoveAtDomain DEF TypeOK
      <4> QED
        BY <4>1, <4>2, <4>3, <4>4
    <3> QED
      BY <3>2, <3>3, <3>4 DEF QueueHoldsQueued
  <2>6. WaiterBehindOwner'
    <3> SUFFICES ASSUME NEW d \in Calls, stage'[d] \in {"queued", "running"},
                        ~Owner(d), ~Done(ticket[d])
                 PROVE  \/ stage'[ticket[d]] \in {"running", "cancelled"}
                        \/ \E i, j \in DOMAIN queue' :
                              i < j /\ queue'[i] = ticket[d] /\ queue'[j] = d
      BY <2>7 DEF WaiterBehindOwner
    <3>1. stage[d] \in {"queued", "running"} /\ ticket[d] \in Calls /\ d # c
      BY <2>7 DEF TicketState, InRegistry, TypeOK
    <3>2. CASE stage[ticket[d]] \in {"running", "cancelled"}
      BY <3>1, <3>2, <2>7
    <3>3. ASSUME NEW i \in DOMAIN queue, NEW j \in DOMAIN queue,
                 i < j, queue[i] = ticket[d], queue[j] = d
          PROVE  \/ stage'[ticket[d]] \in {"running", "cancelled"}
                 \/ \E m, n \in DOMAIN queue' :
                       m < n /\ queue'[m] = ticket[d] /\ queue'[n] = d
      <4>1. CASE i = x
        BY <3>3, <4>1, <2>7, <2>x
      <4>2. CASE i # x
        <5>1. j # x
          BY <3>1, <3>3, <2>x
        <5>2. PICK m \in DOMAIN queue' : /\ queue'[m] = ticket[d]
                                         /\ m = IF i < x THEN i ELSE i - 1
          BY <3>3, <4>2, <2>0
        <5>3. PICK n \in DOMAIN queue' : /\ queue'[n] = d
                                         /\ n = IF j < x THEN j ELSE j - 1
          BY <3>3, <5>1, <2>0
        <5>4. m < n
          BY <3>3, <4>2, <5>1, <5>2, <5>3, <2>0, <2>x
        <5> QED
          BY <5>2, <5>3, <5>4
      <4> QED
        BY <4>1, <4>2
    <3> QED
      BY <3>1, <3>2, <3>3 DEF WaiterBehindOwner
  <2>2. ThreadState'
    BY <1>k, <2>0, <2>7 DEF CancelWork, cacheVars, callVars, ThreadState, TypeOK
  <2>3. TicketState'
    BY <1>k, <2>0, <2>7 DEF CancelWork, cacheVars, callVars, TicketState, InRegistry
  <2>4. OwnersOnly'
    BY <1>k, <2>0, <2>7 DEF CancelWork, cacheVars, callVars, OwnersOnly
  <2>5. OwnerState'
    BY <1>k, <2>0, <2>7 DEF CancelWork, cacheVars, callVars, OwnerState, InRegistry
  <2> QED
    BY <2>1, <2>2, <2>3, <2>4, <2>5, <2>6
<1>l. ASSUME NEW e \in Envs, TerminateEnv(e)
      PROVE  ControlInv'
  <2>1. QueueHoldsQueued'
    BY <1>l DEF TerminateEnv, cacheVars, callVars, TypeOK, poolVars, QueueHoldsQueued
  <2>2. ThreadState'
    BY <1>l DEF TerminateEnv, cacheVars, callVars, TypeOK, ThreadState
  <2>3. TicketState'
    BY <1>l DEF TerminateEnv, cacheVars, callVars, TypeOK, InRegistry, TicketState
  <2>4. OwnersOnly'
    BY <1>l DEF TerminateEnv, cacheVars, callVars, TypeOK, OwnersOnly
  <2>5. OwnerState'
    BY <1>l DEF TerminateEnv, cacheVars, callVars, TypeOK, InRegistry, OwnerState
  <2>6. WaiterBehindOwner'
    BY <1>l DEF TerminateEnv, cacheVars, callVars, TypeOK, poolVars, WaiterBehindOwner
  <2> QED
    BY <2>1, <2>2, <2>3, <2>4, <2>5, <2>6
<1>m. CASE UNCHANGED vars
  BY <1>m DEF vars, cacheVars, callVars, poolVars, QueueHoldsQueued, ThreadState, TicketState, OwnersOnly, OwnerState, WaiterBehindOwner
<1> QED
  BY <1>a, <1>b, <1>c, <1>d, <1>e, <1>f, <1>g, <1>h, <1>i, <1>j, <1>k, <1>l, <1>m, <1>s
     DEF Next, JsStep, PoolStep, Quiescent, Blocks

LEMMA ControlInit == Init => ControlInv
<1> SUFFICES ASSUME Init PROVE ControlInv
  OBVIOUS
<1> USE CallsAssumption DEF Init, CacheInit, Owner, Done
<1>1. QueueHoldsQueued /\ ThreadState /\ TicketState /\ WaiterBehindOwner
  BY EmptySeq DEF QueueHoldsQueued, ThreadState, TicketState, WaiterBehindOwner, InRegistry
<1>2. OwnersOnly /\ OwnerState
  BY DEF OwnersOnly, OwnerState
<1> QED
  BY <1>1, <1>2 DEF ControlInv

LEMMA ControlCorrect == Spec => [](TypeInv /\ ControlInv)
<1>1. Init => TypeInv /\ ControlInv
  BY TypeInit, ControlInit
<1>2. TypeInv /\ ControlInv /\ [Next]_vars => (TypeInv /\ ControlInv)'
  BY TypeNext, ControlNext
<1> QED
  BY <1>1, <1>2, PTL DEF Spec

\* The thread pool cannot deadlock on compilations, however few threads it has:
\* a joined call in the pool always has its owner ahead of it.
THEOREM PoolNeverDeadlocks == Spec => []WaiterBehindOwner
<1>1. ControlInv => WaiterBehindOwner
  BY DEF ControlInv
<1> QED
  BY <1>1, ControlCorrect, PTL

\* Event loops cannot deadlock on each other inside AcquireSetCompilation.
THEOREM LoopsNeverDeadlock == Spec => []BlockedLoopsWaitForRunningLoops
<1>1. TypeInv /\ ControlInv => BlockedLoopsWaitForRunningLoops
  <2> SUFFICES ASSUME TypeInv, ControlInv, NEW e \in Envs, pc[e] = "wait",
                      ~OwnerQueuedOrDone(ticket[call[e]])
               PROVE  /\ env[ticket[call[e]]] # e
                      /\ call[env[ticket[call[e]]]] = ticket[call[e]]
                      /\ pc[env[ticket[call[e]]]] \in {"queue", "mark"}
    BY DEF BlockedLoopsWaitForRunningLoops
  <2>1. call[e] \in Calls /\ ticket[call[e]] \in Calls /\ ~Owner(call[e])
    BY DEF ControlInv, ThreadState
  <2>2. Owner(ticket[call[e]])
    BY <2>1, CallsAssumption DEF ControlInv, TicketState
  <2>3. /\ call[env[ticket[call[e]]]] = ticket[call[e]]
        /\ pc[env[ticket[call[e]]]] \in {"queue", "mark"}
    BY <2>1, <2>2 DEF ControlInv, OwnerState
  <2> QED
    BY <2>3
<1> QED
  BY <1>1, ControlCorrect, PTL

-----------------------------------------------------------------------------
(* Waiting.                                                                *)

\* Call c is asleep on compilation d with reason.
Waits(c, d) ==
    /\ ticket[c] = d /\ ~Owner(c)
    /\ \/ pc[env[c]] = "wait" /\ call[env[c]] = c /\ ~OwnerQueuedOrDone(d)
       \/ stage[c] = "running" /\ ~Done(d)

\* A step that concerns neither leaves it asleep.
LEMMA StillWaits ==
    ASSUME NEW c \in Calls, NEW d \in Calls, Waits(c, d),
           ticket'[c] = ticket[c], env'[c] = env[c],
           pc[env[c]] = "wait" /\ call[env[c]] = c =>
               pc'[env[c]] = "wait" /\ call'[env[c]] = c,
           stage[c] = "running" => stage'[c] = "running",
           Done(d)' => Done(d), d \in owner_queued' => d \in owner_queued
    PROVE  Waits(c, d)'
BY DEF Waits, Owner, Done, OwnerQueuedOrDone

LEMMA WakeupNext ==
    ASSUME TypeInv, ControlInv, NoLostWakeup, [Next]_vars
    PROVE  NoLostWakeup'
<1> SUFFICES ASSUME NEW d \in Calls, NEW c \in asleep'[d] PROVE Waits(c, d)'
  BY DEF NoLostWakeup, Waits
<1> USE CallsAssumption DEF TypeInv, TypeOK, CacheTypeOK
<1>0. c \in asleep[d] => /\ Waits(c, d) /\ c \in Calls /\ d # c /\ ticket[c] = d
                          /\ stage[c] # "unused" /\ stage[d] # "unused" /\ Owner(d)
                          /\ env[c] \in Envs
  BY DEF NoLostWakeup, Waits, Owner, ControlInv, TicketState, Keyed
<1>s. CASE Blocks
  <2>1. PICK b \in Calls :
           /\ Sleep(b, ticket[b]) /\ ticket[b] \in Calls /\ ~Owner(b)
           /\ \/ \E e \in Envs : pc[e] = "wait" /\ call[e] = b /\ ~OwnerQueuedOrDone(ticket[b])
              \/ stage[b] = "running" /\ ~Done(ticket[b])
    BY <1>s DEF Blocks, BlockLoop, BlockThread, ControlInv, ThreadState, TicketState, InRegistry
  <2>2. CASE c \in asleep[d]
    BY <1>0, <1>s, <2>2, BlockFrame, StillWaits DEF Done
  <2>3. CASE c \notin asleep[d]
    <3>1. c = b /\ d = ticket[b]
      BY <2>1, <2>3 DEF Sleep
    <3>2. Waits(c, d)
      BY <2>1, <3>1 DEF Waits, ControlInv, ThreadState
    <3> QED
      BY <1>s, <2>1, <3>1, <3>2, BlockFrame, StillWaits DEF Done
  <2> QED
    BY <2>2, <2>3
<1>a. ASSUME NEW e \in Envs, NEW b \in Calls, NEW k \in Keys, SetCompileAsync(e, b, k)
      PROVE  Waits(c, d)'
  <2>1. UNCHANGED <<asleep, outcome, owner_queued, ticket>>
    BY <1>a DEF SetCompileAsync, FindCachedSetLocked
  <2>2. /\ pc[e] = "idle" /\ stage[b] = "unused"
        /\ \A x \in Calls \ {b} : stage'[x] = stage[x] /\ env'[x] = env[x]
        /\ \A f \in Envs \ {e} : pc'[f] = pc[f] /\ call'[f] = call[f]
    BY <1>a DEF SetCompileAsync, ResolveCompiledSet
  <2> QED
    BY <1>0, <2>1, <2>2, StillWaits DEF Done
<1>b. ASSUME NEW e \in Envs, NEW b \in Calls, AcquireSetCompilation(e, b)
      PROVE  Waits(c, d)'
  <2>1. UNCHANGED <<asleep, outcome, owner_queued, env>>
    BY <1>b DEF AcquireSetCompilation, FindCachedSetLocked, JoinSetCompilation, CreateSetCompilation
  <2>2. /\ pc[e] = "acquire" /\ ticket[b] = None
        /\ \A x \in Calls \ {b} : stage'[x] = stage[x] /\ ticket'[x] = ticket[x]
        /\ \A f \in Envs \ {e} : pc'[f] = pc[f] /\ call'[f] = call[f]
    BY <1>b DEF AcquireSetCompilation, ResolveCompiledSet, Return, ControlInv, ThreadState
  <2> QED
    BY <1>0, <2>1, <2>2, StillWaits DEF Done
<1>c. ASSUME NEW e \in Envs, NEW b \in Calls, WaitOwnerQueued(e, b)
      PROVE  Waits(c, d)'
  <2>1. /\ UNCHANGED <<asleep, outcome, owner_queued, ticket, env, stage, call>>
        /\ call[e] = b /\ Awake(b)
        /\ \A f \in Envs \ {e} : pc'[f] = pc[f]
    BY <1>c DEF WaitOwnerQueued, cacheVars, callVars
  <2> QED
    BY <1>0, <2>1, StillWaits DEF Done, Awake
<1>d. ASSUME NEW e \in Envs, NEW b \in Calls, QueueWork(e, b)
      PROVE  Waits(c, d)'
  <2>1. /\ UNCHANGED <<ticket, env>>
        /\ pc[e] = "queue" /\ stage[b] = "calling"
        /\ \A x \in Calls \ {b} : stage'[x] = stage[x]
        /\ \A f \in Envs \ {e} : pc'[f] = pc[f] /\ call'[f] = call[f]
    BY <1>d DEF QueueWork, Return, ControlInv, ThreadState
  <2>2. \/ UNCHANGED <<asleep, outcome, owner_queued>>
        \/ CancelSetCompilation(b)
    BY <1>d DEF QueueWork, cacheVars
  <2>3. c \in asleep[d] /\ (Done(d)' => Done(d)) /\ (d \in owner_queued' => d \in owner_queued)
    BY <2>2 DEF CancelSetCompilation, NotifyAll, Done
  <2> QED
    BY <1>0, <2>1, <2>3, StillWaits
<1>e. ASSUME NEW e \in Envs, NEW b \in Calls, MarkQueued(e, b)
      PROVE  Waits(c, d)'
  <2>1. /\ UNCHANGED <<ticket, env, stage, outcome>>
        /\ pc[e] = "mark"
        /\ \A f \in Envs \ {e} : pc'[f] = pc[f] /\ call'[f] = call[f]
    BY <1>e DEF MarkQueued, MarkSetCompilationQueued, Return, callVars
  <2>2. c \in asleep[d] /\ (d \in owner_queued' => d \in owner_queued)
    BY <1>e DEF MarkQueued, MarkSetCompilationQueued, NotifyAll
  <2> QED
    BY <1>0, <2>1, <2>2, StillWaits DEF Done
<1>f. ASSUME NEW e \in Envs, NEW b \in Calls, SetCompileComplete(e, b)
      PROVE  Waits(c, d)'
  <2>1. /\ UNCHANGED <<ticket, env, pc, call>>
        /\ stage[b] \in {"cancelled", "completing"}
        /\ \A x \in Calls \ {b} : stage'[x] = stage[x]
    BY <1>f DEF SetCompileComplete
  <2>2. \/ UNCHANGED <<asleep, outcome, owner_queued>>
        \/ CancelSetCompilation(b)
    BY <1>f DEF SetCompileComplete, LeaveRegistry, ReleaseSetCompilation
  <2>3. c \in asleep[d] /\ (Done(d)' => Done(d)) /\ (d \in owner_queued' => d \in owner_queued)
    BY <2>2 DEF CancelSetCompilation, NotifyAll, Done
  <2> QED
    BY <1>0, <2>1, <2>3, StillWaits
<1>g. CASE StartWork
  <2>1. /\ UNCHANGED <<asleep, outcome, owner_queued, ticket, env, pc, call>>
        /\ \A x \in Calls : stage[x] = "running" => stage'[x] = "running"
    BY <1>g DEF StartWork, cacheVars, callVars
  <2> QED
    BY <1>0, <2>1, StillWaits DEF Done
<1>h. ASSUME NEW b \in Calls, RunSetCompilation(b)
      PROVE  Waits(c, d)'
  <2>1. /\ UNCHANGED <<ticket, env, pc, call, owner_queued>>
        /\ Owner(b)
        /\ \A x \in Calls \ {b} : stage'[x] = stage[x] /\ outcome'[x] = outcome[x]
    BY <1>h DEF RunSetCompilation, PublishSetCompilation
  <2>2. NotifyAll(b)
    BY <1>h DEF RunSetCompilation, PublishSetCompilation
  <2>3. c \in asleep[d] /\ d # b
    BY <2>2 DEF NotifyAll
  <2> QED
    BY <1>0, <2>1, <2>3, StillWaits DEF Done, Waits
<1>i. ASSUME NEW b \in Calls, WaitForSetCompilation(b)
      PROVE  Waits(c, d)'
  <2>1. /\ UNCHANGED <<asleep, outcome, owner_queued, ticket, env, pc, call>>
        /\ Awake(b)
        /\ \A x \in Calls \ {b} : stage'[x] = stage[x]
    BY <1>i DEF WaitForSetCompilation, cacheVars
  <2> QED
    BY <1>0, <2>1, StillWaits DEF Done, Awake
<1>j. ASSUME NEW b \in Calls, FinishWork(b)
      PROVE  Waits(c, d)'
  <2>1. /\ UNCHANGED <<asleep, outcome, owner_queued, ticket, env, pc, call>>
        /\ stage[b] = "executed"
        /\ \A x \in Calls \ {b} : stage'[x] = stage[x]
    BY <1>j DEF FinishWork, cacheVars, callVars
  <2> QED
    BY <1>0, <2>1, StillWaits DEF Done
<1>k. ASSUME NEW b \in Calls, CancelWork(b)
      PROVE  Waits(c, d)'
  <2>1. /\ UNCHANGED <<asleep, outcome, owner_queued, ticket, env, pc, call>>
        /\ stage[b] = "queued"
        /\ \A x \in Calls \ {b} : stage'[x] = stage[x]
    BY <1>k DEF CancelWork, cacheVars, callVars, ControlInv, QueueHoldsQueued
  <2> QED
    BY <1>0, <2>1, StillWaits DEF Done
<1>z. CASE UNCHANGED <<asleep, outcome, owner_queued, ticket, env, pc, call, stage>>
  BY <1>0, <1>z, StillWaits DEF Done
<1> QED
  BY <1>a, <1>b, <1>c, <1>d, <1>e, <1>f, <1>g, <1>h, <1>i, <1>j, <1>k, <1>s, <1>z
     DEF Next, JsStep, PoolStep, Quiescent, Blocks, vars, cacheVars, callVars, TerminateEnv

\* No path that finishes, fails or abandons a compilation leaves a call asleep on a
\* condition that has come about, be it an event loop or a pool thread.
THEOREM NoWakeupIsLost == Spec => []NoLostWakeup
<1>1. Init => NoLostWakeup
  BY DEF Init, CacheInit, NoLostWakeup
<1>2. TypeInv /\ ControlInv /\ NoLostWakeup /\ [Next]_vars => NoLostWakeup'
  BY WakeupNext
<1> QED
  BY <1>1, <1>2, ControlCorrect, PTL DEF Spec

\* No failure path leaks a compilation: one still in flight has an owner whose
\* promise is not settled yet.
THEOREM RegistryNeverLeaks == Spec => []RegistryOwned
<1>1. TypeInv /\ ControlInv => RegistryOwned
  BY DEF ControlInv, OwnersOnly, OwnerState, RegistryOwned, TypeInv, TypeOK, CacheTypeOK
<1> QED
  BY <1>1, ControlCorrect, PTL

-----------------------------------------------------------------------------
(* What the registry holds, and which set a promise yields.                *)

\* A key is in flight at most once, never while it is cached, and cached at most
\* once.
RegistryKeys ==
    /\ \A c, d \in in_flight : encoded_patterns[c] = encoded_patterns[d] => c = d
    /\ \A c \in in_flight : \A i \in DOMAIN entries :
          entries[i].encoded_patterns # encoded_patterns[c]
    /\ \A i, j \in DOMAIN entries :
          entries[i].encoded_patterns = entries[j].encoded_patterns => i = j

CachedSetsAreRight ==
    \A i \in DOMAIN entries :
        /\ outcome[entries[i].set] = "set"
        /\ encoded_patterns[entries[i].set] = entries[i].encoded_patterns

HeldSetsAreRight ==
    \A c \in Calls :
        /\ stage[c] = "unused" => held[c] = None
        /\ promise[c] # "pending" => stage[c] = "settled"
        /\ outcome[c] = "set" => encoded_patterns[c] \notin InvalidKeys
        /\ held[c] # None => /\ outcome[held[c]] = "set"
                             /\ encoded_patterns[held[c]] = encoded_patterns[c]
        /\ promise[c] = "resolved" => held[c] # None

SetsInv == RegistryKeys /\ CachedSetsAreRight /\ HeldSetsAreRight

-----------------------------------------------------------------------------
(* The entries after a step are entries before it, or the one admitted.    *)

LEMMA HitIndices ==
    ASSUME entries \in Seq(CachedSet), NEW i \in DOMAIN entries, FindCachedSetLocked(i)
    PROVE  \E f :
              /\ \A j \in DOMAIN entries' :
                    f[j] \in DOMAIN entries /\ entries'[j] = entries[f[j]]
              /\ \A j, m \in DOMAIN entries' : f[j] = f[m] => j = m
<1> DEFINE N == Len(entries)
           f == [j \in DOMAIN entries' |-> IF j < i THEN j ELSE IF j < N THEN j + 1 ELSE i]
<1>1. /\ entries' \in Seq(CachedSet) /\ Len(entries') = N
      /\ \A j \in 1 .. i - 1 : entries'[j] = entries[j]
      /\ \A j \in i .. N - 1 : entries'[j] = entries[j + 1]
      /\ entries'[N] = entries[i]
  BY HitFacts
<1>2. N \in Nat /\ DOMAIN entries = 1 .. N /\ DOMAIN entries' = 1 .. N /\ i \in 1 .. N
  BY <1>1, LenProperties
<1>3. ASSUME NEW j \in DOMAIN entries'
      PROVE  f[j] \in DOMAIN entries /\ entries'[j] = entries[f[j]]
  <2>1. CASE j < i
    BY <2>1, <1>1, <1>2
  <2>2. CASE ~(j < i) /\ j < N
    <3>1. j \in i .. N - 1 /\ j + 1 \in 1 .. N /\ f[j] = j + 1
      BY <2>2, <1>2
    <3> QED
      BY <3>1, <1>1, <1>2
  <2>3. CASE ~(j < i) /\ ~(j < N)
    <3>1. j = N /\ f[j] = i
      BY <2>3, <1>2
    <3> QED
      BY <3>1, <1>1, <1>2
  <2> QED
    BY <2>1, <2>2, <2>3
<1>4. ASSUME NEW j \in DOMAIN entries', NEW m \in DOMAIN entries', f[j] = f[m]
      PROVE  j = m
  BY <1>2, <1>4
<1> QED
  BY <1>3, <1>4

LEMMA AdmitIndices ==
    ASSUME entries \in Seq(CachedSet), NEW entry \in CachedSet, AdmitSet(entry)
    PROVE  \E f :
              /\ \A j \in DOMAIN entries' :
                    \/ f[j] \in DOMAIN entries /\ entries'[j] = entries[f[j]]
                    \/ f[j] \notin DOMAIN entries /\ entries'[j] = entry
              /\ \A j, m \in DOMAIN entries' :
                    \/ j = m
                    \/ f[j] # f[m] /\ (f[j] \in DOMAIN entries \/ f[m] \in DOMAIN entries)
<1>1. PICK n \in 0 .. Len(entries) + 1 :
         /\ Len(entries') = Len(entries) + 1 - n
         /\ \A j \in 1 .. Len(entries') :
               entries'[j] = IF n + j <= Len(entries) THEN entries[n + j] ELSE entry
  BY AdmitFacts
<1>2. /\ Len(entries) \in Nat /\ DOMAIN entries = 1 .. Len(entries)
      /\ DOMAIN entries' = 1 .. Len(entries) + 1 - n
  BY <1>1, AdmitFacts, LenProperties
<1> DEFINE f == [j \in DOMAIN entries' |-> n + j]
<1>3. ASSUME NEW j \in DOMAIN entries'
      PROVE  \/ f[j] \in DOMAIN entries /\ entries'[j] = entries[f[j]]
             \/ f[j] \notin DOMAIN entries /\ entries'[j] = entry
  BY <1>1, <1>2
<1>4. ASSUME NEW j \in DOMAIN entries', NEW m \in DOMAIN entries', j # m
      PROVE  f[j] # f[m] /\ (f[j] \in DOMAIN entries \/ f[m] \in DOMAIN entries)
  BY <1>1, <1>2, <1>4
<1> QED
  BY <1>3, <1>4

-----------------------------------------------------------------------------
(* The registry's keys.                                                    *)

LEMMA KeysHit ==
    ASSUME RegistryKeys, entries \in Seq(CachedSet), NEW i \in DOMAIN entries,
           FindCachedSetLocked(i),
           \A c \in in_flight : encoded_patterns'[c] = encoded_patterns[c]
    PROVE  RegistryKeys'
<1>1. PICK f :
         /\ \A j \in DOMAIN entries' : f[j] \in DOMAIN entries /\ entries'[j] = entries[f[j]]
         /\ \A j, m \in DOMAIN entries' : f[j] = f[m] => j = m
  BY HitIndices
<1>2. in_flight' = in_flight
  BY DEF FindCachedSetLocked
<1> QED
  BY <1>1, <1>2 DEF RegistryKeys

LEMMA KeysShrink ==
    ASSUME RegistryKeys, UNCHANGED entries, in_flight' \subseteq in_flight,
           \A c \in in_flight : encoded_patterns'[c] = encoded_patterns[c]
    PROVE  RegistryKeys'
BY DEF RegistryKeys

LEMMA KeysNext == TypeInv /\ ControlInv /\ RegistryKeys /\ [Next]_vars => RegistryKeys'
<1> SUFFICES ASSUME TypeInv, ControlInv, RegistryKeys, [Next]_vars PROVE RegistryKeys'
  OBVIOUS
<1>0. entries \in Seq(CachedSet) /\ in_flight \subseteq Calls
  BY DEF TypeInv, TypeOK, CacheTypeOK
<1>a. ASSUME NEW e \in Envs, NEW c \in Calls, NEW k \in Keys, SetCompileAsync(e, c, k)
      PROVE  RegistryKeys'
  <2>1. c \notin in_flight
    BY <1>a, CallsAssumption
       DEF SetCompileAsync, ControlInv, TicketState, OwnersOnly, Owner
  <2>2. \A d \in in_flight : encoded_patterns'[d] = encoded_patterns[d]
    BY <1>a, <1>0, <2>1 DEF SetCompileAsync, TypeInv, TypeOK, CacheTypeOK
  <2>3. CASE UNCHANGED <<entries, in_flight>>
    BY <2>2, <2>3, KeysShrink
  <2>4. ASSUME NEW i \in Cached(k), FindCachedSetLocked(i)
        PROVE  RegistryKeys'
    BY <1>0, <2>2, <2>4, KeysHit DEF Cached
  <2> QED
    BY <1>a, <2>3, <2>4 DEF SetCompileAsync
<1>b. ASSUME NEW e \in Envs, NEW c \in Calls, AcquireSetCompilation(e, c)
      PROVE  RegistryKeys'
  <2> DEFINE k == encoded_patterns[c]
  <2>1. UNCHANGED encoded_patterns
    BY <1>b DEF AcquireSetCompilation
  <2>2. CASE UNCHANGED <<entries, in_flight>>
    BY <2>1, <2>2, KeysShrink
  <2>3. ASSUME NEW i \in Cached(k), FindCachedSetLocked(i)
        PROVE  RegistryKeys'
    BY <1>0, <2>1, <2>3, KeysHit DEF Cached
  <2>4. CASE Cached(k) = {} /\ Pending(k) = {} /\ CreateSetCompilation(c)
    BY <2>1, <2>4 DEF CreateSetCompilation, Cached, Pending, RegistryKeys
  <2> QED
    BY <1>b, <2>2, <2>3, <2>4 DEF AcquireSetCompilation, JoinSetCompilation
<1>d. ASSUME NEW e \in Envs, NEW c \in Calls, QueueWork(e, c)
      PROVE  RegistryKeys'
  BY <1>d, KeysShrink DEF QueueWork, CancelSetCompilation, cacheVars
<1>f. ASSUME NEW e \in Envs, NEW c \in Calls, SetCompileComplete(e, c)
      PROVE  RegistryKeys'
  BY <1>f, KeysShrink
     DEF SetCompileComplete, LeaveRegistry, ReleaseSetCompilation, CancelSetCompilation
<1>h. ASSUME NEW c \in Calls, RunSetCompilation(c)
      PROVE  RegistryKeys'
  <2>0. PICK result, admitted : PublishSetCompilation(c, result, admitted)
    BY <1>h DEF RunSetCompilation
  <2>1. c \in in_flight /\ encoded_patterns[c] \in Keys /\ UNCHANGED encoded_patterns
    BY <1>h DEF RunSetCompilation, ControlInv, OwnerState, Done, TypeInv, Keyed
  <2>2. CASE ~(Admissible(result) /\ admitted)
    BY <2>0, <2>1, <2>2, KeysShrink DEF PublishSetCompilation
  <2>3. CASE Admissible(result) /\ admitted
    <3> DEFINE entry == [encoded_patterns |-> encoded_patterns[c],
                         set |-> CompiledSet(c, result)]
    <3>1. entry \in CachedSet /\ AdmitSet(entry) /\ in_flight' = in_flight \ {c}
      BY <2>0, <2>1, <2>3 DEF PublishSetCompilation, CachedSet, CompiledSet, Admissible
    <3>2. PICK f :
             /\ \A j \in DOMAIN entries' :
                   \/ f[j] \in DOMAIN entries /\ entries'[j] = entries[f[j]]
                   \/ f[j] \notin DOMAIN entries /\ entries'[j] = entry
             /\ \A j, m \in DOMAIN entries' :
                   \/ j = m
                   \/ f[j] # f[m] /\ (f[j] \in DOMAIN entries \/ f[m] \in DOMAIN entries)
      BY <1>0, <3>1, AdmitIndices
    <3>3. entry.encoded_patterns = encoded_patterns[c]
      OBVIOUS
    <3> HIDE DEF entry
    <3>4. \A i, j \in DOMAIN entries' :
             entries'[i].encoded_patterns = entries'[j].encoded_patterns => i = j
      BY <2>1, <3>2, <3>3 DEF RegistryKeys
    <3>5. \A d \in in_flight' : \A i \in DOMAIN entries' :
             entries'[i].encoded_patterns # encoded_patterns[d]
      BY <2>1, <3>1, <3>2, <3>3 DEF RegistryKeys
    <3> QED
      BY <2>1, <3>1, <3>4, <3>5 DEF RegistryKeys
  <2> QED
    BY <2>2, <2>3
<1>z. CASE UNCHANGED <<entries, in_flight, encoded_patterns>>
  BY <1>z DEF RegistryKeys
<1> QED
  BY <1>a, <1>b, <1>d, <1>f, <1>h, <1>z, BlockFrame
     DEF Next, JsStep, PoolStep, Quiescent, Blocks, vars, cacheVars, WaitOwnerQueued, MarkQueued,
         MarkSetCompilationQueued, StartWork, WaitForSetCompilation, FinishWork, CancelWork,
         TerminateEnv

-----------------------------------------------------------------------------
(* Cached and held sets.                                                   *)

\* Keys and outcomes are written once, and a compilation that succeeds is one of
\* patterns RE2 accepts.
LEMMA WrittenOnce ==
    ASSUME TypeInv, ControlInv, [Next]_vars
    PROVE  \A c \in Calls :
              /\ stage[c] # "unused" => /\ stage'[c] # "unused"
                                        /\ encoded_patterns'[c] = encoded_patterns[c]
              /\ Done(c) => outcome'[c] = outcome[c]
              /\ outcome'[c] = "set" /\ ~Done(c) => encoded_patterns'[c] \notin InvalidKeys
<1> USE DEF TypeInv, TypeOK, CacheTypeOK, Done
<1>a. ASSUME NEW e \in Envs, NEW d \in Calls, NEW k \in Keys, SetCompileAsync(e, d, k)
      PROVE  /\ UNCHANGED outcome /\ stage[d] = "unused" /\ stage'[d] # "unused"
             /\ \A c \in Calls \ {d} : stage'[c] = stage[c] /\ encoded_patterns'[c] = encoded_patterns[c]
  BY <1>a DEF SetCompileAsync, ResolveCompiledSet, FindCachedSetLocked
<1>b. ASSUME NEW e \in Envs, NEW d \in Calls, JsStep(e, d)
      PROVE  /\ UNCHANGED encoded_patterns
             /\ \A c \in Calls : stage'[c] = stage[c] \/ stage'[c] # "unused"
             /\ outcome' = outcome \/ outcome' = [outcome EXCEPT ![d] = IF Done(d) THEN @ ELSE "unexpected"]
  BY <1>b DEF JsStep, AcquireSetCompilation, BlockLoop, Sleep, WaitOwnerQueued, QueueWork, MarkQueued,
              SetCompileComplete, ResolveCompiledSet, FindCachedSetLocked, JoinSetCompilation,
              CreateSetCompilation, MarkSetCompilationQueued, CancelSetCompilation,
              LeaveRegistry, ReleaseSetCompilation, cacheVars
<1>c. ASSUME NEW d \in Calls, RunSetCompilation(d)
      PROVE  /\ UNCHANGED encoded_patterns /\ ~Done(d)
             /\ \A c \in Calls : stage'[c] = stage[c] \/ stage'[c] # "unused"
             /\ \E result \in CompileResult(encoded_patterns[d]) :
                   outcome' = [outcome EXCEPT ![d] = result]
  BY <1>c DEF RunSetCompilation, PublishSetCompilation, ControlInv, OwnerState
<1>d. CASE StartWork
  <2>1. UNCHANGED <<encoded_patterns, outcome>> /\ QueueHoldsQueued /\ queue \in Seq(Calls) /\ queue # <<>>
    BY <1>d DEF StartWork, cacheVars, ControlInv
  <2>2. \A c \in Calls : stage'[c] = stage[c] \/ stage'[c] = "running"
    BY <1>d DEF StartWork
  <2> QED
    BY <2>1, <2>2
<1>e. ASSUME NEW d \in Calls,
             \/ BlockThread(d) \/ WaitForSetCompilation(d)
             \/ FinishWork(d) \/ CancelWork(d)
      PROVE  /\ UNCHANGED <<encoded_patterns, outcome>>
             /\ \A c \in Calls : stage'[c] = stage[c] \/ stage'[c] # "unused"
  BY <1>e DEF BlockThread, Sleep, WaitForSetCompilation, FinishWork, CancelWork, cacheVars
<1>f. ASSUME NEW e \in Envs, TerminateEnv(e)
      PROVE  UNCHANGED <<encoded_patterns, outcome, stage>>
  BY <1>f DEF TerminateEnv, cacheVars
<1>g. CASE UNCHANGED vars
  BY <1>g DEF vars, cacheVars
<1> QED
  BY <1>a, <1>b, <1>c, <1>d, <1>e, <1>f, <1>g DEF Next, PoolStep, Quiescent, CompileResult

\* What a lookup hands out is a set compiled from the patterns it was asked for.
LEMMA LookupIsRight ==
    ASSUME TypeInv, CachedSetsAreRight, NEW k, NEW i \in Cached(k)
    PROVE  /\ entries[i].set \in Calls
           /\ outcome[entries[i].set] = "set"
           /\ encoded_patterns[entries[i].set] = k
<1>1. i \in DOMAIN entries /\ entries[i] \in CachedSet
  BY ElementOfSeq, LenProperties DEF TypeInv, TypeOK, CacheTypeOK, Cached
<1> QED
  BY <1>1 DEF CachedSetsAreRight, Cached, CachedSet

LEMMA CachedNext ==
    TypeInv /\ ControlInv /\ CachedSetsAreRight /\ [Next]_vars => CachedSetsAreRight'
<1> SUFFICES ASSUME TypeInv, ControlInv, CachedSetsAreRight, [Next]_vars
             PROVE  CachedSetsAreRight'
  OBVIOUS
<1>0. /\ entries \in Seq(CachedSet)
      /\ \A i \in DOMAIN entries : entries[i] \in CachedSet
  BY ElementOfSeq, LenProperties DEF TypeInv, TypeOK, CacheTypeOK
<1>1. \A c \in Calls : Done(c) => /\ outcome'[c] = outcome[c]
                                  /\ encoded_patterns'[c] = encoded_patterns[c]
  <2>1. \A c \in Calls : Done(c) => stage[c] # "unused"
    BY CallsAssumption DEF ControlInv, OwnersOnly, TicketState, Owner
  <2> QED
    BY <2>1, WrittenOnce
<1>2. \A i \in DOMAIN entries :
         /\ outcome'[entries[i].set] = "set"
         /\ encoded_patterns'[entries[i].set] = entries[i].encoded_patterns
  BY <1>0, <1>1 DEF CachedSetsAreRight, CachedSet, Done
<1>h. ASSUME NEW k, NEW i \in Cached(k), FindCachedSetLocked(i)
      PROVE  CachedSetsAreRight'
  BY <1>0, <1>2, <1>h, HitIndices DEF Cached, CachedSetsAreRight
<1>p. ASSUME NEW c \in Calls, RunSetCompilation(c)
      PROVE  CachedSetsAreRight'
  <2>0. PICK result, admitted : PublishSetCompilation(c, result, admitted)
    BY <1>p DEF RunSetCompilation
  <2>1. encoded_patterns[c] \in Keys /\ UNCHANGED encoded_patterns
    BY <1>p DEF RunSetCompilation, TypeInv, Keyed
  <2>2. CASE ~(Admissible(result) /\ admitted)
    BY <1>2, <2>0, <2>2 DEF PublishSetCompilation, CachedSetsAreRight
  <2>3. CASE Admissible(result) /\ admitted
    <3> DEFINE entry == [encoded_patterns |-> encoded_patterns[c],
                         set |-> CompiledSet(c, result)]
    <3>1. entry \in CachedSet /\ AdmitSet(entry) /\ entry.set = c /\ outcome'[c] = "set"
      BY <2>0, <2>1, <2>3
         DEF PublishSetCompilation, CachedSet, CompiledSet, Admissible, TypeInv, TypeOK,
             CacheTypeOK
    <3>2. entry.encoded_patterns = encoded_patterns'[c]
      BY <2>1
    <3> HIDE DEF entry
    <3>3. \A i \in DOMAIN entries' :
             entries'[i] = entry \/ \E j \in DOMAIN entries : entries'[i] = entries[j]
      BY <1>0, <3>1, AdmitIndices
    <3> QED
      BY <1>2, <3>1, <3>2, <3>3 DEF CachedSetsAreRight
  <2> QED
    BY <2>2, <2>3
<1>z. CASE UNCHANGED entries
  BY <1>2, <1>z DEF CachedSetsAreRight
<1> QED
  BY <1>h, <1>p, <1>z, BlockFrame
     DEF Next, JsStep, PoolStep, Quiescent, Blocks, vars, cacheVars, SetCompileAsync,
         AcquireSetCompilation, WaitOwnerQueued, QueueWork, MarkQueued, StartWork,
         WaitForSetCompilation, FinishWork, CancelWork, SetCompileComplete, TerminateEnv,
         JoinSetCompilation, CreateSetCompilation, CancelSetCompilation, LeaveRegistry,
         ReleaseSetCompilation, MarkSetCompilationQueued

\* A promise settled otherwise than resolved is not resolved.
LEMMA SettleFacts ==
    ASSUME TypeInv, NEW e, NEW d \in Calls, NEW r, Settle(e, d, r)
    PROVE  /\ \A c \in Calls \ {d} : promise'[c] = promise[c]
           /\ promise'[d] = "resolved" => r = "resolved"
BY DEF Settle, TypeInv, TypeOK

\* A set newly held was compiled from the call's own patterns, and only a call
\* that holds a set resolves.
NewlyHeld(c) ==
    /\ stage'[c] = "unused" => stage[c] = "unused" /\ held'[c] = held[c]
    /\ promise'[c] # "pending" => stage'[c] = "settled"
    /\ \/ held'[c] = held[c]
       \/ held'[c] = None /\ promise'[c] = "pending"
       \/ /\ held'[c] \in Calls
          /\ outcome'[held'[c]] = "set"
          /\ encoded_patterns'[held'[c]] = encoded_patterns'[c]
    /\ promise'[c] = "resolved" => held'[c] # None \/ promise[c] = "resolved"

LEMMA HeldStep == TypeInv /\ ControlInv /\ SetsInv /\ [Next]_vars => \A c \in Calls : NewlyHeld(c)
<1> SUFFICES ASSUME TypeInv, ControlInv, SetsInv, [Next]_vars, NEW c \in Calls
             PROVE  NewlyHeld(c)
  OBVIOUS
<1> USE CallsAssumption DEF SetsInv, NewlyHeld
<1>t. /\ stage \in [Calls -> Stages] /\ held \in [Calls -> Calls \cup {None}]
      /\ promise \in [Calls -> Promises] /\ ticket \in [Calls -> Calls \cup {None}]
      /\ outcome \in [Calls -> Outcomes] /\ encoded_patterns \in [Calls -> Keys \cup {None}]
  BY DEF TypeInv, TypeOK, CacheTypeOK
<1>0. /\ promise[c] # "pending" => stage[c] = "settled"
      /\ promise[c] = "resolved" => held[c] # None
  BY DEF HeldSetsAreRight
<1>s. ASSUME NEW e, NEW d \in Calls, NEW r, Settle(e, d, r), r = "resolved" => held[d] # None,
             UNCHANGED held, stage' = [stage EXCEPT ![d] = "settled"]
      PROVE  NewlyHeld(c)
  <2>1. CASE c = d
    BY <1>t, <1>s, <2>1, SettleFacts
  <2>2. CASE c # d
    BY <1>t, <1>0, <1>s, <2>2, SettleFacts
  <2> QED
    BY <2>1, <2>2
<1>m. ASSUME NEW d \in Calls, stage[d] # "settled", NEW s \in Stages \ {"unused"},
             stage' = [stage EXCEPT ![d] = s], UNCHANGED promise
      PROVE  /\ stage'[c] = "unused" => stage[c] = "unused"
             /\ promise'[c] # "pending" => stage'[c] = "settled"
             /\ promise'[c] = "resolved" => promise[c] = "resolved"
             /\ promise[d] = "pending"
  BY <1>t, <1>0, <1>m DEF HeldSetsAreRight
<1>r. ASSUME NEW e, NEW d \in Calls, NEW k, NEW i \in Cached(k), FindCachedSetLocked(i),
             ResolveCompiledSet(e, d, entries[i].set), stage[d] \in {"unused", "calling"},
             \A b \in Calls \ {d} : encoded_patterns'[b] = encoded_patterns[b],
             encoded_patterns'[d] = k
      PROVE  NewlyHeld(c)
  <2>1. /\ entries[i].set \in Calls /\ outcome'[entries[i].set] = "set"
        /\ encoded_patterns[entries[i].set] = k
    BY <1>r, LookupIsRight DEF FindCachedSetLocked
  <2>2. encoded_patterns'[entries[i].set] = k
    BY <1>r, <2>1
  <2>3. CASE c = d
    <3>1. stage'[c] = "settled"
      BY <1>r, <1>t, <2>3 DEF ResolveCompiledSet
    <3>2. CASE held' = [held EXCEPT ![c] = entries[i].set]
      BY <1>r, <1>t, <2>1, <2>2, <2>3, <3>1, <3>2
    <3>3. CASE Settle(e, c, "context_error") /\ UNCHANGED held
      BY <1>t, <3>1, <3>3, SettleFacts
    <3> QED
      BY <1>r, <2>3, <3>2, <3>3 DEF ResolveCompiledSet
  <2>4. CASE c # d
    <3>1. stage'[c] = stage[c] /\ held'[c] = held[c]
      BY <1>r, <1>t, <2>4 DEF ResolveCompiledSet
    <3>2. promise'[c] = promise[c]
      BY <1>r, <2>4, SettleFacts DEF ResolveCompiledSet
    <3> QED
      BY <1>0, <3>1, <3>2
  <2> QED
    BY <2>3, <2>4
<1>a. ASSUME NEW e \in Envs, NEW d \in Calls, NEW k \in Keys, SetCompileAsync(e, d, k)
      PROVE  NewlyHeld(c)
  <2>1. stage[d] = "unused" /\ encoded_patterns' = [encoded_patterns EXCEPT ![d] = k]
    BY <1>a DEF SetCompileAsync
  <2>2. CASE stage' = [stage EXCEPT ![d] = "settled"] /\ Settle(e, d, "setup_error") /\ UNCHANGED held
    BY <1>s, <2>2
  <2>3. ASSUME NEW i \in Cached(k), FindCachedSetLocked(i), ResolveCompiledSet(e, d, entries[i].set)
        PROVE  NewlyHeld(c)
    BY <1>t, <1>r, <2>1, <2>3
  <2>4. CASE stage' = [stage EXCEPT ![d] = "calling"] /\ UNCHANGED <<held, promise>>
    BY <1>t, <1>0, <2>1, <2>4
  <2> QED
    BY <1>a, <2>2, <2>3, <2>4 DEF SetCompileAsync
<1>b. ASSUME NEW e \in Envs, NEW d \in Calls, AcquireSetCompilation(e, d)
      PROVE  NewlyHeld(c)
  <2>1. stage[d] = "calling" /\ UNCHANGED encoded_patterns
    BY <1>b DEF AcquireSetCompilation, ControlInv, ThreadState
  <2>2. CASE stage' = [stage EXCEPT ![d] = "settled"] /\ Settle(e, d, "setup_error") /\ UNCHANGED held
    BY <1>s, <2>2
  <2>3. ASSUME NEW i \in Cached(encoded_patterns[d]), FindCachedSetLocked(i),
               ResolveCompiledSet(e, d, entries[i].set)
        PROVE  NewlyHeld(c)
    BY <1>t, <1>r, <2>1, <2>3
  <2>4. CASE UNCHANGED <<stage, held, promise>>
    BY <1>0, <2>4
  <2> QED
    BY <1>b, <2>2, <2>3, <2>4 DEF AcquireSetCompilation
<1>d. ASSUME NEW e \in Envs, NEW d \in Calls, QueueWork(e, d)
      PROVE  NewlyHeld(c)
  <2>1. stage[d] = "calling" /\ UNCHANGED <<held, encoded_patterns>>
    BY <1>d DEF QueueWork, cacheVars, ControlInv, ThreadState
  <2>2. CASE stage' = [stage EXCEPT ![d] = "queued"] /\ UNCHANGED promise
    BY <1>m, <2>1, <2>2 DEF Stages
  <2>3. CASE stage' = [stage EXCEPT ![d] = "settled"] /\ Settle(e, d, "setup_error")
    BY <1>s, <2>1, <2>3
  <2> QED
    BY <1>d, <2>2, <2>3 DEF QueueWork
<1>f. ASSUME NEW e \in Envs, NEW d \in Calls, SetCompileComplete(e, d)
      PROVE  NewlyHeld(c)
  <2>1. UNCHANGED held /\ stage' = [stage EXCEPT ![d] = "settled"]
    BY <1>f DEF SetCompileComplete
  <2>2. PICK r : Settle(e, d, r) /\ (r = "resolved" => held[d] # None)
    BY <1>f DEF SetCompileComplete, Rejection
  <2> QED
    BY <1>s, <2>1, <2>2
<1>h. ASSUME NEW d \in Calls, RunSetCompilation(d)
      PROVE  NewlyHeld(c)
  <2>1. /\ stage[d] = "running" /\ stage' = [stage EXCEPT ![d] = "executed"]
        /\ UNCHANGED <<promise, encoded_patterns>>
    BY <1>h DEF RunSetCompilation
  <2>2. PICK result \in Outcomes :
           /\ outcome' = [outcome EXCEPT ![d] = result]
           /\ held' = [held EXCEPT ![d] = CompiledSet(d, result)]
    BY <1>h DEF RunSetCompilation, PublishSetCompilation, CompileResult, Outcomes
  <2>3. c = d => \/ held'[c] = None /\ promise'[c] = "pending"
                 \/ held'[c] = c /\ outcome'[c] = "set"
    BY <1>t, <1>0, <2>1, <2>2 DEF CompiledSet
  <2> QED
    BY <1>t, <1>m, <2>1, <2>2, <2>3 DEF Stages
<1>i. ASSUME NEW d \in Calls, WaitForSetCompilation(d)
      PROVE  NewlyHeld(c)
  <2>1. /\ stage[d] = "running" /\ stage' = [stage EXCEPT ![d] = "executed"]
        /\ held' = [held EXCEPT ![d] = CompiledSet(ticket[d], outcome[ticket[d]])]
        /\ UNCHANGED <<promise, encoded_patterns, outcome>>
    BY <1>i DEF WaitForSetCompilation, cacheVars
  <2>2. ticket[d] \in Calls /\ encoded_patterns[ticket[d]] = encoded_patterns[d]
    BY <1>t, <2>1 DEF ControlInv, TicketState, InRegistry
  <2>3. c = d => \/ held'[c] = None /\ promise'[c] = "pending"
                 \/ held'[c] = ticket[c] /\ outcome'[ticket[c]] = "set"
    BY <1>t, <1>0, <2>1 DEF CompiledSet
  <2> QED
    BY <1>t, <1>m, <2>1, <2>2, <2>3 DEF Stages
<1>g. CASE StartWork
  <2>1. /\ Head(queue) \in Calls /\ stage[Head(queue)] = "queued"
        /\ stage' = [stage EXCEPT ![Head(queue)] = "running"] /\ UNCHANGED <<held, promise>>
    BY <1>g, LenProperties, EmptySeq, ElementOfSeq, HeadTailProperties
       DEF StartWork, callVars, ControlInv, QueueHoldsQueued, TypeInv, TypeOK
  <2> QED
    BY <1>m, <2>1 DEF Stages
<1>j. ASSUME NEW d \in Calls, FinishWork(d)
      PROVE  NewlyHeld(c)
  BY <1>m, <1>j DEF FinishWork, callVars, Stages
<1>k. ASSUME NEW d \in Calls, CancelWork(d)
      PROVE  NewlyHeld(c)
  <2>1. stage[d] = "queued"
    BY <1>k DEF CancelWork, ControlInv, QueueHoldsQueued
  <2> QED
    BY <1>k, <1>m, <2>1 DEF CancelWork, callVars, Stages
<1>z. CASE UNCHANGED <<stage, held, promise>>
  BY <1>0, <1>z
<1> QED
  BY <1>a, <1>b, <1>d, <1>f, <1>g, <1>h, <1>i, <1>j, <1>k, <1>z, BlockFrame
     DEF Next, JsStep, PoolStep, Quiescent, Blocks, vars, callVars, WaitOwnerQueued, MarkQueued,
         TerminateEnv

LEMMA HeldNext == TypeInv /\ ControlInv /\ SetsInv /\ [Next]_vars => HeldSetsAreRight'
<1> SUFFICES ASSUME TypeInv, ControlInv, SetsInv, [Next]_vars, NEW c \in Calls
             PROVE  HeldSetsAreRight!(c)'
  BY DEF HeldSetsAreRight
<1>1. NewlyHeld(c) /\ held[c] \in Calls \cup {None}
  BY HeldStep DEF TypeInv, TypeOK
<1>2. \A d \in Calls : Done(d) => /\ stage[d] # "unused" /\ outcome'[d] = outcome[d]
                                  /\ encoded_patterns'[d] = encoded_patterns[d]
  BY WrittenOnce, CallsAssumption DEF ControlInv, OwnersOnly, TicketState, Owner
<1>3. /\ stage[c] # "unused" => encoded_patterns'[c] = encoded_patterns[c]
      /\ outcome'[c] = "set" => encoded_patterns'[c] \notin InvalidKeys
  BY <1>2, WrittenOnce DEF SetsInv, HeldSetsAreRight, Done
<1>4. held[c] # None => /\ outcome'[held[c]] = "set"
                        /\ encoded_patterns'[held[c]] = encoded_patterns'[c]
  BY <1>1, <1>2, <1>3 DEF SetsInv, HeldSetsAreRight, Done
<1> QED
  BY <1>1, <1>3, <1>4, CallsAssumption DEF NewlyHeld, SetsInv, HeldSetsAreRight

-----------------------------------------------------------------------------
(* Theorems.                                                               *)

LEMMA SetsCorrect == Spec => [](TypeInv /\ ControlInv /\ SetsInv)
<1>1. Init => SetsInv
  BY EmptySeq
     DEF Init, CacheInit, SetsInv, RegistryKeys, CachedSetsAreRight, HeldSetsAreRight
<1>2. TypeInv /\ ControlInv /\ SetsInv /\ [Next]_vars => SetsInv'
  BY KeysNext, CachedNext, HeldNext DEF SetsInv
<1> QED
  BY <1>1, <1>2, ControlCorrect, PTL DEF Spec

\* However the lookups of concurrent calls interleave, a key has at most one
\* unfinished compilation, none while it is cached, and at most one cache entry.
THEOREM SingleFlightHolds == Spec => []SingleFlight
<1>1. TypeInv /\ ControlInv /\ SetsInv => SingleFlight
  BY DEF ControlInv, OwnerState, SetsInv, RegistryKeys, SingleFlight, Unfinished, Cached,
         TypeInv, TypeOK, CacheTypeOK
<1> QED
  BY <1>1, SetsCorrect, PTL

\* A promise resolves only with a set compiled from its own call's patterns.
THEOREM PromisesResolveWithTheirSet == Spec => []RightSet
<1>1. TypeInv /\ SetsInv => RightSet
  <2> SUFFICES ASSUME TypeInv, SetsInv, NEW c \in Calls, promise[c] = "resolved"
               PROVE  RightSet!(c)!2
    BY DEF RightSet
  <2>1. /\ held[c] \in Calls /\ outcome[held[c]] = "set"
        /\ encoded_patterns[held[c]] = encoded_patterns[c]
    BY DEF SetsInv, HeldSetsAreRight, TypeInv, TypeOK
  <2> QED
    BY <2>1, CallsAssumption DEF SetsInv, HeldSetsAreRight
<1> QED
  BY <1>1, SetsCorrect, PTL

-----------------------------------------------------------------------------
(* The bytes of the cached keys.                                           *)

BytesStep == [p \in Nat \X CachedSet |-> p[1] + KeyBytes[p[2].encoded_patterns]]

LEMMA KeyBytesType ==
    \A x \in CachedSet : /\ KeyBytes[x.encoded_patterns] \in Nat
                         /\ KeyBytes[x.encoded_patterns] <= kSetCompileCacheMaxKeyBytes
<1>1. \A k \in Keys : KeyBytes[k] \in Nat /\ KeyBytes[k] <= kSetCompileCacheMaxKeyBytes
  BY KeyBytesAssumption
<1> QED
  BY <1>1 DEF CachedSet

\* The function by which FoldLeft computes Bytes.
BytesFold(s) ==
    CHOOSE f : f = [T \in SUBSET DOMAIN s |->
                       IF T = {} THEN 0
                       ELSE f[T \ {Max(T)}] + KeyBytes[s[Max(T)].encoded_patterns]]

LEMMA BytesIsFolded ==
    ASSUME NEW s \in Seq(CachedSet)
    PROVE  Bytes(s) = Folded(BytesStep, 0, s)
<1> DEFINE Solves(f) == f = [T \in SUBSET DOMAIN s |->
                               IF T = {} THEN 0
                               ELSE f[T \ {Max(T)}] + KeyBytes[s[Max(T)].encoded_patterns]]
<1>1. IsStep(Nat, CachedSet, 0, BytesStep)
  BY KeyBytesAssumption DEF BytesStep, CachedSet, IsStep
<1>2. \A T \in SUBSET DOMAIN s : T # {} => Max(T) \in T /\ s[Max(T)] \in CachedSet
  BY LenProperties, ElementOfSeq, MaxIsMember
<1>3. \E f : Solves(f)
  <2>1. PICK f \in [SUBSET DOMAIN s -> Nat] : IsFold(f, Nat, BytesStep, 0, s)
    BY <1>1, FoldExists
  <2>2. ASSUME NEW T \in SUBSET DOMAIN s
        PROVE  f[T] = IF T = {} THEN 0
                      ELSE f[T \ {Max(T)}] + KeyBytes[s[Max(T)].encoded_patterns]
    BY <1>2, <2>1 DEF IsFold, BytesStep
  <2>3. Solves(f)
    BY <2>2
  <2> QED
    BY <2>3
<1>4. Solves(BytesFold(s))
  BY <1>3 DEF BytesFold
<1>5. IsFold(BytesFold(s), Nat, BytesStep, 0, s)
  <2> DEFINE f == BytesFold(s)
  <2>1. f[{}] = 0
    BY <1>4
  <2>2. ASSUME NEW T \in SUBSET DOMAIN s, T # {}, f[T \ {Max(T)}] \in Nat
        PROVE  f[T] = BytesStep[<<f[T \ {Max(T)}], s[Max(T)]>>]
    BY <1>2, <1>4, <2>2 DEF BytesStep
  <2> QED
    BY <2>1, <2>2 DEF IsFold
<1>6. Bytes(s) = BytesFold(s)[DOMAIN s]
  BY DEF Bytes, BytesFold, FoldLeft, MapThenFoldSet
<1> QED
  BY <1>1, <1>5, <1>6, FoldIsFolded

LEMMA BytesFacts ==
    /\ Bytes(<<>>) = 0
    /\ \A s \in Seq(CachedSet) : Bytes(s) \in Nat
    /\ \A s \in Seq(CachedSet), x \in CachedSet :
          Bytes(Append(s, x)) = Bytes(s) + KeyBytes[x.encoded_patterns]
<1>1. IsStep(Nat, CachedSet, 0, BytesStep)
  BY KeyBytesAssumption DEF BytesStep, CachedSet, IsStep
<1>2. /\ Folded(BytesStep, 0, <<>>) = 0
      /\ \A s \in Seq(CachedSet) : Folded(BytesStep, 0, s) \in Nat
      /\ \A s \in Seq(CachedSet), x \in CachedSet :
            Folded(BytesStep, 0, Append(s, x)) = BytesStep[<<Folded(BytesStep, 0, s), x>>]
  BY <1>1, FoldedFacts
<1>3. ASSUME NEW s \in Seq(CachedSet), NEW x \in CachedSet
      PROVE  Bytes(Append(s, x)) = Bytes(s) + KeyBytes[x.encoded_patterns]
  <2>1. Append(s, x) \in Seq(CachedSet)
    BY AppendProperties
  <2> QED
    BY <1>2, <2>1, BytesIsFolded DEF BytesStep
<1> QED
  BY <1>2, <1>3, EmptySeq, BytesIsFolded

LEMMA BytesConcat ==
    ASSUME NEW s \in Seq(CachedSet), NEW t \in Seq(CachedSet)
    PROVE  Bytes(s \o t) = Bytes(s) + Bytes(t)
<1> DEFINE P == {u \in Seq(CachedSet) : Bytes(s \o u) = Bytes(s) + Bytes(u)}
<1>1. <<>> \in P
  BY EmptySeq, ConcatEmptySeq, BytesFacts
<1>2. ASSUME NEW u \in Seq(CachedSet), NEW x \in CachedSet, u \in P
      PROVE  Append(u, x) \in P
  <2>1. Append(u, x) \in Seq(CachedSet) /\ s \o u \in Seq(CachedSet)
    BY AppendProperties, ConcatProperties
  <2>2. s \o Append(u, x) = Append(s \o u, x)
    <3>1. /\ <<x>> \in Seq(CachedSet) /\ Append(u, x) = u \o <<x>>
          /\ Append(s \o u, x) = (s \o u) \o <<x>>
      BY <2>1, AppendIsConcat
    <3> QED
      BY <3>1, ConcatAssociative
  <2>3. Bytes(Append(s \o u, x)) = Bytes(s \o u) + KeyBytes[x.encoded_patterns]
    BY <2>1, BytesFacts
  <2>4. Bytes(Append(u, x)) = Bytes(u) + KeyBytes[x.encoded_patterns]
    BY BytesFacts
  <2>5. Bytes(s) \in Nat /\ Bytes(u) \in Nat /\ KeyBytes[x.encoded_patterns] \in Nat
    BY BytesFacts, KeyBytesType
  <2>6. Bytes(s \o Append(u, x)) = Bytes(s) + Bytes(Append(u, x))
    BY <1>2, <2>2, <2>3, <2>4, <2>5
  <2> QED
    BY <2>1, <2>6
<1>3. \A u \in Seq(CachedSet) : u \in P
  <2> HIDE DEF P
  <2> QED
    BY <1>1, <1>2, SequenceInduction
<1> QED
  BY <1>3

\* The bytes of the two halves of a list.
LEMMA BytesSplit ==
    ASSUME NEW s \in Seq(CachedSet), NEW n \in 0 .. Len(s)
    PROVE  /\ SubSeq(s, 1, n) \in Seq(CachedSet) /\ SubSeq(s, n + 1, Len(s)) \in Seq(CachedSet)
           /\ Bytes(s) = Bytes(SubSeq(s, 1, n)) + Bytes(SubSeq(s, n + 1, Len(s)))
<1>1. Len(s) \in Nat
  BY LenProperties
<1>2. /\ SubSeq(s, 1, n) \in Seq(CachedSet)
      /\ SubSeq(s, n + 1, Len(s)) \in Seq(CachedSet)
  BY <1>1, SubSeqProperties, ElementOfSeq
<1>3. SubSeq(s, 1, n) \o SubSeq(s, n + 1, Len(s)) = s
  BY SequenceHalves
<1> QED
  BY <1>2, <1>3, BytesConcat

\* A hit moves an entry and keeps the bytes.
LEMMA BytesHit ==
    ASSUME NEW s \in Seq(CachedSet), NEW i \in DOMAIN s
    PROVE  Bytes(Append(RemoveAt(s, i), s[i])) = Bytes(s)
<1> DEFINE front == SubSeq(s, 1, i - 1)
           back == SubSeq(s, i + 1, Len(s))
<1>1. Len(s) \in Nat /\ i \in 1 .. Len(s) /\ s[i] \in CachedSet
  BY LenProperties, ElementOfSeq
<1>2. /\ front \in Seq(CachedSet) /\ back \in Seq(CachedSet)
      /\ <<s[i]>> \in Seq(CachedSet) /\ front \o back \in Seq(CachedSet)
  BY <1>1, SubSeqProperties, ElementOfSeq, ConcatProperties
<1>3. Bytes(s) = Bytes(SubSeq(s, 1, i)) + Bytes(back)
  BY <1>1, BytesSplit
<1>4. SubSeq(s, 1, i) = Append(front, s[i])
  <2>1. SubSeq(s, 1, i) = front \o <<s[i]>>
    <3>1. 1 \in 1 .. Len(s) /\ i \in 1 .. Len(s)
      BY <1>1
    <3> QED
      BY <3>1, SubSeqRecursiveSecond, Zenon
  <2>2. Append(front, s[i]) = front \o <<s[i]>>
    BY <1>1, <1>2, AppendIsConcat
  <2> QED
    BY <2>1, <2>2
<1> HIDE DEF front, back
<1>5. Bytes(SubSeq(s, 1, i)) = Bytes(front) + KeyBytes[s[i].encoded_patterns]
  BY <1>1, <1>2, <1>4, BytesFacts
<1>6. Bytes(Append(front \o back, s[i])) =
         Bytes(front) + Bytes(back) + KeyBytes[s[i].encoded_patterns]
  BY <1>1, <1>2, BytesFacts, BytesConcat
<1>7. /\ Bytes(front) \in Nat /\ Bytes(back) \in Nat
      /\ KeyBytes[s[i].encoded_patterns] \in Nat
  BY <1>1, <1>2, BytesFacts, KeyBytesType
<1>8. RemoveAt(s, i) = front \o back
  BY DEF RemoveAt, front, back
<1> QED
  BY <1>3, <1>5, <1>6, <1>7, <1>8

\* The bytes left after n rounds of the eviction loop.
BytesLeft(entry, pushed, n) ==
    key_bytes + KeyBytes[entry.encoded_patterns] - EvictedBytes(pushed, n)

\* Eviction subtracts what it drops: what is left is counted exactly, and it never
\* reaches the entry it makes room for, which fits alone.
LEMMA AdmitBytes ==
    ASSUME entries \in Seq(CachedSet), key_bytes = Bytes(entries),
           NEW entry \in CachedSet, AdmitSet(entry)
    PROVE  /\ key_bytes' = Bytes(entries')
           /\ entries' # <<>> /\ Last(entries') = entry
<1> DEFINE pushed == Append(entries, entry)
<1>1. /\ pushed \in Seq(CachedSet) /\ Len(pushed) = Len(entries) + 1
      /\ pushed[Len(pushed)] = entry /\ Len(entries) \in Nat
  BY AppendProperties, LenProperties
<1>2. key_bytes + KeyBytes[entry.encoded_patterns] = Bytes(pushed)
  BY BytesFacts
<1>3. PICK n \in 0 .. Len(pushed) :
         /\ \A m \in 0 .. n - 1 : ~WithinLimits(Len(pushed) - m, BytesLeft(entry, pushed, m))
         /\ entries' = SubSeq(pushed, n + 1, Len(pushed))
         /\ key_bytes' = BytesLeft(entry, pushed, n)
  BY DEF AdmitSet, Pushed, BytesLeft
<1> HIDE DEF pushed
<1>4. ASSUME NEW m \in 0 .. Len(pushed)
      PROVE  BytesLeft(entry, pushed, m) = Bytes(SubSeq(pushed, m + 1, Len(pushed)))
  <2>1. /\ SubSeq(pushed, 1, m) \in Seq(CachedSet)
        /\ SubSeq(pushed, m + 1, Len(pushed)) \in Seq(CachedSet)
        /\ Bytes(pushed) = Bytes(SubSeq(pushed, 1, m)) + Bytes(SubSeq(pushed, m + 1, Len(pushed)))
    BY <1>1, BytesSplit
  <2>2. /\ Bytes(SubSeq(pushed, 1, m)) \in Nat
        /\ Bytes(SubSeq(pushed, m + 1, Len(pushed))) \in Nat
    BY <2>1, BytesFacts
  <2>3. BytesLeft(entry, pushed, m) = Bytes(pushed) - Bytes(SubSeq(pushed, 1, m))
    <3>1. BytesLeft(entry, pushed, m) =
             key_bytes + (KeyBytes[entry.encoded_patterns] - Bytes(SubSeq(pushed, 1, m)))
      BY DEF BytesLeft, EvictedBytes
    <3>2. key_bytes \in Nat /\ KeyBytes[entry.encoded_patterns] \in Nat
      BY BytesFacts, KeyBytesType
    <3> QED
      BY <1>2, <2>2, <3>1, <3>2
  <2> QED
    BY <2>1, <2>2, <2>3
<1>5. n <= Len(entries)
  <2>1. BytesLeft(entry, pushed, Len(entries)) = Bytes(SubSeq(pushed, Len(pushed), Len(pushed)))
    BY <1>1, <1>4
  <2>2. SubSeq(pushed, Len(pushed), Len(pushed)) = Append(<<>>, entry)
    <3>1. SubSeq(pushed, Len(pushed), Len(pushed)) =
             <<pushed[Len(pushed)]>> \o SubSeq(pushed, Len(pushed) + 1, Len(pushed))
      BY <1>1, SubSeqRecursiveFirst
    <3>2. SubSeq(pushed, Len(pushed) + 1, Len(pushed)) = <<>>
      BY <1>1, SubSeqEmpty
    <3>3. <<entry>> \in Seq(CachedSet) /\ Append(<<>>, entry) = <<>> \o <<entry>>
      BY EmptySeq, AppendIsConcat
    <3> QED
      BY <1>1, <3>1, <3>2, <3>3, ConcatEmptySeq
  <2>3. BytesLeft(entry, pushed, Len(entries)) = KeyBytes[entry.encoded_patterns]
    <3>1. <<>> \in Seq(CachedSet) /\ Bytes(<<>>) = 0
      BY EmptySeq, BytesFacts
    <3>2. Bytes(Append(<<>>, entry)) = 0 + KeyBytes[entry.encoded_patterns]
      BY <3>1, BytesFacts
    <3> QED
      BY <2>1, <2>2, <3>2, KeyBytesType
  <2>4. WithinLimits(Len(pushed) - Len(entries), BytesLeft(entry, pushed, Len(entries)))
    <3>1. Len(pushed) - Len(entries) = 1
      BY <1>1
    <3> QED
      BY <3>1, <2>3, SizeAssumption, KeyBytesType DEF WithinLimits
  <2> QED
    BY <1>1, <1>3, <2>4
<1>6. key_bytes' = Bytes(entries')
  BY <1>3, <1>4
<1>7. /\ entries' \in Seq(CachedSet) /\ Len(entries') = Len(pushed) - n
      /\ entries'[Len(entries')] = pushed[Len(pushed)]
  BY <1>1, <1>3, <1>5, SubSeqProperties, ElementOfSeq
<1> QED
  BY <1>1, <1>5, <1>6, <1>7, EmptySeq DEF Last

LEMMA ExactNext ==
    ASSUME TypeInv, KeyBytesExact, [Next]_vars
    PROVE  KeyBytesExact'
<1>0. entries \in Seq(CachedSet) /\ key_bytes = Bytes(entries) /\ CacheBounded
  BY DEF TypeInv, TypeOK, CacheTypeOK, KeyBytesExact
<1>1. CASE UNCHANGED <<entries, key_bytes>>
  BY <1>0, <1>1 DEF KeyBytesExact, CacheBounded
<1>2. ASSUME NEW k, NEW i \in Cached(k), FindCachedSetLocked(i)
      PROVE  KeyBytesExact'
  <2>1. i \in DOMAIN entries /\ UNCHANGED key_bytes
    BY <1>2 DEF Cached, FindCachedSetLocked
  <2>2. entries' = Append(RemoveAt(entries, i), entries[i])
    BY <1>2 DEF FindCachedSetLocked
  <2>3. CacheBounded'
    BY <1>0, <1>2, <2>1, HitFacts DEF CacheBounded
  <2>4. Bytes(Append(RemoveAt(entries, i), entries[i])) = Bytes(entries)
    BY <1>0, <2>1, BytesHit
  <2> QED
    BY <1>0, <2>1, <2>2, <2>3, <2>4 DEF KeyBytesExact
<1>3. ASSUME NEW c \in Calls, RunSetCompilation(c)
      PROVE  KeyBytesExact'
  <2>1. PICK result, admitted : PublishSetCompilation(c, result, admitted)
    BY <1>3 DEF RunSetCompilation
  <2>2. CASE ~(Admissible(result) /\ admitted)
    BY <1>1, <2>1, <2>2 DEF PublishSetCompilation
  <2>3. CASE Admissible(result) /\ admitted
    <3> DEFINE entry == [encoded_patterns |-> encoded_patterns[c], set |-> CompiledSet(c, result)]
    <3>1. encoded_patterns[c] \in Keys
      BY <1>3 DEF RunSetCompilation, TypeInv, Keyed
    <3>2. entry \in CachedSet
      BY <2>3, <3>1 DEF CachedSet, CompiledSet, Admissible
    <3>3. AdmitSet(entry)
      BY <2>1, <2>3 DEF PublishSetCompilation
    <3> HIDE DEF entry
    <3> QED
      BY <1>0, <3>2, <3>3, AdmitBytes, AdmitFacts DEF KeyBytesExact, CacheBounded
  <2> QED
    BY <2>2, <2>3
<1> QED
  BY <1>1, <1>2, <1>3, BlockFrame
     DEF Next, JsStep, PoolStep, Quiescent, Blocks, vars, cacheVars, SetCompileAsync,
         AcquireSetCompilation, WaitOwnerQueued, QueueWork, MarkQueued, StartWork,
         WaitForSetCompilation, FinishWork, CancelWork, SetCompileComplete, TerminateEnv,
         JoinSetCompilation, CreateSetCompilation, CancelSetCompilation, LeaveRegistry,
         ReleaseSetCompilation, MarkSetCompilationQueued

\* After any sequence of hits, admissions and evictions the byte counter is the
\* size of the cached keys, and the cache is within both of its limits.
THEOREM CacheIsAccounted == Spec => []KeyBytesExact
<1>1. Init => KeyBytesExact
  BY SizeAssumption, KeyBytesAssumption, EmptySeq, BytesFacts
     DEF Init, CacheInit, KeyBytesExact, CacheBounded
<1>2. Spec => []TypeInv
  BY ControlCorrect, PTL
<1> QED
  BY <1>1, <1>2, ExactNext, PTL DEF Spec

\* Unless its admission may throw, a set just compiled is the newest of the cache,
\* whatever had to be evicted for it.
THEOREM CompiledSetsAreCached == ~Fault("admit") => (Spec => CompiledIsCached)
<1> SUFFICES ASSUME ~Fault("admit") PROVE Spec => CompiledIsCached
  OBVIOUS
<1>1. ASSUME TypeInv, KeyBytesExact, [Next]_vars,
             NEW c \in Calls, ~Done(c), outcome'[c] = "set"
      PROVE  entries' # <<>> /\ Last(entries').set = c
  <2>1. outcome \in [Calls -> Outcomes] /\ outcome' # outcome
    BY <1>1 DEF Done, TypeInv, TypeOK, CacheTypeOK
  <2>2. ASSUME NEW d \in Calls, CancelSetCompilation(d) PROVE FALSE
    BY <1>1, <2>1, <2>2 DEF CancelSetCompilation, Done
  <2>3. \E d \in Calls : RunSetCompilation(d)
    BY <1>1, <2>1, <2>2, BlockFrame
       DEF Next, JsStep, PoolStep, Quiescent, Blocks, vars, cacheVars, SetCompileAsync,
           AcquireSetCompilation, WaitOwnerQueued, QueueWork, MarkQueued, StartWork,
           WaitForSetCompilation, FinishWork, CancelWork, SetCompileComplete, TerminateEnv,
           JoinSetCompilation, CreateSetCompilation, LeaveRegistry, FindCachedSetLocked,
           ReleaseSetCompilation, MarkSetCompilationQueued
  <2>4. PICK d \in Calls : RunSetCompilation(d)
    BY <2>3
  <2>5. PICK result : PublishSetCompilation(d, result, TRUE)
    BY <2>4 DEF RunSetCompilation
  <2>6. d = c /\ result = "set"
    BY <1>1, <2>1, <2>5 DEF PublishSetCompilation, Done
  <2> DEFINE entry == [encoded_patterns |-> encoded_patterns[c], set |-> c]
  <2>7. encoded_patterns[c] \in Keys
    BY <1>1, <2>4, <2>6 DEF RunSetCompilation, TypeInv, Keyed
  <2>8. entry \in CachedSet /\ entry.set = c
    BY <2>7 DEF CachedSet
  <2>9. AdmitSet(entry)
    BY <2>5, <2>6 DEF PublishSetCompilation, Admissible, CompiledSet
  <2>10. entries \in Seq(CachedSet) /\ key_bytes = Bytes(entries)
    BY <1>1 DEF TypeInv, TypeOK, CacheTypeOK, KeyBytesExact
  <2> HIDE DEF entry
  <2> QED
    BY <2>8, <2>9, <2>10, AdmitBytes
<1>2. Spec => []TypeInv
  BY ControlCorrect, PTL
<1>3. TypeInv /\ KeyBytesExact /\ [Next]_vars =>
         [\A c \in Calls : ~Done(c) /\ outcome'[c] = "set" =>
             entries' # <<>> /\ Last(entries').set = c]_vars
  BY <1>1
<1> QED
  BY <1>2, <1>3, CacheIsAccounted, PTL DEF Spec, CompiledIsCached

-----------------------------------------------------------------------------
(* Teardown without other faults.                                          *)

OnlyTeardown == Faults \subseteq {"terminate"}

\* Nothing fails but what RE2 refuses, and no work is cancelled.
NoFailure ==
    \A c \in Calls :
        /\ stage[c] # "cancelled"
        /\ Done(c) /\ encoded_patterns[c] \notin InvalidKeys => outcome[c] = "set"
        /\ stage[c] \in {"executed", "completing"} /\ encoded_patterns[c] \notin InvalidKeys
           => held[c] # None

\* Work comes back to the loop of its own environment.
CompletedAtHome ==
    \A e \in Envs : \A i \in DOMAIN completed[e] :
        /\ stage[completed[e][i]] # "unused"
        /\ env[completed[e][i]] = e

TeardownInv == NoFailure /\ TeardownIsIsolated

LEMMA CompletedNext ==
    ASSUME TypeInv, ControlInv, CompletedAtHome, [Next]_vars
    PROVE  CompletedAtHome'
<1>t. /\ stage \in [Calls -> Stages] /\ env \in [Calls -> Envs \cup {None}]
      /\ completed \in [Envs -> Seq(Calls)]
      /\ \A e \in Envs : \A i \in DOMAIN completed[e] : completed[e][i] \in Calls
  BY ElementOfSeq, LenProperties DEF TypeInv, TypeOK, CacheTypeOK
<1>1. ASSUME UNCHANGED completed,
             \A d \in Calls : stage[d] # "unused" => stage'[d] # "unused" /\ env'[d] = env[d]
      PROVE  CompletedAtHome'
  BY <1>t, <1>1 DEF CompletedAtHome
<1>2. \A d \in Calls : stage[d] # "unused" => stage'[d] # "unused"
  BY WrittenOnce
<1>a. ASSUME NEW e \in Envs, NEW d \in Calls, NEW k \in Keys, SetCompileAsync(e, d, k)
      PROVE  CompletedAtHome'
  BY <1>t, <1>1, <1>2, <1>a DEF SetCompileAsync, poolVars
<1>f. ASSUME NEW e \in Envs, NEW d \in Calls, SetCompileComplete(e, d)
      PROVE  CompletedAtHome'
  <2>1. /\ UNCHANGED env /\ completed[e] # <<>>
        /\ completed' = [completed EXCEPT ![e] = Tail(@)]
    BY <1>f DEF SetCompileComplete
  <2>2. \A i \in DOMAIN Tail(completed[e]) :
           i + 1 \in DOMAIN completed[e] /\ Tail(completed[e])[i] = completed[e][i + 1]
    BY <1>t, <2>1, TailFacts
  <2> QED
    BY <1>t, <1>2, <2>1, <2>2 DEF CompletedAtHome
<1>k. ASSUME NEW d \in Calls, FinishWork(d) \/ CancelWork(d)
      PROVE  CompletedAtHome'
  <2>1. /\ UNCHANGED env /\ stage[d] # "unused" /\ env[d] \in Envs
        /\ completed' = [completed EXCEPT ![env[d]] = Append(@, d)]
    BY <1>k DEF FinishWork, CancelWork, callVars, ControlInv, QueueHoldsQueued, TypeInv, Keyed
  <2>2. \A i \in DOMAIN Append(completed[env[d]], d) :
           \/ i \in DOMAIN completed[env[d]] /\ Append(completed[env[d]], d)[i] = completed[env[d]][i]
           \/ Append(completed[env[d]], d)[i] = d
    BY <1>t, <2>1, AppendFacts
  <2> QED
    BY <1>t, <1>2, <2>1, <2>2 DEF CompletedAtHome
<1> QED
  BY <1>1, <1>2, <1>a, <1>f, <1>k, BlockFrame
     DEF Next, JsStep, PoolStep, Quiescent, Blocks, vars, callVars, poolVars, AcquireSetCompilation,
         WaitOwnerQueued, QueueWork, MarkQueued, StartWork, RunSetCompilation,
         WaitForSetCompilation, TerminateEnv

LEMMA TeardownStep ==
    ASSUME OnlyTeardown, TypeInv, ControlInv, SetsInv, CompletedAtHome, TeardownInv, [Next]_vars
    PROVE  TeardownInv'
<1> USE CallsAssumption DEF OnlyTeardown, Fault, TeardownInv
<1>t. /\ stage \in [Calls -> Stages] /\ held \in [Calls -> Calls \cup {None}]
      /\ promise \in [Calls -> Promises] /\ ticket \in [Calls -> Calls \cup {None}]
      /\ outcome \in [Calls -> Outcomes] /\ encoded_patterns \in [Calls -> Keys \cup {None}]
      /\ env \in [Calls -> Envs \cup {None}]
  BY DEF TypeInv, TypeOK, CacheTypeOK
<1>w. \A c \in Calls : /\ stage[c] # "unused" => encoded_patterns'[c] = encoded_patterns[c]
                       /\ Done(c) => stage[c] # "unused"
  BY WrittenOnce DEF ControlInv, OwnersOnly, TicketState, Owner
\* A call that resolves, and steps that neither compile nor settle.
<1>r. ASSUME NEW e \in Envs, NEW d \in Calls, Settle(e, d, "resolved"), stage[d] # "settled",
             stage' = [stage EXCEPT ![d] = "settled"],
             env'[d] = e, \A c \in Calls \ {d} : env'[c] = env[c],
             \A c \in Calls \ {d} : held'[c] = held[c] /\ encoded_patterns'[c] = encoded_patterns[c],
             ~Done(d) \/ encoded_patterns'[d] = encoded_patterns[d],
             UNCHANGED <<outcome, closing>>
      PROVE  TeardownInv'
  <2>1. NoFailure'
    BY <1>t, <1>r DEF NoFailure, Done
  <2>2. TeardownIsIsolated'
    BY <1>t, <1>r DEF TeardownIsIsolated, Settle
  <2> QED
    BY <2>1, <2>2
<1>m. ASSUME NEW d \in Calls, NEW s \in Stages \ {"cancelled", "settled"}, stage[d] # "settled",
             stage' = [stage EXCEPT ![d] = s], UNCHANGED <<promise, encoded_patterns, env, closing>>,
             \A c \in Calls \ {d} : held'[c] = held[c],
             \A c \in Calls : Done(c)' /\ encoded_patterns[c] \notin InvalidKeys => outcome'[c] = "set",
             s \in {"executed", "completing"} /\ encoded_patterns[d] \notin InvalidKeys => held'[d] # None
      PROVE  TeardownInv'
  <2>1. NoFailure'
    BY <1>t, <1>m DEF NoFailure
  <2>2. TeardownIsIsolated'
    BY <1>t, <1>m DEF TeardownIsIsolated
  <2> QED
    BY <2>1, <2>2
<1>a. ASSUME NEW e \in Envs, NEW d \in Calls, NEW k \in Keys, SetCompileAsync(e, d, k)
      PROVE  TeardownInv'
  <2>1. /\ stage[d] = "unused" /\ ~Done(d) /\ UNCHANGED <<outcome, closing>>
        /\ env' = [env EXCEPT ![d] = e]
        /\ encoded_patterns' = [encoded_patterns EXCEPT ![d] = k]
    BY <1>a, <1>w DEF SetCompileAsync, FindCachedSetLocked
  <2>2. ASSUME NEW i, ResolveCompiledSet(e, d, entries[i].set)
        PROVE  TeardownInv'
    BY <1>t, <1>r, <2>1, <2>2 DEF ResolveCompiledSet
  <2>3. CASE stage' = [stage EXCEPT ![d] = "calling"] /\ UNCHANGED <<held, promise>>
    <3>1. NoFailure'
      BY <1>t, <2>1, <2>3 DEF NoFailure, Done
    <3>2. TeardownIsIsolated'
      BY <1>t, <2>1, <2>3 DEF TeardownIsIsolated
    <3> QED
      BY <3>1, <3>2
  <2> QED
    BY <1>a, <2>2, <2>3 DEF SetCompileAsync
<1>b. ASSUME NEW e \in Envs, NEW d \in Calls, AcquireSetCompilation(e, d)
      PROVE  TeardownInv'
  <2>1. /\ stage[d] = "calling" /\ env[d] = e
        /\ UNCHANGED <<encoded_patterns, env, outcome, closing>>
    BY <1>b DEF AcquireSetCompilation, ControlInv, ThreadState, FindCachedSetLocked,
                JoinSetCompilation, CreateSetCompilation
  <2>2. ASSUME NEW i, ResolveCompiledSet(e, d, entries[i].set)
        PROVE  TeardownInv'
    BY <1>t, <1>r, <2>1, <2>2 DEF ResolveCompiledSet
  <2>3. CASE UNCHANGED <<stage, held, promise>>
    BY <2>1, <2>3 DEF NoFailure, TeardownIsIsolated, Done
  <2> QED
    BY <1>b, <2>2, <2>3 DEF AcquireSetCompilation
<1>d. ASSUME NEW e \in Envs, NEW d \in Calls, QueueWork(e, d)
      PROVE  TeardownInv'
  <2>1. /\ stage[d] = "calling" /\ stage' = [stage EXCEPT ![d] = "queued"]
        /\ UNCHANGED <<encoded_patterns, env, outcome, closing, held, promise>>
    BY <1>d DEF QueueWork, cacheVars, ControlInv, ThreadState
  <2> QED
    BY <1>m, <2>1 DEF Stages, NoFailure, Done
<1>f. ASSUME NEW e \in Envs, NEW d \in Calls, SetCompileComplete(e, d)
      PROVE  TeardownInv'
  <2>1. /\ stage[d] \in {"completing", "cancelled"} /\ held[d] \in Calls \cup {None}
        /\ stage' = [stage EXCEPT ![d] = "settled"]
        /\ UNCHANGED <<encoded_patterns, env, held, closing>>
    BY <1>t, <1>f DEF SetCompileComplete
  <2>2. stage[d] = "completing" /\ UNCHANGED outcome
    BY <1>f, <2>1 DEF SetCompileComplete, LeaveRegistry, ReleaseSetCompilation, NoFailure
  <2>3. env[d] = e
    <3>1. completed[e] \in Seq(Calls) /\ completed[e] # <<>> /\ d = Head(completed[e])
      BY <1>f DEF SetCompileComplete, TypeInv, TypeOK
    <3>2. 1 \in DOMAIN completed[e] /\ d = completed[e][1]
      BY <3>1, TailFacts
    <3> QED
      BY <3>2 DEF CompletedAtHome
  <2>4. CASE Settle(e, d, "resolved")
    BY <1>r, <2>1, <2>2, <2>3, <2>4
  <2>5. ASSUME NEW r, Settle(e, d, r), held[d] = None
        PROVE  TeardownInv'
    <3>1. encoded_patterns[d] \in InvalidKeys
      BY <2>2, <2>5 DEF NoFailure
    <3>2. NoFailure'
      BY <1>t, <2>1, <2>2 DEF NoFailure, Done
    <3>3. TeardownIsIsolated'
      BY <1>t, <2>1, <2>5, <3>1 DEF TeardownIsIsolated, Settle
    <3> QED
      BY <3>2, <3>3
  <2> QED
    BY <1>f, <2>2, <2>4, <2>5 DEF SetCompileComplete
<1>g. CASE StartWork
  <2>1. /\ Head(queue) \in Calls /\ stage[Head(queue)] = "queued"
        /\ stage' = [stage EXCEPT ![Head(queue)] = "running"]
        /\ UNCHANGED <<held, promise, encoded_patterns, env, outcome, closing>>
    BY <1>g, LenProperties, EmptySeq, ElementOfSeq, HeadTailProperties
       DEF StartWork, cacheVars, callVars, ControlInv, QueueHoldsQueued, TypeInv, TypeOK
  <2> QED
    BY <1>m, <2>1 DEF Stages, NoFailure, Done
<1>h. ASSUME NEW d \in Calls, RunSetCompilation(d)
      PROVE  TeardownInv'
  <2>1. /\ stage[d] = "running" /\ stage' = [stage EXCEPT ![d] = "executed"]
        /\ UNCHANGED <<promise, encoded_patterns, env, closing>>
    BY <1>h DEF RunSetCompilation
  <2>2. PICK result \in CompileResult(encoded_patterns[d]) :
           /\ outcome' = [outcome EXCEPT ![d] = result]
           /\ held' = [held EXCEPT ![d] = CompiledSet(d, result)]
    BY <1>h DEF RunSetCompilation, PublishSetCompilation
  <2>3. encoded_patterns[d] \notin InvalidKeys => result = "set"
    BY <2>2 DEF CompileResult
  <2> QED
    BY <1>t, <1>m, <2>1, <2>2, <2>3 DEF Stages, NoFailure, Done, CompiledSet
<1>i. ASSUME NEW d \in Calls, WaitForSetCompilation(d)
      PROVE  TeardownInv'
  <2>1. /\ stage[d] = "running" /\ stage' = [stage EXCEPT ![d] = "executed"]
        /\ held' = [held EXCEPT ![d] = CompiledSet(ticket[d], outcome[ticket[d]])]
        /\ Done(ticket[d])
        /\ UNCHANGED <<promise, encoded_patterns, outcome, env, closing>>
    BY <1>i DEF WaitForSetCompilation, cacheVars
  <2>2. ticket[d] \in Calls /\ encoded_patterns[ticket[d]] = encoded_patterns[d]
    BY <1>t, <2>1 DEF ControlInv, TicketState, InRegistry
  <2> QED
    BY <1>t, <1>m, <2>1, <2>2 DEF Stages, NoFailure, Done, CompiledSet
<1>j. ASSUME NEW d \in Calls, FinishWork(d)
      PROVE  TeardownInv'
  BY <1>m, <1>j DEF FinishWork, cacheVars, callVars, Stages, NoFailure, Done
<1>l. ASSUME NEW e \in Envs, TerminateEnv(e)
      PROVE  TeardownInv'
  BY <1>l DEF TerminateEnv, cacheVars, callVars, NoFailure, Done, TeardownIsIsolated
<1>z. CASE UNCHANGED <<stage, held, promise, encoded_patterns, outcome, env, closing>>
  BY <1>z DEF NoFailure, Done, TeardownIsIsolated
<1> QED
  BY <1>a, <1>b, <1>d, <1>f, <1>g, <1>h, <1>i, <1>j, <1>l, <1>z, BlockFrame
     DEF Next, JsStep, PoolStep, Quiescent, Blocks, vars, cacheVars, callVars, WaitOwnerQueued,
         MarkQueued, MarkSetCompilationQueued, CancelWork

\* When environments are torn down and nothing else fails, a call for accepted
\* patterns in an environment still alive resolves, whoever compiled for it.
THEOREM TeardownReachesNoOther ==
    ASSUME OnlyTeardown
    PROVE  Spec => []TeardownIsIsolated
<1>1. Init => CompletedAtHome /\ TeardownInv
  BY EmptySeq DEF Init, CacheInit, CompletedAtHome, TeardownInv, NoFailure, Done,
                  TeardownIsIsolated
<1>2. /\ TypeInv /\ ControlInv /\ SetsInv
      /\ CompletedAtHome /\ TeardownInv
      /\ [Next]_vars
      => (CompletedAtHome /\ TeardownInv)'
  BY OnlyTeardown, CompletedNext, TeardownStep
<1>3. TeardownInv => TeardownIsIsolated
  BY DEF TeardownInv
<1> QED
  BY <1>1, <1>2, <1>3, SetsCorrect, PTL DEF Spec

-----------------------------------------------------------------------------
(* The promise of compileAsync.                                            *)

Fails == Faults \ {"terminate"} # {}

\* Failures come from faults, and what RE2 refuses from patterns it refuses; a call
\* that has executed knows its outcome.
AnswerReady(c) ==
    /\ stage[c] = "unused" => encoded_patterns[c] = None
    /\ stage[c] = "cancelled" => Fails
    /\ outcome[c] = "error" => encoded_patterns[c] \in InvalidKeys
    /\ outcome[c] = "unexpected" => Fails
    /\ stage[c] \in {"executed", "completing"} =>
          Done(ticket[c]) /\ (held[c] = None => outcome[ticket[c]] # "set")

AnswersInv ==
    /\ closing # {} => Fault("terminate")
    /\ \A c \in Calls : AnswerReady(c)

LEMMA AnswersNext ==
    ASSUME TypeInv, ControlInv, AnswersInv, [Next]_vars
    PROVE  AnswersInv'
<1> USE CallsAssumption DEF AnswersInv, Fault, Fails
<1>t. /\ stage \in [Calls -> Stages] /\ held \in [Calls -> Calls \cup {None}]
      /\ ticket \in [Calls -> Calls \cup {None}] /\ outcome \in [Calls -> Outcomes]
      /\ encoded_patterns \in [Calls -> Keys \cup {None}]
  BY DEF TypeInv, TypeOK, CacheTypeOK
<1>w. \A c \in Calls : /\ stage[c] # "unused" => encoded_patterns'[c] = encoded_patterns[c]
                       /\ Done(c) => stage[c] # "unused" /\ outcome'[c] = outcome[c]
  BY WrittenOnce DEF ControlInv, OwnersOnly, TicketState, Owner
\* A call the step does not touch.
<1>o. ASSUME NEW c \in Calls, stage'[c] = stage[c], held'[c] = held[c], ticket'[c] = ticket[c],
             outcome'[c] = outcome[c], encoded_patterns'[c] = encoded_patterns[c]
      PROVE  AnswerReady(c)'
  <2>1. stage[c] \in {"executed", "completing"} => ticket[c] \in Calls
    BY <1>t DEF ControlInv, TicketState, InRegistry
  <2> QED
    BY <1>o, <1>w, <2>1 DEF AnswerReady, Done
<1>a. ASSUME NEW e \in Envs, NEW d \in Calls, NEW k \in Keys, SetCompileAsync(e, d, k),
             NEW c \in Calls
      PROVE  AnswerReady(c)'
  <2>1. /\ stage[d] = "unused" /\ stage'[d] \in {"settled", "calling"}
        /\ UNCHANGED <<outcome, ticket>>
        /\ c # d => /\ stage'[c] = stage[c] /\ held'[c] = held[c]
                    /\ encoded_patterns'[c] = encoded_patterns[c]
    BY <1>t, <1>a DEF SetCompileAsync, FindCachedSetLocked, ResolveCompiledSet
  <2> QED
    BY <1>o, <1>w, <2>1 DEF AnswerReady, Done
<1>b. ASSUME NEW e \in Envs, NEW d \in Calls, AcquireSetCompilation(e, d), NEW c \in Calls
      PROVE  AnswerReady(c)'
  <2>1. /\ stage[d] = "calling" /\ stage'[d] \in {"settled", "calling"}
        /\ UNCHANGED <<outcome, encoded_patterns>>
        /\ c # d => stage'[c] = stage[c] /\ held'[c] = held[c] /\ ticket'[c] = ticket[c]
    BY <1>t, <1>b
       DEF AcquireSetCompilation, FindCachedSetLocked, ResolveCompiledSet, JoinSetCompilation,
           CreateSetCompilation, ControlInv, ThreadState
  <2> QED
    BY <1>o, <2>1 DEF AnswerReady
<1>d. ASSUME NEW e \in Envs, NEW d \in Calls, QueueWork(e, d), NEW c \in Calls
      PROVE  AnswerReady(c)'
  <2>1. /\ stage'[d] \in {"settled", "queued"}
        /\ UNCHANGED <<encoded_patterns, held, ticket>>
        /\ outcome'[d] = outcome[d] \/ (outcome'[d] = "unexpected" /\ "queue" \in Faults)
        /\ c # d => stage'[c] = stage[c] /\ outcome'[c] = outcome[c]
    BY <1>t, <1>d DEF QueueWork, cacheVars, CancelSetCompilation
  <2> QED
    BY <1>o, <2>1 DEF AnswerReady
<1>f. ASSUME NEW e \in Envs, NEW d \in Calls, SetCompileComplete(e, d), NEW c \in Calls
      PROVE  AnswerReady(c)'
  <2>1. /\ stage'[d] = "settled" /\ UNCHANGED <<encoded_patterns, held, ticket>>
        /\ outcome'[d] = outcome[d] \/ (outcome'[d] = "unexpected" /\ stage[d] = "cancelled")
        /\ c # d => stage'[c] = stage[c] /\ outcome'[c] = outcome[c]
    BY <1>t, <1>f
       DEF SetCompileComplete, CancelSetCompilation, LeaveRegistry, ReleaseSetCompilation
  <2> QED
    BY <1>o, <2>1 DEF AnswerReady
<1>g. ASSUME StartWork, NEW c \in Calls
      PROVE  AnswerReady(c)'
  <2>1. /\ UNCHANGED <<encoded_patterns, held, ticket, outcome>>
        /\ stage'[c] = stage[c] \/ stage'[c] = "running"
    BY <1>t, <1>g DEF StartWork, cacheVars, callVars
  <2> QED
    BY <1>o, <2>1 DEF AnswerReady
<1>h. ASSUME NEW d \in Calls, RunSetCompilation(d), NEW c \in Calls
      PROVE  AnswerReady(c)'
  <2>1. /\ stage[d] = "running" /\ ticket[d] = d /\ stage'[d] = "executed"
        /\ UNCHANGED <<encoded_patterns, ticket>>
        /\ c # d => stage'[c] = stage[c]
    BY <1>t, <1>h DEF RunSetCompilation, Owner
  <2>2. PICK result \in CompileResult(encoded_patterns[d]) :
           /\ outcome' = [outcome EXCEPT ![d] = result]
           /\ held' = [held EXCEPT ![d] = CompiledSet(d, result)]
    BY <1>h DEF RunSetCompilation, PublishSetCompilation
  <2>3. /\ result \in {"error", "set", "unexpected"}
        /\ result = "error" => encoded_patterns[d] \in InvalidKeys
        /\ result = "unexpected" => Fails
    BY <2>2 DEF CompileResult
  <2> QED
    BY <1>t, <1>o, <2>1, <2>2, <2>3 DEF AnswerReady, CompiledSet, Done
<1>i. ASSUME NEW d \in Calls, WaitForSetCompilation(d), NEW c \in Calls
      PROVE  AnswerReady(c)'
  <2>1. /\ stage[d] = "running" /\ stage'[d] = "executed" /\ Done(ticket[d])
        /\ UNCHANGED <<encoded_patterns, ticket, outcome>>
        /\ held'[d] = CompiledSet(ticket[d], outcome[ticket[d]])
        /\ c # d => stage'[c] = stage[c] /\ held'[c] = held[c]
    BY <1>t, <1>i DEF WaitForSetCompilation, cacheVars
  <2>2. ticket[d] \in Calls
    BY <1>t, <2>1 DEF ControlInv, TicketState, InRegistry
  <2> QED
    BY <1>o, <2>1, <2>2 DEF AnswerReady, CompiledSet, Done
<1>j. ASSUME NEW d \in Calls, FinishWork(d), NEW c \in Calls
      PROVE  AnswerReady(c)'
  <2>1. /\ stage[d] = "executed" /\ stage'[d] = "completing"
        /\ UNCHANGED <<encoded_patterns, held, ticket, outcome>>
        /\ c # d => stage'[c] = stage[c]
    BY <1>t, <1>j DEF FinishWork, cacheVars, callVars
  <2> QED
    BY <1>o, <2>1 DEF AnswerReady, Done
<1>k. ASSUME NEW d \in Calls, CancelWork(d), NEW c \in Calls
      PROVE  AnswerReady(c)'
  <2>1. /\ "cancel" \in Faults /\ stage'[d] = "cancelled"
        /\ UNCHANGED <<encoded_patterns, held, ticket, outcome>>
        /\ c # d => stage'[c] = stage[c]
    BY <1>t, <1>k DEF CancelWork, cacheVars, callVars
  <2> QED
    BY <1>o, <2>1 DEF AnswerReady
<1>z. ASSUME UNCHANGED <<stage, held, ticket, outcome, encoded_patterns>>, NEW c \in Calls
      PROVE  AnswerReady(c)'
  BY <1>o, <1>z
<1>1. \A c \in Calls : AnswerReady(c)'
  BY <1>a, <1>b, <1>d, <1>f, <1>g, <1>h, <1>i, <1>j, <1>k, <1>z, BlockFrame
     DEF Next, JsStep, PoolStep, Quiescent, Blocks, vars, cacheVars, callVars, WaitOwnerQueued,
         MarkQueued, MarkSetCompilationQueued, TerminateEnv
<1>2. UNCHANGED closing \/ \E e \in Envs : TerminateEnv(e)
  <2>1. \A e \in Envs, c \in Calls, k \in Keys : SetCompileAsync(e, c, k) => UNCHANGED closing
    BY DEF SetCompileAsync
  <2>2. \A e \in Envs, c \in Calls : JsStep(e, c) => UNCHANGED closing
    BY DEF JsStep, AcquireSetCompilation, BlockLoop, WaitOwnerQueued, QueueWork, MarkQueued,
           SetCompileComplete
  <2>3. \A c \in Calls : PoolStep(c) \/ CancelWork(c) => UNCHANGED closing
    BY DEF PoolStep, RunSetCompilation, BlockThread, WaitForSetCompilation, FinishWork, CancelWork
  <2>4. StartWork \/ UNCHANGED vars => UNCHANGED closing
    BY DEF StartWork, vars
  <2> QED
    BY <2>1, <2>2, <2>3, <2>4 DEF Next, Quiescent
<1>3. closing' # {} => "terminate" \in Faults
  BY <1>2 DEF TerminateEnv
<1> QED
  BY <1>1, <1>3

\* Settling the promise of a call that asked for k is an answer of the service.
LEMMA SettleAnswers ==
    ASSUME TypeInv, AnswersInv, NEW e \in Envs, NEW d \in Calls, NEW k,
           NEW r \in Promises \ {"pending"},
           promise[d] = "pending", Settle(e, d, r), UNCHANGED closing,
           \A c \in Calls \ {d} : held'[c] = held[c],
           \A c \in Calls : outcome'[c] = "set" <=> outcome[c] = "set",
           r = "resolved" => /\ held'[d] \in Calls /\ outcome[held'[d]] = "set"
                             /\ encoded_patterns[held'[d]] = k,
           r = "pattern_error" => k \in InvalidKeys,
           r \notin {"resolved", "pattern_error", "dropped"} => Fails,
           r = "dropped" => Fault("terminate")
    PROVE  Service!Answer(d, k)
<1>t. promise \in [Calls -> Promises]
  BY DEF TypeInv, TypeOK
<1>1. AnswerOf(d) = "none"
  BY DEF AnswerOf
<1>2. {c \in Calls : outcome[c] = "set"}' = {c \in Calls : outcome[c] = "set"}
  OBVIOUS
<1>3. \A c \in Calls \ {d} : promise'[c] = promise[c]
  BY <1>t DEF Settle
<1>4. promise'[d] = IF e \in closing THEN "dropped" ELSE r
  BY <1>t DEF Settle
<1>5. e \in closing => Fault("terminate")
  BY DEF AnswersInv
<1>6. [c \in Calls |-> AnswerOf(c)]' =
          [[c \in Calls |-> AnswerOf(c)] EXCEPT ![d] = AnswerOf(d)']
  BY <1>3 DEF AnswerOf
<1>7. [c \in Calls |-> IF promise[c] = "resolved" THEN held[c] ELSE None]' =
          [[c \in Calls |-> IF promise[c] = "resolved" THEN held[c] ELSE None] EXCEPT
              ![d] = IF promise'[d] = "resolved" THEN held'[d] ELSE None]
  BY <1>3
<1>8. CASE promise'[d] = "resolved"
  <2>1. AnswerOf(d)' = "set" /\ r = "resolved"
    BY <1>4, <1>8 DEF AnswerOf
  <2>2. PICK c \in Calls : c = held'[d]
    BY <2>1
  <2>3. Service!Give(d, k, c)
    BY <1>6, <1>7, <1>8, <2>1, <2>2 DEF Service!Give
  <2> QED
    BY <1>1, <1>2, <2>3 DEF Service!Answer
<1>9. CASE promise'[d] # "resolved"
  <2>1. [c \in Calls |-> IF promise[c] = "resolved" THEN held[c] ELSE None]' =
            [c \in Calls |-> IF promise[c] = "resolved" THEN held[c] ELSE None]
    BY <1>3, <1>9
  <2>2. \/ AnswerOf(d)' = "refused" /\ k \in InvalidKeys
        \/ AnswerOf(d)' = "failed" /\ Fails
        \/ AnswerOf(d)' = "dropped" /\ Fault("terminate")
    BY <1>4, <1>5, <1>9 DEF AnswerOf, Promises
  <2>3. Service!Deny(d, k)
    BY <1>6, <2>1, <2>2 DEF Service!Deny, Fails
  <2> QED
    BY <1>1, <1>2, <2>3 DEF Service!Answer
<1> QED
  BY <1>8, <1>9

\* A step that settles no promise and compiles no set is not seen by the callers.
LEMMA Unseen ==
    ASSUME UNCHANGED <<encoded_patterns, promise>>,
           \A c \in Calls : outcome'[c] = "set" <=> outcome[c] = "set",
           \A c \in Calls : promise[c] = "resolved" => held'[c] = held[c]
    PROVE  UNCHANGED Service!serviceVars
<1>1. {c \in Calls : outcome[c] = "set"}' = {c \in Calls : outcome[c] = "set"}
  OBVIOUS
<1>2. [c \in Calls |-> AnswerOf(c)]' = [c \in Calls |-> AnswerOf(c)]
  BY DEF AnswerOf
<1>3. [c \in Calls |-> IF promise[c] = "resolved" THEN held[c] ELSE None]' =
          [c \in Calls |-> IF promise[c] = "resolved" THEN held[c] ELSE None]
  OBVIOUS
<1> QED
  BY <1>1, <1>2, <1>3 DEF Service!serviceVars

LEMMA ServiceStep ==
    ASSUME TypeInv, ControlInv, SetsInv, AnswersInv, [Next]_vars
    PROVE  Service!Next \/ UNCHANGED Service!serviceVars
<1> DEFINE Goal == Service!Next \/ UNCHANGED Service!serviceVars
<1>t. /\ stage \in [Calls -> Stages] /\ held \in [Calls -> Calls \cup {None}]
      /\ ticket \in [Calls -> Calls \cup {None}] /\ outcome \in [Calls -> Outcomes]
      /\ encoded_patterns \in [Calls -> Keys \cup {None}]
      /\ promise \in [Calls -> Promises]
  BY DEF TypeInv, TypeOK, CacheTypeOK
<1>p. \A c \in Calls : stage[c] # "settled" => promise[c] = "pending"
  BY DEF SetsInv, HeldSetsAreRight
\* What is answered after the call was made.
<1>n. ASSUME NEW d \in Calls, stage[d] # "unused", UNCHANGED encoded_patterns,
             \A k \in Keys : k = encoded_patterns[d] => Service!Answer(d, k)
      PROVE  Goal
  <2>1. PICK k \in Keys : k = encoded_patterns[d]
    BY <1>n DEF TypeInv, Keyed
  <2>2. Service!AnswerLater(d)
    BY <1>n, <2>1 DEF Service!AnswerLater
  <2> QED
    BY <2>2 DEF Service!Next
\* A cached set is handed out.
<1>r. ASSUME NEW e \in Envs, NEW d \in Calls, NEW k \in Keys, NEW i \in Cached(k),
             ResolveCompiledSet(e, d, entries[i].set), promise[d] = "pending",
             UNCHANGED <<outcome, closing>>
      PROVE  Service!Answer(d, k)
  <2>1. /\ entries[i].set \in Calls /\ outcome[entries[i].set] = "set"
        /\ encoded_patterns[entries[i].set] = k
    BY LookupIsRight DEF SetsInv
  <2>2. {"resolved", "context_error"} \subseteq Promises \ {"pending"}
    BY DEF Promises
  <2>3. CASE held' = [held EXCEPT ![d] = entries[i].set] /\ Settle(e, d, "resolved")
    BY <1>t, <1>r, <2>1, <2>2, <2>3, SettleAnswers
  <2>4. CASE Fault("context") /\ Settle(e, d, "context_error") /\ UNCHANGED held
    <3>1. Fails
      BY <2>4 DEF Fails, Fault
    <3> QED
      BY <1>r, <2>2, <2>4, <3>1, SettleAnswers
  <2> QED
    BY <1>r, <2>3, <2>4 DEF ResolveCompiledSet
\* A call fails before it is queued.
<1>s. ASSUME NEW e \in Envs, NEW d \in Calls, NEW k \in Keys, Settle(e, d, "setup_error"),
             Fails, promise[d] = "pending", UNCHANGED <<held, closing>>,
             \A c \in Calls : outcome'[c] = "set" <=> outcome[c] = "set"
      PROVE  Service!Answer(d, k)
  <2>1. "setup_error" \in Promises \ {"pending"}
    BY DEF Promises
  <2> QED
    BY <1>s, <2>1, SettleAnswers
<1>a. ASSUME NEW e \in Envs, NEW d \in Calls, NEW k \in Keys, SetCompileAsync(e, d, k)
      PROVE  Goal
  <2>1. /\ encoded_patterns[d] = None /\ promise[d] = "pending"
        /\ encoded_patterns' = [encoded_patterns EXCEPT ![d] = k]
        /\ UNCHANGED <<outcome, closing>>
    BY <1>a, <1>p
       DEF SetCompileAsync, AnswersInv, AnswerReady, FindCachedSetLocked, ResolveCompiledSet
  <2>2. CASE UNCHANGED <<held, promise>>
    <3>1. /\ {c \in Calls : outcome[c] = "set"}' = {c \in Calls : outcome[c] = "set"}
          /\ [c \in Calls |-> AnswerOf(c)]' = [c \in Calls |-> AnswerOf(c)]
          /\ [c \in Calls |-> IF promise[c] = "resolved" THEN held[c] ELSE None]' =
                 [c \in Calls |-> IF promise[c] = "resolved" THEN held[c] ELSE None]
      BY <2>1, <2>2 DEF AnswerOf
    <3>2. Service!Ask(d, k)
      BY <2>1, <3>1 DEF Service!Ask
    <3> QED
      BY <3>2 DEF Service!Next
  <2>3. CASE Service!Answer(d, k)
    <3>1. Service!Ask(d, k)
      BY <2>1, <2>3 DEF Service!Ask
    <3> QED
      BY <3>1 DEF Service!Next
  <2>4. CASE Fault("setup") /\ Settle(e, d, "setup_error") /\ UNCHANGED held
    <3>1. Fails
      BY <2>4 DEF Fails, Fault
    <3> QED
      BY <1>s, <2>1, <2>3, <2>4, <3>1
  <2>5. ASSUME NEW i \in Cached(k), ResolveCompiledSet(e, d, entries[i].set)
        PROVE  Goal
    BY <1>r, <2>1, <2>3, <2>5
  <2> QED
    BY <1>a, <2>2, <2>4, <2>5 DEF SetCompileAsync
<1>b. ASSUME NEW e \in Envs, NEW d \in Calls, AcquireSetCompilation(e, d)
      PROVE  Goal
  <2>1. /\ stage[d] = "calling" /\ promise[d] = "pending"
        /\ UNCHANGED <<outcome, closing, encoded_patterns>>
    BY <1>b, <1>p
       DEF AcquireSetCompilation, ControlInv, ThreadState, FindCachedSetLocked,
           JoinSetCompilation, CreateSetCompilation
  <2>2. CASE UNCHANGED <<held, promise>>
    BY <2>1, <2>2, Unseen
  <2>4. CASE Fault("setup") /\ Settle(e, d, "setup_error") /\ UNCHANGED held
    <3>1. Fails
      BY <2>4 DEF Fails, Fault
    <3> QED
      BY <1>n, <1>s, <2>1, <2>4, <3>1
  <2>5. ASSUME NEW i \in Cached(encoded_patterns[d]), ResolveCompiledSet(e, d, entries[i].set)
        PROVE  Goal
    BY <1>n, <1>r, <2>1, <2>5
  <2> QED
    BY <1>b, <2>2, <2>4, <2>5 DEF AcquireSetCompilation
<1>d. ASSUME NEW e \in Envs, NEW d \in Calls, QueueWork(e, d)
      PROVE  Goal
  <2>1. /\ stage[d] = "calling" /\ promise[d] = "pending"
        /\ UNCHANGED <<held, closing, encoded_patterns>>
        /\ \A c \in Calls : outcome'[c] = "set" <=> outcome[c] = "set"
    BY <1>d, <1>p, <1>t
       DEF QueueWork, ControlInv, ThreadState, CancelSetCompilation, cacheVars, Done
  <2>2. CASE UNCHANGED promise
    BY <2>1, <2>2, Unseen
  <2>3. CASE Fault("queue") /\ Settle(e, d, "setup_error")
    <3>1. Fails
      BY <2>3 DEF Fails, Fault
    <3> QED
      BY <1>n, <1>s, <2>1, <2>3, <3>1
  <2> QED
    BY <1>d, <2>2, <2>3 DEF QueueWork
<1>f. ASSUME NEW e \in Envs, NEW d \in Calls, SetCompileComplete(e, d)
      PROVE  Goal
  <2>1. /\ stage[d] \in {"cancelled", "completing"} /\ promise[d] = "pending"
        /\ UNCHANGED <<held, closing, encoded_patterns>>
        /\ \A c \in Calls : outcome'[c] = "set" <=> outcome[c] = "set"
    BY <1>f, <1>p, <1>t
       DEF SetCompileComplete, CancelSetCompilation, LeaveRegistry, ReleaseSetCompilation, Done
  <2>2. {"resolved", "cancelled", "pattern_error", "unexpected", "context_error"}
            \subseteq Promises \ {"pending"}
    BY DEF Promises
  <2>3. CASE stage[d] = "cancelled" /\ Settle(e, d, "cancelled")
    <3>1. Fails
      BY <2>3 DEF AnswersInv, AnswerReady
    <3>2. \A k \in Keys : Service!Answer(d, k)
      BY <2>1, <2>2, <2>3, <3>1, SettleAnswers
    <3> QED
      BY <1>n, <2>1, <3>2
  <2>4. CASE stage[d] = "completing" /\ held[d] = None /\ Settle(e, d, Rejection(d))
    <3>1. /\ ticket[d] \in Calls /\ encoded_patterns[ticket[d]] = encoded_patterns[d]
          /\ outcome[ticket[d]] \in {"error", "unexpected"}
      BY <1>t, <2>4
         DEF ControlInv, TicketState, InRegistry, AnswersInv, AnswerReady, Done, Outcomes
    <3>2. CASE outcome[ticket[d]] = "error"
      <4>1. Settle(e, d, "pattern_error") /\ encoded_patterns[d] \in InvalidKeys
        BY <2>4, <3>1, <3>2 DEF Rejection, AnswersInv, AnswerReady
      <4>2. \A k \in Keys : k = encoded_patterns[d] => Service!Answer(d, k)
        BY <2>1, <2>2, <4>1, SettleAnswers
      <4> QED
        BY <1>n, <2>1, <4>2
    <3>3. CASE outcome[ticket[d]] = "unexpected"
      <4>1. Settle(e, d, "unexpected") /\ Fails
        BY <2>4, <3>1, <3>3 DEF Rejection, AnswersInv, AnswerReady
      <4>2. \A k \in Keys : Service!Answer(d, k)
        BY <2>1, <2>2, <4>1, SettleAnswers
      <4> QED
        BY <1>n, <2>1, <4>2
    <3> QED
      BY <3>1, <3>2, <3>3
  <2>5. CASE held[d] # None /\ Settle(e, d, "resolved")
    <3>1. /\ held[d] \in Calls /\ outcome[held[d]] = "set"
          /\ encoded_patterns[held[d]] = encoded_patterns[d]
      BY <1>t, <2>5 DEF SetsInv, HeldSetsAreRight
    <3>2. \A k \in Keys : k = encoded_patterns[d] => Service!Answer(d, k)
      BY <2>1, <2>2, <2>5, <3>1, SettleAnswers
    <3> QED
      BY <1>n, <2>1, <3>2
  <2>6. CASE Fault("context") /\ Settle(e, d, "context_error")
    <3>1. Fails
      BY <2>6 DEF Fails, Fault
    <3>2. \A k \in Keys : Service!Answer(d, k)
      BY <2>1, <2>2, <2>6, <3>1, SettleAnswers
    <3> QED
      BY <1>n, <2>1, <3>2
  <2> QED
    BY <1>f, <2>3, <2>4, <2>5, <2>6 DEF SetCompileComplete
<1>h. ASSUME NEW d \in Calls, RunSetCompilation(d)
      PROVE  Goal
  <2>1. /\ stage[d] = "running" /\ promise[d] = "pending" /\ outcome[d] = "none"
        /\ encoded_patterns[d] \in Keys
        /\ UNCHANGED <<promise, encoded_patterns>>
    BY <1>h, <1>p
       DEF RunSetCompilation, ControlInv, OwnerState, Done, TypeInv, Keyed
  <2>2. PICK result \in CompileResult(encoded_patterns[d]) :
           /\ outcome' = [outcome EXCEPT ![d] = result]
           /\ held' = [held EXCEPT ![d] = CompiledSet(d, result)]
    BY <1>h DEF RunSetCompilation, PublishSetCompilation
  <2>3. \A c \in Calls : promise[c] = "resolved" => held'[c] = held[c]
    BY <1>t, <2>1, <2>2
  <2>4. CASE result = "set"
    <3>1. encoded_patterns[d] \in Keys \ InvalidKeys
      BY <2>1, <2>2, <2>4 DEF CompileResult
    <3>2. {c \in Calls : outcome[c] = "set"}' = {c \in Calls : outcome[c] = "set"} \cup {d}
      BY <1>t, <2>2, <2>4
    <3>3. /\ d \notin {c \in Calls : outcome[c] = "set"}
          /\ [c \in Calls |-> AnswerOf(c)][d] = "none"
      BY <2>1 DEF AnswerOf
    <3>4. /\ [c \in Calls |-> AnswerOf(c)]' = [c \in Calls |-> AnswerOf(c)]
          /\ [c \in Calls |-> IF promise[c] = "resolved" THEN held[c] ELSE None]' =
                 [c \in Calls |-> IF promise[c] = "resolved" THEN held[c] ELSE None]
      BY <2>1, <2>3 DEF AnswerOf
    <3>5. Service!Compile(d)
      BY <2>1, <3>1, <3>2, <3>3, <3>4 DEF Service!Compile
    <3> QED
      BY <3>5 DEF Service!Next
  <2>5. CASE result # "set"
    BY <1>t, <2>1, <2>2, <2>3, <2>5, Unseen
  <2> QED
    BY <2>4, <2>5
<1>i. ASSUME NEW d \in Calls, WaitForSetCompilation(d)
      PROVE  Goal
  <2>1. /\ UNCHANGED <<outcome, promise, encoded_patterns>> /\ promise[d] = "pending"
        /\ \A c \in Calls \ {d} : held'[c] = held[c]
    BY <1>i, <1>p, <1>t DEF WaitForSetCompilation, cacheVars
  <2> QED
    BY <2>1, Unseen
<1>z. CASE UNCHANGED <<encoded_patterns, outcome, held, promise>>
  BY <1>z, Unseen
<1> QED
  BY <1>a, <1>b, <1>d, <1>f, <1>h, <1>i, <1>z, BlockFrame
     DEF Next, JsStep, PoolStep, Quiescent, Blocks, vars, cacheVars, callVars, WaitOwnerQueued,
         MarkQueued, MarkSetCompilationQueued, StartWork, FinishWork, CancelWork, TerminateEnv

\* The registry, the pool and the loops together keep the promise of compileAsync:
\* each call is answered once, with a set compiled from its own patterns, refused
\* only if RE2 refuses them, and nothing is compiled for a call already answered.
THEOREM CompileKeepsItsPromise == Spec => ImplementsService
<1>1. Init => Service!Init /\ AnswersInv
  <2> SUFFICES ASSUME Init PROVE Service!Init /\ AnswersInv
    OBVIOUS
  <2>1. {c \in Calls : outcome[c] = "set"} = {}
    BY DEF Init, CacheInit
  <2>2. [c \in Calls |-> AnswerOf(c)] = [c \in Calls |-> "none"]
    BY DEF Init, AnswerOf
  <2>3. [c \in Calls |-> IF promise[c] = "resolved" THEN held[c] ELSE None] =
            [c \in Calls |-> None]
    BY DEF Init
  <2>4. encoded_patterns = [c \in Calls |-> None]
    BY DEF Init, CacheInit
  <2>5. AnswersInv
    BY DEF Init, CacheInit, AnswersInv, AnswerReady
  <2> QED
    BY <2>1, <2>2, <2>3, <2>4, <2>5 DEF Service!Init
<1>2. TypeInv /\ ControlInv /\ SetsInv /\ AnswersInv /\ [Next]_vars => AnswersInv'
  BY AnswersNext
<1>3. TypeInv /\ ControlInv /\ SetsInv /\ AnswersInv /\ [Next]_vars
      => [Service!Next]_(Service!serviceVars)
  BY ServiceStep
<1> QED
  BY <1>1, <1>2, <1>3, SetsCorrect, PTL DEF Spec, ImplementsService, Service!Spec
=============================================================================
