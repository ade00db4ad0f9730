------------------------- MODULE ParallelForProofs --------------------------
(***************************************************************************)
(* Theorems about ParallelFor for every machine, every number of           *)
(* concurrent calls and every request: types, the submission lock, and     *)
(* that ParallelFor implements ForEach.                                    *)
(***************************************************************************)
EXTENDS ParallelFor, ArgumentFacts

-----------------------------------------------------------------------------
(* The inductive invariant.                                                *)

TypeInv ==
    /\ pc \in [Batches -> PcValues]
    /\ request \in [Batches -> Requests \cup {None}]
    /\ lock \in Batches \cup {None}
    /\ team \in [Batches -> 0 .. MaxBatchParallelism]
    /\ dispensed \in [Batches -> Nat]
    /\ phase \in [Batches -> [Workers -> Phases]]
    /\ chunk \in [Batches -> [Workers -> Nat]]
    /\ cursor \in [Batches -> [Workers -> Nat]]
    /\ stopped \in [Batches -> BOOLEAN]
    /\ error \in [Batches -> Indices \cup {None}]
    /\ aware \in [Batches -> SUBSET Workers]
    /\ visits \in [Batches -> [Indices -> Nat]]
    /\ raised \in [Batches -> SUBSET Indices]

\* A call has a team exactly while it holds the lock.
ControlOk(s) ==
    /\ request[s] = None <=> pc[s] = "idle"
    /\ pc[s] \in {"lock", "team", "observe"} => Plan(s).thread_count > 1
    /\ team[s] > 0 <=> pc[s] \in {"team", "observe"}
    /\ lock = s <=> pc[s] \in {"team", "observe"}
    /\ team[s] > 0 => team[s] <= Plan(s).thread_count
    /\ \A t \in Workers : phase[s][t] # "done" => pc[s] = "team" /\ t <= team[s]
    /\ s \in Observers => pc[s] \notin {"team", "alone", "unwind", "threw"}
    /\ s \notin Observers => pc[s] # "observe"

ControlInv == \A s \in Batches : ControlOk(s)

\* Nothing has happened before the loop.
UntouchedOk(s) ==
    pc[s] \in {"idle", "lock"} =>
        /\ dispensed[s] = 0 /\ cursor[s] = [t \in Workers |-> 0]
        /\ ~stopped[s] /\ error[s] = None
        /\ visits[s] = [i \in Indices |-> 0] /\ raised[s] = {}

First(s, b) == Begin(Plan(s), b)
Behind(s, b) == End(Plan(s), request[s].size, b)
InChunk(s, b, i) == First(s, b) <= i /\ i < Behind(s, b)

Holding(s, t) == phase[s][t] \in {"check", "run", "caught", "record"}

\* Threads hold different chunks, all handed out, and stay within them.
ChunksOk(s) ==
    pc[s] = "team" =>
        /\ dispensed[s] <= Plan(s).work_count
        /\ \A t \in Workers : Holding(s, t) => chunk[s][t] < dispensed[s]
        /\ \A t, u \in Workers :
              Holding(s, t) /\ Holding(s, u) /\ t # u => chunk[s][t] # chunk[s][u]
        /\ \A t \in Workers :
              phase[s][t] \in {"run", "caught", "record"} =>
                  InChunk(s, chunk[s][t], cursor[s][t])
        /\ \A t \in Workers : t <= team[s] /\ phase[s][t] = "done" =>
              dispensed[s] = Plan(s).work_count

\* Chunks not handed out.
Unfetched(s) == dispensed[s] .. Plan(s).work_count - 1

\* Thread t still has to visit input i.
Ahead(s, t, i) ==
    /\ InChunk(s, chunk[s][t], i)
    /\ phase[s][t] \in {"check", "run"}
    /\ phase[s][t] = "run" => cursor[s][t] <= i

\* What is ahead of a thread or not handed out is not visited; without an error the
\* rest is.
VisitsOk(s) ==
    pc[s] = "team" =>
        /\ \A i \in Indices : i < request[s].size =>
              /\ \A t \in Workers : Ahead(s, t, i) => visits[s][i] = 0
              /\ \A b \in Unfetched(s) : InChunk(s, b, i) => visits[s][i] = 0
              /\ \/ raised[s] # {}
                 \/ visits[s][i] = 1
                 \/ \E t \in Workers : Ahead(s, t, i)
                 \/ \E b \in Unfetched(s) : InChunk(s, b, i)

\* The flag is set by a thread whose input threw, and the error is of such an input.
ErrorsOk(s) ==
    /\ error[s] # None => error[s] \in raised[s]
    /\ pc[s] = "team" =>
        /\ stopped[s] => raised[s] # {}
        /\ \A t \in Workers :
              phase[s][t] \in {"caught", "record"} => cursor[s][t] \in raised[s]
        /\ raised[s] # {} => stopped[s] \/ \E t \in Workers : phase[s][t] = "caught"
        /\ stopped[s] =>
              error[s] # None \/ \E t \in Workers : phase[s][t] = "record"

\* A call without a team visits its inputs in order.
AloneOk(s) ==
    /\ pc[s] = "alone" =>
        /\ cursor[s][1] <= request[s].size
        /\ \A i \in Indices : visits[s][i] = IF i < cursor[s][1] THEN 1 ELSE 0
        /\ raised[s] = {} /\ error[s] = None
    /\ pc[s] \in {"unwind", "threw"} => error[s] # None

CallOk(s) == UntouchedOk(s) /\ ChunksOk(s) /\ VisitsOk(s) /\ ErrorsOk(s) /\ AloneOk(s)

CallInv == \A s \in Batches : CallOk(s)

IInv == TypeInv /\ ControlInv /\ CallInv

-----------------------------------------------------------------------------
(* Constants, requests and chunks.                                         *)

LEMMA ConstantFacts ==
    /\ MaxBatchParallelism \in Nat \ {0} /\ 1 \in Workers /\ Workers \subseteq Nat \ {0}
    /\ kMaxBatchInputCount \in Nat /\ Indices \subseteq Nat
    /\ None \notin Batches /\ None \notin Indices
BY ParallelismFacts, RequestsAssumption DEF Workers, Indices

LEMMA RequestFacts ==
    ASSUME NEW r \in Requests
    PROVE  /\ r.size \in SizeT /\ r.total_bytes \in SizeT /\ r.batch_size \in SizeT
           /\ r.size \in Nat /\ r.size <= kMaxBatchInputCount
           /\ r # None
<1>1. r \in [size: 0 .. kMaxBatchInputCount, total_bytes: SizeT, batch_size: SizeT]
  BY RequestsAssumption
<1>2. 0 .. kMaxBatchInputCount \subseteq SizeT
  BY RequestsAssumption, PlanAssumption DEF SizeT
<1>3. kMaxBatchInputCount \in Nat /\ r # None
  BY RequestsAssumption
<1>4. r.size \in 0 .. kMaxBatchInputCount /\ r.total_bytes \in SizeT /\ r.batch_size \in SizeT
  BY <1>1
<1> QED
  BY <1>2, <1>3, <1>4

LEMMA PlanOf ==
    ASSUME NEW s \in Batches, request[s] \in Requests
    PROVE  /\ Plan(s).work_count \in Nat
           /\ Plan(s).thread_count \in Nat
           /\ Plan(s).thread_count <= MaxBatchParallelism
           /\ Plan(s).thread_count > 1 => OpenMp /\ request[s].batch_size < request[s].size
<1>1. /\ request[s].size \in SizeT /\ request[s].total_bytes \in SizeT
      /\ request[s].batch_size \in SizeT
  BY RequestFacts
<1>2. Plan(s) \in BatchPlan /\ Plan(s).thread_count <= MaxBatchParallelism
  BY <1>1, PlanFacts DEF Plan
<1>3. Plan(s).thread_count > 1 => OpenMp /\ request[s].batch_size < request[s].size
  BY <1>1, ParallelPlans DEF Plan
<1> QED
  BY <1>2, <1>3, PlanAssumption DEF BatchPlan, SizeT

\* What the chunks of a call are.
LEMMA ChunksOfPlan ==
    ASSUME NEW s \in Batches, request[s] \in Requests
    PROVE  /\ \A b \in 0 .. Plan(s).work_count - 1 :
                 /\ First(s, b) \in Nat /\ Behind(s, b) \in Nat
                 /\ First(s, b) < Behind(s, b) /\ Behind(s, b) <= request[s].size
                 /\ Behind(s, b) <= kMaxBatchInputCount
           /\ \A i \in Indices : i < request[s].size =>
                 \E b \in 0 .. Plan(s).work_count - 1 : InChunk(s, b, i)
           /\ \A i \in Indices : \A b, d \in 0 .. Plan(s).work_count - 1 :
                 InChunk(s, b, i) /\ InChunk(s, d, i) => b = d
<1>1. /\ request[s].size \in SizeT /\ request[s].total_bytes \in SizeT
      /\ request[s].batch_size \in SizeT /\ request[s].size \in Nat
      /\ request[s].size <= kMaxBatchInputCount
  BY RequestFacts
<1>2. /\ \A b \in 0 .. Plan(s).work_count - 1 :
            /\ First(s, b) \in Nat /\ Behind(s, b) \in Nat
            /\ First(s, b) < Behind(s, b) /\ Behind(s, b) <= request[s].size
      /\ \A i \in 0 .. request[s].size - 1 : \E b \in 0 .. Plan(s).work_count - 1 :
            /\ InChunk(s, b, i)
            /\ \A d \in 0 .. Plan(s).work_count - 1 : InChunk(s, d, i) => d = b
  BY <1>1, PlanChunks DEF Plan, First, Behind, InChunk
<1>3. \A i \in Indices : i < request[s].size => i \in 0 .. request[s].size - 1
  BY <1>1, ConstantFacts DEF Indices
<1>4. ASSUME NEW i \in Indices, NEW b \in 0 .. Plan(s).work_count - 1, InChunk(s, b, i)
      PROVE  i < request[s].size
  BY <1>1, <1>2, <1>4, ConstantFacts DEF InChunk
<1>5. \A b \in 0 .. Plan(s).work_count - 1 : Behind(s, b) <= kMaxBatchInputCount
  BY <1>1, <1>2, ConstantFacts
<1> QED
  BY <1>2, <1>3, <1>4, <1>5

\* A thread at work belongs to a call in the loop, and its input to its chunk.
LEMMA CursorFacts ==
    ASSUME NEW s \in Batches, NEW t \in Workers, TypeInv, ControlOk(s), ChunksOk(s),
           Holding(s, t)
    PROVE  /\ pc[s] = "team" /\ request[s] \in Requests
           /\ chunk[s][t] \in 0 .. Plan(s).work_count - 1
           /\ phase[s][t] # "check" =>
                 /\ cursor[s][t] \in Indices /\ cursor[s][t] < request[s].size
                 /\ InChunk(s, chunk[s][t], cursor[s][t])
<1>1. pc[s] = "team" /\ request[s] \in Requests
  BY DEF Holding, ControlOk, TypeInv
<1>2. chunk[s][t] \in 0 .. Plan(s).work_count - 1
  BY <1>1, PlanOf DEF ChunksOk, TypeInv
<1>3. ASSUME phase[s][t] # "check"
      PROVE  InChunk(s, chunk[s][t], cursor[s][t])
  BY <1>1, <1>3 DEF ChunksOk, Holding
<1>4. ASSUME phase[s][t] # "check"
      PROVE  cursor[s][t] \in Indices /\ cursor[s][t] < request[s].size
  <2>1. cursor[s][t] \in Nat
    BY DEF TypeInv
  <2> QED
    BY <1>1, <1>2, <1>3, <1>4, <2>1, ChunksOfPlan, RequestFacts, ConstantFacts
    DEF InChunk, Indices
<1> QED
  BY <1>1, <1>2, <1>3, <1>4

-----------------------------------------------------------------------------
(* Types.                                                                  *)

\* Writing one entry of a table keeps the type of the table.
LEMMA EntryType ==
    ASSUME NEW S, NEW T, NEW V, NEW f \in [S -> [T -> V]], NEW s \in S, NEW t \in T, NEW v \in V
    PROVE  [f EXCEPT ![s][t] = v] \in [S -> [T -> V]]
OBVIOUS

LEMMA ToType ==
    ASSUME TypeInv, NEW s \in Batches, NEW t \in Workers, NEW next \in Phases, To(s, t, next)
    PROVE  phase' \in [Batches -> [Workers -> Phases]]
BY EntryType DEF To, TypeInv

LEMMA ApplyType ==
    ASSUME TypeInv, NEW s \in Batches, NEW i \in Indices, NEW throws \in BOOLEAN,
           Apply(s, i, throws)
    PROVE  /\ visits' \in [Batches -> [Indices -> Nat]]
           /\ raised' \in [Batches -> SUBSET Indices]
<1>1. visits[s][i] + 1 \in Nat
  BY DEF TypeInv
<1>2. visits' \in [Batches -> [Indices -> Nat]]
  BY <1>1, EntryType DEF Apply, TypeInv
<1>3. raised' \in [Batches -> SUBSET Indices]
  <2>1. raised[s] \cup {i} \in SUBSET Indices
    BY DEF TypeInv
  <2> QED
    BY <2>1 DEF Apply, TypeInv
<1> QED
  BY <1>2, <1>3

LEMMA InitOk == Init => IInv
<1> SUFFICES ASSUME Init PROVE IInv
  OBVIOUS
<1>1. TypeInv
  BY ConstantFacts DEF Init, TypeInv, PcValues, Phases
<1>2. ControlInv
  BY ConstantFacts DEF Init, ControlInv, ControlOk
<1>3. CallInv
  BY DEF Init, CallInv, CallOk, UntouchedOk, ChunksOk, VisitsOk, ErrorsOk, AloneOk
<1> QED
  BY <1>1, <1>2, <1>3 DEF IInv

LEMMA TypeStep == IInv /\ [Next]_vars => TypeInv'
<1> SUFFICES ASSUME IInv, [Next]_vars PROVE TypeInv'
  OBVIOUS
<1> USE DEF PcValues, Phases
<1>0. TypeInv /\ ControlInv /\ CallInv
  BY DEF IInv
<1>1. ASSUME NEW s \in Batches, NEW r \in Requests, Start(s, r) PROVE TypeInv'
  BY <1>0, <1>1 DEF Start, TypeInv
<1>2. ASSUME NEW s \in Batches, NEW n \in Workers, OpenTeam(s, n) PROVE TypeInv'
  <2>1. n \in 0 .. MaxBatchParallelism
    BY ConstantFacts DEF Workers
  <2> QED
    <3>1. phase' \in [Batches -> [Workers -> Phases]] /\ pc' \in [Batches -> PcValues]
      <4>1. [t \in Workers |-> IF t <= n THEN "fetch" ELSE "done"] \in [Workers -> Phases]
        OBVIOUS
      <4> QED
        BY <1>0, <1>2, <4>1 DEF OpenTeam, TypeInv
    <3>2. lock' \in Batches \cup {None} /\ team' \in [Batches -> 0 .. MaxBatchParallelism]
      BY <1>0, <1>2, <2>1 DEF OpenTeam, TypeInv
    <3> QED
      BY <1>0, <1>2, <3>1, <3>2 DEF OpenTeam, TypeInv
<1>3. ASSUME NEW s \in Batches, CloseTeam(s) PROVE TypeInv'
  BY <1>0, <1>3, ConstantFacts DEF CloseTeam, ReleaseSubmission, TypeInv
<1>4. ASSUME NEW s \in Batches, CloseObserve(s) PROVE TypeInv'
  BY <1>0, <1>4, ConstantFacts DEF CloseObserve, ReleaseSubmission, TypeInv
<1>5. ASSUME NEW s \in Batches, RunAlone(s) PROVE TypeInv'
  <2>1. request[s] \in Requests /\ cursor[s][1] \in Nat
    BY <1>0, <1>5, ConstantFacts DEF RunAlone, ControlInv, ControlOk, TypeInv
  <2>2. cursor[s][1] < request[s].size => cursor[s][1] \in Indices
    BY <2>1, RequestFacts, ConstantFacts DEF Indices
  <2> QED
    <3>1. pc' \in [Batches -> PcValues] /\ error' \in [Batches -> Indices \cup {None}]
      BY <1>0, <1>5, <2>2 DEF RunAlone, TypeInv
    <3>2. cursor' \in [Batches -> [Workers -> Nat]]
      <4>1. [cursor EXCEPT ![s][1] = cursor[s][1] + 1] \in [Batches -> [Workers -> Nat]]
        BY <1>0, <2>1, EntryType, ConstantFacts DEF TypeInv
      <4> QED
        BY <1>0, <1>5, <4>1 DEF RunAlone, TypeInv
    <3>3. visits' \in [Batches -> [Indices -> Nat]] /\ raised' \in [Batches -> SUBSET Indices]
      BY <1>0, <1>5, <2>2, ApplyType DEF RunAlone, TypeInv
    <3> QED
      BY <1>0, <1>5, <3>1, <3>2, <3>3 DEF RunAlone, TypeInv
<1>6. ASSUME NEW s \in Batches, Unwind(s) PROVE TypeInv'
  BY <1>0, <1>6 DEF Unwind, TypeInv
<1>7. ASSUME NEW s \in Batches, NEW t \in Workers, FetchChunk(s, t) PROVE TypeInv'
  <2>1. phase' \in [Batches -> [Workers -> Phases]]
    BY <1>0, <1>7, ToType DEF FetchChunk
  <2>2. chunk' \in [Batches -> [Workers -> Nat]] /\ dispensed' \in [Batches -> Nat]
    <3>1. /\ dispensed[s] \in Nat /\ dispensed[s] + 1 \in Nat
          /\ [chunk EXCEPT ![s][t] = dispensed[s]] \in [Batches -> [Workers -> Nat]]
      BY <1>0, EntryType DEF TypeInv
    <3> QED
      BY <1>0, <1>7, <3>1 DEF FetchChunk, TypeInv
  <2> QED
    BY <1>0, <1>7, <2>1, <2>2 DEF FetchChunk, TypeInv
<1>8. ASSUME NEW s \in Batches, NEW t \in Workers, CheckStopped(s, t) PROVE TypeInv'
  <2>1. First(s, chunk[s][t]) \in Nat
    <3>1. Holding(s, t) /\ ControlOk(s) /\ ChunksOk(s)
      BY <1>0, <1>8 DEF CheckStopped, Holding, ControlInv, CallInv, CallOk
    <3> QED
      BY <1>0, <3>1, CursorFacts, ChunksOfPlan
  <2> QED
    <3>1. phase' \in [Batches -> [Workers -> Phases]]
      BY <1>0, <1>8, ToType DEF CheckStopped
    <3>2. cursor' \in [Batches -> [Workers -> Nat]]
      <4>1. [cursor EXCEPT ![s][t] = First(s, chunk[s][t])] \in [Batches -> [Workers -> Nat]]
        BY <1>0, <2>1, EntryType DEF TypeInv
      <4> QED
        BY <1>0, <1>8, <4>1 DEF CheckStopped, TypeInv, First
    <3>3. aware' \in [Batches -> SUBSET Workers]
      <4>1. aware[s] \cup {t} \in SUBSET Workers
        BY <1>0 DEF TypeInv
      <4> QED
        BY <1>0, <1>8, <4>1 DEF CheckStopped, TypeInv
    <3> QED
      BY <1>0, <1>8, <3>1, <3>2, <3>3 DEF CheckStopped, TypeInv
<1>9. ASSUME NEW s \in Batches, NEW t \in Workers, VisitInput(s, t) PROVE TypeInv'
  <2>1. cursor[s][t] \in Indices /\ cursor[s][t] \in Nat
    <3>1. Holding(s, t) /\ phase[s][t] = "run" /\ ControlOk(s) /\ ChunksOk(s)
      BY <1>0, <1>9 DEF VisitInput, Holding, ControlInv, CallInv, CallOk
    <3> QED
      BY <1>0, <3>1, CursorFacts DEF TypeInv
  <2> QED
    <3>1. phase' \in [Batches -> [Workers -> Phases]]
      BY <1>0, <1>9, ToType DEF VisitInput, TypeInv
    <3>2. cursor' \in [Batches -> [Workers -> Nat]]
      <4>1. [cursor EXCEPT ![s][t] = cursor[s][t] + 1] \in [Batches -> [Workers -> Nat]]
        BY <1>0, <2>1, EntryType DEF TypeInv
      <4> QED
        BY <1>0, <1>9, <4>1 DEF VisitInput, TypeInv
    <3>3. visits' \in [Batches -> [Indices -> Nat]] /\ raised' \in [Batches -> SUBSET Indices]
      BY <1>0, <1>9, <2>1, ApplyType DEF VisitInput
    <3> QED
      BY <1>0, <1>9, <3>1, <3>2, <3>3 DEF VisitInput, TypeInv
<1>10. ASSUME NEW s \in Batches, NEW t \in Workers, CatchError(s, t) PROVE TypeInv'
  BY <1>0, <1>10 DEF CatchError, To, TypeInv
<1>11. ASSUME NEW s \in Batches, NEW t \in Workers, RecordError(s, t) PROVE TypeInv'
  <2>1. cursor[s][t] \in Indices
    <3>1. Holding(s, t) /\ phase[s][t] = "record" /\ ControlOk(s) /\ ChunksOk(s)
      BY <1>0, <1>11 DEF RecordError, Holding, ControlInv, CallInv, CallOk
    <3> QED
      BY <1>0, <3>1, CursorFacts
  <2> QED
    BY <1>0, <1>11, <2>1 DEF RecordError, To, TypeInv
<1>12. CASE UNCHANGED vars
  BY <1>0, <1>12 DEF vars, TypeInv
<1> QED
  BY <1>1, <1>2, <1>3, <1>4, <1>5, <1>6, <1>7, <1>8, <1>9, <1>10, <1>11, <1>12
  DEF Next, CallerStep, WorkerStep, Finished

-----------------------------------------------------------------------------
(* Calls, teams and the lock.                                              *)

\* A call whose control state does not change keeps its part of the invariant.
LEMMA ControlFrame ==
    ASSUME NEW u \in Batches, ControlOk(u), pc'[u] = pc[u], request'[u] = request[u],
           team'[u] = team[u], phase'[u] = phase[u], lock' = u <=> lock = u
    PROVE  ControlOk(u)'
BY DEF ControlOk, Plan

LEMMA ControlStep == IInv /\ [Next]_vars => ControlInv'
<1> SUFFICES ASSUME IInv, [Next]_vars PROVE ControlInv'
  OBVIOUS
<1>0. TypeInv /\ ControlInv /\ CallInv
  BY DEF IInv
<1>1. ASSUME NEW s \in Batches, NEW r \in Requests, Start(s, r) PROVE ControlInv'
  <2>1. ControlOk(s)'
    <3>1. /\ request'[s] = r /\ r # None
          /\ pc'[s] \in {"lock", "returned", "alone"}
          /\ pc'[s] = "lock" => MakeBatchPlan(r.size, r.total_bytes, r.batch_size).thread_count > 1
          /\ s \in Observers => pc'[s] # "alone"
      BY <1>0, <1>1, RequestFacts DEF Start, TypeInv
    <3>2. /\ team'[s] = team[s] /\ phase'[s] = phase[s] /\ lock' = lock /\ pc[s] = "idle"
          /\ ~(team[s] > 0) /\ lock # s /\ \A t \in Workers : phase[s][t] = "done"
      BY <1>0, <1>1 DEF Start, ControlInv, ControlOk
    <3> QED
      BY <3>1, <3>2 DEF ControlOk, Plan
  <2>2. ASSUME NEW u \in Batches, u # s PROVE ControlOk(u)'
    BY <1>0, <1>1, <2>2, ControlFrame DEF Start, ControlInv, TypeInv
  <2> QED
    BY <2>1, <2>2 DEF ControlInv
<1>2. ASSUME NEW s \in Batches, NEW n \in Workers, OpenTeam(s, n) PROVE ControlInv'
  <2>1. ControlOk(s)'
    <3>1. /\ pc[s] = "lock" /\ request'[s] = request[s] /\ request[s] # None
          /\ Plan(s).thread_count > 1 /\ Plan(s)' = Plan(s)
          /\ \A t \in Workers : phase[s][t] = "done"
      BY <1>0, <1>2 DEF OpenTeam, ControlInv, ControlOk, Plan
    <3>2. n \in Nat /\ n > 0 /\ n <= Plan(s).thread_count
      BY <1>2, ConstantFacts DEF OpenTeam
    <3>3. lock' = s /\ team'[s] = n
      BY <1>0, <1>2 DEF OpenTeam, TypeInv
    <3>4. CASE s \in Observers
      <4>1. pc'[s] = "observe" /\ phase' = phase
        BY <1>0, <1>2, <3>4 DEF OpenTeam, TypeInv
      <4> QED
        BY <3>1, <3>2, <3>3, <3>4, <4>1 DEF ControlOk
    <3>5. CASE s \notin Observers
      <4>1. /\ pc'[s] = "team"
            /\ phase'[s] = [t \in Workers |-> IF t <= n THEN "fetch" ELSE "done"]
        BY <1>0, <1>2, <3>5 DEF OpenTeam, TypeInv
      <4> QED
        BY <3>1, <3>2, <3>3, <3>5, <4>1 DEF ControlOk
    <3> QED
      BY <3>4, <3>5
  <2>2. ASSUME NEW u \in Batches, u # s PROVE ControlOk(u)'
    <3>1. /\ pc'[u] = pc[u] /\ request'[u] = request[u] /\ team'[u] = team[u]
          /\ phase'[u] = phase[u] /\ lock' = s
      BY <1>0, <1>2, <2>2 DEF OpenTeam, TypeInv
    <3>2. lock # u
      BY <1>2, ConstantFacts DEF OpenTeam, SubmissionFree
    <3> QED
      BY <1>0, <2>2, <3>1, <3>2, ControlFrame DEF ControlInv
  <2> QED
    BY <2>1, <2>2 DEF ControlInv
<1>3. ASSUME NEW s \in Batches, CloseTeam(s) \/ CloseObserve(s) PROVE ControlInv'
  <2>1. /\ pc[s] \in {"team", "observe"} /\ pc'[s] \in {"returned", "threw"}
        /\ pc[s] = "observe" => pc'[s] = "returned"
        /\ team'[s] = 0 /\ lock' = None /\ request' = request /\ phase' = phase
        /\ \A t \in Workers : phase[s][t] = "done"
        /\ \A u \in Batches \ {s} : pc'[u] = pc[u] /\ team'[u] = team[u]
    BY <1>0, <1>3 DEF CloseTeam, CloseObserve, ReleaseSubmission, TeamDone, TypeInv,
                      ControlInv, ControlOk
  <2>2. ControlOk(s)'
    BY <1>0, <2>1, ConstantFacts DEF ControlInv, ControlOk
  <2>3. ASSUME NEW u \in Batches, u # s PROVE ControlOk(u)'
    <3>1. lock = s /\ lock' # u
      BY <1>0, <2>1, ConstantFacts DEF ControlInv, ControlOk
    <3> QED
      BY <1>0, <2>1, <2>3, <3>1, ControlFrame DEF ControlInv
  <2> QED
    BY <2>2, <2>3 DEF ControlInv
<1>4. ASSUME NEW s \in Batches, RunAlone(s) \/ Unwind(s) PROVE ControlInv'
  <2>1. /\ pc[s] \in {"alone", "unwind"}
        /\ pc'[s] \in {"alone", "unwind", "returned", "threw"}
        /\ team' = team /\ lock' = lock /\ request' = request /\ phase' = phase
        /\ \A u \in Batches \ {s} : pc'[u] = pc[u]
    BY <1>0, <1>4 DEF RunAlone, Unwind, TypeInv
  <2>2. ControlOk(s)'
    BY <1>0, <2>1 DEF ControlInv, ControlOk
  <2>3. ASSUME NEW u \in Batches, u # s PROVE ControlOk(u)'
    BY <1>0, <2>1, <2>3, ControlFrame DEF ControlInv
  <2> QED
    BY <2>2, <2>3 DEF ControlInv
<1>5. ASSUME NEW s \in Batches, NEW t \in Workers, WorkerStep(s, t) PROVE ControlInv'
  <2>1. /\ pc' = pc /\ team' = team /\ lock' = lock /\ request' = request
        /\ phase[s][t] # "done"
        /\ \A u \in Batches, v \in Workers : u # s \/ v # t => phase'[u][v] = phase[u][v]
    <3>1. CASE FetchChunk(s, t)
      BY <1>0, <3>1 DEF FetchChunk, To, TypeInv
    <3>2. CASE CheckStopped(s, t)
      BY <1>0, <3>2 DEF CheckStopped, To, TypeInv
    <3>3. CASE VisitInput(s, t)
      <4>1. /\ pc' = pc /\ team' = team /\ lock' = lock /\ request' = request
            /\ phase[s][t] = "run"
        BY <3>3 DEF VisitInput
      <4>2. \/ phase' = phase
            \/ phase' = [phase EXCEPT ![s][t] = "fetch"]
            \/ phase' = [phase EXCEPT ![s][t] = "caught"]
        BY <3>3 DEF VisitInput, To
      <4> QED
        BY <1>0, <4>1, <4>2 DEF TypeInv
    <3>4. CASE CatchError(s, t)
      BY <1>0, <3>4 DEF CatchError, To, TypeInv
    <3>5. CASE RecordError(s, t)
      BY <1>0, <3>5 DEF RecordError, To, TypeInv
    <3> QED
      BY <1>5, <3>1, <3>2, <3>3, <3>4, <3>5 DEF WorkerStep
  <2>2. pc[s] = "team" /\ t <= team[s]
    BY <1>0, <2>1 DEF ControlInv, ControlOk
  <2>3. ASSUME NEW u \in Batches PROVE ControlOk(u)'
    <3>1. ControlOk(u) /\ Plan(u)' = Plan(u)
      BY <1>0, <2>1 DEF ControlInv, Plan
    <3>2. \A v \in Workers : phase'[u][v] # "done" => pc'[u] = "team" /\ v <= team'[u]
      BY <2>1, <2>2, <3>1 DEF ControlOk
    <3> QED
      BY <2>1, <3>1, <3>2 DEF ControlOk
  <2> QED
    BY <2>3 DEF ControlInv
<1>6. CASE UNCHANGED vars
  BY <1>0, <1>6, ControlFrame DEF vars, ControlInv
<1> QED
  BY <1>1, <1>2, <1>3, <1>4, <1>5, <1>6 DEF Next, CallerStep, Finished

-----------------------------------------------------------------------------
(* Chunks, visits and errors.                                              *)

\* A call none of whose variables changes keeps its part of the invariant.
LEMMA CallFrame ==
    ASSUME NEW u \in Batches, CallOk(u), pc'[u] = pc[u], request'[u] = request[u],
           team'[u] = team[u], dispensed'[u] = dispensed[u], phase'[u] = phase[u],
           chunk'[u] = chunk[u], cursor'[u] = cursor[u], stopped'[u] = stopped[u],
           error'[u] = error[u], visits'[u] = visits[u], raised'[u] = raised[u]
    PROVE  CallOk(u)'
<1>1. Plan(u)' = Plan(u)
  BY DEF Plan
<1>2. UntouchedOk(u)' /\ AloneOk(u)' /\ ErrorsOk(u)'
  BY DEF CallOk, UntouchedOk, AloneOk, ErrorsOk
<1>3. /\ Unfetched(u)' = Unfetched(u)
      /\ \A b, i : InChunk(u, b, i)' <=> InChunk(u, b, i)
      /\ \A t : Holding(u, t)' <=> Holding(u, t)
  BY <1>1 DEF Unfetched, InChunk, First, Behind, Holding
<1>4. \A t, i : Ahead(u, t, i)' <=> Ahead(u, t, i)
  BY <1>1 DEF Ahead, InChunk, First, Behind
<1>5. ChunksOk(u)'
  <2>1. \A t \in Workers : InChunk(u, chunk[u][t], cursor[u][t]) =>
                              InChunk(u, chunk[u][t], cursor[u][t])'
    BY <1>1 DEF InChunk, First, Behind
  <2> QED
    BY <1>1, <1>3, <2>1 DEF CallOk, ChunksOk
<1>6. VisitsOk(u)'
  BY <1>3, <1>4 DEF CallOk, VisitsOk
<1> QED
  BY <1>2, <1>5, <1>6 DEF CallOk

\* The steps of the calling thread.
LEMMA CallerKeeps ==
    ASSUME NEW s \in Batches, TypeInv, ControlOk(s), CallOk(s),
           \/ \E r \in Requests : Start(s, r)
           \/ CallerStep(s)
    PROVE  CallOk(s)'
<1>1. ASSUME NEW r \in Requests, Start(s, r) PROVE CallOk(s)'
  <2>1. /\ pc'[s] \in {"lock", "returned", "alone"} /\ pc[s] = "idle"
        /\ request'[s] = r
        /\ dispensed'[s] = dispensed[s] /\ cursor'[s] = cursor[s] /\ stopped'[s] = stopped[s]
        /\ error'[s] = error[s] /\ visits'[s] = visits[s] /\ raised'[s] = raised[s]
    BY <1>1 DEF Start, TypeInv
  <2>2. r.size \in Nat
    BY RequestFacts
  <2>3. /\ cursor[s] = [t \in Workers |-> 0] /\ error[s] = None
        /\ visits[s] = [i \in Indices |-> 0] /\ raised[s] = {}
        /\ dispensed[s] = 0 /\ ~stopped[s]
    BY <2>1 DEF CallOk, UntouchedOk
  <2>4. cursor[s][1] = 0 /\ \A i \in Indices : visits[s][i] = 0 /\ ~(i < 0)
    <3>1. cursor[s][1] = 0 /\ \A i \in Indices : visits[s][i] = 0
      BY <2>3, ConstantFacts
    <3>2. \A i \in Indices : ~(i < 0)
      BY ConstantFacts
    <3> QED
      BY <3>1, <3>2
  <2> QED
    BY <2>1, <2>2, <2>3, <2>4
    DEF CallOk, UntouchedOk, ChunksOk, VisitsOk, ErrorsOk, AloneOk
<1>2. ASSUME NEW n \in Workers, OpenTeam(s, n) PROVE CallOk(s)'
  <2>1. /\ pc[s] = "lock" /\ pc'[s] \in {"observe", "team"}
        /\ dispensed[s] = 0 /\ ~stopped[s] /\ error[s] = None /\ raised[s] = {}
        /\ visits[s] = [i \in Indices |-> 0]
        /\ dispensed' = dispensed /\ stopped' = stopped /\ error' = error
        /\ raised' = raised /\ visits' = visits /\ request' = request
        /\ team'[s] = n
        /\ pc'[s] = "team" =>
              phase'[s] = [t \in Workers |-> IF t <= n THEN "fetch" ELSE "done"]
    BY <1>2 DEF OpenTeam, TypeInv, CallOk, UntouchedOk
  <2>2. request[s] \in Requests /\ Plan(s)' = Plan(s)
    BY <2>1 DEF ControlOk, TypeInv, Plan
  <2>3. CASE pc'[s] = "observe"
    BY <2>1, <2>3 DEF CallOk, UntouchedOk, ChunksOk, VisitsOk, ErrorsOk, AloneOk
  <2>4. CASE pc'[s] = "team"
    <3>1. \A t \in Workers : phase'[s][t] = IF t <= n THEN "fetch" ELSE "done"
      BY <2>1, <2>4
    <3>2. ChunksOk(s)'
      BY <2>1, <2>2, <2>4, <3>1, PlanOf DEF ChunksOk, Holding
    <3>3. VisitsOk(s)'
      <4>1. Unfetched(s)' = 0 .. Plan(s).work_count - 1
        BY <2>1, <2>2 DEF Unfetched
      <4>2. \A b, i : InChunk(s, b, i)' <=> InChunk(s, b, i)
        BY <2>1, <2>2 DEF InChunk, First, Behind
      <4>3. \A t \in Workers : \A i : ~Ahead(s, t, i)'
        BY <3>1 DEF Ahead
      <4> QED
        BY <2>1, <2>2, <4>1, <4>2, <4>3, ChunksOfPlan DEF VisitsOk
    <3> QED
      BY <2>1, <2>4, <3>1, <3>2, <3>3 DEF CallOk, UntouchedOk, ErrorsOk, AloneOk
  <2> QED
    BY <2>1, <2>3, <2>4
<1>3. ASSUME CloseTeam(s) \/ CloseObserve(s) \/ Unwind(s) PROVE CallOk(s)'
  <2>1. /\ pc'[s] \in {"returned", "threw"}
        /\ pc'[s] = "threw" => error[s] # None
        /\ error' = error /\ raised' = raised
    BY <1>3 DEF CloseTeam, CloseObserve, Unwind, TypeInv, CallOk, AloneOk
  <2> QED
    BY <2>1 DEF CallOk, UntouchedOk, ChunksOk, VisitsOk, ErrorsOk, AloneOk
<1>4. ASSUME RunAlone(s) PROVE CallOk(s)'
  <2> DEFINE i == cursor[s][1]
  <2>1. /\ pc[s] = "alone" /\ request' = request /\ request[s] \in Requests
        /\ i \in Nat /\ i <= request[s].size /\ raised[s] = {} /\ error[s] = None
        /\ \A j \in Indices : visits[s][j] = IF j < i THEN 1 ELSE 0
    BY <1>4, ConstantFacts DEF RunAlone, TypeInv, ControlOk, CallOk, AloneOk
  <2>2. i < request[s].size => i \in Indices
    BY <2>1, RequestFacts, ConstantFacts DEF Indices
  <2>3. CASE i = request[s].size /\ pc' = [pc EXCEPT ![s] = "returned"]
             /\ UNCHANGED <<cursor, error, aware, visits, raised>>
    BY <2>1, <2>3 DEF TypeInv, CallOk, UntouchedOk, ChunksOk, VisitsOk, ErrorsOk, AloneOk
  <2>4. CASE i < request[s].size /\ Apply(s, i, FALSE)
             /\ cursor' = [cursor EXCEPT ![s][1] = i + 1] /\ UNCHANGED <<pc, error>>
    <3>1. cursor'[s][1] = i + 1 /\ raised' = raised
      BY <2>4, ConstantFacts DEF Apply, TypeInv
    <3>2. \A j \in Indices : visits'[s][j] = IF j < i + 1 THEN 1 ELSE 0
      <4>1. /\ visits'[s][i] = visits[s][i] + 1
            /\ \A j \in Indices : j # i => visits'[s][j] = visits[s][j]
        BY <2>2, <2>4 DEF Apply, TypeInv
      <4>2. ASSUME NEW j \in Indices PROVE (j < i + 1) <=> (j < i \/ j = i)
        BY <2>1, ConstantFacts
      <4>3. visits[s][i] = 0
        BY <2>1, <2>2, <2>4
      <4> HIDE DEF i
      <4> QED
        BY <2>1, <2>2, <2>4, <4>1, <4>2, <4>3
    <3>3. request[s].size \in Nat
      BY <2>1, RequestFacts
    <3> QED
      BY <2>1, <2>4, <3>1, <3>2, <3>3
      DEF CallOk, UntouchedOk, ChunksOk, VisitsOk, ErrorsOk, AloneOk
  <2>5. CASE i < request[s].size /\ Apply(s, i, TRUE)
             /\ error' = [error EXCEPT ![s] = i] /\ pc' = [pc EXCEPT ![s] = "unwind"]
             /\ UNCHANGED cursor
    <3>1. pc'[s] = "unwind" /\ error'[s] = i /\ i \in raised'[s] /\ i # None
      BY <2>1, <2>2, <2>5, ConstantFacts DEF Apply, TypeInv
    <3> QED
      BY <3>1 DEF CallOk, UntouchedOk, ChunksOk, VisitsOk, ErrorsOk, AloneOk
  <2> QED
    BY <1>4, <2>3, <2>4, <2>5 DEF RunAlone
<1> QED
  BY <1>1, <1>2, <1>3, <1>4 DEF CallerStep

\* A thread fetches the next chunk, or finds none left.
LEMMA FetchKeeps ==
    ASSUME NEW s \in Batches, NEW t \in Workers, TypeInv, ControlOk(s), CallOk(s),
           FetchChunk(s, t)
    PROVE  CallOk(s)'
<1>1. /\ pc[s] = "team" /\ pc' = pc /\ request' = request /\ request[s] \in Requests
      /\ team' = team /\ cursor' = cursor /\ stopped' = stopped /\ error' = error
      /\ visits' = visits /\ raised' = raised /\ phase[s][t] = "fetch"
      /\ dispensed[s] \in Nat /\ t <= team[s]
      /\ \A u \in Workers : u # t => phase'[s][u] = phase[s][u] /\ chunk'[s][u] = chunk[s][u]
  BY DEF FetchChunk, To, TypeInv, ControlOk
<1>2. /\ Plan(s)' = Plan(s) /\ Plan(s).work_count \in Nat
      /\ \A b, i : InChunk(s, b, i)' <=> InChunk(s, b, i)
  BY <1>1, PlanOf DEF Plan, InChunk, First, Behind
<1>3. \/ /\ dispensed[s] < Plan(s).work_count
         /\ chunk'[s][t] = dispensed[s] /\ dispensed'[s] = dispensed[s] + 1
         /\ phase'[s][t] = "check"
      \/ /\ ~(dispensed[s] < Plan(s).work_count)
         /\ chunk'[s] = chunk[s] /\ dispensed'[s] = dispensed[s]
         /\ phase'[s][t] = "done"
  BY DEF FetchChunk, To, TypeInv
<1>4. ChunksOk(s) /\ VisitsOk(s) /\ ErrorsOk(s)
  BY DEF CallOk
<1>5. ChunksOk(s)'
  <2>1. \A u \in Workers : InChunk(s, chunk[s][u], cursor[s][u])' <=>
                             InChunk(s, chunk'[s][u], cursor[s][u])
    BY <1>1, <1>2 DEF InChunk, First, Behind
  <2>2. \A u \in Workers : chunk[s][u] \in Nat
    BY DEF TypeInv
  <2> QED
    BY <1>1, <1>2, <1>3, <1>4, <2>1, <2>2 DEF ChunksOk, Holding
<1>6. VisitsOk(s)'
  <2>1. \A u \in Workers : \A i : u # t => (Ahead(s, u, i)' <=> Ahead(s, u, i))
    BY <1>1, <1>2 DEF Ahead, InChunk, First, Behind
  <2>2. \A i : ~Ahead(s, t, i)
    BY <1>1 DEF Ahead
  <2>3. CASE dispensed[s] < Plan(s).work_count
    <3>1. /\ Unfetched(s)' = Unfetched(s) \ {dispensed[s]}
          /\ dispensed[s] \in Unfetched(s)
      BY <1>1, <1>2, <1>3, <2>3 DEF Unfetched
    <3>2. \A i : Ahead(s, t, i)' <=> InChunk(s, dispensed[s], i)
      BY <1>1, <1>2, <1>3, <2>3 DEF Ahead, InChunk, First, Behind
    <3> QED
      BY <1>1, <1>2, <1>4, <2>1, <2>2, <3>1, <3>2 DEF VisitsOk
  <2>4. CASE ~(dispensed[s] < Plan(s).work_count)
    <3>1. Unfetched(s)' = Unfetched(s) /\ \A i : ~Ahead(s, t, i)'
      BY <1>2, <1>3, <2>4 DEF Unfetched, Ahead
    <3> QED
      BY <1>1, <1>2, <1>4, <2>1, <2>2, <3>1 DEF VisitsOk
  <2> QED
    BY <2>3, <2>4
<1>7. ErrorsOk(s)'
  BY <1>1, <1>3, <1>4 DEF ErrorsOk
<1> QED
  BY <1>1, <1>5, <1>6, <1>7 DEF CallOk, UntouchedOk, AloneOk

\* A thread sees the flag and skips its chunk, or enters it.
LEMMA CheckKeeps ==
    ASSUME NEW s \in Batches, NEW t \in Workers, TypeInv, ControlOk(s), CallOk(s),
           CheckStopped(s, t)
    PROVE  CallOk(s)'
<1>1. /\ pc[s] = "team" /\ pc' = pc /\ request' = request /\ request[s] \in Requests
      /\ team' = team /\ dispensed' = dispensed /\ stopped' = stopped /\ error' = error
      /\ visits' = visits /\ raised' = raised /\ chunk' = chunk /\ phase[s][t] = "check"
      /\ \A u \in Workers : u # t => phase'[s][u] = phase[s][u] /\ cursor'[s][u] = cursor[s][u]
  BY DEF CheckStopped, To, TypeInv, ControlOk
<1>2. /\ Plan(s)' = Plan(s) /\ Unfetched(s)' = Unfetched(s)
      /\ \A b, i : InChunk(s, b, i)' <=> InChunk(s, b, i)
  BY <1>1 DEF Plan, Unfetched, InChunk, First, Behind
<1>3. \/ stopped[s] /\ phase'[s][t] = "fetch" /\ cursor'[s] = cursor[s]
      \/ phase'[s][t] = "run" /\ cursor'[s][t] = First(s, chunk[s][t])
  BY DEF CheckStopped, To, TypeInv, First
<1>4. ChunksOk(s) /\ VisitsOk(s) /\ ErrorsOk(s)
  BY DEF CallOk
<1>5. InChunk(s, chunk[s][t], First(s, chunk[s][t]))
  <2>1. chunk[s][t] \in 0 .. Plan(s).work_count - 1
    BY <1>1, <1>4, CursorFacts DEF Holding
  <2> QED
    BY <1>1, <2>1, ChunksOfPlan DEF InChunk
<1>6. ChunksOk(s)'
  <2>1. \A u \in Workers : InChunk(s, chunk[s][u], cursor[s][u])' <=>
                             InChunk(s, chunk[s][u], cursor'[s][u])
    BY <1>1, <1>2 DEF InChunk, First, Behind
  <2> QED
    BY <1>1, <1>2, <1>3, <1>4, <1>5, <2>1 DEF ChunksOk, Holding
<1>7. VisitsOk(s)'
  <2>1. \A u \in Workers : \A i : u # t => (Ahead(s, u, i)' <=> Ahead(s, u, i))
    BY <1>1, <1>2 DEF Ahead, InChunk, First, Behind
  <2>2. CASE stopped[s] /\ phase'[s][t] = "fetch" /\ cursor'[s] = cursor[s]
    <3>1. raised[s] # {} /\ \A i : ~Ahead(s, t, i)'
      BY <1>1, <1>4, <2>2 DEF ErrorsOk, Ahead
    <3> QED
      BY <1>1, <1>2, <1>4, <2>1, <3>1 DEF VisitsOk
  <2>3. CASE phase'[s][t] = "run" /\ cursor'[s][t] = First(s, chunk[s][t])
    <3>1. \A i : Ahead(s, t, i)' <=> Ahead(s, t, i)
      BY <1>1, <1>2, <2>3 DEF Ahead, InChunk, First, Behind
    <3> QED
      BY <1>1, <1>2, <1>4, <2>1, <3>1 DEF VisitsOk
  <2> QED
    BY <1>3, <2>2, <2>3
<1>8. ErrorsOk(s)'
  BY <1>1, <1>3, <1>4 DEF ErrorsOk
<1> QED
  BY <1>1, <1>6, <1>7, <1>8 DEF CallOk, UntouchedOk, AloneOk

\* What a thread visits was not visited, and no other thread is to visit it.
LEMMA VisitedOnce ==
    ASSUME NEW s \in Batches, NEW t \in Workers, TypeInv, ControlOk(s), CallOk(s),
           phase[s][t] = "run"
    PROVE  /\ cursor[s][t] \in Indices /\ cursor[s][t] < request[s].size
           /\ pc[s] = "team" /\ request[s] \in Requests
           /\ InChunk(s, chunk[s][t], cursor[s][t])
           /\ visits[s][cursor[s][t]] = 0
           /\ \A u \in Workers : u # t => ~Ahead(s, u, cursor[s][t])
           /\ \A b \in Unfetched(s) : ~InChunk(s, b, cursor[s][t])
<1> DEFINE i == cursor[s][t]
<1>1. ChunksOk(s) /\ VisitsOk(s) /\ Holding(s, t)
  BY DEF CallOk, Holding
<1>2. /\ pc[s] = "team" /\ request[s] \in Requests
      /\ chunk[s][t] \in 0 .. Plan(s).work_count - 1
      /\ i \in Indices /\ i < request[s].size /\ InChunk(s, chunk[s][t], i)
  BY <1>1, CursorFacts
<1>3. visits[s][i] = 0
  <2>1. Ahead(s, t, i)
    <3>1. cursor[s][t] <= i
      BY DEF TypeInv
    <3> QED
      BY <1>2, <3>1 DEF Ahead
  <2> QED
    BY <1>1, <1>2, <2>1 DEF VisitsOk
<1>4. ASSUME NEW u \in Workers, u # t, Ahead(s, u, i) PROVE FALSE
  <2>1. Holding(s, u) /\ InChunk(s, chunk[s][u], i)
    BY <1>4 DEF Holding, Ahead
  <2>2. chunk[s][u] \in 0 .. Plan(s).work_count - 1
    BY <1>1, <2>1, CursorFacts
  <2>3. chunk[s][u] # chunk[s][t]
    BY <1>1, <1>2, <1>4, <2>1 DEF ChunksOk
  <2> QED
    BY <1>2, <2>1, <2>2, <2>3, ChunksOfPlan
<1>5. ASSUME NEW b \in Unfetched(s), InChunk(s, b, i) PROVE FALSE
  <2>1. dispensed[s] \in Nat /\ chunk[s][t] < dispensed[s] /\ Plan(s).work_count \in Nat
    BY <1>1, <1>2, PlanOf DEF ChunksOk, TypeInv
  <2>2. b \in 0 .. Plan(s).work_count - 1 /\ b # chunk[s][t]
    BY <1>2, <2>1 DEF Unfetched
  <2> QED
    BY <1>2, <1>5, <2>2, ChunksOfPlan
<1> QED
  BY <1>2, <1>3, <1>4, <1>5

LEMMA VisitKeeps ==
    ASSUME NEW s \in Batches, NEW t \in Workers, TypeInv, ControlOk(s), CallOk(s),
           VisitInput(s, t)
    PROVE  CallOk(s)'
<1> DEFINE i == cursor[s][t]
<1>0. ChunksOk(s) /\ VisitsOk(s) /\ ErrorsOk(s)
  BY DEF CallOk
<1>1. /\ pc[s] = "team" /\ pc' = pc /\ request' = request /\ request[s] \in Requests
      /\ team' = team /\ dispensed' = dispensed /\ stopped' = stopped /\ error' = error
      /\ chunk' = chunk /\ phase[s][t] = "run"
  BY DEF VisitInput, TypeInv, ControlOk
<1>2. /\ i \in Indices /\ i \in Nat /\ i < request[s].size
      /\ InChunk(s, chunk[s][t], i) /\ visits[s][i] = 0
      /\ \A u \in Workers : u # t => ~Ahead(s, u, i)
      /\ \A b \in Unfetched(s) : ~InChunk(s, b, i)
  BY <1>1, VisitedOnce, ConstantFacts
<1>3. /\ visits'[s][i] = 1 /\ \A j \in Indices : j # i => visits'[s][j] = visits[s][j]
      /\ raised'[s] = raised[s] \/ raised'[s] = raised[s] \cup {i}
  <2>1. visits' = [visits EXCEPT ![s][i] = @ + 1]
        /\ (raised' = raised \/ raised' = [raised EXCEPT ![s] = @ \cup {i}])
    BY DEF VisitInput, Apply
  <2>2. visits'[s][i] = visits[s][i] + 1 /\ \A j \in Indices : j # i => visits'[s][j] = visits[s][j]
    BY <1>2, <2>1 DEF TypeInv
  <2>3. raised'[s] = raised[s] \/ raised'[s] = raised[s] \cup {i}
    BY <2>1 DEF TypeInv
  <2> QED
    BY <1>2, <2>2, <2>3
<1>4. \/ /\ raised'[s] = raised[s] /\ i + 1 < Behind(s, chunk[s][t])
         /\ phase'[s] = phase[s] /\ cursor'[s][t] = i + 1
      \/ /\ raised'[s] = raised[s] /\ ~(i + 1 < Behind(s, chunk[s][t]))
         /\ phase'[s][t] = "fetch" /\ cursor'[s] = cursor[s]
      \/ /\ raised'[s] = raised[s] \cup {i}
         /\ phase'[s][t] = "caught" /\ cursor'[s] = cursor[s]
  BY DEF VisitInput, Apply, To, TypeInv, Behind
<1>5. \A u \in Workers : u # t => phase'[s][u] = phase[s][u] /\ cursor'[s][u] = cursor[s][u]
  <2>1. \/ cursor' = cursor \/ cursor' = [cursor EXCEPT ![s][t] = i + 1]
    BY DEF VisitInput
  <2>2. \/ phase' = phase \/ phase' = [phase EXCEPT ![s][t] = "fetch"]
        \/ phase' = [phase EXCEPT ![s][t] = "caught"]
    BY DEF VisitInput, To
  <2> QED
    BY <2>1, <2>2 DEF TypeInv
<1>6. /\ Plan(s)' = Plan(s) /\ Unfetched(s)' = Unfetched(s)
      /\ \A b, j : InChunk(s, b, j)' <=> InChunk(s, b, j)
  BY <1>1 DEF Plan, Unfetched, InChunk, First, Behind
<1>7. ChunksOk(s)'
  <2>1. \A u \in Workers : InChunk(s, chunk[s][u], cursor[s][u])' <=>
                             InChunk(s, chunk[s][u], cursor'[s][u])
    BY <1>1, <1>6 DEF InChunk, First, Behind
  <2>2. i + 1 < Behind(s, chunk[s][t]) => InChunk(s, chunk[s][t], i + 1)
    <3>1. First(s, chunk[s][t]) \in Nat /\ First(s, chunk[s][t]) <= i
      BY <1>0, <1>1, <1>2, CursorFacts, ChunksOfPlan DEF Holding, InChunk
    <3> QED
      BY <1>2, <3>1 DEF InChunk
  <2>3. phase'[s][t] # "done" /\ \A u \in Workers : Holding(s, u)' => Holding(s, u)
    BY <1>1, <1>4, <1>5 DEF Holding
  <2>4. phase'[s][t] \in {"run", "caught", "record"} => InChunk(s, chunk[s][t], cursor'[s][t])
    BY <1>1, <1>2, <1>4, <2>2
  <2> QED
    BY <1>0, <1>1, <1>5, <1>6, <2>1, <2>3, <2>4 DEF ChunksOk
<1>8. VisitsOk(s)'
  <2>1. \A u \in Workers : \A j : u # t => (Ahead(s, u, j)' <=> Ahead(s, u, j))
    BY <1>1, <1>5, <1>6 DEF Ahead, InChunk, First, Behind
  <2>2. \A j \in Indices : Ahead(s, t, j)' => Ahead(s, t, j) /\ j # i
    BY <1>1, <1>2, <1>4, <1>6, ConstantFacts DEF Ahead, InChunk, First, Behind
  <2>3. ASSUME NEW j \in Indices, j # i, Ahead(s, t, j), raised'[s] = {}
        PROVE  Ahead(s, t, j)'
    <3>1. j \in Nat /\ i <= j /\ InChunk(s, chunk[s][t], j) /\ i + 1 <= j
      BY <1>1, <1>2, <2>3, ConstantFacts DEF Ahead
    <3>2. Behind(s, chunk[s][t]) \in Nat /\ j < Behind(s, chunk[s][t])
      BY <1>0, <1>1, <3>1, CursorFacts, ChunksOfPlan DEF Holding, InChunk
    <3>3. phase'[s] = phase[s] /\ cursor'[s][t] = i + 1
      BY <1>2, <1>4, <2>3, <3>1, <3>2
    <3> QED
      BY <1>1, <1>6, <3>1, <3>3 DEF Ahead, InChunk, First, Behind
  <2>4. ASSUME NEW j \in Indices, j < request[s].size
        PROVE  /\ \A u \in Workers : Ahead(s, u, j)' => visits'[s][j] = 0
               /\ \A b \in Unfetched(s) : InChunk(s, b, j) => visits'[s][j] = 0
    BY <1>0, <1>1, <1>2, <1>3, <2>1, <2>2, <2>4 DEF VisitsOk
  <2>5. ASSUME NEW j \in Indices, j < request[s].size, raised'[s] = {}
        PROVE  \/ visits'[s][j] = 1
               \/ \E u \in Workers : Ahead(s, u, j)'
               \/ \E b \in Unfetched(s) : InChunk(s, b, j)
    <3>1. CASE j = i
      BY <1>3, <3>1
    <3>2. CASE j # i
      <4>1. raised[s] = {} /\ visits'[s][j] = visits[s][j]
        BY <1>3, <2>5, <3>2
      <4>2. \/ visits[s][j] = 1
            \/ \E u \in Workers : Ahead(s, u, j)
            \/ \E b \in Unfetched(s) : InChunk(s, b, j)
        BY <1>0, <1>1, <2>5, <4>1 DEF VisitsOk
      <4> QED
        BY <2>1, <2>3, <2>5, <3>2, <4>1, <4>2
    <3> QED
      BY <3>1, <3>2
  <2> QED
    BY <1>1, <1>6, <2>4, <2>5 DEF VisitsOk
<1>9. ErrorsOk(s)'
  <2>1. raised[s] \subseteq raised'[s]
    BY <1>3
  <2>2. raised'[s] # {} => stopped[s] \/ \E u \in Workers : phase'[s][u] = "caught"
    BY <1>0, <1>1, <1>4, <1>5 DEF ErrorsOk
  <2>3. phase'[s][t] \in {"caught", "record"} => cursor'[s][t] \in raised'[s]
    BY <1>1, <1>4
  <2> QED
    BY <1>0, <1>1, <1>4, <1>5, <2>1, <2>2, <2>3 DEF ErrorsOk
<1> QED
  BY <1>1, <1>7, <1>8, <1>9 DEF CallOk, UntouchedOk, AloneOk

\* A thread whose input threw sets the flag; the first to do so writes the error.
LEMMA CatchKeeps ==
    ASSUME NEW s \in Batches, NEW t \in Workers, TypeInv, ControlOk(s), CallOk(s),
           CatchError(s, t) \/ RecordError(s, t)
    PROVE  CallOk(s)'
<1>1. /\ pc[s] = "team" /\ pc' = pc /\ request' = request /\ request[s] \in Requests
      /\ team' = team /\ dispensed' = dispensed /\ cursor' = cursor /\ chunk' = chunk
      /\ visits' = visits /\ raised' = raised
      /\ phase[s][t] \in {"caught", "record"} /\ phase'[s][t] \in {"fetch", "record"}
      /\ phase'[s][t] = "record" => phase[s][t] = "caught"
      /\ \A u \in Workers : u # t => phase'[s][u] = phase[s][u]
  BY DEF CatchError, RecordError, To, TypeInv, ControlOk
<1>2. /\ Plan(s)' = Plan(s) /\ Unfetched(s)' = Unfetched(s)
      /\ \A b, i : InChunk(s, b, i)' <=> InChunk(s, b, i)
  BY <1>1 DEF Plan, Unfetched, InChunk, First, Behind
<1>3. ChunksOk(s) /\ VisitsOk(s) /\ ErrorsOk(s)
  BY DEF CallOk
<1>4. ChunksOk(s)'
  <2>1. \A u \in Workers : InChunk(s, chunk[s][u], cursor[s][u])' <=>
                             InChunk(s, chunk[s][u], cursor[s][u])
    BY <1>1, <1>2 DEF InChunk, First, Behind
  <2> QED
    BY <1>1, <1>2, <1>3, <2>1 DEF ChunksOk, Holding
<1>5. VisitsOk(s)'
  <2>1. \A u \in Workers : \A i : Ahead(s, u, i)' <=> Ahead(s, u, i)
    BY <1>1, <1>2 DEF Ahead, InChunk, First, Behind
  <2> QED
    BY <1>1, <1>2, <1>3, <2>1 DEF VisitsOk
<1>6. cursor[s][t] \in raised[s] /\ cursor[s][t] # None
  <2>1. Holding(s, t) /\ phase[s][t] # "check"
    BY <1>1 DEF Holding
  <2> QED
    BY <1>1, <1>3, <2>1, CursorFacts, ConstantFacts DEF ErrorsOk
<1>7. ErrorsOk(s)'
  <2>1. CASE CatchError(s, t)
    <3>1. /\ error' = error /\ stopped'[s] /\ phase[s][t] = "caught"
          /\ phase'[s][t] = IF stopped[s] THEN "fetch" ELSE "record"
      BY <2>1 DEF CatchError, To, TypeInv
    <3>2. error'[s] # None \/ \E u \in Workers : phase'[s][u] = "record"
      BY <1>1, <1>3, <3>1 DEF ErrorsOk
    <3> QED
      BY <1>1, <1>3, <1>6, <3>1, <3>2 DEF ErrorsOk
  <2>2. CASE RecordError(s, t)
    <3>1. /\ error'[s] = cursor[s][t] /\ stopped' = stopped /\ phase[s][t] = "record"
          /\ phase'[s][t] = "fetch"
      BY <2>2 DEF RecordError, To, TypeInv
    <3>2. raised[s] # {} => stopped[s] \/ \E u \in Workers : phase'[s][u] = "caught"
      BY <1>1, <1>3, <3>1 DEF ErrorsOk
    <3> QED
      BY <1>1, <1>3, <1>6, <3>1, <3>2 DEF ErrorsOk
  <2> QED
    BY <2>1, <2>2
<1> QED
  BY <1>1, <1>4, <1>5, <1>7 DEF CallOk, UntouchedOk, AloneOk

\* A step of one call leaves the others alone.
LEMMA OthersKeep ==
    ASSUME NEW s \in Batches, TypeInv,
           \/ \E r \in Requests : Start(s, r)
           \/ CallerStep(s)
           \/ \E t \in Workers : WorkerStep(s, t),
           NEW u \in Batches, u # s
    PROVE  /\ pc'[u] = pc[u] /\ request'[u] = request[u] /\ team'[u] = team[u]
           /\ dispensed'[u] = dispensed[u] /\ phase'[u] = phase[u] /\ chunk'[u] = chunk[u]
           /\ cursor'[u] = cursor[u] /\ stopped'[u] = stopped[u] /\ error'[u] = error[u]
           /\ visits'[u] = visits[u] /\ raised'[u] = raised[u]
<1> USE DEF TypeInv
<1>1. CASE \E r \in Requests : Start(s, r)
  BY <1>1 DEF Start
<1>2. CASE \E n \in Workers : OpenTeam(s, n)
  BY <1>2 DEF OpenTeam
<1>3. CASE CloseTeam(s) \/ CloseObserve(s) \/ Unwind(s)
  BY <1>3 DEF CloseTeam, CloseObserve, Unwind
<1>4. CASE RunAlone(s)
  BY <1>4 DEF RunAlone, Apply
<1>5. ASSUME NEW t \in Workers, FetchChunk(s, t)
      PROVE  dispensed'[u] = dispensed[u] /\ phase'[u] = phase[u] /\ chunk'[u] = chunk[u]
  BY <1>5 DEF FetchChunk, To
<1>6. ASSUME NEW t \in Workers, CheckStopped(s, t)
      PROVE  phase'[u] = phase[u] /\ cursor'[u] = cursor[u]
  BY <1>6 DEF CheckStopped, To
<1>7. ASSUME NEW t \in Workers, VisitInput(s, t)
      PROVE  /\ phase'[u] = phase[u] /\ cursor'[u] = cursor[u]
             /\ visits'[u] = visits[u] /\ raised'[u] = raised[u]
  BY <1>7 DEF VisitInput, Apply, To
<1>8. ASSUME NEW t \in Workers, CatchError(s, t)
      PROVE  phase'[u] = phase[u] /\ stopped'[u] = stopped[u]
  BY <1>8 DEF CatchError, To
<1>9. ASSUME NEW t \in Workers, RecordError(s, t)
      PROVE  phase'[u] = phase[u] /\ error'[u] = error[u]
  BY <1>9 DEF RecordError, To
<1>10. CASE \E t \in Workers : WorkerStep(s, t)
  <2>1. PICK t \in Workers : WorkerStep(s, t)
    BY <1>10
  <2>2. CASE FetchChunk(s, t)
    BY <1>5, <2>2 DEF FetchChunk
  <2>3. CASE CheckStopped(s, t)
    BY <1>6, <2>3 DEF CheckStopped
  <2>4. CASE VisitInput(s, t)
    BY <1>7, <2>4 DEF VisitInput
  <2>5. CASE CatchError(s, t)
    BY <1>8, <2>5 DEF CatchError
  <2>6. CASE RecordError(s, t)
    BY <1>9, <2>6 DEF RecordError
  <2> QED
    BY <2>1, <2>2, <2>3, <2>4, <2>5, <2>6 DEF WorkerStep
<1> QED
  BY <1>1, <1>2, <1>3, <1>4, <1>10 DEF CallerStep

LEMMA CallStep == IInv /\ [Next]_vars => CallInv'
<1> SUFFICES ASSUME IInv, [Next]_vars PROVE CallInv'
  OBVIOUS
<1>0. TypeInv /\ ControlInv /\ CallInv
  BY DEF IInv
<1>1. ASSUME NEW s \in Batches,
             \/ \E r \in Requests : Start(s, r)
             \/ CallerStep(s)
             \/ \E t \in Workers : WorkerStep(s, t)
      PROVE  CallInv'
  <2>1. ControlOk(s) /\ CallOk(s)
    BY <1>0 DEF ControlInv, CallInv
  <2>2. CallOk(s)'
    <3>1. CASE (\E r \in Requests : Start(s, r)) \/ CallerStep(s)
      BY <1>0, <2>1, <3>1, CallerKeeps
    <3>2. ASSUME NEW t \in Workers, WorkerStep(s, t) PROVE CallOk(s)'
      BY <1>0, <2>1, <3>2, FetchKeeps, CheckKeeps, VisitKeeps, CatchKeeps DEF WorkerStep
    <3> QED
      BY <1>1, <3>1, <3>2
  <2>3. ASSUME NEW u \in Batches, u # s PROVE CallOk(u)'
    <3>1. CallOk(u)
      BY <1>0 DEF CallInv
    <3> QED
      BY <1>0, <1>1, <2>3, <3>1, OthersKeep, CallFrame
  <2> QED
    BY <2>2, <2>3 DEF CallInv
<1>2. CASE UNCHANGED vars
  <2>1. ASSUME NEW u \in Batches PROVE CallOk(u)'
    BY <1>0, <1>2, CallFrame DEF vars, CallInv
  <2> QED
    BY <2>1 DEF CallInv
<1> QED
  BY <1>1, <1>2 DEF Next, Finished

LEMMA Invariance == Spec => []IInv
<1>1. IInv /\ [Next]_vars => IInv'
  BY TypeStep, ControlStep, CallStep DEF IInv
<1> QED
  BY <1>1, InitOk, PTL DEF Spec

-----------------------------------------------------------------------------
(* The theorems.                                                           *)

\* The state is well typed, and no thread reads past the inputs of its call.
THEOREM TypeCorrect == Spec => []TypeOK
<1>1. IInv => TypeOK
  <2> SUFFICES ASSUME IInv PROVE TypeOK
    OBVIOUS
  <2>1. TypeInv /\ ControlInv /\ CallInv
    BY DEF IInv
  <2>2. ASSUME NEW s \in Batches, NEW t \in Workers, phase[s][t] = "run"
        PROVE  cursor[s][t] < request[s].size
    <3>1. ControlOk(s) /\ ChunksOk(s) /\ Holding(s, t)
      BY <2>1, <2>2 DEF ControlInv, CallInv, CallOk, Holding
    <3> QED
      BY <2>1, <2>2, <3>1, CursorFacts
  <2> QED
    BY <2>1, <2>2 DEF TypeInv, TypeOK
<1> QED
  BY <1>1, Invariance, PTL

\* One OpenMP team exists at a time in the process, of at most the planned size,
\* whatever the calls do and whichever of them throw.
THEOREM OneTeamAtATime == Spec => []OneTeam
<1>1. IInv => OneTeam
  BY DEF IInv, ControlInv, ControlOk, OneTeam
<1> QED
  BY <1>1, Invariance, PTL

\* A batch leaves its caller only with OpenMP and a chunk size below its input count.
THEOREM StaysOnItsCaller == Spec => []StaysOnCaller
<1>1. IInv => StaysOnCaller
  <2> SUFFICES ASSUME IInv, NEW s \in Batches, team[s] > 0
               PROVE  OpenMp /\ request[s].batch_size < request[s].size
    BY DEF StaysOnCaller
  <2>1. ControlOk(s) /\ TypeInv
    BY DEF IInv, ControlInv
  <2>2. Plan(s).thread_count > 1 /\ request[s] \in Requests
    BY <2>1 DEF ControlOk, TypeInv
  <2> QED
    BY <2>2, PlanOf
<1> QED
  BY <1>1, Invariance, PTL

-----------------------------------------------------------------------------
(* ParallelFor implements ForEach.                                         *)

\* What a step of another call does to the abstract view of u: nothing.
LEMMA ViewFrame ==
    ASSUME NEW u \in Batches, pc'[u] = pc[u], request'[u] = request[u], error'[u] = error[u]
    PROVE  Status(u)' = Status(u) /\ InputsOf(u)' = InputsOf(u) /\ Thrown(u)' = Thrown(u)
BY DEF Status, InputsOf, Thrown

\* A step after which every call looks the same is a stuttering step of ForEach.
LEMMA ViewStutters ==
    ASSUME \A u \in Calls : /\ Status(u)' = Status(u) /\ InputsOf(u)' = InputsOf(u)
                            /\ Thrown(u)' = Thrown(u)
                            /\ visits'[u] = visits[u] /\ raised'[u] = raised[u]
    PROVE  UNCHANGED Promise!feVars
BY DEF Promise!feVars

\* The step of a call that visits an input.
LEMMA ViewVisits ==
    ASSUME NEW s \in Calls, NEW i \in Indices, TypeInv,
           \A u \in Calls : /\ Status(u)' = Status(u) /\ InputsOf(u)' = InputsOf(u)
                            /\ Thrown(u)' = Thrown(u),
           Status(s) = "running", i \in InputsOf(s), visits[s][i] = 0,
           visits' = [visits EXCEPT ![s][i] = @ + 1],
           raised' = raised \/ raised' = [raised EXCEPT ![s] = @ \cup {i}]
    PROVE  Promise!Next
<1>1. s \in Batches /\ Calls \subseteq Batches
  BY DEF Calls
<1>2. [u \in Calls |-> visits'[u]] = [[u \in Calls |-> visits[u]] EXCEPT ![s][i] = 1]
  <2>1. visits'[s] = [visits[s] EXCEPT ![i] = 1]
    BY <1>1 DEF TypeInv
  <2>2. \A u \in Calls : u # s => visits'[u] = visits[u]
    BY <1>1 DEF TypeInv
  <2> QED
    BY <2>1, <2>2
<1>3. \/ [u \in Calls |-> raised'[u]] = [u \in Calls |-> raised[u]]
      \/ [u \in Calls |-> raised'[u]] =
            [[u \in Calls |-> raised[u]] EXCEPT ![s] = raised[s] \cup {i}]
  BY <1>1 DEF TypeInv
<1>4. Promise!Visit(s, i)
  BY <1>2, <1>3 DEF Promise!Visit
<1> QED
  BY <1>4 DEF Promise!Next

\* The step that ends a call.
LEMMA ViewEnds ==
    ASSUME NEW s \in Calls,
           \A u \in Calls : /\ InputsOf(u)' = InputsOf(u)
                            /\ visits'[u] = visits[u] /\ raised'[u] = raised[u],
           \A u \in Calls : u # s => Status(u)' = Status(u) /\ Thrown(u)' = Thrown(u),
           Status(s) = "running", Thrown(s) = None,
           \/ /\ Status(s)' = "returned" /\ Thrown(s)' = None /\ raised[s] = {}
              /\ \A i \in InputsOf(s) : visits[s][i] = 1
           \/ /\ Status(s)' = "threw" /\ Thrown(s)' \in raised[s]
    PROVE  Promise!Next
<1>1. CASE Status(s)' = "returned"
  <2>1. Promise!Return(s)
    BY <1>1 DEF Promise!Return
  <2> QED
    BY <2>1 DEF Promise!Next
<1>2. CASE Status(s)' = "threw"
  <2>1. Promise!Throw(s)
    BY <1>2 DEF Promise!Throw
  <2> QED
    BY <2>1 DEF Promise!Next
<1> QED
  BY <1>1, <1>2

LEMMA InitMaps == Init => Promise!Init
BY DEF Init, Promise!Init, Calls, Status, InputsOf, Thrown

\* A finished team without an error has visited everything; one with an error has it
\* from an input that threw.
LEMMA TeamResult ==
    ASSUME NEW s \in Batches, TypeInv, ControlOk(s), CallOk(s), pc[s] = "team", TeamDone(s)
    PROVE  /\ error[s] = None => /\ raised[s] = {}
                                 /\ \A i \in Indices : i < request[s].size => visits[s][i] = 1
           /\ error[s] # None => error[s] \in raised[s]
<1>1. \A t \in Workers : phase[s][t] = "done"
  BY DEF TeamDone
<1>2. request[s] \in Requests /\ Plan(s).work_count \in Nat
  BY PlanOf DEF ControlOk, TypeInv
<1>3. dispensed[s] = Plan(s).work_count
  <2>1. 1 \in Workers /\ 1 <= team[s]
    BY ConstantFacts DEF ControlOk, TypeInv
  <2> QED
    BY <1>1, <2>1 DEF CallOk, ChunksOk
<1>4. ASSUME error[s] = None PROVE raised[s] = {}
  BY <1>1, <1>4 DEF CallOk, ErrorsOk
<1>5. ASSUME raised[s] = {}, NEW i \in Indices, i < request[s].size PROVE visits[s][i] = 1
  <2>1. Unfetched(s) = {} /\ \A t \in Workers : ~Ahead(s, t, i)
    BY <1>1, <1>2, <1>3 DEF Unfetched, Ahead
  <2> QED
    BY <1>5, <2>1 DEF CallOk, VisitsOk
<1> QED
  BY <1>4, <1>5 DEF CallOk, ErrorsOk

LEMMA StepMaps ==
    ASSUME IInv, [Next]_vars
    PROVE  [Promise!Next]_(Promise!feVars)
<1>0. TypeInv /\ ControlInv /\ CallInv
  BY DEF IInv
<1> DEFINE View(u) == /\ Status(u)' = Status(u) /\ InputsOf(u)' = InputsOf(u)
                      /\ Thrown(u)' = Thrown(u)
           Same(u) == visits'[u] = visits[u] /\ raised'[u] = raised[u]
<1>1. ASSUME NEW s \in Batches,
             \/ \E r \in Requests : Start(s, r)
             \/ CallerStep(s)
             \/ \E t \in Workers : WorkerStep(s, t)
      PROVE  \A u \in Calls : u # s => View(u) /\ Same(u)
  <2> SUFFICES ASSUME NEW u \in Calls, u # s PROVE View(u) /\ Same(u)
    OBVIOUS
  <2>1. u \in Batches
    BY DEF Calls
  <2> QED
    BY <1>0, <1>1, <2>1, OthersKeep, ViewFrame
<1>2. ASSUME NEW s \in Batches, View(s), Same(s),
             \A u \in Calls : u # s => View(u) /\ Same(u)
      PROVE  UNCHANGED Promise!feVars
  BY <1>2, ViewStutters
<1>3. ASSUME NEW s \in Batches, NEW r \in Requests, Start(s, r)
      PROVE  [Promise!Next]_(Promise!feVars)
  <2>1. \A u \in Calls : u # s => View(u) /\ Same(u)
    BY <1>1, <1>3
  <2>2. /\ pc[s] = "idle" /\ request'[s] = r /\ Same(s)
        /\ pc'[s] \in {"lock", "alone", "returned"}
        /\ s \in Calls => pc'[s] # "returned"
    BY <1>0, <1>3 DEF Start, TypeInv, Calls
  <2>3. CASE s \in Calls
    <3>1. /\ Status(s) = "idle" /\ Status(s)' = "running"
          /\ InputsOf(s)' = 0 .. r.size - 1 /\ Thrown(s)' = Thrown(s)
      BY <2>2, <2>3 DEF Status, InputsOf, Thrown
    <3>2. 0 .. r.size - 1 \in SUBSET Indices
      BY RequestFacts, ConstantFacts DEF Indices
    <3>3. Promise!Start(s)
      BY <2>1, <2>2, <2>3, <3>1, <3>2 DEF Promise!Start
    <3> QED
      BY <2>3, <3>3 DEF Promise!Next
  <2>4. CASE s \notin Calls
    BY <2>1, <2>4, ViewStutters
  <2> QED
    BY <2>3, <2>4
<1>4. ASSUME NEW s \in Batches, (\E n \in Workers : OpenTeam(s, n)) \/ CloseObserve(s)
      PROVE  [Promise!Next]_(Promise!feVars)
  <2>1. \A u \in Calls : u # s => View(u) /\ Same(u)
    BY <1>1, <1>4 DEF CallerStep
  <2>2. s \in Calls => View(s) /\ Same(s)
    <3>1. ASSUME NEW n \in Workers, OpenTeam(s, n) PROVE View(s) /\ Same(s)
      BY <1>0, <3>1 DEF OpenTeam, TypeInv, Status, InputsOf, Thrown
    <3>2. ASSUME CloseObserve(s) PROVE s \notin Calls
      BY <1>0, <3>2 DEF CloseObserve, ControlInv, ControlOk, Calls
    <3> QED
      BY <1>4, <3>1, <3>2
  <2> QED
    BY <2>1, <2>2, ViewStutters
<1>5. ASSUME NEW s \in Batches, CloseTeam(s) PROVE [Promise!Next]_(Promise!feVars)
  <2>1. \A u \in Calls : u # s => View(u) /\ Same(u)
    BY <1>1, <1>5 DEF CallerStep
  <2>2. s \in Calls /\ pc[s] = "team" /\ request[s] \in Requests
    BY <1>0, <1>5 DEF CloseTeam, ControlInv, ControlOk, Calls, TypeInv
  <2>3. /\ Status(s) = "running" /\ Thrown(s) = None
        /\ InputsOf(s) = 0 .. request[s].size - 1 /\ InputsOf(s)' = InputsOf(s) /\ Same(s)
        /\ Status(s)' = IF error[s] = None THEN "returned" ELSE "threw"
        /\ Thrown(s)' = error[s]
    BY <1>0, <1>5, <2>2 DEF CloseTeam, Status, InputsOf, Thrown, TypeInv
  <2>4. /\ error[s] = None => /\ raised[s] = {}
                              /\ \A i \in Indices : i < request[s].size => visits[s][i] = 1
        /\ error[s] # None => error[s] \in raised[s]
    BY <1>0, <1>5, <2>2, TeamResult DEF CloseTeam, ControlInv, CallInv, Calls
  <2>5. \A i \in InputsOf(s) : i \in Indices /\ i < request[s].size
    BY <2>2, <2>3, RequestFacts, ConstantFacts DEF Indices
  <2> QED
    BY <2>1, <2>2, <2>3, <2>4, <2>5, ViewEnds
<1>6. ASSUME NEW s \in Batches, RunAlone(s) PROVE [Promise!Next]_(Promise!feVars)
  <2> DEFINE i == cursor[s][1]
  <2>1. \A u \in Calls : u # s => View(u) /\ Same(u)
    BY <1>1, <1>6 DEF CallerStep
  <2>2. s \in Calls /\ pc[s] = "alone" /\ request[s] \in Requests /\ request' = request
    BY <1>0, <1>6 DEF RunAlone, ControlInv, ControlOk, Calls, TypeInv
  <2>3. /\ raised[s] = {} /\ i \in Nat
        /\ \A j \in Indices : visits[s][j] = IF j < i THEN 1 ELSE 0
    BY <1>0, <2>2, ConstantFacts DEF CallInv, CallOk, AloneOk, TypeInv
  <2>4. /\ Status(s) = "running" /\ Thrown(s) = None
        /\ InputsOf(s) = 0 .. request[s].size - 1
        /\ \A j \in InputsOf(s) : j \in Indices /\ j < request[s].size
        /\ i < request[s].size => i \in InputsOf(s)
    BY <2>2, <2>3, RequestFacts, ConstantFacts DEF Status, Thrown, InputsOf, Indices
  <2>5. CASE i = request[s].size /\ pc' = [pc EXCEPT ![s] = "returned"]
             /\ UNCHANGED <<cursor, error, aware, visits, raised>>
    <3>1. /\ Status(s)' = "returned" /\ Thrown(s)' = None /\ InputsOf(s)' = InputsOf(s)
          /\ Same(s)
      BY <1>0, <2>2, <2>5 DEF Status, Thrown, InputsOf, TypeInv
    <3> QED
      BY <2>1, <2>2, <2>3, <2>4, <2>5, <3>1, ViewEnds
  <2>6. CASE i < request[s].size /\ (Apply(s, i, FALSE) \/ Apply(s, i, TRUE))
             /\ pc'[s] \in {"alone", "unwind"}
    <3>1. View(s)
      BY <2>2, <2>6 DEF Status, Thrown, InputsOf
    <3>2. i \in Indices /\ visits[s][i] = 0
      BY <2>3, <2>4, <2>6
    <3>3. /\ visits' = [visits EXCEPT ![s][i] = @ + 1]
          /\ raised' = raised \/ raised' = [raised EXCEPT ![s] = @ \cup {i}]
      BY <2>6 DEF Apply
    <3> QED
      BY <1>0, <2>1, <2>2, <2>4, <2>6, <3>1, <3>2, <3>3, ViewVisits
  <2>7. /\ pc' = pc \/ pc' = [pc EXCEPT ![s] = "unwind"] \/ pc' = [pc EXCEPT ![s] = "returned"]
        /\ pc \in [Batches -> PcValues]
    BY <1>0, <1>6 DEF RunAlone, TypeInv
  <2> QED
    BY <1>6, <2>2, <2>5, <2>6, <2>7 DEF RunAlone
<1>7. ASSUME NEW s \in Batches, Unwind(s) PROVE [Promise!Next]_(Promise!feVars)
  <2>1. \A u \in Calls : u # s => View(u) /\ Same(u)
    BY <1>1, <1>7 DEF CallerStep
  <2>2. s \in Calls /\ pc[s] = "unwind" /\ pc'[s] = "threw" /\ Same(s)
        /\ request' = request /\ error' = error
    BY <1>0, <1>7 DEF Unwind, ControlInv, ControlOk, Calls, TypeInv
  <2>3. error[s] \in raised[s]
    BY <1>0, <2>2 DEF CallInv, CallOk, AloneOk, ErrorsOk
  <2>4. /\ Status(s) = "running" /\ Thrown(s) = None /\ InputsOf(s)' = InputsOf(s)
        /\ Status(s)' = "threw" /\ Thrown(s)' = error[s]
    BY <2>2 DEF Status, Thrown, InputsOf
  <2> QED
    BY <2>1, <2>2, <2>3, <2>4, ViewEnds
<1>8. ASSUME NEW s \in Batches, NEW t \in Workers, VisitInput(s, t)
      PROVE  [Promise!Next]_(Promise!feVars)
  <2> DEFINE i == cursor[s][t]
  <2>1. \A u \in Calls : u # s => View(u) /\ Same(u)
    BY <1>1, <1>8 DEF WorkerStep
  <2>2. /\ pc[s] = "team" /\ request[s] \in Requests
        /\ i \in Indices /\ i < request[s].size /\ visits[s][i] = 0
    BY <1>0, <1>8, VisitedOnce DEF VisitInput, ControlInv, CallInv
  <2>3. s \in Calls
    BY <1>0, <2>2 DEF ControlInv, ControlOk, Calls
  <2>4. pc' = pc /\ request' = request /\ error' = error
        /\ visits' = [visits EXCEPT ![s][i] = @ + 1]
        /\ (raised' = raised \/ raised' = [raised EXCEPT ![s] = @ \cup {i}])
    BY <1>8 DEF VisitInput, Apply
  <2>5. View(s) /\ Status(s) = "running"
    BY <2>2, <2>4 DEF Status, Thrown, InputsOf
  <2>6. i \in InputsOf(s)
    <3>1. i \in Nat /\ request[s].size \in Nat
      BY <2>2, RequestFacts, ConstantFacts
    <3> HIDE DEF i
    <3> QED
      BY <2>2, <3>1 DEF InputsOf
  <2> QED
    BY <1>0, <2>1, <2>2, <2>3, <2>4, <2>5, <2>6, ViewVisits
<1>9. ASSUME NEW s \in Batches, NEW t \in Workers,
             \/ FetchChunk(s, t) \/ CheckStopped(s, t)
             \/ CatchError(s, t) \/ RecordError(s, t)
      PROVE  [Promise!Next]_(Promise!feVars)
  <2>1. \A u \in Calls : u # s => View(u) /\ Same(u)
    BY <1>1, <1>9 DEF WorkerStep
  <2>2. pc' = pc /\ request' = request /\ Same(s) /\ phase[s][t] # "done"
    BY <1>9 DEF FetchChunk, CheckStopped, CatchError, RecordError
  <2>3. pc[s] = "team"
    BY <1>0, <2>2 DEF ControlInv, ControlOk
  <2>4. View(s)
    BY <2>2, <2>3 DEF Status, Thrown, InputsOf
  <2> QED
    BY <1>2, <2>1, <2>2, <2>4
<1>10. CASE UNCHANGED vars
  BY <1>10, ViewStutters DEF vars, Status, InputsOf, Thrown
<1> QED
  BY <1>3, <1>4, <1>5, <1>6, <1>7, <1>8, <1>9, <1>10
  DEF Next, CallerStep, WorkerStep, Finished

\* ParallelFor does what ForEach promises, for every machine, request, number of
\* concurrent calls, schedule and choice of inputs that throw.
THEOREM KeepsItsPromise == Spec => ImplementsForEach
<1>1. IInv /\ [Next]_vars => [Promise!Next]_(Promise!feVars)
  BY StepMaps
<1> QED
  BY <1>1, InitMaps, Invariance, PTL DEF Spec, ImplementsForEach, Promise!Spec
=============================================================================
