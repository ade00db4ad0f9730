-------------------------- MODULE AsyncBatchProofs ---------------------------
(***************************************************************************)
(* Theorems about AsyncBatch, for every number of calls and buffers, every *)
(* bound on their inputs and every set of failures.                        *)
(***************************************************************************)
EXTENDS AsyncBatch, SequenceFacts

Pending == {"queued", "running", "executed", "cancelled"}

\* An asynchronous call that is not settled holds its inputs as its mode says.
CallState(c) ==
    /\ stage[c] = "unused" => mode[c] = None /\ ~reference[c] /\ snapshot[c] = <<>>
    /\ stage[c] = "inline" => mode[c] = "sync"
    /\ stage[c] \in Pending =>
          mode[c] \in {"safe", "unsafe"} /\ (mode[c] = "unsafe" => reference[c])
    /\ Len(inputs[c]) <= MaxInputs
    /\ stage[c] # "unused" => Len(submitted[c]) = Len(inputs[c])
    /\ reference[c] \/ c \in disturbed => mode[c] = "unsafe"
    /\ snapshot[c] # <<>> => mode[c] = "safe"

\* The loop runs while its call does, over all its inputs.
LoopState(c) ==
    /\ stage[c] \in {"unused", "queued", "cancelled"} => loop[c] = "idle"
    /\ stage[c] \in {"inline", "running"} <=> loop[c] = "running"
    /\ loop[c] = "idle" => visits[c] = [i \in Indices |-> 0] /\ raised[c] = {}
    /\ loop[c] # "idle" => todo[c] = 0 .. Len(inputs[c]) - 1
    /\ loop[c] = "returned" => raised[c] = {} /\ \A i \in todo[c] : visits[c][i] = 1

\* What call c matches, or will match, is what it was passed.
Unchanged(c) ==
    stage[c] \in {"inline", "queued", "running"} =>
        IF mode[c] = "safe" THEN snapshot[c] = submitted[c]
        ELSE c \notin disturbed => Texts(inputs[c]) = submitted[c]

VerdictsRight(c) ==
    c \notin disturbed =>
        \A i \in todo[c] \ raised[c] :
            visits[c][i] = 1 /\ loop[c] \in {"running", "returned"} =>
                verdicts[c][i] \in {submitted[c][i + 1]} \cup ErrorKinds

OutcomeRight(c) ==
    /\ stage[c] # "settled" => outcome[c] = "pending"
    /\ outcome[c] = "resolved" => loop[c] = "returned" /\ Failing(c) = {} /\ ~reference[c]
    /\ stage[c] = "settled" /\ reference[c] => c \in Stuck

CallInv(c) ==
    CallState(c) /\ LoopState(c) /\ Unchanged(c) /\ VerdictsRight(c) /\ OutcomeRight(c)

IInv == TypeOK /\ \A c \in Calls : CallInv(c)

-----------------------------------------------------------------------------
(* Sequences and numbers.                                                  *)

LEMMA IndicesFacts ==
    /\ MaxInputs \in Nat /\ Indices \subseteq Nat
    /\ \A n \in Nat : n <= MaxInputs => 0 .. n - 1 \subseteq Indices
BY CallsAssumption DEF Indices

LEMMA TextsFacts ==
    ASSUME bytes \in [Buffers -> Stored], NEW s \in Seq(Buffers)
    PROVE  /\ Texts(s) \in Seq(Stored)
           /\ Len(Texts(s)) = Len(s)
           /\ \A i \in 1 .. Len(s) : Texts(s)[i] = bytes[s[i]]
<1>1. Len(s) \in Nat /\ DOMAIN s = 1 .. Len(s)
  BY LenProperties
<1>2. \A i \in 1 .. Len(s) : bytes[s[i]] \in Stored
  BY ElementOfSeq
<1>3. Texts(s) \in [1 .. Len(s) -> Stored]
  BY <1>1, <1>2 DEF Texts
<1>4. Texts(s) \in Seq(Stored)
  <2>1. Seq(Stored) = UNION {[1 .. n -> Stored] : n \in Nat}
    BY SeqDef
  <2> QED
    BY <1>1, <1>3, <2>1, Zenon
<1>5. \A i \in 1 .. Len(s) : Texts(s)[i] = bytes[s[i]]
  BY <1>1 DEF Texts
<1>6. Len(Texts(s)) \in Nat /\ 1 .. Len(Texts(s)) = 1 .. Len(s)
  BY <1>3, <1>4, LenProperties
<1>7. Len(Texts(s)) = Len(s)
  BY <1>1, <1>6
<1> QED
  BY <1>4, <1>5, <1>7

-----------------------------------------------------------------------------
(* Types.                                                                  *)

LEMMA SettleType ==
    ASSUME TypeOK, NEW c, NEW r \in Outcomes, Settle(c, r)
    PROVE  outcome' \in [Calls -> Outcomes]
<1>1. "dropped" \in Outcomes
  BY DEF Outcomes, Failures
<1> QED
  BY <1>1 DEF TypeOK, Settle

LEMMA ReportType ==
    ASSUME TypeOK, NEW c \in Calls, Report(c)
    PROVE  outcome' \in [Calls -> Outcomes]
<1>1. CASE \E i \in Failing(c) : Settle(c, verdicts[c][i])
  <2>1. PICK i \in Failing(c) : Settle(c, verdicts[c][i])
    BY <1>1
  <2>2. verdicts[c][i] \in Outcomes
    BY DEF Failing, Outcomes
  <2> QED
    BY <2>1, <2>2, SettleType
<1>2. CASE Settle(c, "resolved") \/ Settle(c, "result_error")
  BY <1>2, SettleType DEF Outcomes, Failures
<1> QED
  BY <1>1, <1>2 DEF Report

\* A loop starts over the inputs of its call.
LEMMA StartType ==
    ASSUME TypeOK, NEW c \in Calls, StartLoop(c)
    PROVE  /\ loop' \in [Calls -> {"idle", "running", "returned", "threw"}]
           /\ todo' \in [Calls -> SUBSET Indices]
           /\ UNCHANGED <<visits, raised, thrown>>
           /\ loop[c] = "idle" /\ loop'[c] = "running"
           /\ todo'[c] = 0 .. Len(inputs'[c]) - 1
           /\ \A d \in Calls \ {c} : loop'[d] = loop[d] /\ todo'[d] = todo[d]
BY DEF TypeOK, StartLoop, Loop!Start

\* A loop that ends visited all its inputs, or gives up what it found.
LEMMA EndType ==
    ASSUME TypeOK, NEW c \in Calls, LoopEnds(c)
    PROVE  /\ loop' \in [Calls -> {"idle", "running", "returned", "threw"}]
           /\ thrown' \in [Calls -> Indices \cup {None}]
           /\ verdicts' \in [Calls -> [Indices -> Stored \cup ErrorKinds \cup {None}]]
           /\ UNCHANGED <<todo, visits, raised>>
           /\ loop[c] = "running"
           /\ \/ /\ loop'[c] = "returned" /\ verdicts'[c] = verdicts[c]
                 /\ raised[c] = {} /\ \A i \in todo[c] : visits[c][i] = 1
              \/ loop'[c] = "threw"
           /\ \A d \in Calls \ {c} : loop'[d] = loop[d] /\ verdicts'[d] = verdicts[d]
<1>1. NoVerdicts \in [Indices -> Stored \cup ErrorKinds \cup {None}]
  BY DEF NoVerdicts
<1>2. CASE Loop!Return(c) /\ UNCHANGED verdicts
  BY <1>2 DEF TypeOK, Loop!Return
<1>3. CASE Loop!Throw(c) /\ verdicts' = [verdicts EXCEPT ![c] = NoVerdicts]
  <2>1. PICK i \in raised[c] : thrown' = [thrown EXCEPT ![c] = i]
    BY <1>3 DEF Loop!Throw
  <2>2. i \in Indices
    BY DEF TypeOK
  <2> QED
    BY <1>1, <1>3, <2>1, <2>2 DEF TypeOK, Loop!Throw
<1> QED
  BY <1>2, <1>3 DEF LoopEnds

LEMMA PassType ==
    ASSUME TypeOK, NEW c \in Calls, NEW m \in Modes, Pass(c, m)
    PROVE  /\ stage[c] = "unused" /\ mode'[c] = m
           /\ mode' \in [Calls -> Modes \cup {None}]
           /\ inputs' \in [Calls -> Seq(Buffers)] /\ inputs'[c] = argument
           /\ submitted' \in [Calls -> Seq(Stored)] /\ submitted'[c] = Texts(argument)
           /\ Len(submitted'[c]) = Len(inputs'[c]) /\ Len(inputs'[c]) <= MaxInputs
           /\ UNCHANGED <<argument, known, bytes, disturbed, closing>>
           /\ \A d \in Calls \ {c} : /\ mode'[d] = mode[d] /\ inputs'[d] = inputs[d]
                                     /\ submitted'[d] = submitted[d]
<1>1. /\ argument \in Seq(Buffers) /\ Len(argument) <= MaxInputs
      /\ Texts(argument) \in Seq(Stored) /\ Len(Texts(argument)) = Len(argument)
  BY TextsFacts DEF TypeOK
<1> QED
  BY <1>1 DEF TypeOK, Pass, programVars

\* The parts of TypeOK that most steps leave alone.
LEMMA TypeFrame ==
    ASSUME TypeOK, UNCHANGED <<argument, known, bytes, disturbed>>, closing' \in BOOLEAN,
           UNCHANGED callVars
             \/ /\ mode' \in [Calls -> Modes \cup {None}]
                /\ inputs' \in [Calls -> Seq(Buffers)]
                /\ submitted' \in [Calls -> Seq(Stored)]
                /\ snapshot' \in [Calls -> Seq(Stored)],
           stage' \in [Calls -> Stages],
           reference' \in [Calls -> BOOLEAN],
           UNCHANGED loopVars
             \/ /\ loop' \in [Calls -> {"idle", "running", "returned", "threw"}]
                /\ todo' \in [Calls -> SUBSET Indices]
                /\ visits' \in [Calls -> [Indices -> {0, 1}]]
                /\ raised' \in [Calls -> SUBSET Indices]
                /\ thrown' \in [Calls -> Indices \cup {None}],
           verdicts' \in [Calls -> [Indices -> Stored \cup ErrorKinds \cup {None}]],
           outcome' \in [Calls -> Outcomes],
           \A c \in Calls : CallState(c)'
    PROVE  TypeOK'
BY DEF TypeOK, callVars, loopVars, CallState

\* A call another call's step leaves alone.
Same(d) ==
    /\ mode'[d] = mode[d] /\ inputs'[d] = inputs[d] /\ submitted'[d] = submitted[d]
    /\ snapshot'[d] = snapshot[d] /\ reference'[d] = reference[d] /\ stage'[d] = stage[d]
    /\ loop'[d] = loop[d] /\ todo'[d] = todo[d] /\ visits'[d] = visits[d]
    /\ raised'[d] = raised[d] /\ verdicts'[d] = verdicts[d] /\ outcome'[d] = outcome[d]

LEMMA CallFrame ==
    ASSUME NEW d \in Calls, CallInv(d), Same(d), disturbed \subseteq disturbed',
           d \in disturbed' => d \in disturbed \/ mode[d] = "unsafe",
           UNCHANGED bytes \/ Unchanged(d)'
    PROVE  CallInv(d)'
<1>1. CallState(d)' /\ LoopState(d)'
  BY DEF Same, CallInv, CallState, LoopState
<1>2. ASSUME UNCHANGED bytes
      PROVE  Unchanged(d)'
  <2>1. Texts(inputs[d])' = Texts(inputs[d])
    BY <1>2 DEF Same, Texts
  <2> QED
    BY <2>1 DEF Same, CallInv, Unchanged
<1>3. Unchanged(d)'
  BY <1>2
<1>4. VerdictsRight(d)'
  BY DEF Same, CallInv, VerdictsRight
<1>5. OutcomeRight(d)'
  BY DEF Same, CallInv, OutcomeRight, Failing
<1> QED
  BY <1>1, <1>3, <1>4, <1>5 DEF CallInv

-----------------------------------------------------------------------------
(* The program, the collector, a teardown.                                 *)

\* Whoever writes a buffer of a pending unsafe call disturbs it, and nothing runs
\* while a synchronous call does.
LEMMA StoreStep ==
    ASSUME IInv, NEW b \in Buffers, NEW x \in Stored, Store(b, x)
    PROVE  IInv'
<1>1. /\ bytes' = [bytes EXCEPT ![b] = x] /\ disturbed' = disturbed \cup Borrowers(b)
      /\ UNCHANGED <<argument, known, callVars, reference, stage, loopVars, verdicts, outcome,
                     closing>>
      /\ \A d \in Calls : stage[d] # "inline"
  BY DEF Store, JsFree
<1>2. ASSUME NEW d \in Calls
      PROVE  Same(d) /\ Unchanged(d)'
  <2>1. Same(d)
    BY <1>1 DEF Same, callVars, loopVars
  <2>2. CASE mode[d] = "safe"
    BY <1>1, <2>1, <2>2 DEF IInv, CallInv, Unchanged, Same
  <2>3. CASE mode[d] # "safe" /\ b \in Range(inputs[d])
    BY <1>1, <2>1, <2>3 DEF IInv, CallInv, Unchanged, Same, CallState, Pending, Borrowers
  <2>4. CASE b \notin Range(inputs[d])
    <3>1. \A i \in DOMAIN inputs[d] : inputs[d][i] # b
      BY <2>4 DEF Range
    <3>2. Texts(inputs[d])' = Texts(inputs[d])
      BY <1>1, <2>1, <3>1 DEF Texts, Same, IInv, TypeOK
    <3> QED
      BY <1>1, <2>1, <3>2 DEF IInv, CallInv, Unchanged, Same
  <2> QED
    BY <2>1, <2>2, <2>3, <2>4
<1>3. Borrowers(b) \subseteq Calls /\ \A d \in Borrowers(b) : mode[d] = "unsafe"
  BY DEF Borrowers
<1>4. \A d \in Calls : CallInv(d)'
  BY <1>1, <1>2, <1>3, CallFrame DEF IInv
<1>5. TypeOK'
  BY <1>1, <1>3 DEF IInv, TypeOK, callVars, loopVars
<1> QED
  BY <1>4, <1>5 DEF IInv

\* The collector frees nothing a pending call borrows.
LEMMA CollectStep ==
    ASSUME IInv, NEW b \in Buffers, Collect(b)
    PROVE  IInv'
<1>1. /\ bytes' = [bytes EXCEPT ![b] = Gone] /\ b \notin Reachable
      /\ UNCHANGED <<argument, known, disturbed, callVars, reference, stage, loopVars, verdicts,
                     outcome, closing>>
  BY DEF Collect
<1>2. ASSUME NEW d \in Calls
      PROVE  Same(d) /\ Unchanged(d)'
  <2>1. Same(d)
    BY <1>1 DEF Same, callVars, loopVars
  <2>2. CASE mode[d] = "safe" \/ stage[d] \notin {"inline", "queued", "running"}
    BY <1>1, <2>1, <2>2 DEF IInv, CallInv, Unchanged, Same
  <2>3. CASE mode[d] # "safe" /\ stage[d] \in {"inline", "queued", "running"}
    <3>1. reference[d] \/ stage[d] = "inline"
      BY <2>3 DEF IInv, CallInv, CallState, Pending
    <3>2. \A i \in DOMAIN inputs[d] : inputs[d][i] # b
      BY <1>1, <3>1 DEF Reachable, Retained, Range
    <3>3. Texts(inputs[d])' = Texts(inputs[d])
      BY <1>1, <2>1, <3>2 DEF Texts, Same, IInv, TypeOK
    <3> QED
      BY <1>1, <2>1, <3>3 DEF IInv, CallInv, Unchanged, Same
  <2> QED
    BY <2>1, <2>2, <2>3
<1>3. \A d \in Calls : CallInv(d)'
  BY <1>1, <1>2, CallFrame DEF IInv
<1>4. Gone \in Stored
  BY DEF Stored
<1>5. TypeOK'
  BY <1>1, <1>4 DEF IInv, TypeOK, callVars, loopVars
<1> QED
  BY <1>3, <1>5 DEF IInv

\* The rest of what the program does, and the end of its environment.
LEMMA ProgramStep ==
    ASSUME IInv,
           UNCHANGED <<bytes, disturbed, callVars, reference, stage, loopVars, verdicts, outcome>>,
           argument' \in Seq(Buffers), Len(argument') <= MaxInputs, known' \subseteq Buffers,
           closing' \in BOOLEAN
    PROVE  IInv'
<1>1. ASSUME NEW d \in Calls
      PROVE  CallInv(d)'
  <2>1. Same(d)
    BY DEF Same, callVars, loopVars
  <2> QED
    BY <2>1, CallFrame DEF IInv
<1>2. TypeOK'
  BY DEF IInv, TypeOK, callVars, loopVars
<1> QED
  BY <1>1, <1>2 DEF IInv

LEMMA ReplaceStep ==
    ASSUME IInv, NEW b \in Buffers, NEW i \in DOMAIN argument, Replace(i, b)
    PROVE  IInv'
<1>1. argument \in Seq(Buffers) /\ Len(argument) <= MaxInputs /\ i \in 1 .. Len(argument)
  BY LenProperties DEF IInv, TypeOK
<1>2. argument' \in Seq(Buffers) /\ Len(argument') = Len(argument)
  BY <1>1, ExceptSeq DEF Replace
<1> QED
  BY <1>1, <1>2, ProgramStep DEF Replace, IInv, TypeOK

LEMMA ShortenStep ==
    ASSUME IInv, Shorten
    PROVE  IInv'
<1>1. argument \in Seq(Buffers) /\ Len(argument) <= MaxInputs /\ MaxInputs \in Nat
      /\ Len(argument) \in Nat
  BY LenProperties, IndicesFacts DEF IInv, TypeOK
<1>2. \A i \in 1 .. Len(argument) - 1 : argument[i] \in Buffers
  BY <1>1, ElementOfSeq
<1>3. argument' = SubSeq(argument, 1, Len(argument) - 1)
  BY DEF Shorten, Front
<1>4. argument' \in Seq(Buffers) /\ Len(argument') <= Len(argument)
  BY <1>1, <1>2, <1>3, SubSeqProperties
<1>5. Len(argument') <= MaxInputs
  BY <1>1, <1>4, LenProperties
<1> QED
  BY <1>4, <1>5, ProgramStep DEF Shorten, IInv, TypeOK

-----------------------------------------------------------------------------
(* The calls.                                                              *)

LEMMA SettleFacts ==
    ASSUME TypeOK, NEW c \in Calls, NEW r, Settle(c, r)
    PROVE  /\ outcome'[c] \in {r, "dropped"}
           /\ \A d \in Calls \ {c} : outcome'[d] = outcome[d]
BY DEF TypeOK, Settle

LEMMA ReportFacts ==
    ASSUME TypeOK, NEW c \in Calls, Report(c)
    PROVE  /\ outcome'[c] = "resolved" => Failing(c) = {}
           /\ \A d \in Calls \ {c} : outcome'[d] = outcome[d]
<1>1. CASE \E i \in Failing(c) : Settle(c, verdicts[c][i])
  <2>1. PICK i \in Failing(c) : Settle(c, verdicts[c][i])
    BY <1>1
  <2>2. verdicts[c][i] # "resolved"
    BY ValuesAssumption DEF Failing
  <2> QED
    BY <2>1, <2>2, SettleFacts
<1>2. CASE Failing(c) = {} /\ (Settle(c, "resolved") \/ Settle(c, "result_error"))
  BY <1>2, SettleFacts
<1> QED
  BY <1>1, <1>2 DEF Report

\* A step of call c leaves the others alone.
LEMMA CallStep ==
    ASSUME IInv, NEW c \in Calls, CallInv(c)', UNCHANGED <<bytes, disturbed>>,
           \A d \in Calls \ {c} : Same(d)
    PROVE  \A d \in Calls : CallInv(d)'
BY CallFrame DEF IInv

LEMMA AsyncStep ==
    ASSUME IInv, NEW c \in Calls, NEW m \in Modes, TestManyAsync(c, m)
    PROVE  IInv'
<1>1. /\ TypeOK /\ CallInv(c) /\ Pass(c, m) /\ m \in {"safe", "unsafe"}
      /\ stage \in [Calls -> Stages] /\ reference \in [Calls -> BOOLEAN]
      /\ snapshot \in [Calls -> Seq(Stored)]
      /\ UNCHANGED <<argument, known, bytes, disturbed, loopVars, verdicts, closing>>
  BY DEF IInv, TestManyAsync, TypeOK, Pass, programVars
<1>2. /\ stage[c] = "unused" /\ mode'[c] = m /\ inputs'[c] = argument
      /\ submitted'[c] = Texts(argument)
      /\ Len(submitted'[c]) = Len(inputs'[c]) /\ Len(inputs'[c]) <= MaxInputs
      /\ \A d \in Calls \ {c} : /\ mode'[d] = mode[d] /\ inputs'[d] = inputs[d]
                                /\ submitted'[d] = submitted[d]
  BY <1>1, PassType
<1>3. /\ loop[c] = "idle" /\ outcome[c] = "pending" /\ snapshot[c] = <<>>
      /\ c \notin disturbed
      /\ Texts(argument) \in Seq(Stored) /\ Texts(inputs[c])' = Texts(argument)
  BY <1>1, <1>2, TextsFacts, ValuesAssumption
     DEF CallInv, CallState, LoopState, OutcomeRight, TypeOK, Texts
<1>4. UNCHANGED <<loop, todo, visits, raised, thrown, verdicts>>
  BY <1>1 DEF loopVars
<1>5. CASE GetAsyncBatch(c, m) /\ stage' = [stage EXCEPT ![c] = "queued"] /\ UNCHANGED outcome
  <2>1. /\ snapshot'[c] = IF m = "safe" THEN Texts(argument) ELSE <<>>
        /\ reference'[c] = (m = "unsafe") /\ stage'[c] = "queued"
        /\ \A d \in Calls \ {c} : Same(d)
        /\ snapshot' \in [Calls -> Seq(Stored)] /\ reference' \in [Calls -> BOOLEAN]
    BY <1>1, <1>2, <1>3, <1>4, <1>5, EmptySeq DEF GetAsyncBatch, Retain, Same
  <2>2. CallState(c)' /\ Unchanged(c)'
    <3>1. CallState(c)'
      BY <1>1, <1>2, <1>3, <2>1 DEF CallState, Pending
    <3>2. Unchanged(c)'
      BY <1>1, <1>2, <1>3, <2>1 DEF Unchanged
    <3> QED
      BY <3>1, <3>2
  <2>3. LoopState(c)' /\ VerdictsRight(c)' /\ OutcomeRight(c)'
    BY <1>1, <1>3, <1>4, <1>5, <2>1 DEF CallInv, LoopState, VerdictsRight, OutcomeRight
  <2>4. \A d \in Calls : CallInv(d)'
    BY <1>1, <2>1, <2>2, <2>3, CallStep DEF CallInv
  <2>5. stage' \in [Calls -> Stages]
    BY <1>1, <1>5 DEF Stages
  <2>6. TypeOK'
    BY <1>1, <1>5, <2>1, <2>4, <2>5, PassType, TypeFrame DEF CallInv, TypeOK
  <2> QED
    BY <2>4, <2>6 DEF IInv
<1>6. CASE /\ reference' = [reference EXCEPT ![c] = ReleaseAsyncBatch(c, Retain(m))]
           /\ stage' = [stage EXCEPT ![c] = "settled"]
           /\ Settle(c, "setup_error") /\ UNCHANGED snapshot
  <2>1. /\ reference'[c] = (m = "unsafe" /\ c \in Stuck) /\ stage'[c] = "settled"
        /\ outcome'[c] # "resolved"
        /\ \A d \in Calls \ {c} : Same(d)
        /\ reference' \in [Calls -> BOOLEAN]
    BY <1>1, <1>2, <1>4, <1>6, SettleFacts DEF ReleaseAsyncBatch, Retain, Same
  <2>2. CallState(c)' /\ Unchanged(c)'
    BY <1>1, <1>2, <1>3, <1>6, <2>1 DEF CallState, Unchanged, Pending
  <2>3. LoopState(c)' /\ VerdictsRight(c)' /\ OutcomeRight(c)'
    BY <1>1, <1>3, <1>4, <2>1 DEF CallInv, LoopState, VerdictsRight, OutcomeRight
  <2>4. \A d \in Calls : CallInv(d)'
    BY <1>1, <2>1, <2>2, <2>3, CallStep DEF CallInv
  <2>5. stage' \in [Calls -> Stages] /\ outcome' \in [Calls -> Outcomes]
    BY <1>1, <1>6, SettleType DEF Stages, Outcomes, Failures
  <2>6. TypeOK'
    BY <1>1, <1>6, <2>1, <2>4, <2>5, PassType, TypeFrame DEF CallInv, TypeOK
  <2> QED
    BY <2>4, <2>6 DEF IInv
<1> QED
  BY <1>5, <1>6 DEF TestManyAsync

LEMMA TestManyStep ==
    ASSUME IInv, NEW c \in Calls, TestMany(c)
    PROVE  IInv'
<1>1. /\ TypeOK /\ CallInv(c) /\ Pass(c, "sync") /\ "sync" \in Modes
      /\ stage \in [Calls -> Stages]
      /\ UNCHANGED <<argument, known, bytes, disturbed, verdicts, closing, snapshot, reference>>
  BY DEF IInv, TestMany, TypeOK, Pass, programVars, Modes
<1>2. /\ stage[c] = "unused" /\ mode'[c] = "sync" /\ inputs'[c] = argument
      /\ submitted'[c] = Texts(argument)
      /\ Len(submitted'[c]) = Len(inputs'[c]) /\ Len(inputs'[c]) <= MaxInputs
      /\ \A d \in Calls \ {c} : /\ mode'[d] = mode[d] /\ inputs'[d] = inputs[d]
                                /\ submitted'[d] = submitted[d]
  BY <1>1, PassType
<1>3. /\ loop[c] = "idle" /\ outcome[c] = "pending" /\ snapshot[c] = <<>> /\ ~reference[c]
      /\ c \notin disturbed
      /\ visits[c] = [i \in Indices |-> 0] /\ raised[c] = {}
      /\ Texts(inputs[c])' = Texts(argument)
  BY <1>1, <1>2, ValuesAssumption DEF CallInv, CallState, LoopState, OutcomeRight, Texts
<1>4. CASE stage' = [stage EXCEPT ![c] = "inline"] /\ StartLoop(c) /\ UNCHANGED outcome
  <2>1. /\ loop'[c] = "running" /\ todo'[c] = 0 .. Len(inputs'[c]) - 1
        /\ UNCHANGED <<visits, raised, thrown>>
        /\ \A d \in Calls \ {c} : loop'[d] = loop[d] /\ todo'[d] = todo[d]
    BY <1>1, <1>4, StartType
  <2>2. stage'[c] = "inline" /\ \A d \in Calls \ {c} : Same(d)
    BY <1>1, <1>2, <1>4, <2>1 DEF Same
  <2>3. CallState(c)' /\ LoopState(c)' /\ Unchanged(c)'
    BY <1>1, <1>2, <1>3, <2>1, <2>2 DEF CallState, LoopState, Unchanged, Pending
  <2>4. \A i \in todo'[c] : visits'[c][i] # 1
    <3>1. todo'[c] \subseteq Indices
      BY <1>1, <1>4, StartType
    <3> QED
      BY <1>3, <2>1, <3>1
  <2>5. VerdictsRight(c)' /\ OutcomeRight(c)'
    BY <1>1, <1>3, <1>4, <2>2, <2>4 DEF VerdictsRight, OutcomeRight
  <2>6. \A d \in Calls : CallInv(d)'
    BY <1>1, <2>2, <2>3, <2>5, CallStep DEF CallInv
  <2>7. stage' \in [Calls -> Stages]
    BY <1>1, <1>4 DEF Stages
  <2>8. TypeOK'
    BY <1>1, <1>4, <2>6, <2>7, PassType, StartType, TypeFrame DEF CallInv, TypeOK
  <2> QED
    BY <2>6, <2>8 DEF IInv
<1>5. CASE /\ stage' = [stage EXCEPT ![c] = "settled"]
           /\ Settle(c, "setup_error") /\ UNCHANGED loopVars
  <2>1. /\ stage'[c] = "settled" /\ outcome'[c] # "resolved"
        /\ \A d \in Calls \ {c} : Same(d)
        /\ UNCHANGED <<loop, todo, visits, raised, thrown>>
    BY <1>1, <1>2, <1>5, SettleFacts DEF Same, loopVars
  <2>2. CallState(c)' /\ LoopState(c)' /\ Unchanged(c)'
    BY <1>1, <1>2, <1>3, <2>1 DEF CallState, LoopState, Unchanged, Pending
  <2>3. VerdictsRight(c)' /\ OutcomeRight(c)'
    BY <1>1, <1>3, <2>1 DEF VerdictsRight, OutcomeRight
  <2>4. \A d \in Calls : CallInv(d)'
    BY <1>1, <2>1, <2>2, <2>3, CallStep DEF CallInv
  <2>5. stage' \in [Calls -> Stages] /\ outcome' \in [Calls -> Outcomes]
    BY <1>1, <1>5, SettleType DEF Stages, Outcomes, Failures
  <2>6. TypeOK'
    BY <1>1, <1>5, <2>4, <2>5, PassType, TypeFrame DEF CallInv, TypeOK
  <2> QED
    BY <2>4, <2>6 DEF IInv
<1> QED
  BY <1>4, <1>5 DEF TestMany

LEMMA StartStep ==
    ASSUME IInv, NEW c \in Calls, StartWork(c)
    PROVE  IInv'
<1>1. /\ TypeOK /\ CallInv(c) /\ stage[c] = "queued"
      /\ stage \in [Calls -> Stages] /\ stage' = [stage EXCEPT ![c] = "running"]
      /\ UNCHANGED <<argument, known, bytes, disturbed, callVars, reference, verdicts, outcome,
                     closing>>
  BY DEF IInv, StartWork, TypeOK, programVars
<1>2. UNCHANGED <<mode, inputs, submitted, snapshot>>
  BY <1>1 DEF callVars
<1>3. /\ loop'[c] = "running" /\ todo'[c] = 0 .. Len(inputs'[c]) - 1
      /\ todo'[c] \subseteq Indices
      /\ UNCHANGED <<visits, raised, thrown>>
      /\ \A d \in Calls \ {c} : loop'[d] = loop[d] /\ todo'[d] = todo[d]
  BY <1>1, StartType DEF StartWork
<1>4. /\ loop[c] = "idle" /\ outcome[c] = "pending"
      /\ visits[c] = [i \in Indices |-> 0] /\ raised[c] = {}
      /\ Texts(inputs[c])' = Texts(inputs[c])
  BY <1>1, <1>2 DEF CallInv, LoopState, OutcomeRight, Texts
<1>5. stage'[c] = "running" /\ \A d \in Calls \ {c} : Same(d)
  BY <1>1, <1>2, <1>3 DEF Same
<1>6. CallState(c)' /\ LoopState(c)' /\ Unchanged(c)'
  BY <1>1, <1>2, <1>3, <1>4, <1>5 DEF CallInv, CallState, LoopState, Unchanged, Pending
<1>7. \A i \in todo'[c] : visits'[c][i] # 1
  BY <1>3, <1>4
<1>8. VerdictsRight(c)' /\ OutcomeRight(c)'
  BY <1>1, <1>4, <1>5, <1>7 DEF VerdictsRight, OutcomeRight
<1>9. \A d \in Calls : CallInv(d)'
  BY <1>1, <1>5, <1>6, <1>8, CallStep DEF CallInv
<1>10. stage' \in [Calls -> Stages]
  BY <1>1 DEF Stages
<1>11. TypeOK'
  <2>1. /\ closing' \in BOOLEAN /\ reference' \in [Calls -> BOOLEAN]
        /\ verdicts' \in [Calls -> [Indices -> Stored \cup ErrorKinds \cup {None}]]
        /\ outcome' \in [Calls -> Outcomes]
        /\ visits' \in [Calls -> [Indices -> {0, 1}]]
        /\ raised' \in [Calls -> SUBSET Indices] /\ thrown' \in [Calls -> Indices \cup {None}]
    BY <1>1, <1>3 DEF TypeOK
  <2>2. \A d \in Calls : CallState(d)'
    BY <1>9 DEF CallInv
  <2>3. /\ loop' \in [Calls -> {"idle", "running", "returned", "threw"}]
        /\ todo' \in [Calls -> SUBSET Indices]
    BY <1>1, StartType DEF StartWork
  <2> QED
    BY <1>1, <1>10, <2>1, <2>2, <2>3, TypeFrame
<1> QED
  BY <1>9, <1>11 DEF IInv

\* A step that only moves call c on, its loop neither started nor ended.
LEMMA CancelStep ==
    ASSUME IInv, NEW c \in Calls, CancelWork(c)
    PROVE  IInv'
<1>1. /\ TypeOK /\ CallInv(c) /\ stage[c] = "queued"
      /\ stage \in [Calls -> Stages] /\ stage' = [stage EXCEPT ![c] = "cancelled"]
      /\ UNCHANGED <<argument, known, bytes, disturbed, callVars, reference, loopVars, verdicts,
                     outcome, closing>>
  BY DEF IInv, CancelWork, TypeOK, programVars
<1>2. UNCHANGED <<mode, inputs, submitted, snapshot, loop, todo, visits, raised>>
  BY <1>1 DEF callVars, loopVars
<1>3. stage'[c] = "cancelled" /\ \A d \in Calls \ {c} : Same(d)
  BY <1>1, <1>2 DEF Same
<1>4. CallInv(c)'
  BY <1>1, <1>2, <1>3
     DEF CallInv, CallState, LoopState, Unchanged, VerdictsRight, OutcomeRight, Pending, Failing
<1>5. \A d \in Calls : CallInv(d)'
  BY <1>1, <1>3, <1>4, CallStep
<1>6. stage' \in [Calls -> Stages]
  BY <1>1 DEF Stages
<1>7. TypeOK'
  <2>1. /\ closing' \in BOOLEAN /\ reference' \in [Calls -> BOOLEAN]
        /\ verdicts' \in [Calls -> [Indices -> Stored \cup ErrorKinds \cup {None}]]
        /\ outcome' \in [Calls -> Outcomes]
    BY <1>1 DEF TypeOK
  <2>2. \A d \in Calls : CallState(d)'
    BY <1>5 DEF CallInv
  <2> QED
    BY <1>1, <1>6, <2>1, <2>2, TypeFrame
<1> QED
  BY <1>5, <1>7 DEF IInv

\* What is matched is what was passed.
LEMMA TextFacts ==
    ASSUME IInv, NEW c \in Calls, NEW i \in todo[c], loop[c] = "running"
    PROVE  /\ i \in Indices /\ Text(c, i) \in Stored
           /\ c \notin disturbed => Text(c, i) = submitted[c][i + 1]
<1>1. /\ TypeOK /\ CallInv(c) /\ inputs[c] \in Seq(Buffers) /\ i \in Indices
      /\ submitted[c] \in Seq(Stored)
  BY DEF IInv, TypeOK
<1>2. /\ stage[c] \in {"inline", "running"} /\ todo[c] = 0 .. Len(inputs[c]) - 1
      /\ Len(submitted[c]) = Len(inputs[c])
  BY <1>1 DEF CallInv, CallState, LoopState
<1>3. Len(inputs[c]) \in Nat /\ i + 1 \in 1 .. Len(inputs[c])
  BY <1>1, <1>2, LenProperties
<1>4. inputs[c][i + 1] \in Buffers /\ submitted[c][i + 1] \in Stored
  BY <1>1, <1>2, <1>3, ElementOfSeq
<1>5. CASE mode[c] = "safe"
  BY <1>1, <1>2, <1>4, <1>5 DEF CallInv, Unchanged, Text
<1>6. CASE mode[c] # "safe"
  <2>1. Text(c, i) = bytes[inputs[c][i + 1]]
    BY <1>6 DEF Text
  <2>2. Texts(inputs[c])[i + 1] = bytes[inputs[c][i + 1]]
    BY <1>1, <1>3, TextsFacts DEF TypeOK
  <2>3. c \notin disturbed => Texts(inputs[c]) = submitted[c]
    BY <1>1, <1>2, <1>6 DEF CallInv, Unchanged
  <2>4. bytes[inputs[c][i + 1]] \in Stored
    BY <1>1, <1>4 DEF TypeOK
  <2> QED
    BY <1>1, <2>1, <2>2, <2>3, <2>4
<1> QED
  BY <1>5, <1>6

LEMMA MatchStep ==
    ASSUME IInv, NEW c \in Calls, NEW i \in todo[c], NEW v \in {Text(c, i)} \cup ErrorKinds,
           Match(c, i, v)
    PROVE  IInv'
<1>1. /\ TypeOK /\ CallInv(c) /\ loop[c] = "running"
      /\ visits' = [visits EXCEPT ![c][i] = 1]
      /\ raised' = raised \/ raised' = [raised EXCEPT ![c] = @ \cup {i}]
      /\ verdicts' = IF raised' = raised THEN [verdicts EXCEPT ![c][i] = v] ELSE verdicts
      /\ UNCHANGED <<loop, todo, thrown, argument, known, bytes, disturbed, callVars, reference,
                     stage, outcome, closing>>
  BY DEF IInv, Match, Loop!Visit, programVars
<1>2. /\ i \in Indices /\ Text(c, i) \in Stored
      /\ c \notin disturbed => Text(c, i) = submitted[c][i + 1]
  BY <1>1, TextFacts
<1>3. UNCHANGED <<mode, inputs, submitted, snapshot>>
  BY <1>1 DEF callVars
<1>4. /\ visits' \in [Calls -> [Indices -> {0, 1}]]
      /\ raised' \in [Calls -> SUBSET Indices]
      /\ verdicts' \in [Calls -> [Indices -> Stored \cup ErrorKinds \cup {None}]]
      /\ \A j \in Indices \ {i} : /\ visits'[c][j] = visits[c][j]
                                 /\ verdicts'[c][j] = verdicts[c][j]
      /\ raised[c] \subseteq raised'[c]
      /\ i \notin raised'[c] => verdicts'[c][i] = v
  <2>1. v \in Stored \cup ErrorKinds \cup {None}
    BY <1>2
  <2>2. CASE raised' = raised
    BY <1>1, <1>2, <2>1, <2>2 DEF TypeOK
  <2>3. CASE raised' # raised
    <3>1. raised' = [raised EXCEPT ![c] = @ \cup {i}] /\ UNCHANGED verdicts
      BY <1>1, <2>3
    <3> QED
      BY <1>1, <1>2, <3>1 DEF TypeOK
  <2> QED
    BY <2>2, <2>3
<1>5. \A d \in Calls \ {c} : Same(d)
  BY <1>1, <1>3 DEF Same, TypeOK
<1>6. stage[c] \in {"inline", "running"} /\ Texts(inputs[c])' = Texts(inputs[c])
  BY <1>1, <1>3 DEF CallInv, LoopState, Texts
<1>7. CallState(c)' /\ LoopState(c)' /\ Unchanged(c)' /\ OutcomeRight(c)'
  BY <1>1, <1>3, <1>6 DEF CallInv, CallState, LoopState, Unchanged, OutcomeRight, Failing
<1>8. VerdictsRight(c)'
  <2> SUFFICES ASSUME c \notin disturbed, NEW j \in todo[c] \ raised'[c], visits'[c][j] = 1
               PROVE  verdicts'[c][j] \in {submitted[c][j + 1]} \cup ErrorKinds
    BY <1>1, <1>3 DEF VerdictsRight
  <2>1. CASE j = i
    BY <1>2, <1>4, <2>1
  <2>2. CASE j # i
    <3>1. j \in Indices /\ j \notin raised[c]
      BY <1>1, <1>4 DEF TypeOK
    <3> QED
      BY <1>1, <1>4, <2>2, <3>1 DEF CallInv, VerdictsRight
  <2> QED
    BY <2>1, <2>2
<1>9. \A d \in Calls : CallInv(d)'
  BY <1>1, <1>5, <1>7, <1>8, CallStep DEF CallInv
<1>10. TypeOK'
  <2>1. /\ closing' \in BOOLEAN /\ stage' \in [Calls -> Stages]
        /\ reference' \in [Calls -> BOOLEAN] /\ outcome' \in [Calls -> Outcomes]
        /\ loop' \in [Calls -> {"idle", "running", "returned", "threw"}]
        /\ todo' \in [Calls -> SUBSET Indices] /\ thrown' \in [Calls -> Indices \cup {None}]
    BY <1>1 DEF TypeOK
  <2>2. \A d \in Calls : CallState(d)'
    BY <1>9 DEF CallInv
  <2> QED
    BY <1>1, <1>4, <2>1, <2>2, TypeFrame
<1> QED
  BY <1>9, <1>10 DEF IInv

LEMMA ExecuteStep ==
    ASSUME IInv, NEW c \in Calls, Execute(c)
    PROVE  IInv'
<1>1. /\ TypeOK /\ CallInv(c) /\ stage[c] = "running" /\ LoopEnds(c)
      /\ stage \in [Calls -> Stages] /\ stage' = [stage EXCEPT ![c] = "executed"]
      /\ UNCHANGED <<argument, known, bytes, disturbed, callVars, reference, outcome, closing>>
  BY DEF IInv, Execute, TypeOK, programVars
<1>2. UNCHANGED <<mode, inputs, submitted, snapshot>>
  BY <1>1 DEF callVars
<1>3. /\ UNCHANGED <<todo, visits, raised>>
      /\ loop[c] = "running"
      /\ \/ /\ loop'[c] = "returned" /\ verdicts'[c] = verdicts[c]
            /\ raised[c] = {} /\ \A i \in todo[c] : visits[c][i] = 1
         \/ loop'[c] = "threw"
      /\ \A d \in Calls \ {c} : loop'[d] = loop[d] /\ verdicts'[d] = verdicts[d]
  BY <1>1, EndType
<1>4. stage'[c] = "executed" /\ \A d \in Calls \ {c} : Same(d)
  BY <1>1, <1>2, <1>3 DEF Same
<1>5. CallState(c)' /\ LoopState(c)' /\ Unchanged(c)'
  BY <1>1, <1>2, <1>3, <1>4 DEF CallInv, CallState, LoopState, Unchanged, Pending
<1>6. VerdictsRight(c)' /\ OutcomeRight(c)'
  BY <1>1, <1>2, <1>3, <1>4 DEF CallInv, VerdictsRight, OutcomeRight
<1>7. \A d \in Calls : CallInv(d)'
  BY <1>1, <1>4, <1>5, <1>6, CallStep DEF CallInv
<1>8. TypeOK'
  <2>1. /\ closing' \in BOOLEAN /\ reference' \in [Calls -> BOOLEAN]
        /\ outcome' \in [Calls -> Outcomes] /\ todo' \in [Calls -> SUBSET Indices]
        /\ visits' \in [Calls -> [Indices -> {0, 1}]] /\ raised' \in [Calls -> SUBSET Indices]
    BY <1>1, <1>3 DEF TypeOK
  <2>2. stage' \in [Calls -> Stages]
    BY <1>1 DEF Stages
  <2>3. \A d \in Calls : CallState(d)'
    BY <1>7 DEF CallInv
  <2>4. /\ loop' \in [Calls -> {"idle", "running", "returned", "threw"}]
        /\ thrown' \in [Calls -> Indices \cup {None}]
        /\ verdicts' \in [Calls -> [Indices -> Stored \cup ErrorKinds \cup {None}]]
    BY <1>1, EndType
  <2> QED
    BY <1>1, <2>1, <2>2, <2>3, <2>4, TypeFrame
<1> QED
  BY <1>7, <1>8 DEF IInv

LEMMA CompleteStep ==
    ASSUME IInv, NEW c \in Calls, TestManyComplete(c)
    PROVE  IInv'
<1> DEFINE kept == ReleaseAsyncBatch(c, reference[c])
<1>1. /\ TypeOK /\ CallInv(c) /\ stage[c] \in {"cancelled", "executed"}
      /\ stage \in [Calls -> Stages] /\ stage' = [stage EXCEPT ![c] = "settled"]
      /\ reference \in [Calls -> BOOLEAN] /\ reference' = [reference EXCEPT ![c] = kept]
      /\ UNCHANGED <<argument, known, bytes, disturbed, callVars, loopVars, verdicts, closing>>
  BY DEF IInv, TestManyComplete, TypeOK, programVars
<1>2. UNCHANGED <<mode, inputs, submitted, snapshot, loop, todo, visits, raised, thrown>>
  BY <1>1 DEF callVars, loopVars
<1>3. \/ \E r \in Failures : Settle(c, r)
      \/ loop[c] = "returned" /\ ~kept /\ Report(c)
  BY DEF TestManyComplete, Failures
<1>4. /\ outcome'[c] = "resolved" => loop[c] = "returned" /\ ~kept /\ Failing(c) = {}
      /\ outcome' \in [Calls -> Outcomes]
      /\ \A d \in Calls \ {c} : outcome'[d] = outcome[d]
  <2>1. ASSUME NEW r \in Failures, Settle(c, r)
        PROVE  /\ outcome'[c] # "resolved" /\ outcome' \in [Calls -> Outcomes]
               /\ \A d \in Calls \ {c} : outcome'[d] = outcome[d]
    BY <1>1, <2>1, SettleFacts, SettleType DEF Outcomes, Failures
  <2>2. CASE loop[c] = "returned" /\ ~kept /\ Report(c)
    BY <1>1, <2>2, ReportFacts, ReportType
  <2> QED
    BY <1>3, <2>1, <2>2
<1>5. /\ stage'[c] = "settled" /\ reference'[c] = (reference[c] /\ c \in Stuck)
      /\ reference' \in [Calls -> BOOLEAN]
      /\ \A d \in Calls \ {c} : Same(d)
  BY <1>1, <1>2, <1>4 DEF Same, ReleaseAsyncBatch
<1>6. CallState(c)' /\ LoopState(c)' /\ Unchanged(c)' /\ VerdictsRight(c)'
  BY <1>1, <1>2, <1>5
     DEF CallInv, CallState, LoopState, Unchanged, VerdictsRight, Pending
<1>7. OutcomeRight(c)'
  BY <1>1, <1>2, <1>4, <1>5 DEF OutcomeRight, Failing
<1>8. \A d \in Calls : CallInv(d)'
  BY <1>1, <1>5, <1>6, <1>7, CallStep DEF CallInv
<1>9. TypeOK'
  <2>1. /\ closing' \in BOOLEAN /\ stage' \in [Calls -> Stages]
        /\ verdicts' \in [Calls -> [Indices -> Stored \cup ErrorKinds \cup {None}]]
    BY <1>1 DEF TypeOK, Stages
  <2>2. \A d \in Calls : CallState(d)'
    BY <1>8 DEF CallInv
  <2> QED
    BY <1>1, <1>4, <1>5, <2>1, <2>2, TypeFrame
<1> QED
  BY <1>8, <1>9 DEF IInv

LEMMA ReturnsStep ==
    ASSUME IInv, NEW c \in Calls, TestManyReturns(c)
    PROVE  IInv'
<1>1. /\ TypeOK /\ CallInv(c) /\ stage[c] = "inline" /\ LoopEnds(c)
      /\ stage \in [Calls -> Stages] /\ stage' = [stage EXCEPT ![c] = "settled"]
      /\ IF loop'[c] = "threw" THEN Settle(c, "failed") ELSE Report(c)
      /\ UNCHANGED <<argument, known, bytes, disturbed, callVars, reference, closing>>
  BY DEF IInv, TestManyReturns, TypeOK, programVars
<1>2. UNCHANGED <<mode, inputs, submitted, snapshot>>
  BY <1>1 DEF callVars
<1>3. /\ UNCHANGED <<todo, visits, raised>>
      /\ loop[c] = "running"
      /\ \/ /\ loop'[c] = "returned" /\ verdicts'[c] = verdicts[c]
            /\ raised[c] = {} /\ \A i \in todo[c] : visits[c][i] = 1
         \/ loop'[c] = "threw"
      /\ \A d \in Calls \ {c} : loop'[d] = loop[d] /\ verdicts'[d] = verdicts[d]
  BY <1>1, EndType
<1>4. /\ outcome'[c] = "resolved" => loop'[c] = "returned" /\ Failing(c) = {}
      /\ outcome' \in [Calls -> Outcomes]
      /\ \A d \in Calls \ {c} : outcome'[d] = outcome[d]
  <2>1. CASE loop'[c] = "threw" /\ Settle(c, "failed")
    BY <1>1, <2>1, SettleFacts, SettleType DEF Outcomes, Failures
  <2>2. CASE loop'[c] = "returned" /\ Report(c)
    BY <1>1, <2>2, ReportFacts, ReportType
  <2> QED
    BY <1>1, <1>3, <2>1, <2>2
<1>5. stage'[c] = "settled" /\ \A d \in Calls \ {c} : Same(d)
  BY <1>1, <1>2, <1>3, <1>4 DEF Same
<1>6. ~reference[c]
  BY <1>1 DEF CallInv, CallState
<1>7. CallState(c)' /\ LoopState(c)' /\ Unchanged(c)'
  BY <1>1, <1>2, <1>3, <1>5 DEF CallInv, CallState, LoopState, Unchanged, Pending
<1>8. VerdictsRight(c)' /\ OutcomeRight(c)'
  BY <1>1, <1>2, <1>3, <1>4, <1>5, <1>6 DEF CallInv, VerdictsRight, OutcomeRight, Failing
<1>9. \A d \in Calls : CallInv(d)'
  BY <1>1, <1>5, <1>7, <1>8, CallStep DEF CallInv
<1>10. TypeOK'
  <2>1. /\ closing' \in BOOLEAN /\ reference' \in [Calls -> BOOLEAN]
        /\ todo' \in [Calls -> SUBSET Indices]
        /\ visits' \in [Calls -> [Indices -> {0, 1}]] /\ raised' \in [Calls -> SUBSET Indices]
    BY <1>1, <1>3 DEF TypeOK
  <2>2. stage' \in [Calls -> Stages]
    BY <1>1 DEF Stages
  <2>3. \A d \in Calls : CallState(d)'
    BY <1>9 DEF CallInv
  <2>4. /\ loop' \in [Calls -> {"idle", "running", "returned", "threw"}]
        /\ thrown' \in [Calls -> Indices \cup {None}]
        /\ verdicts' \in [Calls -> [Indices -> Stored \cup ErrorKinds \cup {None}]]
    BY <1>1, EndType
  <2> QED
    BY <1>1, <1>4, <2>1, <2>2, <2>3, <2>4, TypeFrame
<1> QED
  BY <1>9, <1>10 DEF IInv

-----------------------------------------------------------------------------
(* Theorems.                                                               *)

LEMMA InvInit == Init => IInv
<1> SUFFICES ASSUME Init PROVE IInv
  OBVIOUS
<1>1. MaxInputs \in Nat /\ argument \in [1 .. MaxInputs -> Buffers]
  BY CallsAssumption DEF Init
<1>2. argument \in Seq(Buffers) /\ Len(argument) = MaxInputs
  <2>1. Seq(Buffers) = UNION {[1 .. n -> Buffers] : n \in Nat}
    BY SeqDef
  <2>2. argument \in Seq(Buffers)
    BY <1>1, <2>1, Zenon
  <2>3. Len(argument) \in Nat /\ 1 .. Len(argument) = 1 .. MaxInputs
    BY <1>1, <2>2, LenProperties
  <2> QED
    BY <1>1, <2>2, <2>3
<1>3. /\ <<>> \in Seq(Buffers) /\ <<>> \in Seq(Stored) /\ Len(<<>>) = 0
      /\ NoVerdicts \in [Indices -> Stored \cup ErrorKinds \cup {None}]
  BY EmptySeq DEF NoVerdicts
<1>4. ASSUME NEW c \in Calls
      PROVE  CallInv(c)
  BY <1>1, <1>3
     DEF Init, Loop!Init, CallInv, CallState, LoopState, Unchanged, VerdictsRight, OutcomeRight,
         Pending
<1>5. TypeOK
  <2>1. /\ argument \in Seq(Buffers) /\ Len(argument) <= MaxInputs /\ known \subseteq Buffers
        /\ bytes \in [Buffers -> Stored] /\ disturbed \subseteq Calls /\ closing \in BOOLEAN
    <3>1. Len(argument) <= MaxInputs
      BY <1>1, <1>2
    <3>2. bytes \in [Buffers -> Contents] /\ Contents \subseteq Stored
      BY DEF Init, Stored
    <3> QED
      BY <1>2, <3>1, <3>2 DEF Init
  <2>2. /\ mode \in [Calls -> Modes \cup {None}] /\ inputs \in [Calls -> Seq(Buffers)]
        /\ submitted \in [Calls -> Seq(Stored)] /\ snapshot \in [Calls -> Seq(Stored)]
        /\ reference \in [Calls -> BOOLEAN] /\ stage \in [Calls -> Stages]
        /\ verdicts \in [Calls -> [Indices -> Stored \cup ErrorKinds \cup {None}]]
        /\ outcome \in [Calls -> Outcomes]
    BY <1>3 DEF Init, Stages, Outcomes
  <2>3. /\ loop \in [Calls -> {"idle", "running", "returned", "threw"}]
        /\ todo \in [Calls -> SUBSET Indices]
        /\ visits \in [Calls -> [Indices -> {0, 1}]]
        /\ raised \in [Calls -> SUBSET Indices] /\ thrown \in [Calls -> Indices \cup {None}]
    BY DEF Init, Loop!Init
  <2> QED
    BY <1>4, <2>1, <2>2, <2>3 DEF TypeOK, CallInv, CallState
<1> QED
  BY <1>4, <1>5 DEF IInv

LEMMA InvNext == IInv /\ [Next]_vars => IInv'
<1> SUFFICES ASSUME IInv, [Next]_vars PROVE IInv'
  OBVIOUS
<1>0. argument \in Seq(Buffers) /\ Len(argument) <= MaxInputs /\ known \subseteq Buffers
      /\ closing \in BOOLEAN
  BY DEF IInv, TypeOK
<1>1. CASE Program
  <2>1. ASSUME NEW b \in Buffers, Forget(b)
        PROVE  IInv'
    BY <1>0, <2>1, ProgramStep DEF Forget
  <2> QED
    BY <1>1, <2>1, StoreStep, ReplaceStep, ShortenStep DEF Program
<1>2. ASSUME NEW c \in Calls, NEW m \in Modes, RegexTestManyAsync(c, m) \/ SetTestManyAsync(c, m)
      PROVE  IInv'
  BY <1>2, AsyncStep DEF RegexTestManyAsync, SetTestManyAsync
<1>3. ASSUME NEW c \in Calls, RegexTestMany(c) \/ SetTestMany(c)
      PROVE  IInv'
  BY <1>3, TestManyStep, ReturnsStep DEF RegexTestMany, SetTestMany
<1>4. ASSUME NEW c \in Calls, PoolStep(c)
      PROVE  IInv'
  <2>1. ASSUME NEW i \in todo[c], MatchRegexBatch(c, i) \/ MatchSetBatch(c, i)
        PROVE  IInv'
    BY <2>1, MatchStep DEF MatchRegexBatch, MatchSetBatch
  <2> QED
    BY <1>4, <2>1, StartStep, ExecuteStep DEF PoolStep, RegexTestManyExecute, SetTestManyExecute
<1>5. ASSUME NEW c \in Calls, Complete(c)
      PROVE  IInv'
  BY <1>5, CompleteStep DEF Complete, RegexTestManyComplete, SetTestManyComplete
<1>6. CASE TerminateEnv
  BY <1>0, <1>6, ProgramStep DEF TerminateEnv, programVars
<1>7. CASE UNCHANGED vars
  BY <1>0, <1>7, ProgramStep DEF vars, programVars
<1> QED
  BY <1>1, <1>2, <1>3, <1>4, <1>5, <1>6, <1>7, CollectStep, CancelStep DEF Next, Quiescent

LEMMA InvCorrect == Spec => []IInv
BY InvInit, InvNext, PTL DEF Spec

\* Every state is well typed; only unsafe calls retain their inputs array, and only
\* safe ones hold a copy.
THEOREM TypeCorrect == Spec => []TypeOK
<1>1. IInv => TypeOK
  BY DEF IInv
<1> QED
  BY <1>1, InvCorrect, PTL

\* No interleaving of the program, the collector and the pool frees, or writes
\* unnoticed, a buffer that a pending call borrows.
THEOREM BorrowersAreSafe == Spec => []BorrowedStaysIntact
<1>1. IInv => BorrowedStaysIntact
  BY DEF IInv, CallInv, CallState, Unchanged, BorrowedStaysIntact
<1> QED
  BY <1>1, InvCorrect, PTL

\* Whatever fails, a settled call has let go of its inputs array, unless deleting
\* the reference failed, and then it has not resolved.
THEOREM NothingIsRetained == Spec => []NothingRetained
<1>1. IInv => NothingRetained
  BY DEF IInv, CallInv, OutcomeRight, NothingRetained
<1> QED
  BY <1>1, InvCorrect, PTL

\* A call resolves to the matches of the contents its inputs had when it was made,
\* in their order, unless the program disturbed it.
THEOREM ResolvesRight == Spec => []ResolvesToSubmitted
<1>1. ASSUME IInv, NEW c \in Calls, outcome[c] = "resolved", mode[c] = "unsafe" => c \notin disturbed
      PROVE  Result(c) = submitted[c]
  <2>1. CallInv(c) /\ inputs[c] \in Seq(Buffers) /\ submitted[c] \in Seq(Stored)
    BY <1>1 DEF IInv, TypeOK
  <2>2. /\ loop[c] = "returned" /\ Failing(c) = {} /\ stage[c] = "settled"
        /\ raised[c] = {} /\ \A i \in todo[c] : visits[c][i] = 1
        /\ todo[c] = 0 .. Len(inputs[c]) - 1
        /\ Len(submitted[c]) = Len(inputs[c]) /\ Len(inputs[c]) <= MaxInputs
    BY <1>1, <2>1 DEF CallInv, OutcomeRight, LoopState, CallState
  <2>3. c \notin disturbed
    BY <1>1, <2>1 DEF CallInv, CallState
  <2>4. /\ Len(inputs[c]) \in Nat /\ DOMAIN inputs[c] = 1 .. Len(inputs[c])
        /\ DOMAIN submitted[c] = 1 .. Len(inputs[c]) /\ todo[c] \subseteq Indices
    BY <2>1, <2>2, LenProperties, IndicesFacts
  <2>5. ASSUME NEW i \in 1 .. Len(inputs[c])
        PROVE  verdicts[c][i - 1] = submitted[c][i]
    <3>1. i - 1 \in todo[c] /\ i - 1 \in Indices /\ (i - 1) + 1 = i
      BY <2>2, <2>4
    <3>2. verdicts[c][i - 1] \in {submitted[c][(i - 1) + 1]} \cup ErrorKinds
      BY <2>1, <2>2, <2>3, <3>1 DEF CallInv, VerdictsRight
    <3>3. verdicts[c][i - 1] \notin ErrorKinds
      BY <2>2, <3>1 DEF Failing
    <3> QED
      BY <3>1, <3>2, <3>3
  <2>6. Result(c) = [i \in 1 .. Len(inputs[c]) |-> submitted[c][i]]
    BY <2>4, <2>5 DEF Result
  <2>7. submitted[c] = [i \in 1 .. Len(inputs[c]) |-> submitted[c][i]]
    BY <2>1, <2>2, LenProperties
  <2> QED
    BY <2>6, <2>7
<1>2. IInv => ResolvesToSubmitted
  BY <1>1 DEF ResolvesToSubmitted
<1> QED
  BY <1>2, InvCorrect, PTL
=============================================================================
