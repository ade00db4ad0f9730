------------------------------ MODULE NativeCalls ------------------------------
(***************************************************************************)
(* The calls of RE2 and RE2Set on the JavaScript thread, from the caller's *)
(* arguments to what matching or compiling works on: the normalization of  *)
(* src/binary.ts, then native/napi-utils.cc behind the bindings.           *)
(*                                                                         *)
(* There is one thread, but reading an element of an array, or an option,  *)
(* may run a getter of the program, which may write, detach or shrink any  *)
(* backing store, or throw.  A call made through the library passes the    *)
(* binding an array of its own; a direct one passes the program's.         *)
(***************************************************************************)
EXTENDS NumberArguments, PatternKey

CONSTANTS
    Buffers,    \* backing stores
    Contents,   \* what a store may hold; nothing once it is detached
    Values,     \* what an element of an array may be
    Numbers,    \* what byteOffset, byteLength and batchSize may be
    Refused,    \* lists of patterns RE2 refuses
    kMaxBatchInputCount, kMaxSetPatternCount, kMaxPatternBytes,
    MaxCount    \* bound: longest array passed

ASSUME LimitsAssumption ==
    /\ Contents \subseteq Seq(Byte) /\ <<>> \in Contents
    /\ {kMaxBatchInputCount, kMaxSetPatternCount, kMaxPatternBytes} \subseteq Nat
    /\ MaxCount \in Nat \ {0}

\* A view has elements first .. of its store, each of width bytes; a string is its UTF-8.
ASSUME ArgumentsAssumption ==
    /\ \A v \in Values :
          /\ v.type = "view" => /\ v.buffer \in Buffers /\ v.first \in Nat
                                /\ v.elements \in Nat /\ v.width \in Nat \ {0}
          /\ v.type = "string" => v.text \in Seq(Byte)
    /\ Numbers \subseteq Passed

\* kMaxPatternBytes is 16 MiB, and sizes are encoded as uint64_t.
ASSUME KeyLimitAssumption == kMaxPatternBytes < Power[WordBytes]

VARIABLES
    store,      \* the bytes of every backing store
    pc,         \* what the JavaScript thread is doing
    call,       \* the call in progress, or the last one
    given,      \* normalized array the library passes
    fetched,    \* elements read so far from the caller's array, or from given
    patterns,   \* patterns copied so far
    texts,      \* byte views taken so far
    batch,      \* snapshot of an asynchronous call
    context,    \* type tag of the context the program made last
    outcome     \* how the call ended

callVars == <<call, given, fetched, patterns, texts, batch, context, outcome>>
vars == <<store, pc, callVars>>

Inits == {"regex_init", "set_init"}
SingleTests == {"regex_test", "set_test"}
Batches == {"regex_test_many", "set_test_many"}
AsyncBatches == {"regex_test_many_async", "set_test_many_async"}
Functions == Inits \cup SingleTests \cup Batches \cup AsyncBatches

\* The type tag of the context a function makes or takes.
Tag(function) ==
    IF function \in {"regex_init", "regex_test", "regex_test_many", "regex_test_many_async"}
      THEN "regex" ELSE "set"

NoCall == [function |-> "none", direct |-> FALSE, count |-> 0]
NoBatch == [bytes |-> <<>>, offsets |-> <<>>]

\* Bytes first .. first + size - 1 of a store.
ByteViews == [buffer: Buffers, first: Nat, size: Nat]

Bytes(view) == SubSeq(store[view.buffer], view.first + 1, view.first + view.size)

CallTypeOK ==
    /\ store \in [Buffers -> Contents]
    /\ pc \in {"idle", "normalize", "options", "collect", "returning"}
    /\ call = NoCall
          \/ call \in [function: Functions, direct: BOOLEAN, count: 0 .. MaxCount]
    /\ given \in Seq(Values) /\ fetched \in Seq(Values)
    /\ patterns \in Seq(Seq(Byte))
    /\ texts \in Seq(ByteViews)
    /\ batch \in [bytes: Seq(Byte), offsets: Seq(SizeT)]
    /\ context \in {"none", "regex", "set"}
    /\ outcome \in {"none", "returned", "thrown", "TypeError", "RangeError", "Error"}

Init ==
    /\ store \in [Buffers -> Contents]
    /\ pc = "idle"
    /\ call = NoCall
    /\ given = <<>> /\ fetched = <<>> /\ patterns = <<>> /\ texts = <<>>
    /\ batch = NoBatch
    /\ context = "none"
    /\ outcome = "none"

-----------------------------------------------------------------------------
(* Values.  A view of elements of a given width tracks its store: it is    *)
(* empty once it no longer fits.                                           *)

IsView(v) == v.type = "view"
IsPattern(v) == v.type \in {"view", "string"}

\* What the engine reports: the length in elements, zero when out of bounds.
ViewLength(v) ==
    IF v.first + v.elements * v.width <= Len(store[v.buffer]) THEN v.elements ELSE 0

SizeInBytes(v) == ViewLength(v) * v.width

GetByteView(v) == [buffer |-> v.buffer, first |-> v.first, size |-> SizeInBytes(v)]

\* The bytes of a pattern: of a string, its UTF-8.
PatternBytes(v) == IF v.type = "string" THEN v.text ELSE Bytes(GetByteView(v))

Total(s) == FoldLeft(LAMBDA n, item : n + Len(item), 0, s)
TotalBytes(views) == FoldLeft(LAMBDA n, view : n + view.size, 0, views)

\* Seeded fault: the end of a text is recorded before the text is appended.
OffsetBeforeText(bytes, text) == Len(bytes)

OffsetAfterText(bytes, text) == Len(bytes) + Len(text)

\* GetTextBatch, once the views are known.
Snapshot(views) ==
    FoldLeft(LAMBDA b, view :
                 [bytes |-> b.bytes \o Bytes(view),
                  offsets |-> Append(b.offsets, OffsetAfterText(b.bytes, Bytes(view)))],
             [bytes |-> <<>>, offsets |-> <<0>>], views)

\* TextBatch::operator[], from 1.
TextAt(b, i) == SubSeq(b.bytes, b.offsets[i] + 1, b.offsets[i + 1])

-----------------------------------------------------------------------------
(* The program.                                                            *)

\* Code of the program runs between calls, and in the getters of what is read from
\* its options and arrays; the constructor of RE2 reads from neither.
JsRuns ==
    \/ pc \in {"idle", "options"}
    \/ /\ call.function # "regex_init"
       /\ pc = "normalize" \/ (pc = "collect" /\ call.direct /\ Len(fetched) < call.count)

Write(b, contents) ==
    /\ JsRuns
    /\ store[b] # contents
    /\ store' = [store EXCEPT ![b] = contents]
    /\ UNCHANGED <<pc, callVars>>

-----------------------------------------------------------------------------
(* The calls.                                                              *)

Return(how) == pc' = "returning" /\ outcome' = how

Limit(function) ==
    CASE function = "regex_init" -> 1
      [] function = "set_init" -> kMaxSetPatternCount
      [] OTHER -> kMaxBatchInputCount

\* GetTaggedExternal.
ContextMatches(function) == function \in Inits \/ context = Tag(function)

\* A method belongs to an object of its class; only a direct call can bring the
\* wrong context.  The constructor of RE2 takes one pattern and no array.
StartCall(function, direct, count, elements, views) ==
    /\ pc = "idle"
    /\ function = "regex_init" => count = 1
    /\ ~direct => ContextMatches(function)
    /\ call' = [function |-> function, direct |-> direct, count |-> count]
    /\ fetched' = elements
    /\ texts' = views
    /\ UNCHANGED <<store, given, patterns, batch, context>>

\* The checks before anything is read from the array, which may be no array.  A direct
\* asynchronous call has its batchSize checked here, and that unsafe is a boolean; a
\* synchronous one last.
Call(function, direct, count, x) ==
    LET checked == direct /\ function \in AsyncBatches
        batch_size == GetBatchSize(x)
    IN  /\ function \notin SingleTests
        /\ StartCall(function, direct, count, <<>>, <<>>)
        /\ IF ~ContextMatches(function) THEN Return("TypeError")
           ELSE IF checked /\ Throws(batch_size) THEN Return(batch_size.thrown)
           ELSE \/ function # "regex_init" /\ Return("TypeError")
                \/ IF count > Limit(function) THEN Return("RangeError")
                   ELSE /\ pc' = IF direct THEN "collect" ELSE "normalize"
                        /\ UNCHANGED outcome

\* One view, whose range is taken at once.
TestCall(function, direct, v, byteOffset, byteLength) ==
    LET range == IF direct THEN GetText(SizeInBytes(v), byteOffset, byteLength)
                           ELSE Test(SizeInBytes(v), byteOffset, byteLength)
    IN  /\ function \in SingleTests
        /\ IF ~ContextMatches(function) \/ ~IsView(v) \/ Throws(range)
             THEN StartCall(function, direct, 1, <<>>, <<>>) /\ Return("TypeError")
             ELSE /\ StartCall(function, direct, 1, <<v>>,
                           <<[buffer |-> v.buffer, first |-> v.first + range.value.begin,
                              size |-> range.value.size]>>)
                  /\ Return("returned") \/ Return("Error")

RegexTest(direct, v, byteOffset, byteLength) ==
    TestCall("regex_test", direct, v, byteOffset, byteLength)

SetTest(direct, v, byteOffset, byteLength) ==
    TestCall("set_test", direct, v, byteOffset, byteLength)

Patterned == call.function \in Inits
Acceptable(v) == IF Patterned THEN IsPattern(v) ELSE IsView(v)
AllFetched == Len(fetched) = call.count

\* normalizePatterns, normalizeInputs: one element read and checked.
Normalize(v) ==
    /\ pc = "normalize" /\ ~AllFetched
    /\ IF Acceptable(v) THEN UNCHANGED <<pc, outcome>> ELSE Return("TypeError")
    /\ fetched' = Append(fetched, v)
    /\ UNCHANGED <<store, call, given, patterns, texts, batch, context>>

Normalized ==
    /\ pc = "normalize" /\ AllFetched
    /\ pc' = IF Patterned THEN "collect" ELSE "options"
    /\ given' = fetched
    /\ fetched' = <<>>
    /\ UNCHANGED <<store, call, patterns, texts, batch, context, outcome>>

\* normalizeBatchSize and normalizeAsyncOptions read the options last; they may not
\* be an object, nor unsafe a boolean.
Options(x) ==
    /\ pc = "options"
    /\ \/ LET batch_size == RequestedBatchSize(x) IN
          IF Throws(batch_size) THEN Return(batch_size.thrown)
                                ELSE pc' = "collect" /\ UNCHANGED outcome
       \/ Return("TypeError")
    /\ UNCHANGED <<store, call, given, fetched, patterns, texts, batch, context>>

\* napi_get_element runs no code on an array the library made.
Element(v) ==
    /\ pc = "collect" /\ ~AllFetched
    /\ ~call.direct => v = given[Len(fetched) + 1]
    /\ fetched' = Append(fetched, v)

\* GetInputValues.
CollectInput(v) ==
    /\ ~Patterned
    /\ Element(v)
    /\ UNCHANGED <<store, pc, call, given, patterns, texts, batch, context, outcome>>

\* Seeded fault: every pattern may have the size of all.
WholeBudget == kMaxPatternBytes

Budget == kMaxPatternBytes - Total(patterns)

\* GetPattern, GetPatterns: a pattern is copied before the next is read.
CollectPattern(v) ==
    /\ Patterned
    /\ Element(v)
    /\ IF IsPattern(v) /\ Len(PatternBytes(v)) <= Budget
         THEN /\ patterns' = Append(patterns, PatternBytes(v))
              /\ UNCHANGED <<pc, outcome>>
         ELSE /\ Return(IF IsPattern(v) THEN "RangeError" ELSE "TypeError")
              /\ UNCHANGED patterns
    /\ UNCHANGED <<store, call, given, texts, batch, context>>

\* RE2, or RE2::Set in the order given, compiles the patterns.
Compile(function) ==
    /\ call.function = function
    /\ pc = "collect" /\ Len(patterns) = call.count
    /\ IF patterns \in Refused
         THEN Return("Error") /\ UNCHANGED context
         ELSE Return("returned") /\ context' = Tag(function)
    /\ UNCHANGED <<store, call, given, fetched, patterns, texts, batch>>

RegexInit == Compile("regex_init")
SetInit == Compile("set_init")

\* Seeded fault: each view is taken as soon as its element has been read.
ReadAtOnce == Len(texts) < Len(fetched)

\* No view is taken before the last element has been read.
ReadAfterCollecting == AllFetched /\ Len(texts) < Len(fetched)

\* Seeded fault: the total may wrap.
Unlimited(size, total) == TRUE

FitsInSize(size, total) == size <= SizeMax - total

\* GetTexts, GetTextBatch: the view of the next input.
ReadText ==
    LET v == fetched[Len(texts) + 1] IN
    /\ pc = "collect" /\ ~Patterned /\ ReadAfterCollecting
    /\ IF ~IsView(v) THEN Return("TypeError") /\ UNCHANGED texts
       ELSE IF ~FitsInSize(SizeInBytes(v), TotalBytes(texts))
         THEN Return("RangeError") /\ UNCHANGED texts
       ELSE texts' = Append(texts, GetByteView(v)) /\ UNCHANGED <<pc, outcome>>
    /\ UNCHANGED <<store, call, given, fetched, patterns, batch, context>>

\* A synchronous batch is matched; an asynchronous one is queued, with a copy of its
\* texts unless it is unsafe.  A direct synchronous call may have its batchSize refused.
Match(x) ==
    LET batch_size == GetBatchSize(x) IN
    /\ pc = "collect" /\ ~Patterned /\ Len(texts) = call.count
    /\ \/ batch' = NoBatch
       \/ call.function \in AsyncBatches /\ batch' = Snapshot(texts)
    /\ IF call.direct /\ call.function \in Batches /\ Throws(batch_size)
         THEN Return(batch_size.thrown)
         ELSE Return("returned") \/ Return("Error")
    /\ UNCHANGED <<store, call, given, fetched, patterns, texts, context>>

\* A getter throws while the caller's array or options are read.
GetterThrows ==
    /\ JsRuns /\ pc # "idle"
    /\ Return("thrown")
    /\ UNCHANGED <<store, call, given, fetched, patterns, texts, batch, context>>

\* Check throws for any call of Node-API that fails.
ApiFails ==
    /\ pc = "collect"
    /\ Return("Error")
    /\ UNCHANGED <<store, call, given, fetched, patterns, texts, batch, context>>

Returned ==
    /\ pc = "returning"
    /\ pc' = "idle"
    /\ call' = NoCall /\ outcome' = "none"
    /\ given' = <<>> /\ fetched' = <<>> /\ patterns' = <<>> /\ texts' = <<>>
    /\ batch' = NoBatch
    /\ UNCHANGED <<store, context>>

Next ==
    \/ \E b \in Buffers, contents \in Contents : Write(b, contents)
    \/ \E function \in Functions, direct \in BOOLEAN, count \in 0 .. MaxCount,
          x \in Numbers : Call(function, direct, count, x)
    \/ \E direct \in BOOLEAN, v \in Values, x, y \in Numbers :
          RegexTest(direct, v, x, y) \/ SetTest(direct, v, x, y)
    \/ \E v \in Values : Normalize(v) \/ CollectInput(v) \/ CollectPattern(v)
    \/ Normalized
    \/ RegexInit
    \/ SetInit
    \/ ReadText
    \/ \E x \in Numbers : Options(x) \/ Match(x)
    \/ GetterThrows
    \/ ApiFails
    \/ Returned

Spec == Init /\ [][Next]_vars

-----------------------------------------------------------------------------
(* Safety, about a call that has returned and let no other code run yet.   *)

Answered == pc = "returning" /\ outcome \in {"returned", "Error"}

\* The bytes of the array element itself, as JavaScript sees them now.
Extent(v) == SubSeq(store[v.buffer], v.first + 1, v.first + ViewLength(v) * v.width)

\* What is matched are the bytes the inputs have when the call returns, whatever the
\* getters that ran while they were collected did to the stores: "collects batch
\* values before reading their backing stores".  No view reaches past its store.
TextsAreInputs ==
    /\ pc = "returning" =>
          \A i \in DOMAIN texts :
             texts[i].size > 0 =>
                 texts[i].first + texts[i].size <= Len(store[texts[i].buffer])
    /\ Answered /\ call.function \in Batches \cup AsyncBatches /\ texts # <<>> =>
          \A i \in DOMAIN texts : Bytes(texts[i]) = Extent(fetched[i])

\* The snapshot of an asynchronous batch has the bytes of every input at its index.
SnapshotIsInputs ==
    Answered /\ batch # NoBatch =>
        /\ Len(batch.offsets) = call.count + 1
        /\ \A i \in 1 .. call.count : TextAt(batch, i) = Extent(fetched[i])

\* "Async compilations are cached by the complete ordered pattern bytes": the key
\* yields the patterns it was made of, so that two lists never share one, and a
\* worker thread compiles the bytes the patterns have when the call returns.
KeyHoldsPatterns ==
    pc = "returning" =>
        /\ CompileEncodedSet(SetCompileCacheKey(patterns)) =
               [complete |-> TRUE, patterns |-> patterns]
        /\ Patterned /\ outcome = "returned" /\ ~call.direct =>
               \A i \in DOMAIN patterns :
                  patterns[i] = IF given[i].type = "string" THEN given[i].text
                                                            ELSE Extent(given[i])

\* A set has the patterns of the call, in order, and "accepts at most" the documented
\* number and bytes: it is refused exactly when they are passed.
LimitsAreExact ==
    Patterned /\ pc = "returning" =>
        /\ outcome = "returned" =>
              /\ Len(patterns) = call.count /\ call.count <= Limit(call.function)
              /\ Total(patterns) <= kMaxPatternBytes
        /\ outcome = "RangeError" =>
              \/ call.count > Limit(call.function)
              \/ Total(patterns) + Len(PatternBytes(Last(fetched))) > kMaxPatternBytes
=============================================================================
