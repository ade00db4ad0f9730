-------------------------- MODULE NativeCallsProofs --------------------------
(***************************************************************************)
(* What is matched and compiled are the bytes of the caller's inputs: the  *)
(* safety of NativeCalls.                                                  *)
(*                                                                         *)
(* The first half is about its operators.  The key of a list is taken      *)
(* apart around one pattern, and decoding it is followed from its end to   *)
(* its start; sums and snapshots are folds, followed by induction on the   *)
(* list.  The second half is the inductive invariant, conjunct by          *)
(* conjunct: what a call may hold at each point, what has been read, that  *)
(* the views taken are those of the elements read and are so still,        *)
(* because no code of the program runs once the first has been taken, that *)
(* a snapshot has their bytes, and that the patterns copied fit.           *)
(***************************************************************************)
EXTENDS NativeCalls, ArgumentFacts, SequenceFacts

-----------------------------------------------------------------------------
(* The size of a pattern in bytes, and back.                               *)

\* The quotient of a division is the only number that satisfies it.
LEMMA QuotientUnique ==
    ASSUME NEW a \in Nat, NEW b \in Nat \ {0}, NEW q \in Nat, b * q <= a, a < b * q + b
    PROVE  a \div b = q
<1> DEFINE d == a \div b
<1>1. d \in Nat /\ b * d <= a /\ a < b * d + b
  OBVIOUS
<1> HIDE DEF d
<1>2. ASSUME d < q PROVE FALSE
  <2>1. b * (d + 1) <= b * q /\ b * (d + 1) = b * d + b
    BY <1>1, <1>2
  <2>2. b * d \in Nat /\ b * q \in Nat
    BY <1>1
  <2> QED
    BY <1>1, <2>1, <2>2
<1>3. ASSUME q < d PROVE FALSE
  <2>1. b * (q + 1) <= b * d /\ b * (q + 1) = b * q + b
    BY <1>1, <1>3
  <2>2. b * d \in Nat /\ b * q \in Nat
    BY <1>1
  <2> QED
    BY <1>1, <2>1, <2>2
<1> QED
  BY <1>1, <1>2, <1>3 DEF d

\* Dividing by a product, one factor after the other.
LEMMA QuotientOfQuotient ==
    ASSUME NEW a \in Nat, NEW b \in Nat \ {0}, NEW c \in Nat \ {0}
    PROVE  /\ a \div b \in Nat /\ a \div (c * b) \in Nat
           /\ a \div b = c * (a \div (c * b)) + ((a \div b) % c)
<1> DEFINE q == a \div b
           p == q \div c
           r == q % c
<1>1. q \in Nat /\ b * q <= a /\ a < b * q + b
  OBVIOUS
<1> HIDE DEF q
<1>2. p \in Nat /\ r \in 0 .. c - 1
  BY <1>1
<1>2a. q = c * p + r
  BY <1>1
<1> HIDE DEF p, r
<1>3. c * b \in Nat \ {0}
  OBVIOUS
<1>4. (c * b) * p <= a /\ a < (c * b) * p + c * b
  <2>1. b * q = b * (c * p) + b * r
    BY <1>2, <1>2a
  <2>2. b * (c * p) = (c * b) * p
    BY <1>2
  <2>3. b * (r + 1) <= b * c
    <3>1. r \in Nat /\ r + 1 <= c
      BY <1>2
    <3> QED
      BY <3>1
  <2>4. b * (r + 1) = b * r + b /\ b * c = c * b /\ b * r \in Nat
    BY <1>2
  <2>5. (c * b) * p \in Nat /\ b * q \in Nat
    BY <1>1, <1>2, <1>3
  <2> QED
    BY <1>1, <1>3, <2>1, <2>2, <2>3, <2>4, <2>5
<1>5. a \div (c * b) = p
  BY <1>2, <1>3, <1>4, QuotientUnique
<1> QED
  BY <1>1, <1>2, <1>2a, <1>5 DEF q, p, r

LEMMA PowerFacts ==
    /\ Power[0] = 1
    /\ \A n \in 0 .. WordBytes : Power[n] \in Nat \ {0}
    /\ \A n \in 1 .. WordBytes : Power[n] = ByteBase * Power[n - 1]
<1> DEFINE D == 0 .. WordBytes
           rank == [n \in D |-> n]
           next == [n \in D |-> IF n = 0 THEN 0 ELSE n - 1]
           first == [n \in D |-> 1]
           step == [p \in D \X (Nat \ {0}) |-> ByteBase * p[2]]
           Solves(f) == f = [n \in D |-> IF n = 0 THEN 1 ELSE ByteBase * f[n - 1]]
<1>1. WordBytes \in Nat /\ ByteBase \in Nat \ {0}
  BY KeyAssumption
<1>2. Descends(D, Nat \ {0}, WordBytes, rank, {0}, next, first, step)
  <2>1. step \in [D \X (Nat \ {0}) -> Nat \ {0}]
    BY <1>1
  <2>2. \A n \in D : n \notin {0} => next[n] \in D /\ rank[next[n]] < rank[n]
    BY <1>1
  <2>3. rank \in [D -> 0 .. WordBytes] /\ \A n \in D : n \in {0} => first[n] \in Nat \ {0}
    OBVIOUS
  <2> HIDE DEF step, next, rank, D, first
  <2> QED
    BY <1>1, <2>1, <2>2, <2>3 DEF Descends
<1>3. PICK f \in [D -> Nat \ {0}] :
         \A n \in D : f[n] = IF n \in {0} THEN first[n] ELSE step[<<n, f[next[n]]>>]
  <2> HIDE DEF step, next, rank, D, first
  <2> QED
    BY <1>2, RecursionExists
<1>4. Solves(f)
  <2>1. ASSUME NEW n \in D PROVE f[n] = IF n = 0 THEN 1 ELSE ByteBase * f[n - 1]
    <3>1. CASE n = 0
      BY <1>3, <3>1
    <3>2. CASE n # 0
      <4>1. next[n] = n - 1 /\ n - 1 \in D
        BY <1>1, <3>2
      <4>2. f[n] = step[<<n, f[n - 1]>>]
        BY <1>3, <3>2, <4>1
      <4> QED
        BY <3>2, <4>1, <4>2
    <3> QED
      BY <3>1, <3>2
  <2> QED
    BY <2>1
<1>5. Solves(Power)
  BY <1>4 DEF Power
<1>6. \A g : Solves(g) => \A n \in D : g[n] \in Nat \ {0}
  <2> SUFFICES ASSUME NEW g, Solves(g) PROVE \A n \in D : g[n] \in Nat \ {0}
    OBVIOUS
  <2> DEFINE P == {n \in Nat : n \in D => g[n] \in Nat \ {0}}
  <2>0. \A n \in D : g[n] = IF n = 0 THEN 1 ELSE ByteBase * g[n - 1]
    OBVIOUS
  <2>1. 0 \in P
    BY <1>1, <2>0
  <2>2. ASSUME NEW n \in Nat, n \in P PROVE n + 1 \in P
    <3> SUFFICES ASSUME n + 1 \in D PROVE g[n + 1] \in Nat \ {0}
      OBVIOUS
    <3>1. n \in D /\ g[n] \in Nat \ {0} /\ (n + 1) - 1 = n /\ n + 1 # 0
      BY <1>1, <2>2
    <3>2. g[n + 1] = ByteBase * g[n]
      BY <2>0, <3>1
    <3> QED
      BY <1>1, <3>1, <3>2
  <2>3. \A n \in Nat : n \in P
    <3> HIDE DEF P
    <3> QED
      BY <2>1, <2>2, SetInduction
  <2>4. D \subseteq Nat
    BY <1>1
  <2> HIDE DEF Solves, D
  <2> QED
    BY <2>3, <2>4
<1>7. /\ \A n \in D : Power[n] = IF n = 0 THEN 1 ELSE ByteBase * Power[n - 1]
      /\ \A n \in D : Power[n] \in Nat \ {0}
  BY <1>5, <1>6
<1>8. 0 \in D /\ \A n \in 1 .. WordBytes : n \in D /\ n # 0
  BY <1>1
<1> HIDE DEF D, Solves
<1>9. /\ Power[0] = 1
      /\ \A n \in 1 .. WordBytes : Power[n] = ByteBase * Power[n - 1]
  BY <1>7, <1>8
<1> QED
  BY <1>7, <1>9 DEF D

Counting == [i \in 1 .. WordBytes |-> i]

DecodedStep(word) == [p \in Nat \X (1 .. WordBytes) |-> p[1] + word[p[2]] * Power[p[2] - 1]]

\* The function by which FoldLeft computes DecodedSize.
DecodedFold(word) ==
    CHOOSE f : f = [T \in SUBSET DOMAIN Counting |->
                       IF T = {} THEN 0
                       ELSE f[T \ {Max(T)}] +
                               word[Counting[Max(T)]] * Power[Counting[Max(T)] - 1]]

LEMMA CountingFacts ==
    /\ WordBytes \in Nat
    /\ Counting \in Seq(1 .. WordBytes) /\ Len(Counting) = WordBytes
    /\ DOMAIN Counting = 1 .. WordBytes
<1>1. WordBytes \in Nat
  BY KeyAssumption
<1> QED
  BY <1>1 DEF Counting

LEMMA DecodedStepType ==
    ASSUME NEW word \in [1 .. WordBytes -> Nat]
    PROVE  IsStep(Nat, 1 .. WordBytes, 0, DecodedStep(word))
<1>1. ASSUME NEW p \in Nat \X (1 .. WordBytes)
      PROVE  p[1] + word[p[2]] * Power[p[2] - 1] \in Nat
  <2>1. p[1] \in Nat /\ word[p[2]] \in Nat /\ p[2] - 1 \in 0 .. WordBytes
    BY KeyAssumption
  <2>2. Power[p[2] - 1] \in Nat
    BY <2>1, PowerFacts
  <2> QED
    BY <2>1, <2>2
<1> QED
  BY <1>1 DEF IsStep, DecodedStep

LEMMA DecodedIsFolded ==
    ASSUME NEW word \in [1 .. WordBytes -> Nat]
    PROVE  /\ DecodedSize(word) = Folded(DecodedStep(word), 0, Counting)
           /\ DecodedSize(word) \in Nat
<1> DEFINE B == 1 .. WordBytes
           step == DecodedStep(word)
           Solves(f) == f = [T \in SUBSET DOMAIN Counting |->
                               IF T = {} THEN 0
                               ELSE f[T \ {Max(T)}] +
                                       word[Counting[Max(T)]] * Power[Counting[Max(T)] - 1]]
<1>1. IsStep(Nat, B, 0, step)
  BY DecodedStepType
<1>2. Counting \in Seq(B)
  BY CountingFacts
<1>3. \A T \in SUBSET DOMAIN Counting : T # {} => Max(T) \in T /\ Counting[Max(T)] \in B
  BY CountingFacts, MaxIsMember DEF Counting
<1>4. \A a \in Nat, x \in B : step[<<a, x>>] = a + word[x] * Power[x - 1]
  BY DEF DecodedStep
<1> HIDE DEF step, B
<1>5. \E f : Solves(f)
  <2>1. PICK f \in [SUBSET DOMAIN Counting -> Nat] : IsFold(f, Nat, step, 0, Counting)
    BY <1>1, <1>2, FoldExists
  <2>2. ASSUME NEW T \in SUBSET DOMAIN Counting
        PROVE  f[T] = IF T = {} THEN 0
                      ELSE f[T \ {Max(T)}] +
                              word[Counting[Max(T)]] * Power[Counting[Max(T)] - 1]
    BY <1>3, <1>4, <2>1 DEF IsFold
  <2>3. Solves(f)
    BY <2>2
  <2> QED
    BY <2>3
<1>6. Solves(DecodedFold(word))
  BY <1>5 DEF DecodedFold
<1>7. IsFold(DecodedFold(word), Nat, step, 0, Counting)
  <2> DEFINE f == DecodedFold(word)
  <2>1. f[{}] = 0
    BY <1>6
  <2>2. ASSUME NEW T \in SUBSET DOMAIN Counting, T # {}, f[T \ {Max(T)}] \in Nat
        PROVE  f[T] = step[<<f[T \ {Max(T)}], Counting[Max(T)]>>]
    BY <1>3, <1>4, <1>6, <2>2
  <2> QED
    BY <2>1, <2>2 DEF IsFold
<1>8. DecodedSize(word) = DecodedFold(word)[DOMAIN Counting]
  BY DEF DecodedSize, DecodedFold, Counting, FoldLeft, MapThenFoldSet
<1>9. DecodedSize(word) = Folded(step, 0, Counting)
  BY <1>1, <1>2, <1>7, <1>8, FoldIsFolded
<1>10. Folded(step, 0, Counting) \in Nat
  BY <1>1, <1>2, RunExists
<1> QED
  BY <1>9, <1>10 DEF step

LEMMA EncodedSizeType ==
    ASSUME NEW n \in Nat
    PROVE  /\ EncodedSize(n) \in [1 .. WordBytes -> Byte]
           /\ EncodedSize(n) \in [1 .. WordBytes -> Nat]
           /\ EncodedSize(n) \in Seq(Byte) /\ Len(EncodedSize(n)) = WordBytes
<1>1. ASSUME NEW i \in 1 .. WordBytes
      PROVE  SizeByte(n, i - 1) \in Byte /\ SizeByte(n, i - 1) \in Nat
  <2>1. i - 1 \in 0 .. WordBytes
    BY KeyAssumption
  <2>2. Power[i - 1] \in Nat \ {0} /\ ByteBase \in Nat \ {0}
    BY <2>1, PowerFacts, KeyAssumption
  <2>3. n \div Power[i - 1] \in Nat
    BY <2>2
  <2> QED
    BY <2>2, <2>3 DEF SizeByte, Byte
<1>2. WordBytes \in Nat
  BY KeyAssumption
<1> QED
  BY <1>1, <1>2 DEF EncodedSize

\* Decoding restores every size that fits in a word.
LEMMA DecodedEncoded ==
    ASSUME NEW n \in Nat, n < Power[WordBytes]
    PROVE  DecodedSize(EncodedSize(n)) = n
<1> DEFINE word == EncodedSize(n)
           step == DecodedStep(word)
           f == [k \in 0 .. WordBytes |-> n - Power[k] * (n \div Power[k])]
<1>1. /\ word \in [1 .. WordBytes -> Nat] /\ WordBytes \in Nat /\ ByteBase \in Nat \ {0}
      /\ \A k \in 0 .. WordBytes : Power[k] \in Nat \ {0}
  BY EncodedSizeType, PowerFacts, KeyAssumption
<1>2. \A k \in 0 .. WordBytes : f[k] \in Nat
  <2> TAKE k \in 0 .. WordBytes
  <2>1. Power[k] \in Nat \ {0}
    BY <1>1
  <2>2. n - Power[k] * (n \div Power[k]) \in Nat
    BY <2>1
  <2> QED
    BY <2>2
<1>3. f[0] = 0
  <2>1. n \div 1 = n
    OBVIOUS
  <2> QED
    BY <1>1, <2>1, PowerFacts
<1>4. ASSUME NEW k \in 0 .. WordBytes - 1
      PROVE  f[k + 1] = step[<<f[k], Counting[k + 1]>>]
  <2>1. k \in 0 .. WordBytes /\ k + 1 \in 1 .. WordBytes /\ (k + 1) - 1 = k
    BY <1>1
  <2> DEFINE b == Power[k]
             q == n \div b
             p == n \div (ByteBase * b)
  <2>2. b \in Nat \ {0} /\ Power[k + 1] = ByteBase * b
    BY <1>1, <2>1, PowerFacts
  <2>3. Counting[k + 1] = k + 1 /\ word[k + 1] = q % ByteBase
    BY <2>1 DEF Counting, EncodedSize, SizeByte
  <2>4. f[k] = n - b * q /\ f[k + 1] = n - (ByteBase * b) * p
    BY <2>1, <2>2
  <2>5. step[<<f[k], Counting[k + 1]>>] = f[k] + (q % ByteBase) * b
    <3>1. <<f[k], k + 1>> \in Nat \X (1 .. WordBytes)
      BY <1>2, <2>1
    <3> HIDE DEF f, word, q
    <3> QED
      BY <2>1, <2>3, <3>1 DEF DecodedStep
  <2> HIDE DEF b, f
  <2>6. q \in Nat /\ p \in Nat /\ q = ByteBase * p + (q % ByteBase)
    BY <1>1, <2>2, QuotientOfQuotient
  <2> DEFINE r == q % ByteBase
  <2>7. r \in Nat /\ q = ByteBase * p + r
    <3> HIDE DEF p
    <3> QED
      BY <1>1, <2>6
  <2> HIDE DEF p, q, r
  <2>8. b * q = (ByteBase * b) * p + r * b
    <3>1. b * q = b * (ByteBase * p) + b * r
      BY <1>1, <2>2, <2>6, <2>7
    <3>2. b * (ByteBase * p) = (ByteBase * b) * p /\ b * r = r * b
      BY <1>1, <2>2, <2>6, <2>7
    <3> QED
      BY <3>1, <3>2
  <2>9. f[k + 1] = f[k] + r * b
    <3>1. (ByteBase * b) * p \in Nat /\ r * b \in Nat
      BY <1>1, <2>2, <2>6, <2>7
    <3> QED
      BY <2>4, <2>8, <3>1
  <2> QED
    BY <2>5, <2>9 DEF r
<1>5. f[WordBytes] = n
  <2>1. n \div Power[WordBytes] = 0
    BY <1>1
  <2>2. WordBytes \in 0 .. WordBytes /\ Power[WordBytes] \in Nat
    BY <1>1
  <2>3. f[WordBytes] = n - Power[WordBytes] * 0
    BY <2>1, <2>2
  <2> QED
    BY <2>2, <2>3
<1> HIDE DEF f, word
<1>6. IsRun(f, step, 0, Counting)
  <2> HIDE DEF step
  <2> QED
    BY <1>3, <1>4, CountingFacts DEF IsRun
<1>7. Folded(step, 0, Counting) = f[Len(Counting)]
  BY <1>6, CountingFacts, FoldedIsLast
<1> QED
  BY <1>1, <1>5, <1>7, CountingFacts, DecodedIsFolded DEF word

-----------------------------------------------------------------------------
(* The key of a list of patterns.                                          *)

Patterns == Seq(Byte)

LEMMA EncodedFacts ==
    ASSUME NEW pattern \in Patterns
    PROVE  /\ EncodedPattern(pattern) \in Patterns
           /\ Len(EncodedPattern(pattern)) = WordBytes + Len(pattern)
           /\ Len(pattern) \in Nat
BY LenProperties, EncodedSizeType, ConcatProperties DEF EncodedPattern, Patterns

KeyStep == [p \in Patterns \X Patterns |-> p[1] \o EncodedPattern(p[2])]

LEMMA KeyStepType == IsStep(Patterns, Patterns, <<>>, KeyStep)
<1>1. <<>> \in Patterns
  BY EmptySeq DEF Patterns
<1>2. \A a \in Patterns, x \in Patterns : a \o EncodedPattern(x) \in Patterns
  BY EncodedFacts, ConcatProperties DEF Patterns
<1> QED
  BY <1>1, <1>2 DEF IsStep, KeyStep

\* The function by which FoldLeft computes SetCompileCacheKey.
KeyFold(s) ==
    CHOOSE f : f = [T \in SUBSET DOMAIN s |->
                       IF T = {} THEN <<>> ELSE f[T \ {Max(T)}] \o EncodedPattern(s[Max(T)])]

LEMMA KeyIsFolded ==
    ASSUME NEW s \in Seq(Patterns)
    PROVE  SetCompileCacheKey(s) = Folded(KeyStep, <<>>, s)
<1> DEFINE Solves(f) == f = [T \in SUBSET DOMAIN s |->
                               IF T = {} THEN <<>>
                               ELSE f[T \ {Max(T)}] \o EncodedPattern(s[Max(T)])]
<1>1. \A T \in SUBSET DOMAIN s : T # {} => Max(T) \in T /\ s[Max(T)] \in Patterns
  BY LenProperties, ElementOfSeq, MaxIsMember
<1>2. \A a \in Patterns, x \in Patterns : KeyStep[<<a, x>>] = a \o EncodedPattern(x)
  BY DEF KeyStep
<1>3. \E f : Solves(f)
  <2>1. PICK f \in [SUBSET DOMAIN s -> Patterns] : IsFold(f, Patterns, KeyStep, <<>>, s)
    BY KeyStepType, FoldExists
  <2>2. ASSUME NEW T \in SUBSET DOMAIN s
        PROVE  f[T] = IF T = {} THEN <<>>
                      ELSE f[T \ {Max(T)}] \o EncodedPattern(s[Max(T)])
    BY <1>1, <1>2, <2>1 DEF IsFold
  <2>3. Solves(f)
    BY <2>2
  <2> QED
    BY <2>3
<1>4. Solves(KeyFold(s))
  BY <1>3 DEF KeyFold
<1>5. IsFold(KeyFold(s), Patterns, KeyStep, <<>>, s)
  <2> DEFINE f == KeyFold(s)
  <2>1. f[{}] = <<>>
    BY <1>4
  <2>2. ASSUME NEW T \in SUBSET DOMAIN s, T # {}, f[T \ {Max(T)}] \in Patterns
        PROVE  f[T] = KeyStep[<<f[T \ {Max(T)}], s[Max(T)]>>]
    BY <1>1, <1>2, <1>4, <2>2
  <2> QED
    BY <2>1, <2>2 DEF IsFold
<1>6. SetCompileCacheKey(s) = KeyFold(s)[DOMAIN s]
  BY DEF SetCompileCacheKey, KeyFold, FoldLeft, MapThenFoldSet
<1> QED
  BY <1>5, <1>6, KeyStepType, FoldIsFolded

LEMMA KeyFacts ==
    /\ SetCompileCacheKey(<<>>) = <<>>
    /\ \A s \in Seq(Patterns) : SetCompileCacheKey(s) \in Patterns
    /\ \A s \in Seq(Patterns), x \in Patterns :
          SetCompileCacheKey(Append(s, x)) = SetCompileCacheKey(s) \o EncodedPattern(x)
<1>1. /\ Folded(KeyStep, <<>>, <<>>) = <<>>
      /\ \A s \in Seq(Patterns) : Folded(KeyStep, <<>>, s) \in Patterns
      /\ \A s \in Seq(Patterns), x \in Patterns :
            Folded(KeyStep, <<>>, Append(s, x)) = KeyStep[<<Folded(KeyStep, <<>>, s), x>>]
  BY KeyStepType, FoldedFacts
<1>2. ASSUME NEW s \in Seq(Patterns), NEW x \in Patterns
      PROVE  SetCompileCacheKey(Append(s, x)) = SetCompileCacheKey(s) \o EncodedPattern(x)
  <2>1. Append(s, x) \in Seq(Patterns)
    BY AppendProperties
  <2> QED
    BY <1>1, <2>1, KeyIsFolded DEF KeyStep
<1> QED
  BY <1>1, <1>2, EmptySeq, KeyIsFolded

LEMMA PatternsConcat ==
    ASSUME NEW a \in Patterns, NEW b \in Patterns
    PROVE  /\ a \o b \in Patterns /\ Len(a \o b) = Len(a) + Len(b)
           /\ a \o <<>> = a /\ <<>> \o a = a
BY ConcatProperties, ConcatEmptySeq DEF Patterns

LEMMA PatternsAssociative ==
    ASSUME NEW a \in Patterns, NEW b \in Patterns, NEW c \in Patterns
    PROVE  (a \o b) \o c = a \o (b \o c)
BY ConcatAssociative DEF Patterns

LEMMA KeyConcat ==
    ASSUME NEW s \in Seq(Patterns), NEW t \in Seq(Patterns)
    PROVE  SetCompileCacheKey(s \o t) = SetCompileCacheKey(s) \o SetCompileCacheKey(t)
<1> DEFINE Key(u) == SetCompileCacheKey(u)
           P == {u \in Seq(Patterns) : Key(s \o u) = Key(s) \o Key(u)}
<1>1. <<>> \in P
  <2>1. s \o <<>> = s /\ Key(s) \in Patterns /\ Key(<<>>) = <<>> /\ <<>> \in Seq(Patterns)
    BY EmptySeq, ConcatEmptySeq, KeyFacts
  <2>2. Key(s) \o <<>> = Key(s)
    BY <2>1, PatternsConcat
  <2> QED
    BY <2>1, <2>2
<1>2. ASSUME NEW u \in Seq(Patterns), NEW x \in Patterns, u \in P
      PROVE  Append(u, x) \in P
  <2>1. Append(u, x) \in Seq(Patterns) /\ s \o u \in Seq(Patterns)
    BY AppendProperties, ConcatProperties
  <2>2. s \o Append(u, x) = Append(s \o u, x)
    <3>1. /\ <<x>> \in Seq(Patterns) /\ Append(u, x) = u \o <<x>>
          /\ Append(s \o u, x) = (s \o u) \o <<x>>
      BY <2>1, AppendIsConcat
    <3> QED
      BY <3>1, ConcatAssociative
  <2>3. /\ Key(Append(s \o u, x)) = Key(s \o u) \o EncodedPattern(x)
        /\ Key(Append(u, x)) = Key(u) \o EncodedPattern(x)
        /\ Key(s) \in Patterns /\ Key(u) \in Patterns /\ EncodedPattern(x) \in Patterns
    BY <2>1, KeyFacts, EncodedFacts
  <2> HIDE DEF Key
  <2>4. (Key(s) \o Key(u)) \o EncodedPattern(x) = Key(s) \o (Key(u) \o EncodedPattern(x))
    BY <2>3, PatternsAssociative
  <2>5. Key(s \o Append(u, x)) = Key(s) \o Key(Append(u, x))
    BY <1>2, <2>2, <2>3, <2>4
  <2> QED
    BY <2>1, <2>5
<1>3. \A u \in Seq(Patterns) : u \in P
  <2> HIDE DEF P
  <2> QED
    BY <1>1, <1>2, SequenceInduction
<1> QED
  BY <1>3

\* The key around pattern k: what comes before it, its size, its bytes, the others.
Before(s, k) == SetCompileCacheKey(SubSeq(s, 1, k - 1))
After(s, k) == SetCompileCacheKey(SubSeq(s, k + 1, Len(s)))

LEMMA KeyAround ==
    ASSUME NEW s \in Seq(Patterns), NEW k \in 1 .. Len(s)
    PROVE  /\ Before(s, k) \in Patterns /\ After(s, k) \in Patterns /\ s[k] \in Patterns
           /\ SetCompileCacheKey(s) = Before(s, k) \o (EncodedPattern(s[k]) \o After(s, k))
           /\ SubSeq(s, k, Len(s)) = <<s[k]>> \o SubSeq(s, k + 1, Len(s))
           /\ Before(s, k + 1) = Before(s, k) \o EncodedPattern(s[k])
<1> DEFINE front == SubSeq(s, 1, k - 1)
           back == SubSeq(s, k + 1, Len(s))
           head == SubSeq(s, 1, k)
<1>1. Len(s) \in Nat /\ s[k] \in Patterns
  BY LenProperties, ElementOfSeq
<1>2. /\ front \in Seq(Patterns) /\ back \in Seq(Patterns) /\ head \in Seq(Patterns)
      /\ <<s[k]>> \in Seq(Patterns)
  BY <1>1, SubSeqProperties, ElementOfSeq
<1>3. head = Append(front, s[k])
  <2>1. head = front \o <<s[k]>>
    <3>1. 1 \in 1 .. Len(s) /\ k \in 1 .. Len(s)
      BY <1>1
    <3> QED
      BY <3>1, SubSeqRecursiveSecond, Zenon
  <2> HIDE DEF head, front
  <2> QED
    BY <1>1, <1>2, <2>1, AppendIsConcat
<1>4. s = head \o back
  <2>1. k \in 0 .. Len(s)
    BY <1>1
  <2> QED
    BY <2>1, SequenceHalves
<1>5. SubSeq(s, k, Len(s)) = <<s[k]>> \o back
  BY <1>1, SubSeqRecursiveFirst
<1>6. Before(s, k + 1) = SetCompileCacheKey(head)
  <2>1. (k + 1) - 1 = k
    BY <1>1
  <2> QED
    BY <2>1 DEF Before
<1>7. /\ Before(s, k) = SetCompileCacheKey(front) /\ After(s, k) = SetCompileCacheKey(back)
  BY DEF Before, After
<1> HIDE DEF front, back, head
<1>8. /\ SetCompileCacheKey(head) = SetCompileCacheKey(front) \o EncodedPattern(s[k])
      /\ SetCompileCacheKey(s) = SetCompileCacheKey(head) \o SetCompileCacheKey(back)
      /\ SetCompileCacheKey(front) \in Patterns /\ SetCompileCacheKey(back) \in Patterns
      /\ EncodedPattern(s[k]) \in Patterns
  <2>1. SetCompileCacheKey(head \o back) = SetCompileCacheKey(head) \o SetCompileCacheKey(back)
    BY <1>2, KeyConcat
  <2> QED
    BY <1>1, <1>2, <1>3, <1>4, <2>1, KeyFacts, EncodedFacts
<1>9. SetCompileCacheKey(s) = Before(s, k) \o (EncodedPattern(s[k]) \o After(s, k))
  <2>1. (SetCompileCacheKey(front) \o EncodedPattern(s[k])) \o SetCompileCacheKey(back) =
           SetCompileCacheKey(front) \o (EncodedPattern(s[k]) \o SetCompileCacheKey(back))
    BY <1>8, PatternsAssociative
  <2> QED
    BY <1>7, <1>8, <2>1
<1> QED
  BY <1>1, <1>5, <1>6, <1>7, <1>8, <1>9 DEF back

-----------------------------------------------------------------------------
(* Compiling the key of a list yields the list.                            *)

\* What a pattern with its size adds to a key is found again at its offset.
ReadBack(key, a, p, c) ==
    /\ Len(key) = Len(a) + ((WordBytes + Len(p)) + Len(c))
    /\ SubSeq(key, Len(a) + 1, Len(a) + WordBytes) = EncodedSize(Len(p))
    /\ SubSeq(key, (Len(a) + WordBytes) + 1, (Len(a) + WordBytes) + Len(p)) = p

LEMMA PatternRead ==
    ASSUME NEW a \in Patterns, NEW p \in Patterns, NEW c \in Patterns
    PROVE  ReadBack(a \o (EncodedPattern(p) \o c), a, p, c)
<1> DEFINE key == a \o (EncodedPattern(p) \o c)
<1>1. PICK word \in Patterns : word = EncodedSize(Len(p)) /\ Len(word) = WordBytes
  <2>1. Len(p) \in Nat
    BY LenProperties DEF Patterns
  <2> QED
    BY <2>1, EncodedSizeType DEF Patterns
<1>2. EncodedPattern(p) = word \o p
  BY <1>1 DEF EncodedPattern
<1>3. PICK rest \in Patterns : rest = p \o c /\ Len(rest) = Len(p) + Len(c)
  BY PatternsConcat
<1>4. PICK front \in Patterns : front = a \o word /\ Len(front) = Len(a) + WordBytes
  BY <1>1, PatternsConcat
<1>5. (word \o p) \o c = word \o rest
  BY <1>3, PatternsAssociative
<1>6. a \o (word \o rest) = front \o (p \o c)
  <2>1. (a \o word) \o rest = a \o (word \o rest)
    BY PatternsAssociative
  <2> QED
    BY <1>3, <1>4, <2>1
<1>7. key = a \o (word \o rest) /\ key = front \o (p \o c)
  BY <1>2, <1>5, <1>6
<1>8. SubSeq(key, Len(a) + 1, Len(a) + Len(word)) = word
  <2>1. SubSeq(a \o (word \o rest), Len(a) + 1, Len(a) + Len(word)) = word
    BY Middle DEF Patterns
  <2> QED
    BY <1>7, <2>1
<1>9. SubSeq(key, Len(front) + 1, Len(front) + Len(p)) = p
  <2>1. SubSeq(front \o (p \o c), Len(front) + 1, Len(front) + Len(p)) = p
    BY Middle DEF Patterns
  <2> QED
    BY <1>7, <2>1
<1>10. key \in Patterns /\ Len(key) = Len(front) + Len(rest)
  BY <1>3, <1>7, PatternsConcat
<1> HIDE DEF key
<1>11. Len(key) = Len(a) + ((WordBytes + Len(p)) + Len(c))
  <2>1. /\ Len(a) \in Nat /\ Len(p) \in Nat /\ Len(c) \in Nat /\ WordBytes \in Nat
    BY LenProperties, KeyAssumption DEF Patterns
  <2> QED
    BY <1>3, <1>4, <1>10, <2>1
<1> QED
  BY <1>1, <1>4, <1>8, <1>9, <1>11 DEF ReadBack, key

RestAt(key, offset) == Len(key) - offset
SizeAt(key, offset) == DecodedSize(SubSeq(key, offset + 1, offset + WordBytes))
CutOff(key, offset) ==
    \/ RestAt(key, offset) < WordBytes
    \/ SizeAt(key, offset) > RestAt(key, offset) - WordBytes
EndAt(key, offset) == (offset + WordBytes) + SizeAt(key, offset)

\* The recursion by which CompileEncodedSet is defined.
Decodes(from, key) ==
    from = [offset \in 0 .. Len(key) |->
              IF RestAt(key, offset) = 0 THEN [complete |-> TRUE, patterns |-> <<>>]
              ELSE IF CutOff(key, offset) THEN [complete |-> FALSE, patterns |-> <<>>]
              ELSE [from[EndAt(key, offset)] EXCEPT
                       !.patterns = <<SubSeq(key, (offset + WordBytes) + 1,
                                             EndAt(key, offset))>> \o @]]

DecodedFrom(key) == CHOOSE from : Decodes(from, key)

Lists == [complete : BOOLEAN, patterns : Seq(Patterns)]

LEMMA Prepended ==
    ASSUME NEW P, NEW l \in [complete : BOOLEAN, patterns : P], NEW x
    PROVE  [l EXCEPT !.patterns = x \o @] =
               [complete |-> l.complete, patterns |-> x \o l.patterns]
<1> DEFINE y == x \o l.patterns
<1> HIDE DEF y
<1>1. [l EXCEPT !.patterns = y] = [complete |-> l.complete, patterns |-> y]
  OBVIOUS
<1> QED
  BY <1>1 DEF y

\* A pattern that fits in what is left of the key.
LEMMA PatternFits ==
    ASSUME NEW key \in Patterns, NEW offset \in 0 .. Len(key),
           RestAt(key, offset) # 0, ~CutOff(key, offset)
    PROVE  /\ EndAt(key, offset) \in 0 .. Len(key)
           /\ RestAt(key, EndAt(key, offset)) < RestAt(key, offset)
           /\ SubSeq(key, (offset + WordBytes) + 1, EndAt(key, offset)) \in Patterns
<1>1. Len(key) \in Nat /\ WordBytes \in Nat \ {0}
  BY LenProperties, KeyAssumption DEF Patterns
<1>2. RestAt(key, offset) >= WordBytes /\ RestAt(key, offset) = Len(key) - offset
  BY <1>1 DEF CutOff, RestAt
<1>3. \A i \in 1 .. Len(key) : key[i] \in Byte
  BY ElementOfSeq DEF Patterns
<1> DEFINE word == SubSeq(key, offset + 1, offset + WordBytes)
<1>4. word \in [1 .. WordBytes -> Nat]
  <2>1. \A i \in offset + 1 .. offset + WordBytes : key[i] \in Byte
    BY <1>1, <1>2, <1>3
  <2>2. /\ word \in Seq(Byte)
        /\ Len(word) = IF offset + 1 <= offset + WordBytes
                         THEN (offset + WordBytes) - (offset + 1) + 1 ELSE 0
    BY <1>1, <2>1, SubSeqProperties
  <2>3. (offset + WordBytes) - (offset + 1) + 1 = WordBytes /\ offset + 1 <= offset + WordBytes
    BY <1>1
  <2> HIDE DEF word
  <2>4. word \in Seq(Byte) /\ Len(word) = WordBytes
    BY <2>2, <2>3
  <2>5. Byte \subseteq Nat
    BY KeyAssumption DEF Byte
  <2>6. DOMAIN word = 1 .. WordBytes /\ \A i \in 1 .. WordBytes : word[i] \in Nat
    BY <2>4, <2>5, LenProperties, ElementOfSeq
  <2> QED
    BY <2>4, <2>6, SeqDef
<1>5. SizeAt(key, offset) \in Nat
  BY <1>4, DecodedIsFolded DEF SizeAt
<1>6. SizeAt(key, offset) <= RestAt(key, offset) - WordBytes
  BY <1>1, <1>2, <1>5 DEF CutOff
<1>7. EndAt(key, offset) \in 0 .. Len(key) /\ RestAt(key, EndAt(key, offset)) < RestAt(key, offset)
  BY <1>1, <1>2, <1>5, <1>6 DEF EndAt, RestAt
<1>8. \A i \in (offset + WordBytes) + 1 .. EndAt(key, offset) : key[i] \in Byte
  BY <1>1, <1>3, <1>7
<1>9. SubSeq(key, (offset + WordBytes) + 1, EndAt(key, offset)) \in Patterns
  BY <1>1, <1>7, <1>8, SubSeqProperties DEF Patterns
<1> QED
  BY <1>7, <1>9

LEMMA DecodedFromExists ==
    ASSUME NEW key \in Patterns
    PROVE  Decodes(DecodedFrom(key), key)
<1> DEFINE D == 0 .. Len(key)
           rank == [o \in D |-> RestAt(key, o)]
           stop == {o \in D : RestAt(key, o) = 0 \/ CutOff(key, o)}
           next == [o \in D |-> EndAt(key, o)]
           first == [o \in D |-> [complete |-> RestAt(key, o) = 0, patterns |-> <<>>]]
           read(o) == SubSeq(key, (o + WordBytes) + 1, EndAt(key, o))
           step == [p \in D \X Lists |->
                      IF p[1] \in stop THEN p[2]
                      ELSE [complete |-> p[2].complete,
                            patterns |-> <<read(p[1])>> \o p[2].patterns]]
<1>1. Len(key) \in Nat
  BY LenProperties DEF Patterns
<1>2. \A o \in D : o \notin stop =>
          /\ EndAt(key, o) \in D /\ RestAt(key, EndAt(key, o)) < RestAt(key, o)
          /\ read(o) \in Patterns
  BY PatternFits
<1>3. rank \in [D -> 0 .. Len(key)]
  BY <1>1 DEF RestAt
<1>4. \A o \in D : first[o] \in Lists
  BY EmptySeq DEF Lists
<1>5. step \in [D \X Lists -> Lists]
  <2>1. ASSUME NEW o \in D, NEW l \in Lists, o \notin stop
        PROVE  [complete |-> l.complete, patterns |-> <<read(o)>> \o l.patterns] \in Lists
    <3>1. l.complete \in BOOLEAN /\ l.patterns \in Seq(Patterns)
      BY DEF Lists
    <3>2. <<read(o)>> \in Seq(Patterns)
      BY <1>2, <2>1
    <3>3. <<read(o)>> \o l.patterns \in Seq(Patterns)
      BY <3>1, <3>2, ConcatProperties
    <3> QED
      BY <3>1, <3>3 DEF Lists
  <2> HIDE DEF D, stop, read, Lists
  <2> QED
    BY <2>1
<1>6. Descends(D, Lists, Len(key), rank, stop, next, first, step)
  <2>1. \A o \in D : o \notin stop => next[o] \in D /\ rank[next[o]] < rank[o]
    <3> HIDE DEF stop, read
    <3> QED
      BY <1>2
  <2> HIDE DEF D, rank, stop, next, first, step, read
  <2> QED
    BY <1>1, <1>3, <1>4, <1>5, <2>1 DEF Descends
<1>7. PICK f \in [D -> Lists] :
         \A o \in D : f[o] = IF o \in stop THEN first[o] ELSE step[<<o, f[next[o]]>>]
  <2> HIDE DEF D, rank, stop, next, first, step, read
  <2> QED
    BY <1>6, RecursionExists
<1>8. ASSUME NEW o \in D
      PROVE  f[o] = IF RestAt(key, o) = 0 THEN [complete |-> TRUE, patterns |-> <<>>]
                    ELSE IF CutOff(key, o) THEN [complete |-> FALSE, patterns |-> <<>>]
                    ELSE [f[EndAt(key, o)] EXCEPT !.patterns = <<read(o)>> \o @]
  <2>1. CASE o \in stop
    <3>1. f[o] = [complete |-> RestAt(key, o) = 0, patterns |-> <<>>]
      <4> HIDE DEF stop, step, next
      <4> QED
        BY <1>7, <2>1
    <3> QED
      BY <2>1, <3>1
  <2>2. CASE o \notin stop
    <3>1. EndAt(key, o) \in D /\ RestAt(key, o) # 0 /\ ~CutOff(key, o)
      BY <1>2, <2>2
    <3>2. f[o] = step[<<o, f[EndAt(key, o)]>>] /\ f[EndAt(key, o)] \in Lists
      <4> HIDE DEF stop, step
      <4> QED
        BY <1>7, <2>2, <3>1
    <3> DEFINE l == f[EndAt(key, o)]
    <3>3. step[<<o, l>>] = [complete |-> l.complete, patterns |-> <<read(o)>> \o l.patterns]
      <4> HIDE DEF stop, read, l, Lists
      <4> QED
        BY <2>2, <3>2 DEF l
    <3>4. [l EXCEPT !.patterns = <<read(o)>> \o @] =
              [complete |-> l.complete, patterns |-> <<read(o)>> \o l.patterns]
      <4>1. l \in [complete : BOOLEAN, patterns : Seq(Patterns)]
        BY <3>2 DEF Lists
      <4> HIDE DEF l, read
      <4> QED
        BY <4>1, Prepended
    <3> QED
      BY <3>1, <3>2, <3>3, <3>4
  <2> QED
    BY <2>1, <2>2
<1>9. Decodes(f, key)
  BY <1>8 DEF Decodes
<1> QED
  BY <1>9 DEF DecodedFrom

LEMMA CompileIsDecodedFrom ==
    ASSUME NEW key
    PROVE  CompileEncodedSet(key) = DecodedFrom(key)[0]
BY DEF CompileEncodedSet, DecodedFrom, Decodes, RestAt, SizeAt, CutOff, EndAt

\* "Async compilations are cached by the complete ordered pattern bytes": every
\* list whose sizes fit in a word is what CompileEncodedSet makes of its key, so
\* that two lists never share one.
LEMMA KeyDecoded ==
    ASSUME NEW s \in Seq(Patterns), \A i \in DOMAIN s : Len(s[i]) < Power[WordBytes]
    PROVE  CompileEncodedSet(SetCompileCacheKey(s)) = [complete |-> TRUE, patterns |-> s]
<1> DEFINE key == SetCompileCacheKey(s)
           from == DecodedFrom(key)
           n == Len(s)
           at(k) == Len(Before(s, k))
           Right(k) == from[at(k)] = [complete |-> TRUE, patterns |-> SubSeq(s, k, n)]
           P == {j \in Nat : j <= n => Right((n + 1) - j)}
<1>1. key \in Patterns /\ n \in Nat /\ Len(key) \in Nat /\ WordBytes \in Nat \ {0}
  BY KeyFacts, LenProperties, KeyAssumption DEF Patterns
<1>2. \A o \in 0 .. Len(key) :
         from[o] = IF RestAt(key, o) = 0 THEN [complete |-> TRUE, patterns |-> <<>>]
                   ELSE IF CutOff(key, o) THEN [complete |-> FALSE, patterns |-> <<>>]
                   ELSE [from[EndAt(key, o)] EXCEPT
                            !.patterns = <<SubSeq(key, (o + WordBytes) + 1,
                                                  EndAt(key, o))>> \o @]
  <2>1. Decodes(from, key)
    BY <1>1, DecodedFromExists
  <2> HIDE DEF from, key
  <2> QED
    BY <2>1 DEF Decodes
<1> HIDE DEF from
<1>3. 0 \in P
  <2>1. (n + 1) - 1 = n /\ SubSeq(s, 1, n) = s
    BY <1>1, SubSeqFull
  <2>2. at(n + 1) = Len(key)
    BY <2>1 DEF Before
  <2>3. RestAt(key, Len(key)) = 0 /\ Len(key) \in 0 .. Len(key)
    BY <1>1 DEF RestAt
  <2>4. from[Len(key)] = [complete |-> TRUE, patterns |-> <<>>]
    BY <1>2, <2>3
  <2>5. SubSeq(s, n + 1, n) = <<>>
    BY <1>1, SubSeqEmpty
  <2> HIDE DEF key, at, n
  <2>6. Right(n + 1)
    BY <2>2, <2>4, <2>5
  <2>7. (n + 1) - 0 = n + 1
    BY <1>1
  <2> QED
    BY <2>6, <2>7
<1>4. ASSUME NEW j \in Nat, j \in P PROVE j + 1 \in P
  <2> SUFFICES ASSUME j + 1 <= n PROVE Right((n + 1) - (j + 1))
    OBVIOUS
  <2> DEFINE k == (n + 1) - (j + 1)
  <2>1. k \in 1 .. n /\ k + 1 = (n + 1) - j /\ Right(k + 1)
    BY <1>1, <1>4
  <2> HIDE DEF k
  <2>2. PICK a \in Patterns : a = Before(s, k)
    BY <2>1, KeyAround
  <2>3. PICK c \in Patterns : c = After(s, k)
    BY <2>1, KeyAround
  <2>4. PICK p \in Patterns : p = s[k]
    BY <2>1, KeyAround
  <2>5. /\ key = a \o (EncodedPattern(p) \o c)
        /\ SubSeq(s, k, n) = <<p>> \o SubSeq(s, k + 1, n)
        /\ Before(s, k + 1) = a \o EncodedPattern(p)
    BY <2>1, <2>2, <2>3, <2>4, KeyAround
  <2>6. /\ Len(a) \in Nat /\ Len(p) \in Nat /\ Len(c) \in Nat /\ Len(p) < Power[WordBytes]
        /\ DOMAIN s = 1 .. n
    <3>1. DOMAIN s = 1 .. n
      BY LenProperties
    <3> QED
      BY <2>1, <2>4, <3>1, LenProperties DEF Patterns
  <2> HIDE DEF key
  <2>7. /\ Len(key) = Len(a) + ((WordBytes + Len(p)) + Len(c))
        /\ SubSeq(key, Len(a) + 1, Len(a) + WordBytes) = EncodedSize(Len(p))
        /\ SubSeq(key, (Len(a) + WordBytes) + 1, (Len(a) + WordBytes) + Len(p)) = p
    <3>1. ReadBack(key, a, p, c)
      BY <2>5, PatternRead
    <3> QED
      BY <3>1 DEF ReadBack
  <2>8. SizeAt(key, Len(a)) = Len(p)
    BY <2>6, <2>7, DecodedEncoded DEF SizeAt
  <2>9. /\ Len(a) \in 0 .. Len(key) /\ RestAt(key, Len(a)) # 0 /\ ~CutOff(key, Len(a))
        /\ EndAt(key, Len(a)) = (Len(a) + WordBytes) + Len(p)
    BY <1>1, <2>6, <2>7, <2>8 DEF RestAt, CutOff, EndAt
  <2>10. at(k + 1) = EndAt(key, Len(a)) /\ at(k) = Len(a)
    <3>1. EncodedPattern(p) \in Patterns /\ Len(EncodedPattern(p)) = WordBytes + Len(p)
      BY EncodedFacts
    <3>2. Len(a \o EncodedPattern(p)) = Len(a) + (WordBytes + Len(p))
      <4>1. PICK e \in Patterns : e = EncodedPattern(p)
        BY <3>1
      <4>2. Len(a \o e) = Len(a) + Len(e)
        BY PatternsConcat
      <4> QED
        BY <3>1, <4>1, <4>2
    <3> QED
      BY <1>1, <2>2, <2>5, <2>6, <2>9, <3>2
  <2>11. from[Len(a)] = [from[at(k + 1)] EXCEPT !.patterns = <<p>> \o @]
    BY <1>2, <2>7, <2>9, <2>10
  <2> HIDE DEF at
  <2>12. from[Len(a)] = [complete |-> TRUE, patterns |-> <<p>> \o SubSeq(s, k + 1, n)]
    <3>1. from[at(k + 1)] = [complete |-> TRUE, patterns |-> SubSeq(s, k + 1, n)]
      BY <2>1
    <3>2. SubSeq(s, k + 1, n) \in Seq(Patterns)
      BY <1>1, <2>1, SubSeqProperties, ElementOfSeq
    <3> DEFINE l == from[at(k + 1)]
    <3>3. l \in [complete : BOOLEAN, patterns : Seq(Patterns)]
      BY <3>1, <3>2
    <3> HIDE DEF l
    <3>4. [l EXCEPT !.patterns = <<p>> \o @] =
              [complete |-> l.complete, patterns |-> <<p>> \o l.patterns]
      BY <3>3, Prepended
    <3> QED
      BY <2>11, <3>1, <3>4 DEF l
  <2>13. Right(k)
    BY <2>5, <2>10, <2>12
  <2> QED
    BY <2>13 DEF k
<1>5. \A j \in Nat : j \in P
  <2> HIDE DEF P
  <2> QED
    BY <1>3, <1>4, SetInduction
<1>6. Right(1)
  <2>1. n \in P /\ (n + 1) - n = 1 /\ n <= n
    BY <1>1, <1>5
  <2> HIDE DEF Right
  <2> QED
    BY <2>1
<1>7. at(1) = 0 /\ SubSeq(s, 1, n) = s
  <2>1. 1 - 1 = 0 /\ SubSeq(s, 1, 0) = <<>> /\ SubSeq(s, 1, n) = s
    BY <1>1, SubSeqEmpty, SubSeqFull
  <2>2. Len(SetCompileCacheKey(<<>>)) = 0
    BY KeyFacts
  <2> QED
    BY <2>1, <2>2 DEF Before
<1> QED
  BY <1>6, <1>7, CompileIsDecodedFrom DEF from

-----------------------------------------------------------------------------
(* The sizes of patterns and views, summed.                                *)

TotalStep == [p \in Nat \X Patterns |-> p[1] + Len(p[2])]

\* The function by which FoldLeft computes Total.
TotalFold(s) ==
    CHOOSE f : f = [T \in SUBSET DOMAIN s |->
                       IF T = {} THEN 0 ELSE f[T \ {Max(T)}] + Len(s[Max(T)])]

LEMMA TotalStepType == IsStep(Nat, Patterns, 0, TotalStep)
BY LenProperties DEF IsStep, TotalStep, Patterns

LEMMA TotalIsFolded ==
    ASSUME NEW s \in Seq(Patterns)
    PROVE  Total(s) = Folded(TotalStep, 0, s)
<1> DEFINE Solves(f) == f = [T \in SUBSET DOMAIN s |->
                               IF T = {} THEN 0 ELSE f[T \ {Max(T)}] + Len(s[Max(T)])]
<1>1. \A T \in SUBSET DOMAIN s : T # {} => Max(T) \in T /\ s[Max(T)] \in Patterns
  BY LenProperties, ElementOfSeq, MaxIsMember
<1>2. \A a \in Nat, x \in Patterns : TotalStep[<<a, x>>] = a + Len(x)
  BY DEF TotalStep
<1>3. \E f : Solves(f)
  <2>1. PICK f \in [SUBSET DOMAIN s -> Nat] : IsFold(f, Nat, TotalStep, 0, s)
    BY TotalStepType, FoldExists
  <2>2. ASSUME NEW T \in SUBSET DOMAIN s
        PROVE  f[T] = IF T = {} THEN 0 ELSE f[T \ {Max(T)}] + Len(s[Max(T)])
    BY <1>1, <1>2, <2>1 DEF IsFold
  <2>3. Solves(f)
    BY <2>2
  <2> QED
    BY <2>3
<1>4. Solves(TotalFold(s))
  BY <1>3 DEF TotalFold
<1>5. IsFold(TotalFold(s), Nat, TotalStep, 0, s)
  <2> DEFINE f == TotalFold(s)
  <2>1. f[{}] = 0
    BY <1>4
  <2>2. ASSUME NEW T \in SUBSET DOMAIN s, T # {}, f[T \ {Max(T)}] \in Nat
        PROVE  f[T] = TotalStep[<<f[T \ {Max(T)}], s[Max(T)]>>]
    BY <1>1, <1>2, <1>4, <2>2
  <2> QED
    BY <2>1, <2>2 DEF IsFold
<1>6. Total(s) = TotalFold(s)[DOMAIN s]
  BY DEF Total, TotalFold, FoldLeft, MapThenFoldSet
<1> QED
  BY <1>5, <1>6, TotalStepType, FoldIsFolded

LEMMA TotalFacts ==
    /\ Total(<<>>) = 0
    /\ \A s \in Seq(Patterns) : Total(s) \in Nat
    /\ \A s \in Seq(Patterns), x \in Patterns : Total(Append(s, x)) = Total(s) + Len(x)
<1>1. /\ Folded(TotalStep, 0, <<>>) = 0
      /\ \A s \in Seq(Patterns) : Folded(TotalStep, 0, s) \in Nat
      /\ \A s \in Seq(Patterns), x \in Patterns :
            Folded(TotalStep, 0, Append(s, x)) = TotalStep[<<Folded(TotalStep, 0, s), x>>]
  BY TotalStepType, FoldedFacts
<1>2. ASSUME NEW s \in Seq(Patterns), NEW x \in Patterns
      PROVE  Total(Append(s, x)) = Total(s) + Len(x)
  <2>1. Append(s, x) \in Seq(Patterns)
    BY AppendProperties
  <2> QED
    BY <1>1, <2>1, TotalIsFolded DEF TotalStep
<1> QED
  BY <1>1, <1>2, EmptySeq, TotalIsFolded

\* No pattern is longer than all of them.
LEMMA TotalBounds ==
    ASSUME NEW s \in Seq(Patterns)
    PROVE  \A i \in DOMAIN s : Len(s[i]) <= Total(s)
<1> DEFINE P == {u \in Seq(Patterns) : \A i \in DOMAIN u : Len(u[i]) <= Total(u)}
<1>1. <<>> \in P
  BY EmptySeq
<1>2. ASSUME NEW u \in Seq(Patterns), NEW x \in Patterns, u \in P
      PROVE  Append(u, x) \in P
  <2>1. /\ Append(u, x) \in Seq(Patterns)
        /\ \A i \in DOMAIN u : Append(u, x)[i] = u[i]
        /\ Append(u, x)[Len(u) + 1] = x
        /\ \A i \in DOMAIN Append(u, x) : i \in DOMAIN u \/ i = Len(u) + 1
    BY AppendProperties, AppendFacts
  <2>2. Total(Append(u, x)) = Total(u) + Len(x) /\ Total(u) \in Nat /\ Len(x) \in Nat
    BY TotalFacts, LenProperties DEF Patterns
  <2>3. ASSUME NEW i \in DOMAIN u PROVE Len(u[i]) \in Nat /\ Len(u[i]) <= Total(u)
    BY <1>2, ElementOfSeq, LenProperties DEF Patterns
  <2>4. ASSUME NEW i \in DOMAIN Append(u, x)
        PROVE  Len(Append(u, x)[i]) <= Total(u) + Len(x)
    <3>1. CASE i \in DOMAIN u
      BY <2>1, <2>2, <2>3, <3>1
    <3>2. CASE i = Len(u) + 1
      BY <2>1, <2>2, <3>2
    <3> QED
      BY <2>1, <3>1, <3>2
  <2> QED
    BY <2>1, <2>2, <2>4
<1>3. \A u \in Seq(Patterns) : u \in P
  <2> HIDE DEF P
  <2> QED
    BY <1>1, <1>2, SequenceInduction
<1> QED
  BY <1>3

TotalBytesStep == [p \in Nat \X ByteViews |-> p[1] + p[2].size]

\* The function by which FoldLeft computes TotalBytes.
TotalBytesFold(s) ==
    CHOOSE f : f = [T \in SUBSET DOMAIN s |->
                       IF T = {} THEN 0 ELSE f[T \ {Max(T)}] + s[Max(T)].size]

LEMMA TotalBytesStepType == IsStep(Nat, ByteViews, 0, TotalBytesStep)
BY DEF IsStep, TotalBytesStep, ByteViews

LEMMA TotalBytesIsFolded ==
    ASSUME NEW s \in Seq(ByteViews)
    PROVE  TotalBytes(s) = Folded(TotalBytesStep, 0, s)
<1> DEFINE Solves(f) == f = [T \in SUBSET DOMAIN s |->
                               IF T = {} THEN 0 ELSE f[T \ {Max(T)}] + s[Max(T)].size]
<1>1. \A T \in SUBSET DOMAIN s : T # {} => Max(T) \in T /\ s[Max(T)] \in ByteViews
  BY LenProperties, ElementOfSeq, MaxIsMember
<1>2. \A a \in Nat, x \in ByteViews : TotalBytesStep[<<a, x>>] = a + x.size
  BY DEF TotalBytesStep
<1>3. \E f : Solves(f)
  <2>1. PICK f \in [SUBSET DOMAIN s -> Nat] : IsFold(f, Nat, TotalBytesStep, 0, s)
    BY TotalBytesStepType, FoldExists
  <2>2. ASSUME NEW T \in SUBSET DOMAIN s
        PROVE  f[T] = IF T = {} THEN 0 ELSE f[T \ {Max(T)}] + s[Max(T)].size
    BY <1>1, <1>2, <2>1 DEF IsFold
  <2>3. Solves(f)
    BY <2>2
  <2> QED
    BY <2>3
<1>4. Solves(TotalBytesFold(s))
  BY <1>3 DEF TotalBytesFold
<1>5. IsFold(TotalBytesFold(s), Nat, TotalBytesStep, 0, s)
  <2> DEFINE f == TotalBytesFold(s)
  <2>1. f[{}] = 0
    BY <1>4
  <2>2. ASSUME NEW T \in SUBSET DOMAIN s, T # {}, f[T \ {Max(T)}] \in Nat
        PROVE  f[T] = TotalBytesStep[<<f[T \ {Max(T)}], s[Max(T)]>>]
    BY <1>1, <1>2, <1>4, <2>2
  <2> QED
    BY <2>1, <2>2 DEF IsFold
<1>6. TotalBytes(s) = TotalBytesFold(s)[DOMAIN s]
  BY DEF TotalBytes, TotalBytesFold, FoldLeft, MapThenFoldSet
<1> QED
  BY <1>5, <1>6, TotalBytesStepType, FoldIsFolded

LEMMA TotalBytesFacts ==
    /\ TotalBytes(<<>>) = 0
    /\ \A s \in Seq(ByteViews) : TotalBytes(s) \in Nat
    /\ \A s \in Seq(ByteViews), x \in ByteViews :
          TotalBytes(Append(s, x)) = TotalBytes(s) + x.size
<1>1. /\ Folded(TotalBytesStep, 0, <<>>) = 0
      /\ \A s \in Seq(ByteViews) : Folded(TotalBytesStep, 0, s) \in Nat
      /\ \A s \in Seq(ByteViews), x \in ByteViews :
            Folded(TotalBytesStep, 0, Append(s, x)) =
                TotalBytesStep[<<Folded(TotalBytesStep, 0, s), x>>]
  BY TotalBytesStepType, FoldedFacts
<1>2. ASSUME NEW s \in Seq(ByteViews), NEW x \in ByteViews
      PROVE  TotalBytes(Append(s, x)) = TotalBytes(s) + x.size
  <2>1. Append(s, x) \in Seq(ByteViews)
    BY AppendProperties
  <2> QED
    BY <1>1, <2>1, TotalBytesIsFolded DEF TotalBytesStep
<1> QED
  BY <1>1, <1>2, EmptySeq, TotalBytesIsFolded

-----------------------------------------------------------------------------
(* Snapshots.                                                              *)

StoreTyped == store \in [Buffers -> Contents]

\* Nothing past the store a view is of.
InBounds(view) == view.size > 0 => view.first + view.size <= Len(store[view.buffer])

Fitting == {view \in ByteViews : InBounds(view)}

LEMMA ViewBytes ==
    ASSUME StoreTyped, NEW view \in Fitting
    PROVE  /\ Bytes(view) \in Seq(Byte) /\ Len(Bytes(view)) = view.size
           /\ view.size \in Nat /\ view \in ByteViews
<1>1. /\ view.buffer \in Buffers /\ view.first \in Nat /\ view.size \in Nat
      /\ view \in ByteViews /\ InBounds(view)
  BY DEF Fitting, ByteViews
<1> DEFINE c == store[view.buffer]
<1>2. c \in Seq(Byte) /\ Len(c) \in Nat
  BY <1>1, LimitsAssumption, LenProperties DEF StoreTyped
<1>3. \A i \in view.first + 1 .. view.first + view.size : c[i] \in Byte
  <2> TAKE i \in view.first + 1 .. view.first + view.size
  <2>1. i \in 1 .. Len(c)
    BY <1>1, <1>2 DEF InBounds
  <2> QED
    BY <1>2, <2>1, ElementOfSeq
<1> HIDE DEF c
<1> DEFINE b == SubSeq(c, view.first + 1, view.first + view.size)
<1>4. /\ b \in Seq(Byte)
      /\ Len(b) = IF view.first + 1 <= view.first + view.size
                    THEN (view.first + view.size) - (view.first + 1) + 1 ELSE 0
  <2>1. view.first + 1 \in Int /\ view.first + view.size \in Int
    BY <1>1
  <2> QED
    BY <1>3, <2>1, SubSeqProperties
<1> HIDE DEF b
<1>5. Len(b) = view.size
  BY <1>1, <1>4
<1> QED
  BY <1>1, <1>4, <1>5 DEF b, c, Bytes

TextBatches == [bytes : Seq(Byte), offsets : Seq(Nat)]

NoTexts == [bytes |-> <<>>, offsets |-> <<0>>]

WithText(b, text) ==
    [bytes |-> b.bytes \o text, offsets |-> Append(b.offsets, Len(b.bytes) + Len(text))]

SnapshotStep == [p \in TextBatches \X Fitting |-> WithText(p[1], Bytes(p[2]))]

\* The function by which FoldLeft computes Snapshot.
SnapshotFold(s) ==
    CHOOSE f : f = [T \in SUBSET DOMAIN s |->
                       IF T = {} THEN [bytes |-> <<>>, offsets |-> <<0>>]
                       ELSE [bytes |-> f[T \ {Max(T)}].bytes \o Bytes(s[Max(T)]),
                             offsets |-> Append(f[T \ {Max(T)}].offsets,
                                                OffsetAfterText(f[T \ {Max(T)}].bytes,
                                                                Bytes(s[Max(T)])))]]

LEMMA WithTextType ==
    ASSUME NEW b \in TextBatches, NEW text \in Seq(Byte)
    PROVE  /\ WithText(b, text) \in TextBatches
           /\ b.bytes \in Seq(Byte) /\ b.offsets \in Seq(Nat)
           /\ Len(b.bytes) \in Nat /\ Len(text) \in Nat
<1>1. b.bytes \in Seq(Byte) /\ b.offsets \in Seq(Nat)
  BY DEF TextBatches
<1>2. Len(b.bytes) \in Nat /\ Len(text) \in Nat
  BY <1>1, LenProperties
<1>3. /\ b.bytes \o text \in Seq(Byte)
      /\ Append(b.offsets, Len(b.bytes) + Len(text)) \in Seq(Nat)
  BY <1>1, <1>2, ConcatProperties, AppendProperties
<1> QED
  BY <1>1, <1>2, <1>3 DEF WithText, TextBatches

LEMMA SnapshotStepType ==
    ASSUME StoreTyped
    PROVE  IsStep(TextBatches, Fitting, NoTexts, SnapshotStep)
<1>1. NoTexts \in TextBatches
  BY EmptySeq DEF NoTexts, TextBatches
<1>2. \A b \in TextBatches, view \in Fitting : WithText(b, Bytes(view)) \in TextBatches
  BY ViewBytes, WithTextType
<1> QED
  BY <1>1, <1>2 DEF IsStep, SnapshotStep

LEMMA SnapshotIsFolded ==
    ASSUME StoreTyped, NEW s \in Seq(Fitting)
    PROVE  Snapshot(s) = Folded(SnapshotStep, NoTexts, s)
<1> DEFINE Solves(f) == f = [T \in SUBSET DOMAIN s |->
                               IF T = {} THEN NoTexts
                               ELSE WithText(f[T \ {Max(T)}], Bytes(s[Max(T)]))]
<1>1. \A T \in SUBSET DOMAIN s : T # {} => Max(T) \in T /\ s[Max(T)] \in Fitting
  BY LenProperties, ElementOfSeq, MaxIsMember
<1>2. \A a \in TextBatches, x \in Fitting : SnapshotStep[<<a, x>>] = WithText(a, Bytes(x))
  BY DEF SnapshotStep
<1>3. \E f : Solves(f)
  <2>1. PICK f \in [SUBSET DOMAIN s -> TextBatches] :
           IsFold(f, TextBatches, SnapshotStep, NoTexts, s)
    BY SnapshotStepType, FoldExists
  <2>2. ASSUME NEW T \in SUBSET DOMAIN s
        PROVE  f[T] = IF T = {} THEN NoTexts ELSE WithText(f[T \ {Max(T)}], Bytes(s[Max(T)]))
    BY <1>1, <1>2, <2>1 DEF IsFold
  <2>3. Solves(f)
    BY <2>2
  <2> QED
    BY <2>3
<1>4. Solves(SnapshotFold(s))
  <2>1. SnapshotFold(s) = CHOOSE f : Solves(f)
    BY DEF SnapshotFold, NoTexts, WithText, OffsetAfterText
  <2> QED
    BY <1>3, <2>1
<1>5. IsFold(SnapshotFold(s), TextBatches, SnapshotStep, NoTexts, s)
  <2> DEFINE f == SnapshotFold(s)
  <2>1. f[{}] = NoTexts
    BY <1>4
  <2>2. ASSUME NEW T \in SUBSET DOMAIN s, T # {}, f[T \ {Max(T)}] \in TextBatches
        PROVE  f[T] = SnapshotStep[<<f[T \ {Max(T)}], s[Max(T)]>>]
    BY <1>1, <1>2, <1>4, <2>2
  <2> QED
    BY <2>1, <2>2 DEF IsFold
<1>6. Snapshot(s) = SnapshotFold(s)[DOMAIN s]
  BY DEF Snapshot, SnapshotFold, FoldLeft, MapThenFoldSet, OffsetAfterText
<1> QED
  BY <1>5, <1>6, SnapshotStepType, FoldIsFolded

LEMMA SnapshotFacts ==
    ASSUME StoreTyped
    PROVE  /\ Snapshot(<<>>) = NoTexts
           /\ \A s \in Seq(Fitting) : Snapshot(s) \in TextBatches
           /\ \A s \in Seq(Fitting), x \in Fitting :
                 Snapshot(Append(s, x)) = WithText(Snapshot(s), Bytes(x))
<1>1. /\ Folded(SnapshotStep, NoTexts, <<>>) = NoTexts
      /\ \A s \in Seq(Fitting) : Folded(SnapshotStep, NoTexts, s) \in TextBatches
      /\ \A s \in Seq(Fitting), x \in Fitting :
            Folded(SnapshotStep, NoTexts, Append(s, x)) =
                SnapshotStep[<<Folded(SnapshotStep, NoTexts, s), x>>]
  BY SnapshotStepType, FoldedFacts
<1>2. ASSUME NEW s \in Seq(Fitting), NEW x \in Fitting
      PROVE  Snapshot(Append(s, x)) = WithText(Snapshot(s), Bytes(x))
  <2>1. Append(s, x) \in Seq(Fitting)
    BY AppendProperties
  <2> QED
    BY <1>1, <2>1, SnapshotIsFolded DEF SnapshotStep
<1> QED
  BY <1>1, <1>2, EmptySeq, SnapshotIsFolded

\* A batch has the bytes of the views, each between its two offsets.
Holds(b, s) ==
    /\ b \in TextBatches
    /\ Len(b.offsets) = Len(s) + 1
    /\ Len(b.bytes) = TotalBytes(s)
    /\ b.offsets[Len(s) + 1] = Len(b.bytes)
    /\ \A i \in 1 .. Len(s) + 1 : b.offsets[i] \in Nat /\ b.offsets[i] <= Len(b.bytes)
    /\ \A i \in 1 .. Len(s) : TextAt(b, i) = Bytes(s[i])

\* A text of the bytes already there is the same after more have been appended.
LEMMA TextKept ==
    ASSUME NEW bytes \in Seq(Byte), NEW more \in Seq(Byte),
           NEW m \in 0 .. Len(bytes), NEW n \in 0 .. Len(bytes)
    PROVE  SubSeq(bytes \o more, m + 1, n) = SubSeq(bytes, m + 1, n)
<1>1. Len(bytes) \in Nat
  BY LenProperties
<1>2. CASE m + 1 <= n
  <2>1. m + 1 \in 1 .. Len(bytes) /\ n \in 1 .. Len(bytes)
    BY <1>1, <1>2
  <2> QED
    BY <2>1, SubSeqOfConcat1
<1>3. CASE n < m + 1
  <2>1. m + 1 \in Int /\ n \in Int
    BY <1>1
  <2> QED
    BY <1>3, <2>1, SubSeqEmpty
<1> QED
  BY <1>1, <1>2, <1>3

\* The text just appended.
LEMMA TextAppended ==
    ASSUME NEW bytes \in Seq(Byte), NEW text \in Seq(Byte)
    PROVE  SubSeq(bytes \o text, Len(bytes) + 1, Len(bytes) + Len(text)) = text
<1>1. /\ <<>> \in Seq(Byte) /\ text \o <<>> = text
  BY EmptySeq, ConcatEmptySeq
<1>2. SubSeq(bytes \o (text \o <<>>), Len(bytes) + 1, Len(bytes) + Len(text)) = text
  BY <1>1, Middle
<1> QED
  BY <1>1, <1>2

LEMMA WithTextHolds ==
    ASSUME StoreTyped, NEW s \in Seq(Fitting), NEW x \in Fitting, NEW b, Holds(b, s)
    PROVE  Holds(WithText(b, Bytes(x)), Append(s, x))
<1>1. PICK text \in Seq(Byte) : text = Bytes(x) /\ Len(text) = x.size
  BY ViewBytes
<1> DEFINE c == WithText(b, text)
           t == Append(s, x)
<1>2. /\ b \in TextBatches /\ c \in TextBatches
      /\ b.bytes \in Seq(Byte) /\ b.offsets \in Seq(Nat)
      /\ Len(b.bytes) \in Nat /\ Len(text) \in Nat /\ Len(s) \in Nat
  BY WithTextType, LenProperties DEF Holds
<1>3. c.bytes = b.bytes \o text /\ c.offsets = Append(b.offsets, Len(b.bytes) + Len(text))
  BY DEF WithText
<1>4. /\ Len(t) = Len(s) + 1 /\ t[Len(s) + 1] = x /\ \A i \in 1 .. Len(s) : t[i] = s[i]
  BY AppendProperties
<1>5. TotalBytes(t) = TotalBytes(s) + x.size
  <2>1. s \in Seq(ByteViews) /\ x \in ByteViews
    <3>1. Fitting \subseteq ByteViews
      BY DEF Fitting
    <3> QED
      BY <3>1, ElementOfSeq, LenProperties, SeqDef
  <2> QED
    BY <2>1, TotalBytesFacts
<1>6. Len(c.bytes) = Len(b.bytes) + Len(text)
  BY <1>2, <1>3, ConcatProperties
<1>7. /\ Len(b.offsets) = Len(s) + 1 /\ Len(b.bytes) = TotalBytes(s)
      /\ b.offsets[Len(s) + 1] = Len(b.bytes)
      /\ \A i \in 1 .. Len(s) + 1 : b.offsets[i] \in Nat /\ b.offsets[i] <= Len(b.bytes)
      /\ \A i \in 1 .. Len(s) : TextAt(b, i) = Bytes(s[i])
  BY DEF Holds
<1>8. /\ Len(c.offsets) = Len(b.offsets) + 1
      /\ \A i \in 1 .. Len(b.offsets) : c.offsets[i] = b.offsets[i]
      /\ c.offsets[Len(b.offsets) + 1] = Len(b.bytes) + Len(text)
  <2>1. Len(b.bytes) + Len(text) \in Nat
    BY <1>2
  <2> QED
    BY <1>2, <1>3, <2>1, AppendProperties
<1> HIDE DEF c, t
<1>9. /\ Len(c.offsets) = Len(t) + 1 /\ Len(c.bytes) = TotalBytes(t)
      /\ c.offsets[Len(t) + 1] = Len(c.bytes)
  BY <1>1, <1>4, <1>5, <1>6, <1>7, <1>8
<1>10. ASSUME NEW i \in 1 .. Len(t) + 1
       PROVE  c.offsets[i] \in Nat /\ c.offsets[i] <= Len(c.bytes)
  <2>1. CASE i = Len(t) + 1
    BY <1>2, <1>6, <1>9, <2>1
  <2>2. CASE i # Len(t) + 1
    <3>1. i \in 1 .. Len(s) + 1
      BY <1>2, <1>4, <2>2
    <3>2. c.offsets[i] = b.offsets[i] /\ b.offsets[i] \in Nat /\ b.offsets[i] <= Len(b.bytes)
      BY <1>7, <1>8, <3>1
    <3> QED
      BY <1>2, <1>6, <3>2
  <2> QED
    BY <2>1, <2>2
<1>11. ASSUME NEW i \in 1 .. Len(t) PROVE TextAt(c, i) = Bytes(t[i])
  <2>1. CASE i = Len(s) + 1
    <3>1. c.offsets[i] = Len(b.bytes) /\ c.offsets[i + 1] = Len(b.bytes) + Len(text)
      BY <1>2, <1>7, <1>8, <2>1
    <3>2. TextAt(c, i) = SubSeq(b.bytes \o text, Len(b.bytes) + 1, Len(b.bytes) + Len(text))
      BY <1>3, <3>1 DEF TextAt
    <3> QED
      BY <1>1, <1>2, <1>4, <2>1, <3>2, TextAppended
  <2>2. CASE i # Len(s) + 1
    <3>1. i \in 1 .. Len(s) /\ i \in 1 .. Len(s) + 1 /\ i + 1 \in 1 .. Len(s) + 1
      BY <1>2, <1>4, <2>2
    <3> DEFINE m == b.offsets[i]
               n == b.offsets[i + 1]
    <3>2. /\ c.offsets[i] = m /\ m \in Nat /\ m <= Len(b.bytes)
          /\ c.offsets[i + 1] = n /\ n \in Nat /\ n <= Len(b.bytes)
      BY <1>7, <1>8, <3>1
    <3>3. m \in 0 .. Len(b.bytes) /\ n \in 0 .. Len(b.bytes)
      BY <1>2, <3>2
    <3>4. SubSeq(b.bytes \o text, m + 1, n) = SubSeq(b.bytes, m + 1, n)
      BY <1>2, <3>3, TextKept
    <3>5. TextAt(c, i) = TextAt(b, i)
      BY <1>3, <3>2, <3>4 DEF TextAt
    <3> QED
      BY <1>4, <1>7, <3>1, <3>5
  <2> QED
    BY <2>1, <2>2
<1>12. Holds(c, t)
  BY <1>2, <1>9, <1>10, <1>11 DEF Holds
<1> QED
  BY <1>1, <1>12 DEF c, t

LEMMA SnapshotHolds ==
    ASSUME StoreTyped, NEW s \in Seq(Fitting)
    PROVE  Holds(Snapshot(s), s)
<1> DEFINE P == {u \in Seq(Fitting) : Holds(Snapshot(u), u)}
<1>1. <<>> \in P
  <2>1. Holds(NoTexts, <<>>)
    <3>1. NoTexts \in TextBatches
      BY SnapshotStepType DEF IsStep
    <3> QED
      BY <3>1, TotalBytesFacts DEF Holds, NoTexts
  <2> QED
    BY <2>1, SnapshotFacts, EmptySeq
<1>2. ASSUME NEW u \in Seq(Fitting), NEW x \in Fitting, u \in P
      PROVE  Append(u, x) \in P
  <2>1. Append(u, x) \in Seq(Fitting) /\ Holds(Snapshot(u), u)
    BY <1>2, AppendProperties
  <2>2. Holds(WithText(Snapshot(u), Bytes(x)), Append(u, x))
    BY <2>1, WithTextHolds
  <2> QED
    BY <2>1, <2>2, SnapshotFacts
<1>3. \A u \in Seq(Fitting) : u \in P
  <2> HIDE DEF P
  <2> QED
    BY <1>1, <1>2, SequenceInduction
<1> QED
  BY <1>3

-----------------------------------------------------------------------------
(* Values.                                                                 *)

LEMMA ValueFacts ==
    ASSUME StoreTyped, NEW v \in Values
    PROVE  /\ IsView(v) => /\ GetByteView(v) \in Fitting
                           /\ SizeInBytes(v) \in Nat /\ GetByteView(v).size = SizeInBytes(v)
                           /\ v.buffer \in Buffers /\ v.first \in Nat
                           /\ SizeInBytes(v) > 0 =>
                                 v.first + SizeInBytes(v) <= Len(store[v.buffer])
           /\ IsPattern(v) => PatternBytes(v) \in Patterns
<1>1. ASSUME IsView(v)
      PROVE  /\ v.buffer \in Buffers /\ v.first \in Nat /\ SizeInBytes(v) \in Nat
             /\ SizeInBytes(v) > 0 => v.first + SizeInBytes(v) <= Len(store[v.buffer])
  <2>1. /\ v.buffer \in Buffers /\ v.first \in Nat
        /\ v.elements \in Nat /\ v.width \in Nat \ {0}
    BY <1>1, ArgumentsAssumption DEF IsView
  <2>2. v.elements * v.width \in Nat /\ 0 * v.width = 0
    BY <2>1
  <2>3. CASE v.first + v.elements * v.width <= Len(store[v.buffer])
    <3>1. SizeInBytes(v) = v.elements * v.width
      BY <2>3 DEF SizeInBytes, ViewLength
    <3> QED
      BY <2>1, <2>2, <2>3, <3>1
  <2>4. CASE ~(v.first + v.elements * v.width <= Len(store[v.buffer]))
    <3>1. SizeInBytes(v) = 0
      BY <2>2, <2>4 DEF SizeInBytes, ViewLength
    <3> QED
      BY <2>1, <3>1
  <2> QED
    BY <2>3, <2>4
<1>2. ASSUME IsView(v) PROVE GetByteView(v) \in Fitting /\ GetByteView(v).size = SizeInBytes(v)
  BY <1>1, <1>2 DEF GetByteView, Fitting, ByteViews, InBounds
<1>3. ASSUME IsPattern(v) PROVE PatternBytes(v) \in Patterns
  <2>1. CASE v.type = "string"
    BY <2>1, ArgumentsAssumption DEF PatternBytes, Patterns
  <2>2. CASE v.type = "view"
    <3>1. GetByteView(v) \in Fitting
      BY <1>2, <2>2 DEF IsView
    <3> QED
      BY <2>2, <3>1, ViewBytes DEF PatternBytes, Patterns
  <2> QED
    BY <1>3, <2>1, <2>2 DEF IsPattern
<1> QED
  BY <1>1, <1>2, <1>3

\* The view test matches lies inside the one it was passed.
LEMMA TestViewFits ==
    ASSUME StoreTyped, NEW v \in Values, IsView(v), NEW x \in Numbers, NEW y \in Numbers,
           NEW range \in {GetText(SizeInBytes(v), x, y), Test(SizeInBytes(v), x, y)},
           ~Throws(range)
    PROVE  [buffer |-> v.buffer, first |-> v.first + range.value.begin,
            size |-> range.value.size] \in Fitting
<1>1. /\ v.buffer \in Buffers /\ v.first \in Nat /\ SizeInBytes(v) \in Nat
      /\ SizeInBytes(v) > 0 => v.first + SizeInBytes(v) <= Len(store[v.buffer])
  BY ValueFacts
<1>2. x \in Passed /\ y \in Passed
  BY ArgumentsAssumption
<1>3. /\ range.value.begin \in 0 .. SizeInBytes(v)
      /\ range.value.size \in 0 .. SizeInBytes(v) - range.value.begin
  BY <1>1, <1>2, RangeFacts
<1> DEFINE begin == range.value.begin
           size == range.value.size
<1>4. Len(store[v.buffer]) \in Nat
  BY <1>1, LimitsAssumption, LenProperties DEF StoreTyped
<1>5. /\ begin \in Nat /\ size \in Nat
      /\ size > 0 => SizeInBytes(v) > 0 /\ begin + size <= SizeInBytes(v)
  BY <1>1, <1>3
<1> HIDE DEF begin, size
<1>6. size > 0 => (v.first + begin) + size <= Len(store[v.buffer])
  BY <1>1, <1>4, <1>5
<1>7. [buffer |-> v.buffer, first |-> v.first + begin, size |-> size] \in Fitting
  BY <1>1, <1>5, <1>6 DEF Fitting, ByteViews, InBounds
<1> QED
  BY <1>7 DEF begin, size

LEMMA ThrownFacts ==
    ASSUME NEW x
    PROVE  /\ GetBatchSize(x).thrown \in {"none", "TypeError", "RangeError"}
           /\ RequestedBatchSize(x).thrown \in {"none", "TypeError", "RangeError"}
<1>1. \A y : GetBatchSize(y).thrown \in {"none", "TypeError", "RangeError"}
  BY DEF GetBatchSize, Throw, Value
<1>2. normalizeBatchSizeValue(x).thrown \in {"none", "TypeError", "RangeError"}
  BY DEF normalizeBatchSizeValue, Throw, Value
<1> QED
  BY <1>1, <1>2 DEF RequestedBatchSize

-----------------------------------------------------------------------------
(* The inductive invariant.                                                *)

Reads(function) == function \in Batches \cup AsyncBatches

\* What a call may hold at each point.
ControlInv ==
    /\ pc = "idle" => call = NoCall
    /\ pc # "idle" => call \in [function: Functions, direct: BOOLEAN, count: 0 .. MaxCount]
    /\ pc \in {"normalize", "options", "collect"} =>
          /\ call.function \notin SingleTests
          /\ call.count <= Limit(call.function)
    /\ pc = "options" => ~Patterned
    /\ pc \in {"idle", "normalize", "options"} => texts = <<>> /\ patterns = <<>>
    /\ pc # "returning" => batch = NoBatch
    /\ Patterned => texts = <<>>
    /\ ~Patterned => patterns = <<>>

\* What has been read of an array: of the program's at most its length, of the
\* library's a part.
FetchedInv ==
    /\ pc \in {"normalize", "collect"} => Len(fetched) <= call.count
    /\ pc = "options" => fetched = <<>>
    /\ pc \in {"options", "collect"} /\ ~call.direct => Len(given) = call.count
    /\ pc = "collect" /\ ~call.direct => \A i \in DOMAIN fetched : fetched[i] = given[i]

\* The views taken are those of the elements read, as the stores are now: no code of
\* the program runs once the first has been taken.
TextsInv ==
    /\ \A i \in DOMAIN texts : InBounds(texts[i])
    /\ pc \in {"collect", "returning"} /\ Reads(call.function) =>
          /\ texts # <<>> => AllFetched
          /\ TotalBytes(texts) <= SizeMax
          /\ \A i \in DOMAIN texts :
                /\ i \in DOMAIN fetched
                /\ IsView(fetched[i]) /\ texts[i] = GetByteView(fetched[i])

\* A snapshot has the bytes of the views taken.
SnapshotInv ==
    batch # NoBatch =>
        /\ Reads(call.function)
        /\ Len(texts) = call.count
        /\ Len(batch.offsets) = call.count + 1
        /\ \A i \in DOMAIN texts : TextAt(batch, i) = Bytes(texts[i])

\* The patterns copied fit, and those of the library's array are its patterns as they
\* are now.
PatternsInv ==
    /\ Total(patterns) <= kMaxPatternBytes
    /\ Patterned /\ pc = "collect" => Len(patterns) = Len(fetched)
    /\ Patterned /\ ~call.direct =>
          \A i \in DOMAIN patterns :
             i \in DOMAIN given /\ IsPattern(given[i]) /\ patterns[i] = PatternBytes(given[i])
    /\ LimitsAreExact

IInv == CallTypeOK /\ ControlInv /\ FetchedInv /\ TextsInv /\ SnapshotInv /\ PatternsInv

LEMMA InitInv == Init => IInv
<1> SUFFICES ASSUME Init PROVE IInv
  OBVIOUS
<1> USE DEF Init
<1>1. CallTypeOK
  BY EmptySeq DEF CallTypeOK, NoBatch
<1>2. ControlInv /\ FetchedInv /\ SnapshotInv
  BY DEF ControlInv, FetchedInv, SnapshotInv, Patterned, Inits, NoCall
<1>3. TextsInv
  BY DEF TextsInv
<1>4. PatternsInv
  BY TotalFacts, LimitsAssumption DEF PatternsInv, LimitsAreExact, Patterned, Inits, NoCall
<1> QED
  BY <1>1, <1>2, <1>3, <1>4 DEF IInv

\* The texts of a batch about to be matched can be copied.
LEMMA TextsFit ==
    ASSUME IInv, pc = "collect", ~Patterned
    PROVE  texts \in Seq(Fitting) /\ TotalBytes(texts) <= SizeMax
<1>1. texts \in Seq(ByteViews) /\ \A i \in DOMAIN texts : InBounds(texts[i])
  BY DEF IInv, CallTypeOK, TextsInv
<1>2. \A i \in 1 .. Len(texts) : texts[i] \in Fitting
  BY <1>1, ElementOfSeq, LenProperties DEF Fitting
<1>3. texts \in Seq(Fitting)
  BY <1>1, <1>2, SequenceOf
<1>4. call.function \in Functions \ (SingleTests \cup Inits)
  BY DEF IInv, ControlInv, Patterned
<1>5. Reads(call.function)
  BY <1>4 DEF Reads, Functions
<1> QED
  BY <1>3, <1>5 DEF IInv, TextsInv

-----------------------------------------------------------------------------
(* Every step keeps the invariant.                                         *)

LEMMA TypeInv == IInv /\ [Next]_vars => CallTypeOK'
<1> SUFFICES ASSUME IInv, [Next]_vars PROVE CallTypeOK'
  OBVIOUS
<1>1. CallTypeOK /\ StoreTyped
  BY DEF IInv, CallTypeOK, StoreTyped
<1> USE DEF Return
<1>2. ASSUME NEW b \in Buffers, NEW contents \in Contents, Write(b, contents)
      PROVE  CallTypeOK'
  BY <1>1, <1>2 DEF CallTypeOK, Write, callVars
<1>3. ASSUME NEW function \in Functions, NEW direct \in BOOLEAN, NEW count \in 0 .. MaxCount,
             NEW x \in Numbers, Call(function, direct, count, x)
      PROVE  CallTypeOK'
  <2>1. /\ call' = [function |-> function, direct |-> direct, count |-> count]
        /\ fetched' = <<>> /\ texts' = <<>>
        /\ UNCHANGED <<store, given, patterns, batch, context>>
    BY <1>3 DEF Call, StartCall
  <2>2. pc' \in {"returning", "collect", "normalize"}
    BY <1>3 DEF Call
  <2>3. outcome' = outcome \/ outcome' \in {"none", "TypeError", "RangeError"}
    BY <1>3, ThrownFacts DEF Call
  <2> QED
    BY <1>1, <2>1, <2>2, <2>3, EmptySeq DEF CallTypeOK
<1>4. ASSUME NEW function \in SingleTests, NEW direct \in BOOLEAN, NEW v \in Values,
             NEW x \in Numbers, NEW y \in Numbers, TestCall(function, direct, v, x, y)
      PROVE  CallTypeOK'
  <2> DEFINE range == IF direct THEN GetText(SizeInBytes(v), x, y)
                                ELSE Test(SizeInBytes(v), x, y)
             view == [buffer |-> v.buffer, first |-> v.first + range.value.begin,
                      size |-> range.value.size]
  <2>1. /\ call' = [function |-> function, direct |-> direct, count |-> 1]
        /\ UNCHANGED <<store, given, patterns, batch, context>>
        /\ pc' = "returning" /\ outcome' \in {"TypeError", "returned", "Error"}
    BY <1>4 DEF TestCall, StartCall
  <2>2. \/ fetched' = <<>> /\ texts' = <<>>
        \/ IsView(v) /\ ~Throws(range) /\ fetched' = <<v>> /\ texts' = <<view>>
    BY <1>4 DEF TestCall, StartCall
  <2>3. ASSUME IsView(v), ~Throws(range) PROVE view \in Fitting
    <3>1. range \in {GetText(SizeInBytes(v), x, y), Test(SizeInBytes(v), x, y)}
      OBVIOUS
    <3> HIDE DEF range
    <3> QED
      BY <1>1, <2>3, <3>1, TestViewFits
  <2> HIDE DEF range, view
  <2>4. fetched' \in Seq(Values) /\ texts' \in Seq(ByteViews)
    <3>1. Fitting \subseteq ByteViews
      BY DEF Fitting
    <3>2. CASE fetched' = <<>> /\ texts' = <<>>
      BY <3>2, EmptySeq
    <3>3. CASE IsView(v) /\ ~Throws(range) /\ fetched' = <<v>> /\ texts' = <<view>>
      <4>1. view \in ByteViews
        BY <2>3, <3>1, <3>3
      <4>2. <<v>> \in Seq(Values) /\ <<view>> \in Seq(ByteViews)
        BY <4>1
      <4> QED
        BY <3>3, <4>2
    <3> QED
      BY <2>2, <3>2, <3>3
  <2>5. call' \in [function: Functions, direct: BOOLEAN, count: 0 .. MaxCount]
    BY <2>1, LimitsAssumption DEF Functions
  <2> QED
    BY <1>1, <2>1, <2>4, <2>5 DEF CallTypeOK
<1>5. ASSUME NEW v \in Values, Normalize(v) PROVE CallTypeOK'
  <2>1. fetched' \in Seq(Values)
    BY <1>1, <1>5, AppendProperties DEF CallTypeOK, Normalize
  <2> QED
    BY <1>1, <1>5, <2>1 DEF CallTypeOK, Normalize
<1>6. CASE Normalized
  BY <1>1, <1>6, EmptySeq DEF CallTypeOK, Normalized
<1>7. ASSUME NEW v \in Values, CollectInput(v) PROVE CallTypeOK'
  <2>1. fetched' \in Seq(Values)
    BY <1>1, <1>7, AppendProperties DEF CallTypeOK, CollectInput, Element
  <2> QED
    BY <1>1, <1>7, <2>1 DEF CallTypeOK, CollectInput
<1>8. ASSUME NEW v \in Values, CollectPattern(v) PROVE CallTypeOK'
  <2>1. fetched' \in Seq(Values)
    BY <1>1, <1>8, AppendProperties DEF CallTypeOK, CollectPattern, Element
  <2>2. patterns' \in Seq(Seq(Byte))
    <3>1. CASE patterns' = patterns
      BY <1>1, <3>1 DEF CallTypeOK
    <3>2. CASE IsPattern(v) /\ patterns' = Append(patterns, PatternBytes(v))
      BY <1>1, <3>2, ValueFacts, AppendProperties DEF CallTypeOK, Patterns
    <3> QED
      BY <1>8, <3>1, <3>2 DEF CollectPattern
  <2>3. pc' \in {pc, "returning"} /\ outcome' \in {outcome, "RangeError", "TypeError"}
    BY <1>8 DEF CollectPattern
  <2>4. UNCHANGED <<store, call, given, texts, batch, context>>
    BY <1>8 DEF CollectPattern
  <2> QED
    BY <1>1, <2>1, <2>2, <2>3, <2>4 DEF CallTypeOK
<1>9. ASSUME NEW function \in Inits, Compile(function) PROVE CallTypeOK'
  BY <1>1, <1>9 DEF CallTypeOK, Compile, Tag
<1>10. CASE ReadText
  <2>1. ~ReadText \/ /\ Len(texts) < Len(fetched)
                     /\ UNCHANGED <<store, call, given, fetched, patterns, batch, context>>
    BY DEF ReadText, ReadAfterCollecting
  <2>2. /\ pc' \in {pc, "returning"}
        /\ outcome' \in {outcome, "TypeError", "RangeError"}
    BY <1>10 DEF ReadText
  <2>3. texts' \in Seq(ByteViews)
    <3> DEFINE v == fetched[Len(texts) + 1]
    <3>1. v \in Values
      <4>1. Len(texts) + 1 \in 1 .. Len(fetched)
        BY <1>1, <1>10, <2>1, LenProperties DEF CallTypeOK
      <4> QED
        BY <1>1, <4>1, ElementOfSeq DEF CallTypeOK
    <3>2. texts' = texts \/ (IsView(v) /\ texts' = Append(texts, GetByteView(v)))
      BY <1>10 DEF ReadText
    <3> HIDE DEF v
    <3>3. IsView(v) => GetByteView(v) \in ByteViews
      BY <1>1, <3>1, ValueFacts DEF Fitting
    <3>4. texts \in Seq(ByteViews)
      BY <1>1 DEF CallTypeOK
    <3> QED
      BY <3>2, <3>3, <3>4, AppendProperties
  <2> QED
    BY <1>1, <1>10, <2>1, <2>2, <2>3 DEF CallTypeOK
<1>11. ASSUME NEW x \in Numbers, Options(x) PROVE CallTypeOK'
  <2>1. /\ pc' \in {"returning", "collect"}
        /\ UNCHANGED <<store, call, given, fetched, patterns, texts, batch, context>>
    BY <1>11 DEF Options
  <2>2. outcome' \in {outcome, "none", "TypeError", "RangeError"}
    BY <1>11, ThrownFacts DEF Options
  <2> QED
    BY <1>1, <2>1, <2>2 DEF CallTypeOK
<1>12. ASSUME NEW x \in Numbers, Match(x) PROVE CallTypeOK'
  <2>1. /\ pc' = "returning" /\ batch' \in {NoBatch, Snapshot(texts)}
        /\ UNCHANGED <<store, call, given, fetched, patterns, texts, context>>
    BY <1>12 DEF Match
  <2>2. outcome' \in {"none", "TypeError", "RangeError", "returned", "Error"}
    BY <1>12, ThrownFacts DEF Match
  <2>3. batch' \in [bytes: Seq(Byte), offsets: Seq(SizeT)]
    <3>1. CASE batch' = NoBatch
      BY <3>1, EmptySeq DEF NoBatch
    <3>2. CASE batch' = Snapshot(texts)
      <4>1. texts \in Seq(Fitting) /\ TotalBytes(texts) <= SizeMax
        BY <1>12, TextsFit DEF Match
      <4>2. Holds(Snapshot(texts), texts)
        BY <1>1, <4>1, SnapshotHolds
      <4> DEFINE b == Snapshot(texts)
      <4> HIDE DEF b
      <4>3. /\ b \in TextBatches /\ Len(b.bytes) <= SizeMax
            /\ \A i \in 1 .. Len(b.offsets) :
                  b.offsets[i] \in Nat /\ b.offsets[i] <= Len(b.bytes)
        BY <4>1, <4>2 DEF Holds, b
      <4>4. b.bytes \in Seq(Byte) /\ b.offsets \in Seq(Nat) /\ Len(b.bytes) \in Nat
        BY <4>3, LenProperties DEF TextBatches
      <4>5. \A i \in 1 .. Len(b.offsets) : b.offsets[i] \in SizeT
        BY <4>3, <4>4, PlanAssumption DEF SizeT
      <4>6. b.offsets \in Seq(SizeT)
        BY <4>4, <4>5, SequenceOf
      <4> QED
        BY <3>2, <4>3, <4>4, <4>6 DEF b, TextBatches
    <3> QED
      BY <2>1, <3>1, <3>2
  <2> QED
    BY <1>1, <2>1, <2>2, <2>3 DEF CallTypeOK
<1>13. CASE GetterThrows
  BY <1>1, <1>13 DEF CallTypeOK, GetterThrows
<1>14. CASE ApiFails
  BY <1>1, <1>14 DEF CallTypeOK, ApiFails
<1>15. CASE Returned
  BY <1>1, <1>15, EmptySeq DEF CallTypeOK, Returned, NoBatch
<1>16. CASE UNCHANGED vars
  BY <1>1, <1>16 DEF CallTypeOK, vars, callVars
<1> QED
  BY <1>2, <1>3, <1>4, <1>5, <1>6, <1>7, <1>8, <1>9, <1>10, <1>11, <1>12, <1>13, <1>14, <1>15,
     <1>16 DEF Next, RegexTest, SetTest, RegexInit, SetInit, SingleTests, Inits

LEMMA ControlInvStep == IInv /\ [Next]_vars => ControlInv'
<1> SUFFICES ASSUME IInv, [Next]_vars PROVE ControlInv'
  OBVIOUS
<1>1. ControlInv /\ pc \in {"idle", "normalize", "options", "collect", "returning"}
  BY DEF IInv, CallTypeOK
<1>0. call.function \in SingleTests \cup Batches \cup AsyncBatches => ~Patterned
  BY DEF Patterned, SingleTests, Batches, AsyncBatches, Inits
<1> USE DEF Return, Patterned
<1>2. ASSUME NEW b \in Buffers, NEW contents \in Contents, Write(b, contents)
      PROVE  ControlInv'
  BY <1>1, <1>2 DEF ControlInv, Write, callVars
<1>3. ASSUME NEW function \in Functions, NEW direct \in BOOLEAN, NEW count \in 0 .. MaxCount,
             NEW x \in Numbers, Call(function, direct, count, x)
      PROVE  ControlInv'
  <2>1. /\ pc = "idle" /\ call' = [function |-> function, direct |-> direct, count |-> count]
        /\ texts' = <<>> /\ function \notin SingleTests
        /\ UNCHANGED <<store, given, patterns, batch, context>>
    BY <1>3 DEF Call, StartCall
  <2>2. \/ pc' = "returning"
        \/ pc' \in {"collect", "normalize"} /\ ~(count > Limit(function))
    BY <1>3 DEF Call
  <2>3. patterns = <<>> /\ texts = <<>> /\ batch = NoBatch
    BY <1>1, <2>1 DEF ControlInv
  <2>4. pc' \in {"collect", "normalize"} => count <= Limit(function)
    <3>1. count \in Nat /\ Limit(function) \in Nat
      BY LimitsAssumption DEF Limit
    <3> QED
      BY <2>2, <3>1
  <2>5. /\ call' \in [function: Functions, direct: BOOLEAN, count: 0 .. MaxCount]
        /\ call'.function = function /\ call'.count = count
    BY <2>1
  <2> HIDE DEF Limit
  <2> QED
    BY <2>1, <2>2, <2>3, <2>4, <2>5 DEF ControlInv
<1>4. ASSUME NEW function \in SingleTests, NEW direct \in BOOLEAN, NEW v \in Values,
             NEW x \in Numbers, NEW y \in Numbers, TestCall(function, direct, v, x, y)
      PROVE  ControlInv'
  <2>1. /\ pc = "idle" /\ call' = [function |-> function, direct |-> direct, count |-> 1]
        /\ UNCHANGED <<store, given, patterns, batch, context>>
        /\ pc' = "returning"
    BY <1>4 DEF TestCall, StartCall
  <2>2. patterns = <<>> /\ batch = NoBatch
    BY <1>1, <2>1 DEF ControlInv
  <2>3. /\ call' \in [function: Functions, direct: BOOLEAN, count: 0 .. MaxCount]
        /\ call'.function = function
    BY <2>1, LimitsAssumption DEF Functions
  <2>4. function \notin Inits
    BY DEF SingleTests, Inits
  <2> QED
    BY <2>1, <2>2, <2>3, <2>4 DEF ControlInv
<1>5. ASSUME NEW v \in Values, Normalize(v) PROVE ControlInv'
  BY <1>1, <1>5 DEF ControlInv, Normalize
<1>6. CASE Normalized
  BY <1>1, <1>6 DEF ControlInv, Normalized
<1>7. ASSUME NEW v \in Values, CollectInput(v) PROVE ControlInv'
  BY <1>1, <1>7 DEF ControlInv, CollectInput, Element
<1>8. ASSUME NEW v \in Values, CollectPattern(v) PROVE ControlInv'
  BY <1>1, <1>8 DEF ControlInv, CollectPattern, Element
<1>9. ASSUME NEW function \in Inits, Compile(function) PROVE ControlInv'
  BY <1>1, <1>9 DEF ControlInv, Compile
<1>10. CASE ReadText
  <2>1. /\ pc = "collect" /\ ~Patterned /\ pc' \in {"collect", "returning"}
        /\ UNCHANGED <<store, call, given, fetched, patterns, batch, context>>
    BY <1>10 DEF ReadText
  <2> QED
    BY <1>1, <2>1 DEF ControlInv
<1>11. ASSUME NEW x \in Numbers, Options(x) PROVE ControlInv'
  <2>1. /\ pc = "options" /\ pc' \in {"returning", "collect"}
        /\ UNCHANGED <<store, call, given, fetched, patterns, texts, batch, context>>
    BY <1>11 DEF Options
  <2> QED
    BY <1>1, <2>1 DEF ControlInv
<1>12. ASSUME NEW x \in Numbers, Match(x) PROVE ControlInv'
  <2>1. /\ pc = "collect" /\ pc' = "returning"
        /\ UNCHANGED <<store, call, given, fetched, patterns, texts, context>>
    BY <1>12 DEF Match
  <2> QED
    BY <1>1, <2>1 DEF ControlInv
<1>13. CASE GetterThrows
  <2>1. pc # "idle"
    BY <1>13 DEF GetterThrows
  <2> QED
    BY <1>1, <1>13, <2>1 DEF ControlInv, GetterThrows
<1>14. CASE ApiFails
  BY <1>1, <1>14 DEF ControlInv, ApiFails
<1>15. CASE Returned
  BY <1>15 DEF ControlInv, Returned, NoCall, Inits
<1>16. CASE UNCHANGED vars
  BY <1>1, <1>16 DEF ControlInv, vars, callVars
<1> QED
  BY <1>2, <1>3, <1>4, <1>5, <1>6, <1>7, <1>8, <1>9, <1>10, <1>11, <1>12, <1>13, <1>14, <1>15,
     <1>16 DEF Next, RegexTest, SetTest, RegexInit, SetInit, SingleTests, Inits

LEMMA FetchedInvStep == IInv /\ [Next]_vars => FetchedInv'
<1> SUFFICES ASSUME IInv, [Next]_vars PROVE FetchedInv'
  OBVIOUS
<1>1. /\ FetchedInv /\ ControlInv
      /\ pc \in {"idle", "normalize", "options", "collect", "returning"}
      /\ given \in Seq(Values) /\ fetched \in Seq(Values)
      /\ Len(fetched) \in Nat /\ Len(given) \in Nat
      /\ DOMAIN fetched = 1 .. Len(fetched) /\ DOMAIN given = 1 .. Len(given)
  BY LenProperties DEF IInv, CallTypeOK
<1>0. pc # "idle" => call.count \in Nat
  BY <1>1 DEF ControlInv
<1> USE DEF Return
<1>2. ASSUME NEW b \in Buffers, NEW contents \in Contents, Write(b, contents)
      PROVE  FetchedInv'
  BY <1>1, <1>2 DEF FetchedInv, Write, callVars
<1>3. ASSUME NEW function \in Functions, NEW direct \in BOOLEAN, NEW count \in 0 .. MaxCount,
             NEW x \in Numbers, Call(function, direct, count, x)
      PROVE  FetchedInv'
  <2>1. /\ call' = [function |-> function, direct |-> direct, count |-> count]
        /\ fetched' = <<>>
    BY <1>3 DEF Call, StartCall
  <2>2. pc' \in {"returning", "normalize"} \/ (pc' = "collect" /\ direct)
    BY <1>3 DEF Call
  <2>3. Len(<<>>) = 0 /\ DOMAIN <<>> = {} /\ call'.count \in Nat /\ call'.direct = direct
    BY <2>1
  <2> QED
    BY <2>1, <2>2, <2>3 DEF FetchedInv
<1>4. ASSUME NEW function \in SingleTests, NEW direct \in BOOLEAN, NEW v \in Values,
             NEW x \in Numbers, NEW y \in Numbers, TestCall(function, direct, v, x, y)
      PROVE  FetchedInv'
  <2>1. pc' = "returning"
    BY <1>4 DEF TestCall
  <2> QED
    BY <2>1 DEF FetchedInv
<1>5. ASSUME NEW v \in Values, Normalize(v) PROVE FetchedInv'
  <2>1. /\ pc = "normalize" /\ Len(fetched) # call.count /\ fetched' = Append(fetched, v)
        /\ UNCHANGED <<call, given>> /\ pc' \in {"normalize", "returning"}
    BY <1>5 DEF Normalize, AllFetched
  <2>2. Len(fetched') = Len(fetched) + 1
    BY <1>1, <2>1, AppendProperties
  <2> QED
    BY <1>1, <1>0, <2>1, <2>2 DEF FetchedInv
<1>6. CASE Normalized
  <2>1. /\ pc' \in {"collect", "options"} /\ given' = fetched /\ fetched' = <<>>
        /\ UNCHANGED call /\ Len(fetched) = call.count /\ pc = "normalize"
    BY <1>6 DEF Normalized, AllFetched
  <2>2. Len(<<>>) = 0 /\ DOMAIN <<>> = {}
    OBVIOUS
  <2> QED
    BY <1>0, <2>1, <2>2 DEF FetchedInv
<1>7. ASSUME NEW v \in Values, Element(v), UNCHANGED <<call, given>>,
             pc' \in {"collect", "returning"}
      PROVE  FetchedInv'
  <2>1. /\ pc = "collect" /\ Len(fetched) # call.count /\ fetched' = Append(fetched, v)
        /\ ~call.direct => v = given[Len(fetched) + 1]
    BY <1>7 DEF Element, AllFetched
  <2>2. /\ Len(fetched') = Len(fetched) + 1
        /\ \A i \in DOMAIN fetched : fetched'[i] = fetched[i]
        /\ fetched'[Len(fetched) + 1] = v
        /\ \A i \in DOMAIN fetched' : i \in DOMAIN fetched \/ i = Len(fetched) + 1
    BY <1>1, <2>1, AppendProperties, AppendFacts
  <2>3. Len(fetched') <= call.count
    BY <1>0, <1>1, <2>1, <2>2 DEF FetchedInv
  <2>4. ~call.direct => \A i \in DOMAIN fetched' : fetched'[i] = given[i]
    BY <1>1, <2>1, <2>2 DEF FetchedInv
  <2>5. ~call.direct => Len(given) = call.count
    BY <1>1, <2>1 DEF FetchedInv
  <2> QED
    BY <1>7, <2>3, <2>4, <2>5 DEF FetchedInv
<1>8. ASSUME NEW v \in Values, CollectInput(v) PROVE FetchedInv'
  BY <1>7, <1>8 DEF CollectInput, Element
<1>9. ASSUME NEW v \in Values, CollectPattern(v) PROVE FetchedInv'
  BY <1>7, <1>9 DEF CollectPattern, Element
<1>10. ASSUME NEW function \in Inits, Compile(function) PROVE FetchedInv'
  <2>1. pc' = "returning"
    BY <1>10 DEF Compile
  <2> QED
    BY <2>1 DEF FetchedInv
<1>11. CASE ReadText
  <2>1. /\ pc = "collect" /\ pc' \in {"collect", "returning"}
        /\ UNCHANGED <<call, given, fetched>>
    BY <1>11 DEF ReadText
  <2> QED
    BY <1>1, <2>1 DEF FetchedInv
<1>12. ASSUME NEW x \in Numbers, Options(x) PROVE FetchedInv'
  <2>1. /\ pc = "options" /\ pc' \in {"returning", "collect"}
        /\ UNCHANGED <<call, given, fetched>>
    BY <1>12 DEF Options
  <2>2. Len(fetched) = 0
    BY <1>1, <2>1 DEF FetchedInv
  <2> QED
    BY <1>0, <1>1, <2>1, <2>2 DEF FetchedInv
<1>13. ASSUME NEW x \in Numbers, Match(x) PROVE FetchedInv'
  <2>1. pc' = "returning"
    BY <1>13 DEF Match
  <2> QED
    BY <2>1 DEF FetchedInv
<1>14. CASE GetterThrows \/ ApiFails \/ Returned
  <2>1. pc' \in {"returning", "idle"}
    BY <1>14 DEF GetterThrows, ApiFails, Returned
  <2> QED
    BY <2>1 DEF FetchedInv
<1>15. CASE UNCHANGED vars
  BY <1>1, <1>15 DEF FetchedInv, vars, callVars
<1> QED
  BY <1>2, <1>3, <1>4, <1>5, <1>6, <1>8, <1>9, <1>10, <1>11, <1>12, <1>13, <1>14, <1>15
  DEF Next, RegexTest, SetTest, RegexInit, SetInit, SingleTests, Inits

\* No text is read while code of the program may still run.
LEMMA NoTextsWhileJsRuns == IInv /\ JsRuns => texts = <<>>
<1> SUFFICES ASSUME IInv, JsRuns PROVE texts = <<>>
  OBVIOUS
<1>1. CallTypeOK /\ ControlInv /\ TextsInv
  BY DEF IInv
<1>2. CASE pc \in {"idle", "normalize", "options"}
  BY <1>1, <1>2 DEF ControlInv
<1>3. CASE pc = "collect" /\ Len(fetched) < call.count
  <2>1. ~AllFetched
    <3>1. Len(fetched) \in Nat /\ call.count \in Nat
      BY <1>1, <1>3, LenProperties DEF CallTypeOK, ControlInv
    <3> QED
      BY <1>3, <3>1 DEF AllFetched
  <2>2. call.function \in Functions \ SingleTests
    BY <1>1, <1>3 DEF ControlInv
  <2>3. CASE Patterned
    BY <1>1, <2>3 DEF ControlInv
  <2>4. CASE Reads(call.function)
    BY <1>1, <1>3, <2>1, <2>4 DEF TextsInv
  <2> QED
    BY <2>2, <2>3, <2>4 DEF Reads, Functions, Patterned
<1> QED
  BY <1>2, <1>3 DEF JsRuns

LEMMA NoTextsRead == ASSUME texts' = <<>> PROVE TextsInv'
<1>1. TotalBytes(texts)' = 0 /\ DOMAIN texts' = {}
  BY TotalBytesFacts
<1> QED
  BY <1>1, PlanAssumption DEF TextsInv

LEMMA TextsInvStep == IInv /\ [Next]_vars => TextsInv'
<1> SUFFICES ASSUME IInv, [Next]_vars PROVE TextsInv'
  OBVIOUS
<1>1. /\ TextsInv /\ ControlInv /\ StoreTyped
      /\ pc \in {"idle", "normalize", "options", "collect", "returning"}
      /\ texts \in Seq(ByteViews) /\ fetched \in Seq(Values)
      /\ Len(texts) \in Nat /\ Len(fetched) \in Nat
      /\ DOMAIN texts = 1 .. Len(texts) /\ DOMAIN fetched = 1 .. Len(fetched)
  BY LenProperties DEF IInv, CallTypeOK, StoreTyped
<1>0. pc = "collect" /\ ~Patterned => Reads(call.function)
  BY <1>1 DEF ControlInv, Patterned, Reads, Functions
<1> USE DEF Return
<1>2. ASSUME NEW b \in Buffers, NEW contents \in Contents, Write(b, contents)
      PROVE  TextsInv'
  BY <1>2, NoTextsWhileJsRuns, NoTextsRead DEF Write, callVars
<1>3. ASSUME NEW function \in Functions, NEW direct \in BOOLEAN, NEW count \in 0 .. MaxCount,
             NEW x \in Numbers, Call(function, direct, count, x)
      PROVE  TextsInv'
  BY <1>3, NoTextsRead DEF Call, StartCall
<1>4. ASSUME NEW function \in SingleTests, NEW direct \in BOOLEAN, NEW v \in Values,
             NEW x \in Numbers, NEW y \in Numbers, TestCall(function, direct, v, x, y)
      PROVE  TextsInv'
  <2> DEFINE range == IF direct THEN GetText(SizeInBytes(v), x, y)
                                ELSE Test(SizeInBytes(v), x, y)
             view == [buffer |-> v.buffer, first |-> v.first + range.value.begin,
                      size |-> range.value.size]
  <2>1. call' = [function |-> function, direct |-> direct, count |-> 1] /\ store' = store
    BY <1>4 DEF TestCall, StartCall
  <2>2. texts' = <<>> \/ (IsView(v) /\ ~Throws(range) /\ texts' = <<view>>)
    BY <1>4 DEF TestCall, StartCall
  <2>3. ASSUME IsView(v), ~Throws(range) PROVE view \in Fitting
    <3>1. range \in {GetText(SizeInBytes(v), x, y), Test(SizeInBytes(v), x, y)}
      OBVIOUS
    <3> HIDE DEF range
    <3> QED
      BY <1>1, <2>3, <3>1, TestViewFits
  <2> HIDE DEF range, view
  <2>4. CASE texts' = <<>>
    BY <2>4, NoTextsRead
  <2>5. CASE view \in Fitting /\ texts' = <<view>>
    <3>1. ~Reads(call'.function)
      BY <2>1 DEF Reads, SingleTests, Batches, AsyncBatches
    <3>2. \A i \in DOMAIN texts' : texts'[i] = view
      BY <2>5
    <3>3. \A i \in DOMAIN texts' : InBounds(texts[i])'
      BY <2>1, <2>5, <3>2 DEF Fitting, InBounds
    <3> QED
      BY <3>1, <3>3 DEF TextsInv, Reads
  <2> QED
    BY <2>2, <2>3, <2>4, <2>5
<1>5. ASSUME NEW v \in Values, Normalize(v) PROVE TextsInv'
  BY <1>1, <1>5, NoTextsRead DEF Normalize, ControlInv
<1>6. CASE Normalized
  BY <1>1, <1>6, NoTextsRead DEF Normalized, ControlInv
<1>7. ASSUME NEW v \in Values, CollectInput(v) PROVE TextsInv'
  <2>1. pc = "collect" /\ ~Patterned /\ ~AllFetched /\ texts' = texts
    BY <1>7 DEF CollectInput, Element
  <2> QED
    BY <1>0, <1>1, <2>1, NoTextsRead DEF TextsInv
<1>8. ASSUME Patterned, texts' = texts PROVE TextsInv'
  BY <1>1, <1>8, NoTextsRead DEF ControlInv
<1>9. ASSUME NEW v \in Values, CollectPattern(v) PROVE TextsInv'
  BY <1>8, <1>9 DEF CollectPattern
<1>10. ASSUME NEW function \in Inits, Compile(function) PROVE TextsInv'
  BY <1>8, <1>10 DEF Compile, Patterned
<1>11. CASE ReadText
  <2> DEFINE v == fetched[Len(texts) + 1]
  <2>1. /\ pc = "collect" /\ ~Patterned /\ AllFetched /\ Len(texts) < Len(fetched)
        /\ pc' \in {"collect", "returning"}
        /\ UNCHANGED <<store, call, given, fetched, patterns, batch, context>>
    BY <1>11 DEF ReadText, ReadAfterCollecting
  <2>2. /\ Reads(call.function) /\ TotalBytes(texts) <= SizeMax
        /\ \A i \in DOMAIN texts : /\ i \in DOMAIN fetched /\ IsView(fetched[i])
                                   /\ texts[i] = GetByteView(fetched[i])
                                   /\ InBounds(texts[i])
    BY <1>0, <1>1, <2>1 DEF TextsInv
  <2>3. \/ texts' = texts
        \/ /\ IsView(v) /\ FitsInSize(SizeInBytes(v), TotalBytes(texts))
           /\ texts' = Append(texts, GetByteView(v))
    BY <1>11 DEF ReadText
  <2>4. v \in Values /\ Len(texts) + 1 \in DOMAIN fetched
    <3>1. Len(texts) + 1 \in 1 .. Len(fetched)
      BY <1>1, <2>1
    <3> QED
      BY <1>1, <3>1, ElementOfSeq
  <2>5. CASE texts' = texts
    BY <2>1, <2>2, <2>5
    DEF TextsInv, Reads, AllFetched, InBounds, GetByteView, SizeInBytes, ViewLength
  <2>6. ASSUME IsView(v), FitsInSize(SizeInBytes(v), TotalBytes(texts)),
               texts' = Append(texts, GetByteView(v))
        PROVE  TextsInv'
    <3>1. PICK w \in Fitting : w = GetByteView(v) /\ w.size = SizeInBytes(v) /\ w.size \in Nat
      BY <1>1, <2>4, <2>6, ValueFacts
    <3>2. w \in ByteViews /\ InBounds(w)
      BY <3>1 DEF Fitting
    <3>3. /\ \A i \in DOMAIN texts : texts'[i] = texts[i]
          /\ texts'[Len(texts) + 1] = w
          /\ \A i \in DOMAIN texts' : i \in DOMAIN texts \/ i = Len(texts) + 1
      BY <1>1, <2>6, <3>1, <3>2, AppendProperties, AppendFacts
    <3>4. TotalBytes(texts') <= SizeMax
      <4>1. TotalBytes(texts') = TotalBytes(texts) + w.size /\ TotalBytes(texts) \in Nat
        BY <1>1, <2>6, <3>1, <3>2, TotalBytesFacts
      <4>2. w.size <= SizeMax - TotalBytes(texts)
        BY <2>6, <3>1 DEF FitsInSize
      <4> QED
        BY <3>1, <4>1, <4>2, PlanAssumption
    <3>5. \A i \in DOMAIN texts' : InBounds(texts'[i])
      BY <2>2, <3>2, <3>3
    <3>6. \A i \in DOMAIN texts' : /\ i \in DOMAIN fetched /\ IsView(fetched[i])
                                   /\ texts'[i] = GetByteView(fetched[i])
      BY <2>2, <2>4, <2>6, <3>1, <3>3
    <3> QED
      BY <2>1, <2>2, <3>4, <3>5, <3>6
      DEF TextsInv, Reads, AllFetched, InBounds, GetByteView, SizeInBytes, ViewLength
  <2> QED
    BY <2>3, <2>5, <2>6
<1>12. ASSUME NEW x \in Numbers, Options(x) PROVE TextsInv'
  BY <1>1, <1>12, NoTextsRead DEF Options, ControlInv
<1>13. ASSUME pc = "collect", pc' = "returning", UNCHANGED <<store, call, fetched, texts>>
       PROVE  TextsInv'
  BY <1>1, <1>13
  DEF TextsInv, Reads, AllFetched, InBounds, GetByteView, SizeInBytes, ViewLength
<1>14. ASSUME NEW x \in Numbers, Match(x) PROVE TextsInv'
  BY <1>13, <1>14 DEF Match
<1>15. CASE GetterThrows
  BY <1>15, NoTextsWhileJsRuns, NoTextsRead DEF GetterThrows
<1>16. CASE ApiFails
  BY <1>13, <1>16 DEF ApiFails
<1>17. CASE Returned
  BY <1>17, NoTextsRead DEF Returned
<1>18. CASE UNCHANGED vars
  BY <1>1, <1>18
  DEF TextsInv, Reads, AllFetched, InBounds, GetByteView, SizeInBytes, ViewLength, vars, callVars
<1> QED
  BY <1>2, <1>3, <1>4, <1>5, <1>6, <1>7, <1>9, <1>10, <1>11, <1>12, <1>14, <1>15, <1>16, <1>17,
     <1>18 DEF Next, RegexTest, SetTest, RegexInit, SetInit, SingleTests, Inits

LEMMA SnapshotInvStep == IInv /\ [Next]_vars => SnapshotInv'
<1> SUFFICES ASSUME IInv, [Next]_vars PROVE SnapshotInv'
  OBVIOUS
<1>1. SnapshotInv /\ ControlInv /\ StoreTyped
  BY DEF IInv, CallTypeOK, StoreTyped
<1> USE DEF Return
<1>2. ASSUME pc # "returning", batch' = batch PROVE SnapshotInv'
  BY <1>1, <1>2 DEF ControlInv, SnapshotInv
<1>3. ASSUME NEW b \in Buffers, NEW contents \in Contents, Write(b, contents)
      PROVE  SnapshotInv'
  BY <1>2, <1>3 DEF Write, callVars, JsRuns
<1>4. ASSUME NEW function \in Functions, NEW direct \in BOOLEAN, NEW count \in 0 .. MaxCount,
             NEW x \in Numbers, Call(function, direct, count, x)
      PROVE  SnapshotInv'
  BY <1>2, <1>4 DEF Call, StartCall
<1>5. ASSUME NEW function \in SingleTests, NEW direct \in BOOLEAN, NEW v \in Values,
             NEW x \in Numbers, NEW y \in Numbers, TestCall(function, direct, v, x, y)
      PROVE  SnapshotInv'
  BY <1>2, <1>5 DEF TestCall, StartCall
<1>6. ASSUME NEW v \in Values, Normalize(v) \/ CollectInput(v) \/ CollectPattern(v)
      PROVE  SnapshotInv'
  BY <1>2, <1>6 DEF Normalize, CollectInput, CollectPattern, Element
<1>7. CASE Normalized \/ ReadText \/ ApiFails
  BY <1>2, <1>7 DEF Normalized, ReadText, ApiFails
<1>8. ASSUME NEW function \in Inits, Compile(function) PROVE SnapshotInv'
  BY <1>2, <1>8 DEF Compile
<1>9. ASSUME NEW x \in Numbers, Options(x) PROVE SnapshotInv'
  BY <1>2, <1>9 DEF Options
<1>10. ASSUME NEW x \in Numbers, Match(x) PROVE SnapshotInv'
  <2>1. /\ pc = "collect" /\ ~Patterned /\ Len(texts) = call.count
        /\ batch' = NoBatch \/ batch' = Snapshot(texts)
        /\ UNCHANGED <<store, call, texts>>
    BY <1>10 DEF Match
  <2>2. Reads(call.function)
    BY <1>1, <2>1 DEF ControlInv, Patterned, Reads, Functions
  <2>3. Holds(Snapshot(texts), texts)
    BY <1>1, <2>1, TextsFit, SnapshotHolds
  <2>4. CASE batch' = NoBatch
    BY <2>4 DEF SnapshotInv
  <2>5. CASE batch' = Snapshot(texts)
    <3>1. /\ Len(batch'.offsets) = call.count + 1
          /\ \A i \in 1 .. Len(texts) : TextAt(batch', i) = Bytes(texts[i])
      BY <2>1, <2>3, <2>5 DEF Holds
    <3>2. DOMAIN texts = 1 .. Len(texts)
      BY LenProperties DEF IInv, CallTypeOK
    <3> QED
      BY <2>1, <2>2, <3>1, <3>2 DEF SnapshotInv, Reads, Bytes
  <2> QED
    BY <2>1, <2>4, <2>5
<1>11. CASE GetterThrows
  BY <1>2, <1>11 DEF GetterThrows, JsRuns
<1>12. CASE Returned
  BY <1>12 DEF Returned, SnapshotInv
<1>13. CASE UNCHANGED vars
  BY <1>1, <1>13 DEF SnapshotInv, Reads, Bytes, vars, callVars
<1> QED
  BY <1>3, <1>4, <1>5, <1>6, <1>7, <1>8, <1>9, <1>10, <1>11, <1>12, <1>13
  DEF Next, RegexTest, SetTest, RegexInit, SetInit, SingleTests, Inits

LEMMA PatternsInvStep == IInv /\ [Next]_vars => PatternsInv'
<1> SUFFICES ASSUME IInv, [Next]_vars PROVE PatternsInv'
  OBVIOUS
<1>1. /\ PatternsInv /\ ControlInv /\ FetchedInv /\ StoreTyped
      /\ pc \in {"idle", "normalize", "options", "collect", "returning"}
      /\ patterns \in Seq(Patterns) /\ fetched \in Seq(Values) /\ given \in Seq(Values)
      /\ Len(patterns) \in Nat /\ Len(fetched) \in Nat
      /\ DOMAIN patterns = 1 .. Len(patterns) /\ DOMAIN given = 1 .. Len(given)
  BY LenProperties DEF IInv, CallTypeOK, StoreTyped, Patterns
<1>0. pc # "idle" => call.count \in Nat
  BY <1>1 DEF ControlInv
<1> USE DEF Return
<1>2. ASSUME call'.function \notin Inits, patterns' = patterns PROVE PatternsInv'
  BY <1>1, <1>2 DEF PatternsInv, LimitsAreExact, Patterned
<1>3. ASSUME patterns' = <<>>, pc' # "collect" \/ fetched' = <<>>, LimitsAreExact'
      PROVE  PatternsInv'
  <2>1. Total(patterns') = 0 /\ DOMAIN patterns' = {} /\ Len(patterns') = 0 /\ Len(<<>>) = 0
    BY <1>3, TotalFacts
  <2>2. Total(patterns') <= kMaxPatternBytes
    BY <2>1, LimitsAssumption
  <2> QED
    BY <1>3, <2>1, <2>2 DEF PatternsInv, Patterned
<1>4. ASSUME NEW b \in Buffers, NEW contents \in Contents, Write(b, contents)
      PROVE  PatternsInv'
  <2>1. /\ JsRuns /\ UNCHANGED <<pc, call, given, fetched, patterns>>
    BY <1>4 DEF Write, callVars
  <2>2. pc # "returning"
    BY <2>1 DEF JsRuns
  <2>3. LimitsAreExact'
    BY <2>1, <2>2 DEF LimitsAreExact
  <2>4. CASE pc # "collect"
    <3>1. patterns = <<>>
      BY <1>1, <2>2, <2>4 DEF ControlInv
    <3> QED
      BY <1>3, <2>1, <2>3, <2>4, <3>1
  <2>5. CASE pc = "collect"
    <3>1. call.direct
      BY <2>1, <2>5 DEF JsRuns
    <3> QED
      BY <1>1, <2>1, <2>3, <3>1 DEF PatternsInv, Patterned
  <2> QED
    BY <2>4, <2>5
<1>5. ASSUME NEW function \in Functions, NEW direct \in BOOLEAN, NEW count \in 0 .. MaxCount,
             NEW x \in Numbers, Call(function, direct, count, x)
      PROVE  PatternsInv'
  <2>1. /\ pc = "idle" /\ call' = [function |-> function, direct |-> direct, count |-> count]
        /\ fetched' = <<>> /\ patterns' = patterns
    BY <1>5 DEF Call, StartCall
  <2>2. patterns' = <<>>
    BY <1>1, <2>1 DEF ControlInv
  <2>3. CASE function \in Inits
    <3>1. function \notin AsyncBatches
      BY <2>3 DEF Inits, AsyncBatches
    <3>2. \/ pc' = "returning" /\ outcome' = "TypeError"
          \/ pc' = "returning" /\ outcome' = "RangeError" /\ count > Limit(function)
          \/ pc' \in {"collect", "normalize"}
      BY <1>5, <3>1 DEF Call
    <3>3. call'.count = count /\ call'.function = function
      BY <2>1
    <3>4. LimitsAreExact'
      BY <3>2, <3>3 DEF LimitsAreExact, Limit
    <3> QED
      BY <1>3, <2>1, <2>2, <3>4
  <2>4. CASE function \notin Inits
    BY <1>2, <2>1, <2>4
  <2> QED
    BY <2>3, <2>4
<1>6. ASSUME NEW function \in SingleTests, NEW direct \in BOOLEAN, NEW v \in Values,
             NEW x \in Numbers, NEW y \in Numbers, TestCall(function, direct, v, x, y)
      PROVE  PatternsInv'
  <2>1. call' = [function |-> function, direct |-> direct, count |-> 1] /\ patterns' = patterns
    BY <1>6 DEF TestCall, StartCall
  <2>2. call'.function \notin Inits
    BY <2>1 DEF SingleTests, Inits
  <2> QED
    BY <1>2, <2>1, <2>2
<1>7. ASSUME NEW v \in Values, Normalize(v) PROVE PatternsInv'
  <2>1. /\ pc = "normalize" /\ UNCHANGED <<call, patterns>>
        /\ pc' = "normalize" \/ (pc' = "returning" /\ outcome' = "TypeError")
    BY <1>7 DEF Normalize
  <2>2. patterns' = <<>>
    BY <1>1, <2>1 DEF ControlInv
  <2>3. LimitsAreExact'
    BY <2>1 DEF LimitsAreExact
  <2> QED
    BY <1>3, <2>1, <2>2, <2>3
<1>8. CASE Normalized
  <2>1. /\ pc = "normalize" /\ pc' # "returning" /\ fetched' = <<>> /\ patterns' = patterns
    BY <1>8 DEF Normalized
  <2>2. patterns' = <<>>
    BY <1>1, <2>1 DEF ControlInv
  <2>3. LimitsAreExact'
    BY <2>1 DEF LimitsAreExact
  <2> QED
    BY <1>3, <2>1, <2>2, <2>3
<1>9. ASSUME NEW v \in Values, CollectInput(v) PROVE PatternsInv'
  BY <1>2, <1>9 DEF CollectInput, Patterned
<1>10. ASSUME NEW v \in Values, CollectPattern(v) PROVE PatternsInv'
  <2>1. /\ pc = "collect" /\ Patterned /\ Len(fetched) # call.count
        /\ ~call.direct => v = given[Len(fetched) + 1]
        /\ fetched' = Append(fetched, v)
        /\ UNCHANGED <<store, call, given, texts, batch, context>>
    BY <1>10 DEF CollectPattern, Element, AllFetched
  <2>2. Len(patterns) = Len(fetched) /\ Len(fetched) <= call.count
    BY <1>1, <2>1 DEF PatternsInv, FetchedInv
  <2>3. Len(fetched') = Len(fetched) + 1 /\ fetched'[Len(fetched) + 1] = v
    BY <1>1, <2>1, AppendProperties
  <2>4. CASE IsPattern(v) /\ Len(PatternBytes(v)) <= Budget
    <3>1. pc' = pc /\ patterns' = Append(patterns, PatternBytes(v))
      BY <1>10, <2>4 DEF CollectPattern
    <3>2. PICK p \in Patterns : p = PatternBytes(v)
      BY <1>1, <2>4, ValueFacts
    <3>3. /\ Len(patterns') = Len(patterns) + 1
          /\ \A i \in DOMAIN patterns : patterns'[i] = patterns[i]
          /\ patterns'[Len(patterns) + 1] = p
          /\ \A i \in DOMAIN patterns' : i \in DOMAIN patterns \/ i = Len(patterns) + 1
      BY <1>1, <3>1, <3>2, AppendProperties, AppendFacts
    <3>4. Total(patterns') <= kMaxPatternBytes
      <4>1. Total(patterns') = Total(patterns) + Len(p) /\ Total(patterns) \in Nat
        BY <1>1, <3>1, <3>2, TotalFacts
      <4>2. Len(p) \in Nat /\ Len(p) <= kMaxPatternBytes - Total(patterns)
        BY <2>4, <3>2, LenProperties DEF Budget, Patterns
      <4> QED
        BY <4>1, <4>2, LimitsAssumption
    <3>5. ~call.direct =>
             \A i \in DOMAIN patterns' :
                i \in DOMAIN given /\ IsPattern(given[i]) /\ patterns'[i] = PatternBytes(given[i])
      <4> SUFFICES ASSUME ~call.direct, NEW i \in DOMAIN patterns'
                   PROVE  /\ i \in DOMAIN given /\ IsPattern(given[i])
                          /\ patterns'[i] = PatternBytes(given[i])
        OBVIOUS
      <4>1. CASE i \in DOMAIN patterns
        BY <1>1, <2>1, <3>3, <4>1 DEF PatternsInv
      <4>2. CASE i = Len(patterns) + 1
        <5>1. i \in DOMAIN given
          <6>1. Len(given) = call.count
            BY <1>1, <2>1 DEF FetchedInv
          <6> QED
            BY <1>0, <1>1, <2>1, <2>2, <4>2, <6>1
        <5> QED
          BY <2>1, <2>2, <2>4, <3>2, <3>3, <4>2, <5>1
      <4> QED
        BY <3>3, <4>1, <4>2
    <3>6. LimitsAreExact'
      BY <2>1, <3>1 DEF LimitsAreExact
    <3>7. Len(patterns') = Len(fetched')
      BY <2>2, <2>3, <3>3
    <3> QED
      BY <2>1, <3>4, <3>5, <3>6, <3>7
      DEF PatternsInv, Patterned, IsPattern, PatternBytes, Bytes, GetByteView, SizeInBytes,
          ViewLength
  <2>5. CASE ~(IsPattern(v) /\ Len(PatternBytes(v)) <= Budget)
    <3>1. /\ pc' = "returning" /\ patterns' = patterns
          /\ outcome' = IF IsPattern(v) THEN "RangeError" ELSE "TypeError"
      BY <1>10, <2>5 DEF CollectPattern
    <3>2. Last(fetched') = v
      BY <1>1, <2>3 DEF Last
    <3>3. IsPattern(v) => Total(patterns) + Len(PatternBytes(v)) > kMaxPatternBytes
      <4> SUFFICES ASSUME IsPattern(v)
                   PROVE  Total(patterns) + Len(PatternBytes(v)) > kMaxPatternBytes
        OBVIOUS
      <4>1. PICK p \in Patterns : p = PatternBytes(v)
        BY <1>1, ValueFacts
      <4>2. Total(patterns) \in Nat /\ Len(p) \in Nat
        BY <1>1, TotalFacts, LenProperties DEF Patterns
      <4>3. ~(Len(p) <= kMaxPatternBytes - Total(patterns))
        BY <2>5, <4>1 DEF Budget
      <4>4. Total(patterns) + Len(p) > kMaxPatternBytes
        BY <4>2, <4>3, LimitsAssumption
      <4> QED
        BY <4>1, <4>4
    <3>4. outcome' = "RangeError" =>
             Total(patterns') + Len(PatternBytes(Last(fetched))') > kMaxPatternBytes
      <4>1. PatternBytes(Last(fetched))' = PatternBytes(v)
        BY <2>1, <3>2 DEF PatternBytes, Bytes, GetByteView, SizeInBytes, ViewLength
      <4> QED
        BY <3>1, <3>3, <4>1
    <3>5. LimitsAreExact'
      BY <3>1, <3>4 DEF LimitsAreExact
    <3>6. Total(patterns') <= kMaxPatternBytes
      BY <1>1, <3>1 DEF PatternsInv
    <3>7. Patterned /\ ~call.direct =>
             \A i \in DOMAIN patterns' :
                i \in DOMAIN given /\ IsPattern(given[i]) /\ patterns'[i] = PatternBytes(given[i])
      BY <1>1, <3>1 DEF PatternsInv
    <3> QED
      BY <2>1, <3>1, <3>5, <3>6, <3>7
      DEF PatternsInv, Patterned, IsPattern, PatternBytes, Bytes, GetByteView, SizeInBytes,
          ViewLength
  <2> QED
    BY <2>4, <2>5
<1>11. ASSUME UNCHANGED <<store, call, given, patterns>>, pc' = "returning", LimitsAreExact'
       PROVE  PatternsInv'
  BY <1>1, <1>11
  DEF PatternsInv, Patterned, IsPattern, PatternBytes, Bytes, GetByteView, SizeInBytes, ViewLength
<1>12. ASSUME NEW function \in Inits, Compile(function) PROVE PatternsInv'
  <2>1. /\ call.function = function /\ pc = "collect" /\ Len(patterns) = call.count
        /\ UNCHANGED <<store, call, given, fetched, patterns>>
        /\ pc' = "returning" /\ outcome' \in {"Error", "returned"}
    BY <1>12 DEF Compile
  <2>2. call.count <= Limit(call.function) /\ Total(patterns) <= kMaxPatternBytes
    BY <1>1, <2>1 DEF ControlInv, PatternsInv
  <2>3. LimitsAreExact'
    BY <2>1, <2>2 DEF LimitsAreExact, Limit
  <2> QED
    BY <1>11, <2>1, <2>3
<1>13. CASE ReadText
  BY <1>2, <1>13 DEF ReadText, Patterned
<1>14. ASSUME NEW x \in Numbers, Options(x) PROVE PatternsInv'
  <2>1. pc = "options" /\ UNCHANGED <<call, patterns>>
    BY <1>14 DEF Options
  <2>2. ~Patterned
    BY <1>1, <2>1 DEF ControlInv
  <2> QED
    BY <1>2, <2>1, <2>2 DEF Patterned
<1>15. ASSUME NEW x \in Numbers, Match(x) PROVE PatternsInv'
  BY <1>2, <1>15 DEF Match, Patterned
<1>16. CASE GetterThrows \/ ApiFails
  <2>1. /\ UNCHANGED <<store, call, given, patterns>>
        /\ pc' = "returning" /\ outcome' \in {"thrown", "Error"}
    BY <1>16 DEF GetterThrows, ApiFails
  <2>2. LimitsAreExact'
    BY <2>1 DEF LimitsAreExact
  <2> QED
    BY <1>11, <2>1, <2>2
<1>17. CASE Returned
  <2>1. pc' = "idle" /\ patterns' = <<>>
    BY <1>17 DEF Returned
  <2>2. LimitsAreExact'
    BY <2>1 DEF LimitsAreExact
  <2> QED
    BY <1>3, <2>1, <2>2
<1>18. CASE UNCHANGED vars
  <2>1. UNCHANGED <<store, pc, call, given, fetched, patterns, outcome>>
    BY <1>18 DEF vars, callVars
  <2>2. LimitsAreExact'
    BY <1>1, <2>1
    DEF PatternsInv, LimitsAreExact, Patterned, PatternBytes, Bytes, GetByteView,
        SizeInBytes, ViewLength, Last, Limit
  <2> QED
    BY <1>1, <2>1, <2>2
    DEF PatternsInv, Patterned, IsPattern, PatternBytes, Bytes, GetByteView, SizeInBytes, ViewLength
<1> QED
  BY <1>4, <1>5, <1>6, <1>7, <1>8, <1>9, <1>10, <1>12, <1>13, <1>14, <1>15, <1>16, <1>17, <1>18
  DEF Next, RegexTest, SetTest, RegexInit, SetInit, SingleTests, Inits

-----------------------------------------------------------------------------
(* The theorems.                                                           *)

LEMMA ExtentIsBytes ==
    ASSUME NEW v
    PROVE  Bytes(GetByteView(v)) = Extent(v)
<1> DEFINE size == SizeInBytes(v)
           view == [buffer |-> v.buffer, first |-> v.first, size |-> size]
<1>1. Extent(v) = SubSeq(store[v.buffer], v.first + 1, v.first + size)
  BY DEF Extent, SizeInBytes
<1> HIDE DEF size
<1>2. view.buffer = v.buffer /\ view.first = v.first /\ view.size = size
  OBVIOUS
<1>3. Bytes(view) = SubSeq(store[v.buffer], v.first + 1, v.first + size)
  BY <1>2 DEF Bytes
<1> QED
  BY <1>1, <1>3 DEF GetByteView, size

LEMMA InvStep == IInv /\ [Next]_vars => IInv'
<1> SUFFICES ASSUME IInv, [Next]_vars PROVE IInv'
  OBVIOUS
<1>1. CallTypeOK'
  BY TypeInv
<1>2. ControlInv' /\ FetchedInv'
  BY ControlInvStep, FetchedInvStep
<1>3. TextsInv' /\ SnapshotInv'
  BY TextsInvStep, SnapshotInvStep
<1>4. PatternsInv'
  BY PatternsInvStep
<1> QED
  BY <1>1, <1>2, <1>3, <1>4 DEF IInv

\* Between any two steps of a call, what it holds is what it has read.
THEOREM Invariance == Spec => []IInv
<1>1. Init => IInv
  BY InitInv
<1>2. IInv /\ [Next]_vars => IInv'
  BY InvStep
<1> QED
  BY <1>1, <1>2, PTL DEF Spec

\* Stores, calls, arrays, views and snapshots stay of their types; no offset of a
\* snapshot leaves size_t.
THEOREM CallsAreTyped == Spec => []CallTypeOK
<1>1. IInv => CallTypeOK
  BY DEF IInv
<1> QED
  BY <1>1, Invariance, PTL

\* Whatever getters did while a batch was collected, what is matched are the bytes
\* its inputs have when the call returns, and no view reaches past its store.
THEOREM TextsAreTheInputs == Spec => []TextsAreInputs
<1>1. IInv => TextsAreInputs
  <2> SUFFICES ASSUME IInv PROVE TextsAreInputs
    OBVIOUS
  <2>1. \A i \in DOMAIN texts : InBounds(texts[i])
    BY DEF IInv, TextsInv
  <2>2. ASSUME pc = "returning", call.function \in Batches \cup AsyncBatches,
               NEW i \in DOMAIN texts
        PROVE  Bytes(texts[i]) = Extent(fetched[i])
    <3>1. texts[i] = GetByteView(fetched[i])
      BY <2>2 DEF IInv, TextsInv, Reads
    <3> QED
      BY <3>1, ExtentIsBytes
  <2> QED
    BY <2>1, <2>2 DEF TextsAreInputs, Answered, InBounds
<1> QED
  BY <1>1, Invariance, PTL

\* The snapshot of an asynchronous batch has every input at its index, however many
\* inputs there are and whatever their sizes.
THEOREM SnapshotsAreTheInputs == Spec => []SnapshotIsInputs
<1>1. IInv => SnapshotIsInputs
  <2> SUFFICES ASSUME IInv, Answered, batch # NoBatch
               PROVE  /\ Len(batch.offsets) = call.count + 1
                      /\ \A i \in 1 .. call.count : TextAt(batch, i) = Extent(fetched[i])
    BY DEF SnapshotIsInputs
  <2>1. /\ Reads(call.function) /\ Len(texts) = call.count
        /\ Len(batch.offsets) = call.count + 1
        /\ \A i \in DOMAIN texts : TextAt(batch, i) = Bytes(texts[i])
    BY DEF IInv, SnapshotInv
  <2>2. DOMAIN texts = 1 .. call.count
    BY <2>1, LenProperties DEF IInv, CallTypeOK
  <2>3. ASSUME NEW i \in DOMAIN texts PROVE Bytes(texts[i]) = Extent(fetched[i])
    <3>1. texts[i] = GetByteView(fetched[i])
      BY <2>1, <2>3 DEF IInv, TextsInv, Answered
    <3> QED
      BY <3>1, ExtentIsBytes
  <2> QED
    BY <2>1, <2>2, <2>3
<1> QED
  BY <1>1, Invariance, PTL

\* The key of every call's patterns yields these patterns, whatever their number and
\* sizes, and a set is compiled from the bytes its patterns have when the call returns.
THEOREM KeysHoldPatterns == Spec => []KeyHoldsPatterns
<1>1. IInv => KeyHoldsPatterns
  <2> SUFFICES ASSUME IInv PROVE KeyHoldsPatterns
    OBVIOUS
  <2>1. patterns \in Seq(Patterns) /\ Total(patterns) <= kMaxPatternBytes
    BY DEF IInv, CallTypeOK, PatternsInv, Patterns
  <2>2. ASSUME NEW i \in DOMAIN patterns PROVE Len(patterns[i]) < Power[WordBytes]
    <3>1. Len(patterns[i]) <= Total(patterns)
      BY <2>1, TotalBounds
    <3>2. /\ Len(patterns[i]) \in Nat /\ Total(patterns) \in Nat
          /\ kMaxPatternBytes \in Nat /\ Power[WordBytes] \in Nat
      <4>1. patterns[i] \in Patterns
        BY <2>1, ElementOfSeq, LenProperties
      <4>2. WordBytes \in 0 .. WordBytes
        BY KeyAssumption
      <4>3. Power[WordBytes] \in Nat
        BY <4>2, PowerFacts
      <4>4. Total(patterns) \in Nat /\ kMaxPatternBytes \in Nat
        BY <2>1, TotalFacts, LimitsAssumption
      <4> QED
        BY <4>1, <4>3, <4>4, LenProperties DEF Patterns
    <3> QED
      BY <2>1, <3>1, <3>2, KeyLimitAssumption
  <2>3. CompileEncodedSet(SetCompileCacheKey(patterns)) =
            [complete |-> TRUE, patterns |-> patterns]
    BY <2>1, <2>2, KeyDecoded
  <2>4. ASSUME Patterned, ~call.direct, NEW i \in DOMAIN patterns
        PROVE  patterns[i] = IF given[i].type = "string" THEN given[i].text
                                                          ELSE Extent(given[i])
    <3>1. IsPattern(given[i]) /\ patterns[i] = PatternBytes(given[i])
      BY <2>4 DEF IInv, PatternsInv
    <3> QED
      BY <3>1, ExtentIsBytes DEF PatternBytes
  <2> QED
    BY <2>3, <2>4 DEF KeyHoldsPatterns
<1> QED
  BY <1>1, Invariance, PTL

\* A set is refused for the number or the bytes of its patterns exactly when they pass
\* the documented limits.
THEOREM LimitsHold == Spec => []LimitsAreExact
<1>1. IInv => LimitsAreExact
  BY DEF IInv, PatternsInv
<1> QED
  BY <1>1, Invariance, PTL
=============================================================================
