--------------------------- MODULE SequenceFacts ----------------------------
(***************************************************************************)
(* What Append, Tail and RemoveAt keep of a sequence, by its indices: the  *)
(* facts the proofs about queues and about the cache's list rest on.  Then *)
(* what a fold along a sequence computes, which needs induction.           *)
(***************************************************************************)
EXTENDS Integers, Sequences, SequencesExt, SequenceTheorems, FiniteSetTheorems, TLAPS

\* RemoveAt drops one element and keeps the order of the others.
LEMMA RemoveAtFacts ==
    ASSUME NEW S, NEW s \in Seq(S), NEW i \in DOMAIN s
    PROVE  /\ RemoveAt(s, i) \in Seq(S)
           /\ Len(RemoveAt(s, i)) = Len(s) - 1
           /\ \A j \in 1 .. i - 1 : RemoveAt(s, i)[j] = s[j]
           /\ \A j \in i .. Len(s) - 1 : RemoveAt(s, i)[j] = s[j + 1]
<1> DEFINE front == SubSeq(s, 1, i - 1)
           back == SubSeq(s, i + 1, Len(s))
<1>1. i \in 1 .. Len(s) /\ Len(s) \in Nat
  BY LenProperties
<1>2. /\ front \in Seq(S) /\ Len(front) = i - 1
      /\ \A j \in 1 .. i - 1 : front[j] = s[j]
  BY <1>1, SubSeqProperties, ElementOfSeq
<1>3. /\ back \in Seq(S) /\ Len(back) = Len(s) - i
      /\ \A j \in 1 .. Len(s) - i : back[j] = s[i + j]
  BY <1>1, SubSeqProperties, ElementOfSeq
<1>4. /\ front \o back \in Seq(S)
      /\ Len(front \o back) = Len(s) - 1
      /\ \A j \in 1 .. Len(s) - 1 :
            (front \o back)[j] = IF j <= i - 1 THEN front[j] ELSE back[j - (i - 1)]
  <2> HIDE DEF front, back
  <2> QED
    BY <1>1, <1>2, <1>3, ConcatProperties
<1>5. \A j \in i .. Len(s) - 1 : (front \o back)[j] = s[j + 1]
  <2> TAKE j \in i .. Len(s) - 1
  <2>1. /\ j \in 1 .. Len(s) - 1 /\ ~(j <= i - 1)
        /\ j - (i - 1) \in 1 .. Len(s) - i
        /\ i + (j - (i - 1)) = j + 1
    BY <1>1
  <2> QED
    BY <2>1, <1>3, <1>4
<1>6. \A j \in 1 .. i - 1 : (front \o back)[j] = s[j]
  BY <1>1, <1>2, <1>4
<1> QED
  BY <1>4, <1>5, <1>6 DEF RemoveAt

LEMMA SequenceHalves ==
    ASSUME NEW S, NEW s \in Seq(S), NEW n \in 0 .. Len(s)
    PROVE  SubSeq(s, 1, n) \o SubSeq(s, n + 1, Len(s)) = s
<1>1. /\ 1 \in 1 .. Len(s) + 1
      /\ n \in 1 - 1 .. Len(s)
      /\ Len(s) \in n .. Len(s)
  BY LenProperties
<1>2. SubSeq(s, 1, n) \o SubSeq(s, n + 1, Len(s)) = SubSeq(s, 1, Len(s))
  BY <1>1, ConcatAdjacentSubSeq, Zenon
<1> QED
  BY <1>2, SubSeqFull

\* A sequence is of what its elements are.
LEMMA SequenceOf ==
    ASSUME NEW S, NEW T, NEW s \in Seq(S), \A i \in 1 .. Len(s) : s[i] \in T
    PROVE  s \in Seq(T)
<1>1. Len(s) \in Nat /\ s = [i \in 1 .. Len(s) |-> s[i]]
  BY LenProperties
<1>2. s \in [1 .. Len(s) -> T]
  BY <1>1
<1> QED
  BY <1>1, <1>2, SeqDef

\* The second of two parts, by its own indices.
LEMMA SecondPart ==
    ASSUME NEW S, NEW a \in Seq(S), NEW u \in Seq(S)
    PROVE  /\ a \o u \in Seq(S) /\ Len(a \o u) = Len(a) + Len(u)
           /\ \A i \in 1 .. Len(u) : (a \o u)[Len(a) + i] = u[i]
<1>1. /\ a \o u \in Seq(S) /\ Len(a \o u) = Len(a) + Len(u)
      /\ \A i \in 1 .. Len(a) + Len(u) :
            (a \o u)[i] = IF i <= Len(a) THEN a[i] ELSE u[i - Len(a)]
  BY ConcatProperties
<1>2. ASSUME NEW i \in 1 .. Len(u) PROVE (a \o u)[Len(a) + i] = u[i]
  <2>1. /\ Len(a) + i \in 1 .. Len(a) + Len(u) /\ ~(Len(a) + i <= Len(a))
        /\ (Len(a) + i) - Len(a) = i
    BY LenProperties
  <2> QED
    BY <1>1, <2>1
<1> QED
  BY <1>1, <1>2

\* The middle of three parts.
LEMMA Middle ==
    ASSUME NEW S, NEW a \in Seq(S), NEW b \in Seq(S), NEW c \in Seq(S)
    PROVE  SubSeq(a \o (b \o c), Len(a) + 1, Len(a) + Len(b)) = b
<1> DEFINE s == a \o (b \o c)
           t == SubSeq(s, Len(a) + 1, Len(a) + Len(b))
<1>1. Len(a) \in Nat /\ Len(b) \in Nat /\ Len(c) \in Nat
  BY LenProperties
<1>2. /\ b \o c \in Seq(S) /\ Len(b \o c) = Len(b) + Len(c)
      /\ \A i \in 1 .. Len(b) : (b \o c)[i] = b[i]
  BY <1>1, ConcatProperties
<1>3. /\ s \in Seq(S) /\ Len(s) = Len(a) + (Len(b) + Len(c))
      /\ \A i \in 1 .. Len(b) : s[Len(a) + i] = (b \o c)[i]
  <2>1. PICK u \in Seq(S) : u = b \o c
    BY <1>2
  <2>2. /\ a \o u \in Seq(S) /\ Len(a \o u) = Len(a) + Len(u)
        /\ \A i \in 1 .. Len(u) : (a \o u)[Len(a) + i] = u[i]
    BY SecondPart
  <2>3. Len(u) = Len(b) + Len(c)
    BY <1>2, <2>1
  <2>4. \A i \in 1 .. Len(b) : i \in 1 .. Len(u)
    BY <1>1, <2>3
  <2>5. s = a \o u
    BY <2>1
  <2> HIDE DEF s
  <2> QED
    BY <2>1, <2>2, <2>3, <2>4, <2>5
<1> HIDE DEF s
<1>4. \A i \in Len(a) + 1 .. Len(a) + Len(b) : s[i] \in S
  BY <1>1, <1>3, ElementOfSeq
<1>5. /\ t \in Seq(S) /\ Len(t) = Len(b)
      /\ \A i \in 1 .. Len(b) : t[i] = s[Len(a) + i]
  <2>1. /\ t \in Seq(S)
        /\ Len(t) = IF Len(a) + 1 <= Len(a) + Len(b) THEN Len(a) + Len(b) - (Len(a) + 1) + 1 ELSE 0
        /\ \A i \in 1 .. Len(a) + Len(b) - (Len(a) + 1) + 1 : t[i] = s[(Len(a) + 1) + i - 1]
    BY <1>1, <1>4, SubSeqProperties
  <2> HIDE DEF t
  <2>2. /\ Len(a) + Len(b) - (Len(a) + 1) + 1 = Len(b)
        /\ \A i \in 1 .. Len(b) : (Len(a) + 1) + i - 1 = Len(a) + i
    BY <1>1
  <2> QED
    BY <1>1, <2>1, <2>2
<1> HIDE DEF t
<1>6. \A i \in 1 .. Len(b) : t[i] = b[i]
  BY <1>2, <1>3, <1>5
<1>7. t = b
  BY <1>5, <1>6, SeqEqual
<1> QED
  BY <1>7 DEF t, s

\* Append, Tail and RemoveAt by the indices of what they keep.
LEMMA AppendFacts ==
    ASSUME NEW S, NEW s \in Seq(S), NEW x \in S
    PROVE  /\ Append(s, x) # s
           /\ \A i \in DOMAIN s : i \in DOMAIN Append(s, x) /\ Append(s, x)[i] = s[i]
           /\ Len(s) + 1 \in DOMAIN Append(s, x) /\ Append(s, x)[Len(s) + 1] = x
           /\ \A i \in DOMAIN Append(s, x) : i \in DOMAIN s \/ i = Len(s) + 1
           /\ \A i \in DOMAIN s : i \in Nat /\ i < Len(s) + 1
<1> DEFINE t == Append(s, x)
<1>1. /\ t \in Seq(S) /\ Len(t) = Len(s) + 1
      /\ \A i \in 1 .. Len(s) : t[i] = s[i]
      /\ t[Len(s) + 1] = x
  BY AppendProperties
<1> HIDE DEF t
<1>2. DOMAIN s = 1 .. Len(s) /\ DOMAIN t = 1 .. Len(s) + 1 /\ Len(s) \in Nat
  BY <1>1, LenProperties
<1>3. t # s
  BY <1>1, <1>2
<1>4. \A i \in DOMAIN s : i \in DOMAIN t /\ t[i] = s[i] /\ i \in Nat /\ i < Len(s) + 1
  BY <1>1, <1>2
<1>5. \A i \in DOMAIN t : i \in DOMAIN s \/ i = Len(s) + 1
  BY <1>2
<1>6. Len(s) + 1 \in DOMAIN t
  BY <1>2
<1> QED
  BY <1>1, <1>3, <1>4, <1>5, <1>6 DEF t

LEMMA TailFacts ==
    ASSUME NEW S, NEW s \in Seq(S), s # <<>>
    PROVE  /\ Head(s) = s[1] /\ 1 \in DOMAIN s /\ s[1] \in S
           /\ \A i \in DOMAIN Tail(s) : i + 1 \in DOMAIN s /\ Tail(s)[i] = s[i + 1]
           /\ \A i \in DOMAIN s : i # 1 => i - 1 \in DOMAIN Tail(s) /\ Tail(s)[i - 1] = s[i]
           /\ DOMAIN s \subseteq Nat /\ DOMAIN Tail(s) \subseteq Nat \ {0}
<1>1. Len(s) \in Nat /\ Len(s) # 0 /\ DOMAIN s = 1 .. Len(s)
  BY LenProperties, EmptySeq
<1>2. /\ Tail(s) \in Seq(S) /\ Len(Tail(s)) = Len(s) - 1
      /\ \A i \in 1 .. Len(Tail(s)) : Tail(s)[i] = s[i + 1]
  BY HeadTailProperties
<1>3. DOMAIN Tail(s) = 1 .. Len(s) - 1
  BY <1>2, LenProperties
<1>4. s[1] \in S
  BY <1>1, ElementOfSeq
<1>5. ASSUME NEW i \in DOMAIN s, i # 1
      PROVE  i - 1 \in DOMAIN Tail(s) /\ Tail(s)[i - 1] = s[i]
  <2>1. i - 1 \in 1 .. Len(Tail(s)) /\ (i - 1) + 1 = i
    BY <1>1, <1>2, <1>5
  <2> QED
    BY <2>1, <1>2, <1>3
<1> QED
  BY <1>1, <1>2, <1>3, <1>4, <1>5

LEMMA RemoveAtDomain ==
    ASSUME NEW S, NEW s \in Seq(S), NEW x \in DOMAIN s
    PROVE  /\ DOMAIN s \subseteq Nat /\ DOMAIN RemoveAt(s, x) \subseteq Nat
           /\ \A i \in DOMAIN RemoveAt(s, x) :
                 \E m \in DOMAIN s : /\ m # x /\ RemoveAt(s, x)[i] = s[m]
                                     /\ m = IF i < x THEN i ELSE i + 1
           /\ \A m \in DOMAIN s \ {x} :
                 \E i \in DOMAIN RemoveAt(s, x) : /\ RemoveAt(s, x)[i] = s[m]
                                                  /\ i = IF m < x THEN m ELSE m - 1
<1> DEFINE r == RemoveAt(s, x)
<1>1. /\ r \in Seq(S) /\ Len(r) = Len(s) - 1
      /\ \A j \in 1 .. x - 1 : r[j] = s[j]
      /\ \A j \in x .. Len(s) - 1 : r[j] = s[j + 1]
  BY RemoveAtFacts
<1> HIDE DEF r
<1>2. DOMAIN s = 1 .. Len(s) /\ DOMAIN r = 1 .. Len(s) - 1 /\ Len(s) \in Nat
  BY <1>1, LenProperties
<1>3. ASSUME NEW i \in DOMAIN r
      PROVE  \E m \in DOMAIN s : m # x /\ r[i] = s[m] /\ m = IF i < x THEN i ELSE i + 1
  <2>1. CASE i < x
    BY <2>1, <1>1, <1>2
  <2>2. CASE ~(i < x)
    <3>1. i + 1 \in DOMAIN s /\ i + 1 # x /\ r[i] = s[i + 1]
      BY <2>2, <1>1, <1>2
    <3> QED
      BY <2>2, <3>1
  <2> QED
    BY <2>1, <2>2
<1>4. ASSUME NEW m \in DOMAIN s \ {x}
      PROVE  \E i \in DOMAIN r : r[i] = s[m] /\ i = IF m < x THEN m ELSE m - 1
  <2>1. CASE m < x
    BY <2>1, <1>1, <1>2
  <2>2. CASE ~(m < x)
    <3>1. m - 1 \in DOMAIN r /\ r[m - 1] = s[(m - 1) + 1] /\ (m - 1) + 1 = m
      BY <2>2, <1>1, <1>2
    <3> QED
      BY <2>2, <3>1
  <2> QED
    BY <2>1, <2>2
<1> QED
  BY <1>2, <1>3, <1>4 DEF r

-----------------------------------------------------------------------------
(* Induction.  The provers cannot instantiate a theorem about a predicate, *)
(* so what is proved by induction is given as a set.                       *)

\* Induction on the naturals, for a predicate given as the set P of the numbers that
\* satisfy it: were n not in P, adding one would map the members of P up to n into
\* those of them that are not zero, one fewer.
LEMMA SetInduction ==
    ASSUME NEW P, 0 \in P, \A n \in Nat : n \in P => n + 1 \in P
    PROVE  \A n \in Nat : n \in P
<1> SUFFICES ASSUME NEW n \in Nat, n \notin P PROVE FALSE
  OBVIOUS
<1> DEFINE C == P \cap (0 .. n)
           successor == [k \in C |-> k + 1]
<1>1. IsFiniteSet(C) /\ Cardinality(C) \in Nat
  <2>1. IsFiniteSet(0 .. n)
    BY FS_Interval
  <2> QED
    BY <2>1, FS_Intersection, FS_CardinalityType
<1>2. IsFiniteSet(C \ {0}) /\ Cardinality(C \ {0}) = Cardinality(C) - 1
  <2>1. 0 \in C
    OBVIOUS
  <2> HIDE DEF C
  <2> QED
    BY <1>1, <2>1, FS_RemoveElement
<1>3. successor \in Injection(C, C \ {0})
  <2>1. \A k \in C : k + 1 \in C \ {0}
    <3> TAKE k \in C
    <3>1. k # n
      OBVIOUS
    <3> QED
      BY <3>1
  <2>2. successor \in [C -> C \ {0}]
    BY <2>1
  <2>3. \A a, b \in C : successor[a] = successor[b] => a = b
    OBVIOUS
  <2> QED
    BY <2>2, <2>3 DEF Injection, IsInjective
<1>4. Cardinality(C) <= Cardinality(C \ {0})
  <2> HIDE DEF C, successor
  <2> QED
    BY <1>2, <1>3, FS_Injection
<1> QED
  BY <1>1, <1>2, <1>4

\* A nonempty set of indices has a largest one.
LEMMA MaxIsMember ==
    ASSUME NEW n \in Nat, NEW T \in SUBSET (1 .. n), T # {}
    PROVE  Max(T) \in T /\ \A i \in T : i <= Max(T)
<1> DEFINE HasMax(S) == \E m \in S : \A i \in S : m >= i
           P == {k \in Nat : \A S \in SUBSET (1 .. k) : S # {} => HasMax(S)}
<1>1. 0 \in P
  <2>1. 1 .. 0 = {}
    OBVIOUS
  <2> QED
    BY <2>1
<1>2. ASSUME NEW k \in Nat, k \in P PROVE k + 1 \in P
  <2>1. ASSUME NEW S \in SUBSET (1 .. k + 1), S # {} PROVE HasMax(S)
    <3>1. CASE k + 1 \in S
      BY <3>1
    <3>2. CASE k + 1 \notin S
      <4>1. S \in SUBSET (1 .. k)
        BY <3>2
      <4> QED
        BY <4>1, <2>1, <1>2
    <3> QED
      BY <3>1, <3>2
  <2> QED
    BY <2>1
<1>3. HasMax(T)
  <2> HIDE DEF P
  <2>1. \A k \in Nat : k \in P
    BY <1>1, <1>2, SetInduction
  <2> QED
    BY <2>1 DEF P
<1>4. Max(T) \in T /\ \A i \in T : Max(T) >= i
  BY <1>3 DEF Max
<1> QED
  BY <1>4

\* A recursion of which every value follows from that of an element of lower rank,
\* down to those of the set stop.
Descends(D, A, N, rank, stop, next, first, step) ==
    /\ N \in Nat /\ rank \in [D -> 0 .. N]
    /\ step \in [D \X A -> A]
    /\ \A d \in D : d \in stop => first[d] \in A
    /\ \A d \in D : d \notin stop => next[d] \in D /\ rank[next[d]] < rank[d]

LEMMA RecursionExists ==
    ASSUME NEW D, NEW A, NEW N, NEW rank, NEW stop, NEW next, NEW first, NEW step,
           Descends(D, A, N, rank, stop, next, first, step)
    PROVE  \E f \in [D -> A] :
              \A d \in D : f[d] = IF d \in stop THEN first[d] ELSE step[<<d, f[next[d]]>>]
<1> USE DEF Descends
<1> DEFINE Below(n) == {d \in D : rank[d] < n}
           Solves(f, n) ==
               /\ f \in [Below(n) -> A]
               /\ \A d \in Below(n) :
                     f[d] = IF d \in stop THEN first[d] ELSE step[<<d, f[next[d]]>>]
           P == {n \in Nat : \E f : Solves(f, n)}
<1>1. 0 \in P
  <2>1. Below(0) = {}
    OBVIOUS
  <2>2. Solves([d \in {} |-> d], 0)
    BY <2>1
  <2> QED
    BY <2>2
<1>2. ASSUME NEW n \in Nat, n \in P PROVE n + 1 \in P
  <2>1. PICK f : Solves(f, n)
    BY <1>2
  <2> DEFINE g == [d \in Below(n + 1) |->
                      IF d \in stop THEN first[d] ELSE step[<<d, f[next[d]]>>]]
  <2>2. \A d \in Below(n + 1) : d \notin stop => next[d] \in Below(n)
    OBVIOUS
  <2>3. g \in [Below(n + 1) -> A]
    <3> SUFFICES ASSUME NEW d \in Below(n + 1)
                 PROVE  (IF d \in stop THEN first[d] ELSE step[<<d, f[next[d]]>>]) \in A
      OBVIOUS
    <3>1. CASE d \in stop
      BY <3>1
    <3>2. CASE d \notin stop
      <4>1. f[next[d]] \in A
        BY <3>2, <2>1, <2>2
      <4>2. <<d, f[next[d]]>> \in D \X A
        BY <4>1
      <4> QED
        BY <4>2, <3>2
    <3> QED
      BY <3>1, <3>2
  <2>4. \A d \in Below(n) : g[d] = f[d]
    <3> TAKE d \in Below(n)
    <3>1. d \in Below(n + 1)
      OBVIOUS
    <3> QED
      BY <3>1, <2>1
  <2>5. \A d \in Below(n + 1) :
           g[d] = IF d \in stop THEN first[d] ELSE step[<<d, g[next[d]]>>]
    BY <2>2, <2>4
  <2>6. Solves(g, n + 1)
    BY <2>3, <2>5
  <2> HIDE DEF Solves
  <2> QED
    BY <2>6
<1>3. N + 1 \in P
  <2> HIDE DEF P
  <2> QED
    BY <1>1, <1>2, SetInduction
<1>4. Below(N + 1) = D
  OBVIOUS
<1>5. PICK f : Solves(f, N + 1)
  BY <1>3
<1> QED
  BY <1>4, <1>5

LEMMA InitialIndices ==
    ASSUME NEW n \in Nat, NEW k \in 1 .. n
    PROVE  /\ 1 .. k \in SUBSET (1 .. n) /\ 1 .. k # {}
           /\ Max(1 .. k) = k /\ (1 .. k) \ {Max(1 .. k)} = 1 .. (k - 1)
<1>1. 1 .. k \in SUBSET (1 .. n) /\ k \in 1 .. k
  OBVIOUS
<1>2. Max(1 .. k) \in 1 .. k /\ k <= Max(1 .. k)
  BY <1>1, MaxIsMember
<1>3. Max(1 .. k) = k
  BY <1>2
<1> QED
  BY <1>1, <1>3

IsStep(A, B, base, step) == base \in A /\ step \in [A \X B -> A]

\* The recursion by which FoldLeft is defined, on the sets of indices of s.
IsFold(f, A, step, base, s) ==
    /\ f[{}] = base
    /\ \A T \in SUBSET DOMAIN s :
          T # {} /\ f[T \ {Max(T)}] \in A =>
             f[T] = step[<<f[T \ {Max(T)}], s[Max(T)]>>]

\* It has a solution.
LEMMA FoldExists ==
    ASSUME NEW A, NEW B, NEW base, NEW step, IsStep(A, B, base, step), NEW s \in Seq(B)
    PROVE  \E f \in [SUBSET DOMAIN s -> A] : IsFold(f, A, step, base, s)
<1> USE DEF IsStep
<1> DEFINE D == SUBSET DOMAIN s
           rank == [T \in D |-> Cardinality(T)]
           next == [T \in D |-> T \ {Max(T)}]
           stop == {{}}
           first == [T \in D |-> base]
           follow == [p \in D \X A |-> IF p[1] = {} THEN base ELSE step[<<p[2], s[Max(p[1])]>>]]
<1>1. Len(s) \in Nat /\ DOMAIN s = 1 .. Len(s) /\ \A i \in DOMAIN s : s[i] \in B
  BY LenProperties, ElementOfSeq
<1>2. \A T \in D : T # {} => Max(T) \in T
  BY <1>1, MaxIsMember
<1>3. \A T \in D : IsFiniteSet(T) /\ Cardinality(T) \in 0 .. Len(s)
  <2> TAKE T \in D
  <2>1. IsFiniteSet(1 .. Len(s)) /\ Cardinality(1 .. Len(s)) = Len(s)
    <3>1. /\ IsFiniteSet(1 .. Len(s))
          /\ Cardinality(1 .. Len(s)) = IF 1 > Len(s) THEN 0 ELSE Len(s) - 1 + 1
      BY <1>1, FS_Interval
    <3> QED
      BY <1>1, <3>1
  <2>2. IsFiniteSet(T) /\ Cardinality(T) <= Len(s)
    BY <1>1, <2>1, FS_Subset
  <2>3. Cardinality(T) \in Nat
    BY <2>2, FS_CardinalityType
  <2> QED
    BY <1>1, <2>2, <2>3
<1>4. rank \in [D -> 0 .. Len(s)]
  BY <1>3
<1>5. follow \in [D \X A -> A]
  <2> SUFFICES ASSUME NEW p \in D \X A
               PROVE  (IF p[1] = {} THEN base ELSE step[<<p[2], s[Max(p[1])]>>]) \in A
    OBVIOUS
  <2>1. CASE p[1] = {}
    BY <2>1
  <2>2. CASE p[1] # {}
    <3>1. <<p[2], s[Max(p[1])]>> \in A \X B
      BY <2>2, <1>1, <1>2
    <3> QED
      BY <3>1, <2>2
  <2> QED
    BY <2>1, <2>2
<1>6. \A T \in D : T \notin stop => next[T] \in D /\ rank[next[T]] < rank[T]
  <2> SUFFICES ASSUME NEW T \in D, T # {}
               PROVE  T \ {Max(T)} \in D /\ Cardinality(T \ {Max(T)}) < Cardinality(T)
    OBVIOUS
  <2>1. Cardinality(T \ {Max(T)}) = Cardinality(T) - 1
    BY <1>2, <1>3, FS_RemoveElement
  <2> QED
    BY <2>1, <1>3
<1>7. \A T \in D : T \in stop => first[T] \in A
  OBVIOUS
<1>8. \E f \in [D -> A] :
         \A T \in D : f[T] = IF T \in stop THEN first[T] ELSE follow[<<T, f[next[T]]>>]
  <2>1. Descends(D, A, Len(s), rank, stop, next, first, follow)
    <3> HIDE DEF D, rank, next, first, follow, stop
    <3> QED
      BY <1>1, <1>4, <1>5, <1>6, <1>7 DEF Descends
  <2> HIDE DEF D, rank, next, first, follow, stop
  <2> QED
    BY <2>1, RecursionExists
<1>9. PICK f \in [D -> A] :
         \A T \in D : f[T] = IF T \in stop THEN first[T] ELSE follow[<<T, f[next[T]]>>]
  BY <1>8
<1>10. ASSUME NEW T \in D
       PROVE  f[T] = IF T = {} THEN base ELSE step[<<f[T \ {Max(T)}], s[Max(T)]>>]
  <2>1. CASE T = {}
    BY <2>1, <1>9
  <2>2. CASE T # {}
    <3>1. T \ {Max(T)} \in D /\ f[T \ {Max(T)}] \in A
      OBVIOUS
    <3>2. f[T] = follow[<<T, f[T \ {Max(T)}]>>]
      BY <2>2, <1>9
    <3> QED
      BY <2>2, <3>1, <3>2
  <2> QED
    BY <2>1, <2>2
<1> QED
  BY <1>10 DEF IsFold

\* Induction on sequences, by appending.
LEMMA SequenceInduction ==
    ASSUME NEW S, NEW P, <<>> \in P,
           \A s \in Seq(S), x \in S : s \in P => Append(s, x) \in P
    PROVE  \A s \in Seq(S) : s \in P
<1> DEFINE Q == {n \in Nat : \A s \in Seq(S) : Len(s) = n => s \in P}
<1>1. 0 \in Q
  BY EmptySeq
<1>2. ASSUME NEW n \in Nat, n \in Q PROVE n + 1 \in Q
  <2>1. ASSUME NEW s \in Seq(S), Len(s) = n + 1 PROVE s \in P
    <3>1. s # <<>>
      BY <2>1, EmptySeq
    <3>2. PICK t \in Seq(S), x \in S : s = Append(t, x)
      BY <3>1, SequenceEmptyOrAppend
    <3>3. Len(t) = n
      BY <2>1, <3>2, AppendProperties, LenProperties
    <3> QED
      BY <3>2, <3>3, <1>2
  <2> QED
    BY <2>1
<1>3. \A n \in Nat : n \in Q
  <2> HIDE DEF Q
  <2> QED
    BY <1>1, <1>2, SetInduction
<1> QED
  BY <1>3, LenProperties

\* The running values of a fold: f[k] is that of the first k elements.
IsRun(f, step, base, s) ==
    /\ f[0] = base
    /\ \A k \in 0 .. Len(s) - 1 : f[k + 1] = step[<<f[k], s[k + 1]>>]

Folded(step, base, s) == (CHOOSE f : IsRun(f, step, base, s))[Len(s)]

AgreeUpTo(n, s, t) ==
    /\ n \in Nat /\ n <= Len(s) /\ n <= Len(t)
    /\ \A k \in 1 .. n : s[k] = t[k]

\* The running values of two sequences agree as long as the sequences do.
LEMMA RunsAgree ==
    ASSUME NEW step, NEW base, NEW B, NEW s \in Seq(B), NEW t \in Seq(B),
           NEW n, AgreeUpTo(n, s, t),
           NEW f, NEW g, IsRun(f, step, base, s), IsRun(g, step, base, t)
    PROVE  f[n] = g[n]
<1> DEFINE P == {k \in Nat : k <= n => f[k] = g[k]}
<1> USE DEF AgreeUpTo
<1>1. Len(s) \in Nat /\ Len(t) \in Nat
  BY LenProperties
<1>2. 0 \in P
  BY DEF IsRun
<1>3. ASSUME NEW k \in Nat, k \in P PROVE k + 1 \in P
  <2>1. SUFFICES ASSUME k + 1 <= n PROVE f[k + 1] = g[k + 1]
    OBVIOUS
  <2>2. f[k] = g[k] /\ s[k + 1] = t[k + 1]
    BY <2>1, <1>3
  <2>3. k \in 0 .. Len(s) - 1 /\ k \in 0 .. Len(t) - 1
    BY <2>1, <1>1
  <2>4. f[k + 1] = step[<<f[k], s[k + 1]>>]
    BY <2>3 DEF IsRun
  <2>5. g[k + 1] = step[<<g[k], t[k + 1]>>]
    BY <2>3 DEF IsRun
  <2> QED
    BY <2>2, <2>4, <2>5
<1>4. n \in P
  <2> HIDE DEF P
  <2> QED
    BY <1>2, <1>3, SetInduction
<1> QED
  BY <1>4

LEMMA FoldedIsLast ==
    ASSUME NEW step, NEW base, NEW B, NEW s \in Seq(B), NEW f, IsRun(f, step, base, s)
    PROVE  Folded(step, base, s) = f[Len(s)]
<1> DEFINE g == CHOOSE h : IsRun(h, step, base, s)
<1>1. IsRun(g, step, base, s)
  OBVIOUS
<1>2. Len(s) \in Nat
  BY LenProperties
<1> HIDE DEF g
<1>3. g[Len(s)] = f[Len(s)]
  <2>1. AgreeUpTo(Len(s), s, s)
    BY <1>2 DEF AgreeUpTo
  <2> QED
    BY <1>1, <2>1, RunsAgree
<1> QED
  BY <1>3 DEF Folded, g

\* A solution of the recursion of FoldLeft has the running values on the initial
\* segments of the indices.
LEMMA FoldIsRun ==
    ASSUME NEW A, NEW B, NEW base, NEW step, IsStep(A, B, base, step), NEW s \in Seq(B),
           NEW iter, IsFold(iter, A, step, base, s)
    PROVE  /\ IsRun([k \in 0 .. Len(s) |-> iter[1 .. k]], step, base, s)
           /\ iter[DOMAIN s] = Folded(step, base, s)
           /\ iter[DOMAIN s] \in A
<1> USE DEF IsStep
<1> DEFINE f == [k \in 0 .. Len(s) |-> iter[1 .. k]]
           P == {k \in Nat : k <= Len(s) => f[k] \in A}
<1>1. Len(s) \in Nat /\ DOMAIN s = 1 .. Len(s)
  BY LenProperties
<1>2. f[0] = base
  <2>1. 1 .. 0 = {}
    OBVIOUS
  <2> QED
    BY <2>1, <1>1 DEF IsFold
<1>3. ASSUME NEW k \in 0 .. Len(s) - 1, f[k] \in A
      PROVE  f[k + 1] = step[<<f[k], s[k + 1]>>] /\ f[k + 1] \in A
  <2>1. /\ 1 .. k + 1 \in SUBSET DOMAIN s /\ 1 .. k + 1 # {}
        /\ Max(1 .. k + 1) = k + 1 /\ (1 .. k + 1) \ {Max(1 .. k + 1)} = 1 .. k
    BY <1>1, InitialIndices
  <2>2. f[k + 1] = iter[1 .. k + 1] /\ f[k] = iter[1 .. k]
    BY <1>1
  <2>3. f[k + 1] = step[<<f[k], s[k + 1]>>]
    BY <2>1, <2>2, <1>3 DEF IsFold
  <2>4. s[k + 1] \in B
    BY <1>1, ElementOfSeq
  <2> QED
    BY <2>3, <2>4, <1>3
<1>4. 0 \in P
  BY <1>2
<1>5. ASSUME NEW k \in Nat, k \in P PROVE k + 1 \in P
  <2> SUFFICES ASSUME k + 1 <= Len(s) PROVE f[k + 1] \in A
    OBVIOUS
  <2>1. k \in 0 .. Len(s) - 1 /\ f[k] \in A
    BY <1>1, <1>5
  <2> HIDE DEF f
  <2> QED
    BY <2>1, <1>3
<1>6. \A k \in Nat : k \in P
  <2> HIDE DEF P
  <2> QED
    BY <1>4, <1>5, SetInduction
<1>7. \A k \in 0 .. Len(s) : f[k] \in A
  <2> HIDE DEF f
  <2> QED
    BY <1>1, <1>6
<1>8. f[Len(s)] = iter[DOMAIN s]
  BY <1>1
<1> HIDE DEF f, P
<1>9. IsRun(f, step, base, s)
  BY <1>1, <1>2, <1>3, <1>7 DEF IsRun
<1>10. Folded(step, base, s) = f[Len(s)]
  BY <1>9, FoldedIsLast
<1> QED
  BY <1>1, <1>7, <1>8, <1>9, <1>10 DEF f

LEMMA FoldIsFolded ==
    ASSUME NEW A, NEW B, NEW base, NEW step, IsStep(A, B, base, step), NEW s \in Seq(B),
           NEW iter, IsFold(iter, A, step, base, s)
    PROVE  iter[DOMAIN s] = Folded(step, base, s)
<1>1. /\ IsRun([k \in 0 .. Len(s) |-> iter[1 .. k]], step, base, s)
      /\ iter[DOMAIN s] = Folded(step, base, s)
      /\ iter[DOMAIN s] \in A
  BY FoldIsRun
<1> QED
  BY <1>1

LEMMA RunExists ==
    ASSUME NEW A, NEW B, NEW base, NEW step, IsStep(A, B, base, step), NEW s \in Seq(B)
    PROVE  /\ \E f : IsRun(f, step, base, s)
           /\ Folded(step, base, s) \in A
<1>1. PICK iter \in [SUBSET DOMAIN s -> A] : IsFold(iter, A, step, base, s)
  BY FoldExists
<1>2. /\ IsRun([k \in 0 .. Len(s) |-> iter[1 .. k]], step, base, s)
      /\ iter[DOMAIN s] = Folded(step, base, s)
      /\ iter[DOMAIN s] \in A
  BY <1>1, FoldIsRun
<1> QED
  BY <1>2

\* What a fold yields: of nothing the base, and of one more element one more step.
LEMMA FoldedFacts ==
    ASSUME NEW A, NEW B, NEW base, NEW step, IsStep(A, B, base, step)
    PROVE  /\ Folded(step, base, <<>>) = base
           /\ \A s \in Seq(B) : Folded(step, base, s) \in A
           /\ \A s \in Seq(B), x \in B :
                 Folded(step, base, Append(s, x)) = step[<<Folded(step, base, s), x>>]
<1>1. Folded(step, base, <<>>) = base
  <2>1. <<>> \in Seq(B) /\ Len(<<>>) = 0
    BY EmptySeq
  <2>2. PICK f : IsRun(f, step, base, <<>>)
    BY <2>1, RunExists
  <2>3. Folded(step, base, <<>>) = f[Len(<<>>)]
    BY <2>1, <2>2, FoldedIsLast
  <2> QED
    BY <2>1, <2>2, <2>3 DEF IsRun
<1>2. ASSUME NEW s \in Seq(B), NEW x \in B
      PROVE  Folded(step, base, Append(s, x)) = step[<<Folded(step, base, s), x>>]
  <2> DEFINE t == Append(s, x)
  <2>1. /\ t \in Seq(B) /\ Len(t) = Len(s) + 1 /\ Len(s) \in Nat
        /\ t[Len(s) + 1] = x /\ \A k \in 1 .. Len(s) : s[k] = t[k]
    BY AppendProperties, LenProperties
  <2> HIDE DEF t
  <2>2. PICK f : IsRun(f, step, base, s)
    BY RunExists
  <2>3. PICK g : IsRun(g, step, base, t)
    BY <2>1, RunExists
  <2>4. f[Len(s)] = g[Len(s)]
    <3>1. AgreeUpTo(Len(s), s, t)
      BY <2>1 DEF AgreeUpTo
    <3> QED
      BY <2>1, <2>2, <2>3, <3>1, RunsAgree
  <2>5. g[Len(t)] = step[<<g[Len(s)], x>>]
    <3>1. Len(s) \in 0 .. Len(t) - 1
      BY <2>1
    <3> QED
      BY <3>1, <2>1, <2>3 DEF IsRun
  <2>6. Folded(step, base, s) = f[Len(s)] /\ Folded(step, base, t) = g[Len(t)]
    BY <2>1, <2>2, <2>3, FoldedIsLast
  <2> QED
    BY <2>4, <2>5, <2>6 DEF t
<1> QED
  BY <1>1, <1>2, RunExists
=============================================================================
