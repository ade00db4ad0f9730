------------------------------ MODULE PatternKey ------------------------------
(***************************************************************************)
(* The key of a pattern set, native/set-cache.cc: every pattern preceded   *)
(* by its size in little-endian bytes.  It is both what the cache compares *)
(* and what the worker thread compiles.                                    *)
(***************************************************************************)
EXTENDS Integers, SequencesExt

CONSTANTS
    WordBytes,  \* sizeof(uint64_t)
    ByteBase    \* values of a byte

ASSUME KeyAssumption == WordBytes \in Nat \ {0} /\ ByteBase \in Nat \ {0, 1}

Byte == 0 .. ByteBase - 1

\* How many values n bytes have; a byte more shifts by eight bits.
Power[n \in 0 .. WordBytes] == IF n = 0 THEN 1 ELSE ByteBase * Power[n - 1]

\* Seeded fault: the most significant byte comes first.
BigEndianByte(size, i) == (size \div Power[WordBytes - 1 - i]) % ByteBase

\* Byte i of a size, i from 0.
SizeByte(size, i) == (size \div Power[i]) % ByteBase

EncodedSize(size) == [i \in 1 .. WordBytes |-> SizeByte(size, i - 1)]

DecodedSize(word) ==
    FoldLeft(LAMBDA sum, i : sum + word[i] * Power[i - 1], 0,
             [i \in 1 .. WordBytes |-> i])

EncodedPattern(pattern) == EncodedSize(Len(pattern)) \o pattern

SetCompileCacheKey(patterns) ==
    FoldLeft(LAMBDA key, pattern : key \o EncodedPattern(pattern), <<>>, patterns)

\* The patterns CompileEncodedSet adds to the set, in order, and whether it reaches
\* the end of the key; otherwise it throws.
CompileEncodedSet(key) ==
    LET rest(offset) == Len(key) - offset
        size(offset) == DecodedSize(SubSeq(key, offset + 1, offset + WordBytes))
        from[offset \in 0 .. Len(key)] ==
            IF rest(offset) = 0 THEN [complete |-> TRUE, patterns |-> <<>>]
            ELSE IF \/ rest(offset) < WordBytes
                    \/ size(offset) > rest(offset) - WordBytes
              THEN [complete |-> FALSE, patterns |-> <<>>]
            ELSE LET begin == offset + WordBytes
                     end == begin + size(offset)
                 IN  [from[end] EXCEPT
                         !.patterns = <<SubSeq(key, begin + 1, end)>> \o @]
    IN  from[0]
=============================================================================
