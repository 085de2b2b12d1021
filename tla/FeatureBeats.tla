---------------------------- MODULE FeatureBeats ----------------------------
(***************************************************************************)
(* The data of the ML preprocessing kernel: beats whose lanes are 32-bit   *)
(* words, and what the kernel's functions make of a word.  A word is read  *)
(* as a signed integer throughout, also where the word is the bit pattern  *)
(* of a float that an earlier function has put there.                      *)
(***************************************************************************)
EXTENDS Integers, Sequences

CONSTANTS
    NUM_FLOATS,     \* lanes of a beat, AXI_DATA_BITS / FLOAT_BITS
    MaxInt,         \* the largest signed word, 2^31 - 1 in the code
    Keep,           \* byte enables of a beat
    LogBits,        \* logf of a positive integer, as the float's bit pattern
    MinusInfinity,  \* logf of zero, as a bit pattern
    NotANumber,     \* logf of a negative number, as a bit pattern
    Beats           \* the beats that may arrive

MinInt == -MaxInt - 1
Words  == MinInt .. MaxInt
Lanes  == 0 .. NUM_FLOATS - 1
Beat   == [data : [Lanes -> Words], keep : Keep, last : BOOLEAN]

ASSUME LanesAssumption == NUM_FLOATS \in Nat \ {0}
ASSUME WordsAssumption ==
    MaxInt \in Nat \ {0} /\ MinusInfinity \in Words /\ NotANumber \in Words
ASSUME FeatureBeatsAssumption == Beats \subseteq Beat

\* logf does not decrease, is 0 for 1, and its results are finite floats of
\* positive sign; the patterns of these are ordered as the floats are, and
\* they are smaller than those of infinity and of what is not a number.
ASSUME LogAssumption ==
    /\ LogBits \in [1 .. MaxInt -> 0 .. MaxInt - 1]
    /\ LogBits[1] = 0
    /\ \A x, y \in 1 .. MaxInt : x <= y => LogBits[x] <= LogBits[y]
-----------------------------------------------------------------------------
Clamp(word) == IF word < 0 THEN 0 ELSE word

\* int addition of 32 bits.
AddOne(word) == IF word = MaxInt THEN MinInt ELSE word + 1

Log(word) == LET x == AddOne(word)
             IN  IF x > 0 THEN LogBits[x] ELSE IF x = 0 THEN MinusInfinity ELSE NotANumber

Dense_NegsToZero(beat) == [data |-> [l \in Lanes |-> Clamp(beat.data[l])],
                           keep |-> beat.keep, last |-> beat.last]

Dense_Log(beat) == [data |-> [l \in Lanes |-> Log(beat.data[l])],
                    keep |-> beat.keep, last |-> beat.last]
=============================================================================
