------------------------------ MODULE CtrBeats ------------------------------
(***************************************************************************)
(* The data that travels through a BALBOA crypto core: AXI-stream beats,   *)
(* and what AES in counter mode makes of them.  A beat is NPAR lanes of    *)
(* 128 bits wide.  A lane of an encrypted beat is the lane's input xor the *)
(* key stream of one counter block, so it is modelled by the pair of the   *)
(* input word (data) and the block's counter (blk); nonce and key are      *)
(* constants of the design and are left out.                               *)
(***************************************************************************)
EXTENDS Integers, Sequences, FiniteSets

CONSTANTS
    NPAR,     \* lanes of a beat, AXI_DATA_BITS / 128 (4 in the code)
    CtrMod,   \* number of values of a block counter (2^32 in the code)
    Data,     \* contents of one lane
    Keep,     \* byte enables of one lane
    Beats     \* the beats a source may offer

Lanes == 0 .. NPAR - 1

Counters == 0 .. CtrMod - 1

Beat == [data : [Lanes -> Data], keep : [Lanes -> Keep], last : BOOLEAN]

\* An encrypted beat: its lanes' inputs and the counters of their key stream.
Item == [data : [Lanes -> Data], keep : [Lanes -> Keep], last : BOOLEAN,
         blk : [Lanes -> Counters]]

ASSUME NPARAssumption == NPAR \in Nat \ {0}
ASSUME CtrModAssumption == CtrMod \in Nat \ {0}
ASSUME BeatsAssumption == Beats \subseteq Beat /\ Beats # {}

(***************************************************************************)
(* vfpga_top: counter_input_*, the NPAR counters formed from one register. *)
(***************************************************************************)
CounterInput(c) == [l \in Lanes |-> (c + l) % CtrMod]

\* Mutant: the register does not wrap.
NextCounterUnwrapped(c, beat) == IF beat.last THEN c + NPAR ELSE c

\* Mutant: the step is one short of the lanes.
NextCounterShort(c, beat) == IF beat.last THEN (c + NPAR - 1) % CtrMod ELSE c

\* Mutant: the register moves on after every beat.
NextCounterEachBeat(c, beat) == (c + NPAR) % CtrMod

(***************************************************************************)
(* vfpga_top: the register moves on by NPAR after the last beat of a       *)
(* packet only, so the beats of one packet use the same counters.          *)
(***************************************************************************)
NextCounter(c, beat) == IF beat.last THEN (c + NPAR) % CtrMod ELSE c

\* What beat must look like after the core, when accepted at counter c.
Encrypted(beat, c) == [data |-> beat.data, keep |-> beat.keep,
                       last |-> beat.last, blk |-> CounterInput(c)]

\* The packet ends among the beats of s before the k-th.
Ends(s, k) == Cardinality({j \in 1 .. k - 1 : s[j].last})

\* The counter of a core that has seen so many packet ends.
CounterAt(ends) == (NPAR * ends) % CtrMod
=============================================================================
