---------------------------- MODULE AesPipeline -----------------------------
(***************************************************************************)
(* One crypto core of vfpga_top, register by register: the instance of     *)
(* aes_top in CTR mode and the block counter beside it.  NPAR AES lanes    *)
(* (aes_pipeline) carry the counter blocks with valid, last and the lane's *)
(* byte enables; one data_pipeline of the same depth carries the payload;  *)
(* they meet at the xor behind the last stage.  Nothing in the code checks *)
(* that what meets there belongs together: it does because all pipelines   *)
(* have one length and one stall, which is what this module is about.      *)
(*                                                                         *)
(* One step is a rising clock edge, or the source driving its wires        *)
(* between two edges.  The rounds of AES are left out here: a stage's data *)
(* register holds the counter whose block is under way.                    *)
(***************************************************************************)
EXTENDS CtrBeats, FiniteSets

CONSTANTS
    ENC_ROUNDS,  \* index of the last stage (9 for a 128-bit key)
    ZeroData,    \* contents of a cleared payload lane
    ZeroKeep,    \* contents of a cleared byte-enable register
    MaxBeats     \* bound on the beats offered between two resets

ASSUME RoundsAssumption == ENC_ROUNDS \in Nat
ASSUME ZeroAssumption == ZeroData \in Data /\ ZeroKeep \in Keep
ASSUME MaxBeatsAssumption == MaxBeats \in Nat

VARIABLES
    src,         \* the input stream's wires: tvalid and the beat beside it
    aes,         \* the stages of the NPAR aes_pipelines
    dat,         \* the stages of the data_pipeline
    counter,     \* block_counter_(outgoing|incoming)_data
    \* History, not in the design:
    accepted,    \* beats taken in since the last reset, as they must come out
    delivered,   \* beats the sink has taken since the last reset
    entered      \* entered[i]: number of beats that have entered stage i

hist == <<accepted, delivered, entered>>
vars == <<src, aes, dat, counter, hist>>

Stages == 0 .. ENC_ROUNDS

LaneReg == [dVal : BOOLEAN, last : BOOLEAN, keep : Keep, blk : Counters]
DataReg == [dVal : BOOLEAN, data : [Lanes -> Data]]

TypeOK ==
    /\ src \in [valid : BOOLEAN, beat : Beats]
    /\ aes \in [Lanes -> [Stages -> LaneReg]]
    /\ dat \in [Stages -> DataReg]
    /\ counter \in Counters
    /\ accepted \in Seq(Item)
    /\ delivered \in Seq(Item)
    /\ entered \in [0 .. ENC_ROUNDS + 1 -> Nat]

-----------------------------------------------------------------------------
\* Mutant: the stall input is left open.
PipeRegNeverStalls(reg, stall, in) ==
    IF in.dVal THEN in ELSE [reg EXCEPT !.dVal = FALSE]

\* Mutant: a full register does not take the next beat.
PipeRegSkips(reg, stall, in) ==
    IF stall THEN reg
    ELSE IF in.dVal /\ ~reg.dVal THEN in
    ELSE [reg EXCEPT !.dVal = FALSE]

(***************************************************************************)
(* pipe_reg, outside reset.  A stalled register keeps everything; one that *)
(* is fed a bubble keeps its old contents and drops only its valid bit.    *)
(***************************************************************************)
PipeReg(reg, stall, in) ==
    IF stall THEN reg
    ELSE IF in.dVal THEN in
    ELSE [reg EXCEPT !.dVal = FALSE]

\* Mutant: every lane gets the byte enables of the first.
LaneInKeepOfFirst(l) == [dVal |-> src.valid, last |-> src.beat.last,
                         keep |-> src.beat.keep[0], blk |-> CounterInput(counter)[l]]

\* What enters the first AES stage of a lane: its slice of counter_input.
LaneIn(l) == [dVal |-> src.valid, last |-> src.beat.last,
              keep |-> src.beat.keep[l], blk |-> CounterInput(counter)[l]]

\* What enters the first data stage: dVal_in is tied to '1' there, so the
\* payload wires are captured whether or not tvalid is up.
DataIn == [dVal |-> TRUE, data |-> src.beat.data]

\* aes_pipeline and data_pipeline: the chain of stages.
ShiftLane(l, stall) ==
    [i \in Stages |->
        PipeReg(aes[l][i], stall, IF i = 0 THEN LaneIn(l) ELSE aes[l][i - 1])]

\* Mutant: the data pipeline is not stalled with the lanes.
ShiftDataUnstalled(stall) ==
    [i \in Stages |->
        PipeReg(dat[i], FALSE, IF i = 0 THEN DataIn ELSE dat[i - 1])]

ShiftData(stall) ==
    [i \in Stages |->
        PipeReg(dat[i], stall, IF i = 0 THEN DataIn ELSE dat[i - 1])]

\* aes_top: the output wires.  valid and last are the lanes' bits or'ed; a
\* lane's word is its key stream xor its slice of the piped payload.
OutValid == \E l \in Lanes : aes[l][ENC_ROUNDS].dVal

OutItem == [data |-> dat[ENC_ROUNDS].data,
            keep |-> [l \in Lanes |-> aes[l][ENC_ROUNDS].keep],
            last |-> \E l \in Lanes : aes[l][ENC_ROUNDS].last,
            blk  |-> [l \in Lanes |-> aes[l][ENC_ROUNDS].blk]]

\* Mutant: the register moves on although the beat is not taken.
CounterAfterAnyLast(tready) ==
    IF src.valid THEN NextCounter(counter, src.beat) ELSE counter

\* vfpga_top: the block counter after a clock edge.
CounterAfter(tready) ==
    IF src.valid /\ tready THEN NextCounter(counter, src.beat) ELSE counter

-----------------------------------------------------------------------------
ClearedLanes == [l \in Lanes |-> [i \in Stages |->
    [dVal |-> FALSE, last |-> FALSE, keep |-> ZeroKeep, blk |-> 0]]]

ClearedData == [i \in Stages |->
    [dVal |-> FALSE, data |-> [l \in Lanes |-> ZeroData]]]

Init ==
    /\ src \in [valid : {FALSE}, beat : Beats]
    /\ aes = ClearedLanes
    /\ dat = ClearedData
    /\ counter = 0
    /\ accepted = <<>>
    /\ delivered = <<>>
    /\ entered = [i \in 0 .. ENC_ROUNDS + 1 |-> 0]

\* The source puts a beat on its wires (AXI-stream: once tvalid is up it
\* holds the beat until the handshake).  While tvalid is down the payload
\* wires may carry anything.
Drive(valid, beat) ==
    /\ ~src.valid
    /\ valid => Len(accepted) < MaxBeats
    /\ src' = [valid |-> valid, beat |-> beat]
    /\ UNCHANGED <<aes, dat, counter, hist>>

\* A rising edge out of reset, with the sink's tready as it stands.  The
\* sink's tready is also the source's, and its negation stalls every stage.
Clock(tready) ==
    LET stall == ~tready
        takes == src.valid /\ tready
        gives == OutValid /\ tready
    IN
    /\ aes' = [l \in Lanes |-> ShiftLane(l, stall)]
    /\ dat' = ShiftData(stall)
    /\ counter' = CounterAfter(tready)
    /\ src' = IF takes THEN [src EXCEPT !.valid = FALSE] ELSE src
    /\ accepted' = IF takes THEN Append(accepted, Encrypted(src.beat, counter))
                            ELSE accepted
    /\ delivered' = IF gives THEN Append(delivered, OutItem) ELSE delivered
    /\ entered' = IF stall THEN entered
                  ELSE [i \in 0 .. ENC_ROUNDS + 1 |->
                          IF i > 0 THEN entered[i - 1]
                          ELSE IF takes THEN entered[0] + 1 ELSE entered[0]]

\* A rising edge with aresetn low: registers and counter are cleared, and
\* the beats under way are gone.  The source is reset by the same signal.
Reset ==
    /\ aes' = ClearedLanes
    /\ dat' = ClearedData
    /\ counter' = 0
    /\ src' = [src EXCEPT !.valid = FALSE]
    /\ accepted' = <<>>
    /\ delivered' = <<>>
    /\ entered' = [i \in 0 .. ENC_ROUNDS + 1 |-> 0]

Next ==
    \/ \E valid \in BOOLEAN, beat \in Beats : Drive(valid, beat)
    \/ \E tready \in BOOLEAN : Clock(tready)
    \/ Reset

Spec == Init /\ [][Next]_vars

\* The clock never stops and the sink raises tready again and again, without
\* waiting for tvalid: the core cannot fill while tready is down.
FairSpec == Spec /\ WF_vars(Clock(TRUE))
-----------------------------------------------------------------------------
(***************************************************************************)
(* Properties.                                                             *)
(***************************************************************************)

\* The sink gets the accepted beats in their order, none lost, repeated or
\* torn: payload, byte enables, last and the counter of every lane are those
\* of one accepted beat although they travel in separate pipelines (aes_top).
InOrder ==
    /\ Len(delivered) <= Len(accepted)
    /\ \A k \in 1 .. Len(delivered) : delivered[k] = accepted[k]

\* Where every beat under way is: stage i of every pipeline holds its part of
\* the beat that entered that stage last, or a bubble in all lanes if no beat
\* entered it at the last edge that was not stalled.  A valid AES stage has
\* the payload register of the same depth valid beside it (data_pipeline).
StageHolds(i, item) ==
    /\ dat[i].dVal
    /\ dat[i].data = item.data
    /\ \A l \in Lanes :
           aes[l][i] = [dVal |-> TRUE, last |-> item.last,
                        keep |-> item.keep[l], blk |-> item.blk[l]]

PipesAligned ==
    /\ entered[0] = Len(accepted)
    /\ entered[ENC_ROUNDS + 1] = Len(delivered)
    /\ \A i \in 0 .. ENC_ROUNDS + 1 : entered[i] <= Len(accepted)
    /\ \A i \in Stages :
           \/ /\ entered[i] = entered[i + 1]
              /\ \A l \in Lanes : ~aes[l][i].dVal
           \/ /\ entered[i] = entered[i + 1] + 1
              /\ StageHolds(i, accepted[entered[i]])

\* Two neighbouring beats use the same counters inside a packet, and counters
\* NPAR further across its end; the counter register is where the next beat
\* must continue.  The decrypting core relies on it: it derives the counters
\* again from the packet ends it sees (vfpga_top).
BaseCounter == [k \in 1 .. Len(accepted) + 1 |->
    IF k > Len(accepted) THEN counter ELSE accepted[k].blk[0]]

CountersFollowPackets ==
    /\ BaseCounter[1] = 0
    /\ \A k \in 1 .. Len(accepted) :
           BaseCounter[k + 1] = NextCounter(BaseCounter[k], accepted[k])

\* A beat the core shows to the sink stays on the wires, unchanged, until the
\* sink takes it (or the core is reset): a stall freezes all pipelines at
\* once, the bubbles among them included.
HeldUntilTaken ==
    [][OutValid => \/ OutValid' /\ OutItem' = OutItem
                   \/ delivered' = Append(delivered, OutItem)
                   \/ accepted' = <<>>]_vars

\* Packets close enough together never share a counter block, in any lane and
\* across the wrap-around of the counter register.
PacketsBefore(k) == {j \in 1 .. k - 1 : accepted[j].last}

BlocksApart ==
    \A k, m \in 1 .. Len(accepted) :
        LET between == PacketsBefore(m) \ PacketsBefore(k)
        IN  Cardinality(between) \in 1 .. CtrMod \div NPAR - 1
            => \A l, n \in Lanes : accepted[k].blk[l] # accepted[m].blk[n]

\* The register-level core implements the abstract stream: each beat leaves once,
\* whole and in order, and what is accepted is delivered in the end, if no reset
\* comes first.
Stream == INSTANCE CtrStream
StreamSpec == Stream!FairSpec
=============================================================================
