------------------------- MODULE AesPipelineProofs --------------------------
(***************************************************************************)
(* Proofs about AesPipeline, for every number of lanes and stages, every   *)
(* counter width and every set of beats.                                   *)
(***************************************************************************)
EXTENDS AesPipeline, CtrBeatsProofs, TLAPS

\* The registers of one lane keep their type across an edge.
LEMMA ShiftLaneType ==
    ASSUME TypeOK, NEW l \in Lanes, NEW stall \in BOOLEAN
    PROVE  ShiftLane(l, stall) \in [Stages -> LaneReg]
<1>1. LaneIn(l) \in LaneReg
  <2>1. src.beat \in Beat /\ src.valid \in BOOLEAN
    BY BeatsAssumption DEF TypeOK
  <2>2. CounterInput(counter)[l] \in Counters
    BY CounterInputType DEF TypeOK
  <2>3. QED
    BY <2>1, <2>2 DEF LaneIn, LaneReg, Beat
<1>2. ASSUME NEW reg \in LaneReg, NEW in \in LaneReg
      PROVE  PipeReg(reg, stall, in) \in LaneReg
  BY DEF PipeReg, LaneReg
<1>3. ASSUME NEW i \in Stages
      PROVE  (IF i = 0 THEN LaneIn(l) ELSE aes[l][i - 1]) \in LaneReg
  BY <1>1, RoundsAssumption DEF TypeOK, Stages
<1>4. ASSUME NEW i \in Stages
      PROVE  aes[l][i] \in LaneReg
  BY DEF TypeOK
<1>5. QED
  BY <1>2, <1>3, <1>4 DEF ShiftLane

\* The registers of the data pipeline keep their type across an edge.
LEMMA ShiftDataType ==
    ASSUME TypeOK, NEW stall \in BOOLEAN
    PROVE  ShiftData(stall) \in [Stages -> DataReg]
<1>1. DataIn \in DataReg
  BY BeatsAssumption DEF TypeOK, DataIn, DataReg, Beat
<1>2. ASSUME NEW reg \in DataReg, NEW in \in DataReg
      PROVE  PipeReg(reg, stall, in) \in DataReg
  BY <1>2 DEF PipeReg, DataReg
<1>3. ASSUME NEW i \in Stages
      PROVE  (IF i = 0 THEN DataIn ELSE dat[i - 1]) \in DataReg
  BY <1>1, RoundsAssumption DEF TypeOK, Stages
<1>4. ASSUME NEW i \in Stages
      PROVE  dat[i] \in DataReg
  BY DEF TypeOK
<1>5. QED
  BY <1>2, <1>3, <1>4 DEF ShiftData

\* What is on the output wires is an encrypted beat.
LEMMA OutItemType ==
    ASSUME TypeOK
    PROVE  OutItem \in Item
<1>1. ENC_ROUNDS \in Stages
  BY RoundsAssumption DEF Stages
<1>2. dat[ENC_ROUNDS].data \in [Lanes -> Data]
  BY <1>1 DEF TypeOK, DataReg
<1>3. \A l \in Lanes : aes[l][ENC_ROUNDS].keep \in Keep
                       /\ aes[l][ENC_ROUNDS].blk \in Counters
  BY <1>1 DEF TypeOK, LaneReg
<1>4. (\E l \in Lanes : aes[l][ENC_ROUNDS].last) \in BOOLEAN
  OBVIOUS
<1>5. QED
  BY <1>2, <1>3, <1>4 DEF OutItem, Item

LEMMA TypeInit == Init => TypeOK
<1> SUFFICES ASSUME Init PROVE TypeOK
  OBVIOUS
<1>1. 0 \in Counters
  BY CtrModAssumption DEF Counters
<1>2. aes \in [Lanes -> [Stages -> LaneReg]]
  BY <1>1, ZeroAssumption DEF Init, ClearedLanes, LaneReg
<1>3. dat \in [Stages -> DataReg]
  BY ZeroAssumption DEF Init, ClearedData, DataReg
<1>4. accepted \in Seq(Item) /\ delivered \in Seq(Item)
  BY DEF Init
<1>5. entered \in [0 .. ENC_ROUNDS + 1 -> Nat] /\ counter \in Counters
  BY <1>1 DEF Init
<1>6. src \in [valid : BOOLEAN, beat : Beats]
  BY DEF Init
<1>7. QED
  BY <1>2, <1>3, <1>4, <1>5, <1>6 DEF TypeOK

LEMMA TypeNext == TypeOK /\ [Next]_vars => TypeOK'
<1> SUFFICES ASSUME TypeOK, [Next]_vars PROVE TypeOK'
  OBVIOUS
<1>1. ASSUME NEW valid \in BOOLEAN, NEW beat \in Beats, Drive(valid, beat)
      PROVE  TypeOK'
  BY <1>1 DEF TypeOK, Drive, hist
<1>2. ASSUME NEW tready \in BOOLEAN, Clock(tready)
      PROVE  TypeOK'
  <2>1. aes' \in [Lanes -> [Stages -> LaneReg]]
    BY <1>2, ShiftLaneType DEF Clock, CounterAfter
  <2>2. dat' \in [Stages -> DataReg]
    BY <1>2, ShiftDataType DEF Clock, CounterAfter
  <2>3. src' \in [valid : BOOLEAN, beat : Beats]
    BY <1>2 DEF Clock, CounterAfter, TypeOK
  <2>4. counter' \in Counters
    BY <1>2, NextCounterType DEF Clock, CounterAfter, TypeOK
  <2>5. accepted' \in Seq(Item)
    BY <1>2, EncryptedType DEF Clock, CounterAfter, TypeOK
  <2>6. delivered' \in Seq(Item)
    BY <1>2, OutItemType DEF Clock, CounterAfter, TypeOK
  <2>7. entered' \in [0 .. ENC_ROUNDS + 1 -> Nat]
    BY <1>2, RoundsAssumption DEF Clock, CounterAfter, TypeOK
  <2>8. QED
    BY <2>1, <2>2, <2>3, <2>4, <2>5, <2>6, <2>7 DEF TypeOK
<1>3. CASE Reset
  <2>1. 0 \in Counters
    BY CtrModAssumption DEF Counters
  <2>2. aes' \in [Lanes -> [Stages -> LaneReg]]
    BY <1>3, <2>1, ZeroAssumption DEF Reset, ClearedLanes, LaneReg
  <2>3. dat' \in [Stages -> DataReg]
    BY <1>3, ZeroAssumption DEF Reset, ClearedData, DataReg
  <2>4. accepted' \in Seq(Item) /\ delivered' \in Seq(Item)
    BY <1>3 DEF Reset
  <2>5. entered' \in [0 .. ENC_ROUNDS + 1 -> Nat] /\ counter' \in Counters
    BY <1>3, <2>1 DEF Reset
  <2>6. src' \in [valid : BOOLEAN, beat : Beats]
    BY <1>3 DEF Reset, TypeOK
  <2>7. QED
    BY <2>2, <2>3, <2>4, <2>5, <2>6 DEF TypeOK
<1>4. CASE UNCHANGED vars
  BY <1>4 DEF TypeOK, vars, hist
<1>5. QED
  BY <1>1, <1>2, <1>3, <1>4 DEF Next

\* Registers, counter and histories keep their types, whatever the depth.
THEOREM TypeCorrect == Spec => []TypeOK
  BY TypeInit, TypeNext, PTL DEF Spec

-----------------------------------------------------------------------------
(***************************************************************************)
(* Order.  InOrder alone is not inductive: that the beat on the output     *)
(* wires is the next one to deliver follows from where every beat under    *)
(* way is, which PipesAligned says.                                        *)
(***************************************************************************)
OrderInv == TypeOK /\ PipesAligned /\ InOrder

\* The pipelines and histories as Init and Reset leave them.
Cleared ==
    /\ aes = ClearedLanes
    /\ accepted = <<>>
    /\ delivered = <<>>
    /\ entered = [i \in 0 .. ENC_ROUNDS + 1 |-> 0]

LEMMA ClearedAligned == Cleared => PipesAligned /\ InOrder
<1> SUFFICES ASSUME Cleared PROVE PipesAligned /\ InOrder
  OBVIOUS
<1>1. PipesAligned
  <2>1. \A i \in Stages : i + 1 \in 0 .. ENC_ROUNDS + 1 /\ i \in 0 .. ENC_ROUNDS + 1
    BY RoundsAssumption DEF Stages
  <2>2. \A i \in Stages : entered[i] = entered[i + 1]
    BY <2>1 DEF Cleared
  <2>3. \A i \in Stages, l \in Lanes : ~aes[l][i].dVal
    BY DEF Cleared, ClearedLanes
  <2>4. \A i \in 0 .. ENC_ROUNDS + 1 : entered[i] = 0
    BY DEF Cleared
  <2>5. Len(accepted) = 0 /\ Len(delivered) = 0
    BY DEF Cleared
  <2>6. 0 \in 0 .. ENC_ROUNDS + 1 /\ ENC_ROUNDS + 1 \in 0 .. ENC_ROUNDS + 1
    BY RoundsAssumption
  <2>7. QED
    BY <2>2, <2>3, <2>4, <2>5, <2>6 DEF PipesAligned
<1>2. InOrder
  BY DEF Cleared, InOrder
<1>3. QED
  BY <1>1, <1>2

LEMMA OrderInit == Init => OrderInv
  BY TypeInit, ClearedAligned DEF Init, Cleared, OrderInv

\* In an aligned pipeline a valid output is the oldest beat not yet delivered.
LEMMA OutIsNext ==
    ASSUME OrderInv, OutValid
    PROVE  /\ Len(delivered) < Len(accepted)
           /\ OutItem = accepted[Len(delivered) + 1]
<1> DEFINE item == accepted[Len(delivered) + 1]
<1>1. ENC_ROUNDS \in Stages
  BY RoundsAssumption DEF Stages
<1>2. PICK l \in Lanes : aes[l][ENC_ROUNDS].dVal
  BY DEF OutValid
<1>3. /\ entered[ENC_ROUNDS] = Len(delivered) + 1
      /\ StageHolds(ENC_ROUNDS, accepted[entered[ENC_ROUNDS]])
  BY <1>1, <1>2 DEF OrderInv, PipesAligned
<1>4. Len(delivered) \in Nat /\ Len(accepted) \in Nat
  BY DEF OrderInv, TypeOK
<1>5. Len(delivered) < Len(accepted)
  <2>1. entered[ENC_ROUNDS] <= Len(accepted)
    BY RoundsAssumption DEF OrderInv, PipesAligned
  <2>2. QED
    BY <1>3, <1>4, <2>1
<1>6. item \in Item
  BY <1>4, <1>5 DEF OrderInv, TypeOK
<1>7. /\ dat[ENC_ROUNDS].data = item.data
      /\ \A n \in Lanes : /\ aes[n][ENC_ROUNDS].last = item.last
                          /\ aes[n][ENC_ROUNDS].keep = item.keep[n]
                          /\ aes[n][ENC_ROUNDS].blk = item.blk[n]
  <2>1. StageHolds(ENC_ROUNDS, item)
    BY <1>3
  <2>2. dat[ENC_ROUNDS].data = item.data
    BY <2>1 DEF StageHolds
  <2>3. ASSUME NEW n \in Lanes
        PROVE  /\ aes[n][ENC_ROUNDS].last = item.last
               /\ aes[n][ENC_ROUNDS].keep = item.keep[n]
               /\ aes[n][ENC_ROUNDS].blk = item.blk[n]
    <3> HIDE DEF item
    <3>1. aes[n][ENC_ROUNDS] = [dVal |-> TRUE, last |-> item.last,
                                keep |-> item.keep[n], blk |-> item.blk[n]]
      BY <2>1 DEF StageHolds
    <3>2. QED
      BY <3>1
  <2>4. QED
    BY <2>2, <2>3
<1>8. (\E n \in Lanes : aes[n][ENC_ROUNDS].last) = item.last
  BY <1>2, <1>6, <1>7 DEF Item
<1>9. [n \in Lanes |-> aes[n][ENC_ROUNDS].keep] = item.keep
  BY <1>6, <1>7 DEF Item
<1>10. [n \in Lanes |-> aes[n][ENC_ROUNDS].blk] = item.blk
  BY <1>6, <1>7 DEF Item
<1>11. OutItem = item
  BY <1>6, <1>7, <1>8, <1>9, <1>10 DEF OutItem, Item
<1>12. QED
  BY <1>5, <1>11

\* Only an append or a reset changes what was accepted.
LEMMA AcceptedGrows ==
    ASSUME TypeOK, NEW tready \in BOOLEAN, Clock(tready)
    PROVE  /\ Len(accepted') \in {Len(accepted), Len(accepted) + 1}
           /\ \A k \in 1 .. Len(accepted) : accepted'[k] = accepted[k]
<1>1. accepted \in Seq(Item) /\ Encrypted(src.beat, counter) \in Item
  BY EncryptedType DEF TypeOK
<1>2. CASE src.valid /\ tready
  BY <1>1, <1>2 DEF Clock, CounterAfter
<1>3. CASE ~(src.valid /\ tready)
  BY <1>1, <1>3 DEF Clock, CounterAfter
<1>4. QED
  BY <1>2, <1>3

\* What had entered stage i has entered the next one after an unstalled edge.
LEMMA EdgeMovesOn ==
    ASSUME Clock(TRUE), NEW i \in Stages
    PROVE  entered'[i + 1] = entered[i]
<1> DEFINE first == IF src.valid THEN entered[0] + 1 ELSE entered[0]
<1>1. /\ i \in Nat /\ i + 1 > 0 /\ i + 1 - 1 = i
      /\ i + 1 \in 0 .. ENC_ROUNDS + 1
  BY RoundsAssumption DEF Stages
<1>2. entered' = [j \in 0 .. ENC_ROUNDS + 1 |->
                    IF j > 0 THEN entered[j - 1] ELSE first]
  BY DEF Clock, CounterAfter
<1> HIDE DEF first
<1>3. QED
  BY <1>1, <1>2

\* An unstalled edge moves each stage's contents and its ghost count together.
LEMMA EdgeKeepsStages ==
    ASSUME OrderInv, Clock(TRUE), NEW i \in Stages
    PROVE  \/ /\ entered'[i] = entered'[i + 1]
              /\ \A l \in Lanes : ~aes'[l][i].dVal
           \/ /\ entered'[i] = entered'[i + 1] + 1
              /\ StageHolds(i, accepted[entered[i]])'
<1> USE RoundsAssumption DEF Stages
<1>1. TypeOK
  BY DEF OrderInv
<1>2. /\ i \in 0 .. ENC_ROUNDS + 1 /\ i + 1 \in 0 .. ENC_ROUNDS + 1 /\ i + 1 > 0
      /\ i + 1 - 1 = i
  OBVIOUS
<1>3. entered'[i + 1] = entered[i]
  BY EdgeMovesOn
<1>4. ASSUME NEW l \in Lanes
      PROVE  aes'[l][i] = PipeReg(aes[l][i], FALSE,
                                  IF i = 0 THEN LaneIn(l) ELSE aes[l][i - 1])
  BY DEF Clock, CounterAfter, ShiftLane
<1>5. dat'[i] = PipeReg(dat[i], FALSE, IF i = 0 THEN DataIn ELSE dat[i - 1])
  BY DEF Clock, CounterAfter, ShiftData
<1>6. CASE i = 0 /\ src.valid
  <2> DEFINE item == Encrypted(src.beat, counter)
  <2>1. entered'[0] = entered[0] + 1 /\ entered[0] = Len(accepted)
    BY <1>2, <1>6 DEF Clock, CounterAfter, OrderInv, PipesAligned
  <2>2. accepted'[entered'[0]] = item
    <3>1. accepted' = Append(accepted, item)
      BY <1>6 DEF Clock, CounterAfter
    <3>2. accepted \in Seq(Item) /\ item \in Item
      BY <1>1, EncryptedType DEF TypeOK
    <3>3. QED
      BY <2>1, <3>1, <3>2
  <2>3. dat'[i].dVal /\ dat'[i].data = item.data
    BY <1>5, <1>6 DEF PipeReg, DataIn, Encrypted
  <2>4. \A l \in Lanes :
          aes'[l][i] = [dVal |-> TRUE, last |-> item.last,
                        keep |-> item.keep[l], blk |-> item.blk[l]]
    <3>1. ASSUME NEW l \in Lanes
          PROVE  aes'[l][i] = LaneIn(l)
      BY <1>4, <1>6 DEF PipeReg, LaneIn
    <3>2. src.valid = TRUE
      BY <1>1, <1>6 DEF TypeOK
    <3>3. QED
      BY <3>1, <3>2 DEF LaneIn, Encrypted
  <2>5. QED
    BY <1>3, <1>6, <2>1, <2>2, <2>3, <2>4 DEF StageHolds
<1>7. CASE i = 0 /\ ~src.valid
  <2>1. entered'[0] = entered[0]
    BY <1>2, <1>7 DEF Clock, CounterAfter
  <2>2. \A l \in Lanes : ~aes'[l][i].dVal
    <3>1. ASSUME NEW l \in Lanes
          PROVE  aes'[l][i] = [aes[l][i] EXCEPT !.dVal = FALSE]
      BY <1>4, <1>7 DEF PipeReg, LaneIn
    <3>2. ASSUME NEW l \in Lanes
          PROVE  aes[l][i] \in LaneReg
      BY <1>1 DEF TypeOK
    <3>3. QED
      BY <3>1, <3>2 DEF LaneReg
  <2>3. QED
    BY <1>3, <1>7, <2>1, <2>2
<1>8. CASE i # 0
  <2>1. i - 1 \in Stages /\ i - 1 + 1 = i /\ i > 0
    BY <1>8
  <2>2. entered'[i] = entered[i - 1]
    BY <1>2, <2>1 DEF Clock, CounterAfter
  <2>3. CASE /\ entered[i - 1] = entered[i]
             /\ \A l \in Lanes : ~aes[l][i - 1].dVal
    <3>1. ASSUME NEW l \in Lanes
          PROVE  aes'[l][i] = [aes[l][i] EXCEPT !.dVal = FALSE]
      BY <1>4, <1>8, <2>3 DEF PipeReg
    <3>2. ASSUME NEW l \in Lanes
          PROVE  aes[l][i] \in LaneReg
      BY <1>1 DEF TypeOK
    <3>3. \A l \in Lanes : ~aes'[l][i].dVal
      BY <3>1, <3>2 DEF LaneReg
    <3>4. QED
      BY <1>3, <2>2, <2>3, <3>3
  <2>4. CASE /\ entered[i - 1] = entered[i] + 1
             /\ StageHolds(i - 1, accepted[entered[i - 1]])
    <3> DEFINE item == accepted[entered[i - 1]]
    <3>1. accepted'[entered'[i]] = item
      <4>1. entered[i - 1] <= Len(accepted) /\ entered[i] \in Nat
            /\ entered[i - 1] \in Nat
        BY <1>1, <1>2, <2>1 DEF OrderInv, PipesAligned, TypeOK
      <4>2. entered[i - 1] \in 1 .. Len(accepted)
        BY <1>1, <2>4, <4>1 DEF TypeOK
      <4>3. \A k \in 1 .. Len(accepted) : accepted'[k] = accepted[k]
        BY <1>1, AcceptedGrows
      <4>4. QED
        BY <2>2, <4>2, <4>3
    <3>4. StageHolds(i - 1, item)
      BY <2>4
    <3>2. dat'[i] = dat[i - 1]
      BY <1>5, <1>8, <2>4 DEF PipeReg, StageHolds
    <3>3. ASSUME NEW l \in Lanes
          PROVE  aes'[l][i] = aes[l][i - 1]
      <4> HIDE DEF item
      <4>1. aes[l][i - 1] = [dVal |-> TRUE, last |-> item.last,
                             keep |-> item.keep[l], blk |-> item.blk[l]]
        BY <3>4 DEF StageHolds
      <4>2. aes[l][i - 1].dVal
        BY <4>1
      <4>3. QED
        BY <1>4, <1>8, <4>2 DEF PipeReg
    <3>5. QED
      BY <1>3, <2>2, <2>4, <3>1, <3>2, <3>3, <3>4 DEF StageHolds
  <2>5. QED
    BY <2>1, <2>3, <2>4 DEF OrderInv, PipesAligned
<1>9. QED
  BY <1>1, <1>6, <1>7, <1>8 DEF TypeOK

LEMMA OrderNext == OrderInv /\ [Next]_vars => OrderInv'
<1> SUFFICES ASSUME OrderInv, [Next]_vars PROVE OrderInv'
  OBVIOUS
<1>1. TypeOK'
  BY TypeNext DEF OrderInv
<1>2. ASSUME NEW valid \in BOOLEAN, NEW beat \in Beats, Drive(valid, beat)
      PROVE  OrderInv'
  BY <1>1, <1>2 DEF OrderInv, PipesAligned, StageHolds, InOrder, Drive, hist
<1>3. CASE Clock(TRUE)
  <2>1. PipesAligned'
    <3>1. entered'[0] = Len(accepted')
      <4>1. accepted \in Seq(Item) /\ Encrypted(src.beat, counter) \in Item
        BY EncryptedType DEF OrderInv, TypeOK
      <4>2. entered[0] = Len(accepted) /\ 0 \in 0 .. ENC_ROUNDS + 1
        BY RoundsAssumption DEF OrderInv, PipesAligned
      <4>3. CASE src.valid
        BY <1>3, <4>1, <4>2, <4>3 DEF Clock, CounterAfter
      <4>4. CASE ~src.valid
        BY <1>3, <4>1, <4>2, <4>4 DEF Clock, CounterAfter
      <4>5. QED
        BY <4>3, <4>4
    <3>2. entered'[ENC_ROUNDS + 1] = Len(delivered')
      <4>1. /\ ENC_ROUNDS \in Stages
            /\ ENC_ROUNDS + 1 \in 0 .. ENC_ROUNDS + 1 /\ ENC_ROUNDS + 1 > 0
            /\ ENC_ROUNDS + 1 - 1 = ENC_ROUNDS
        BY RoundsAssumption DEF Stages
      <4>2. entered'[ENC_ROUNDS + 1] = entered[ENC_ROUNDS]
        BY <1>3, <4>1, EdgeMovesOn
      <4>3. CASE OutValid
        <5>1. entered[ENC_ROUNDS] = entered[ENC_ROUNDS + 1] + 1
          BY <4>1, <4>3 DEF OutValid, OrderInv, PipesAligned
        <5>2. delivered' = Append(delivered, OutItem)
          BY <1>3, <4>3 DEF Clock, CounterAfter
        <5>3. QED
          BY <4>2, <5>1, <5>2, OutItemType DEF OrderInv, PipesAligned, TypeOK
      <4>4. CASE ~OutValid
        <5>1. PICK l \in Lanes : TRUE
          BY NPARAssumption DEF Lanes
        <5>2. entered[ENC_ROUNDS] = entered[ENC_ROUNDS + 1]
          <6>1. ~aes[l][ENC_ROUNDS].dVal
            BY <4>4 DEF OutValid
          <6>2. ~StageHolds(ENC_ROUNDS, accepted[entered[ENC_ROUNDS]])
            <7> DEFINE item == accepted[entered[ENC_ROUNDS]]
            <7> SUFFICES ASSUME StageHolds(ENC_ROUNDS, item) PROVE FALSE
              OBVIOUS
            <7> HIDE DEF item
            <7>1. aes[l][ENC_ROUNDS] =
                    [dVal |-> TRUE, last |-> item.last,
                     keep |-> item.keep[l], blk |-> item.blk[l]]
              BY DEF StageHolds
            <7>2. QED
              BY <6>1, <7>1
          <6>3. QED
            BY <4>1, <6>2 DEF OrderInv, PipesAligned
        <5>3. delivered' = delivered
          BY <1>3, <4>4 DEF Clock, CounterAfter
        <5>4. QED
          BY <4>2, <5>2, <5>3 DEF OrderInv, PipesAligned
      <4>5. QED
        BY <4>3, <4>4
    <3>3. ASSUME NEW i \in 0 .. ENC_ROUNDS + 1
          PROVE  entered'[i] <= Len(accepted')
      <4>1. CASE i = 0
        BY <1>1, <3>1, <4>1 DEF TypeOK
      <4>2. CASE i # 0
        <5>1. entered'[i] = entered[i - 1] /\ i - 1 \in 0 .. ENC_ROUNDS + 1
          BY <1>3, <4>2, RoundsAssumption DEF Clock, CounterAfter
        <5>2. entered[i - 1] <= Len(accepted) /\ entered[i - 1] \in Nat
          BY <5>1 DEF OrderInv, PipesAligned, TypeOK
        <5>3. Len(accepted') \in {Len(accepted), Len(accepted) + 1}
          BY <1>3, AcceptedGrows DEF OrderInv
        <5>4. Len(accepted) \in Nat
          BY DEF OrderInv, TypeOK
        <5>5. QED
          BY <5>1, <5>2, <5>3, <5>4
      <4>3. QED
        BY <4>1, <4>2
    <3>4. ASSUME NEW i \in Stages
          PROVE  \/ /\ entered'[i] = entered'[i + 1]
                    /\ \A l \in Lanes : ~aes'[l][i].dVal
                 \/ /\ entered'[i] = entered'[i + 1] + 1
                    /\ StageHolds(i, accepted[entered[i]])'
      BY <1>3, EdgeKeepsStages
    <3>5. QED
      BY <3>1, <3>2, <3>3, <3>4 DEF PipesAligned
  <2>2. InOrder'
    <3>1. /\ Len(accepted') \in {Len(accepted), Len(accepted) + 1}
          /\ \A k \in 1 .. Len(accepted) : accepted'[k] = accepted[k]
      BY <1>3, AcceptedGrows DEF OrderInv
    <3>2. accepted \in Seq(Item) /\ delivered \in Seq(Item) /\ OutItem \in Item
      BY OutItemType DEF OrderInv, TypeOK
    <3>3. CASE OutValid
      <4>1. delivered' = Append(delivered, OutItem)
        BY <1>3, <3>3 DEF Clock, CounterAfter
      <4>2. Len(delivered) < Len(accepted) /\ OutItem = accepted[Len(delivered) + 1]
        BY <3>3, OutIsNext
      <4>3. Len(delivered') = Len(delivered) + 1
        BY <3>2, <4>1
      <4>4. ASSUME NEW k \in 1 .. Len(delivered')
            PROVE  delivered'[k] = accepted'[k]
        <5>1. CASE k \in 1 .. Len(delivered)
          <6>1. delivered'[k] = delivered[k]
            BY <3>2, <4>1, <5>1
          <6>2. delivered[k] = accepted[k]
            BY <5>1 DEF OrderInv, InOrder
          <6>3. k \in 1 .. Len(accepted)
            BY <3>2, <4>2, <5>1
          <6>4. QED
            BY <3>1, <6>1, <6>2, <6>3
        <5>2. CASE k = Len(delivered) + 1
          <6>1. delivered'[k] = OutItem
            BY <3>2, <4>1, <5>2
          <6>2. k \in 1 .. Len(accepted)
            BY <3>2, <4>2, <5>2
          <6>3. QED
            BY <3>1, <4>2, <5>2, <6>1, <6>2
        <5>3. QED
          BY <3>2, <4>3, <5>1, <5>2
      <4>5. Len(delivered') <= Len(accepted')
        BY <3>1, <3>2, <4>2, <4>3
      <4>6. QED
        BY <4>4, <4>5 DEF InOrder
    <3>4. CASE ~OutValid
      <4>1. delivered' = delivered
        BY <1>3, <3>4 DEF Clock, CounterAfter
      <4>2. QED
        BY <3>1, <3>2, <4>1 DEF OrderInv, InOrder
    <3>5. QED
      BY <3>3, <3>4
  <2>3. QED
    BY <1>1, <2>1, <2>2 DEF OrderInv
<1>4. CASE Clock(FALSE)
  <2>1. \A l \in Lanes : \A i \in Stages : aes'[l][i] = aes[l][i]
    BY <1>4 DEF Clock, CounterAfter, ShiftLane, PipeReg
  <2>2. \A i \in Stages : dat'[i] = dat[i]
    BY <1>4 DEF Clock, CounterAfter, ShiftData, PipeReg
  <2>3. UNCHANGED hist
    BY <1>4 DEF Clock, CounterAfter, hist
  <2>4. ASSUME NEW i \in Stages, NEW item
        PROVE  StageHolds(i, item) => StageHolds(i, item)'
    BY <2>1, <2>2 DEF StageHolds
  <2>5. PipesAligned'
    BY <2>1, <2>3, <2>4 DEF OrderInv, PipesAligned, hist
  <2>6. InOrder'
    BY <2>3 DEF OrderInv, InOrder, hist
  <2>7. QED
    BY <1>1, <2>5, <2>6 DEF OrderInv
<1>5. CASE Reset
  <2>1. (Cleared => PipesAligned /\ InOrder)'
    BY ClearedAligned, PTL
  <2>2. Cleared'
    BY <1>5 DEF Reset, Cleared, ClearedLanes
  <2>3. QED
    BY <1>1, <2>1, <2>2 DEF OrderInv
<1>6. CASE UNCHANGED vars
  BY <1>6, <1>1 DEF OrderInv, PipesAligned, StageHolds, InOrder, vars, hist
<1>7. QED
  BY <1>2, <1>3, <1>4, <1>5, <1>6 DEF Next

\* Payload, byte enables, last and counters of every delivered beat are those
\* of one accepted beat, in order, for every depth and number of lanes.
THEOREM BeatsInOrder == Spec => []InOrder
<1>1. OrderInv => InOrder
  BY DEF OrderInv
<1>2. QED
  BY OrderInit, OrderNext, <1>1, PTL DEF Spec

\* Every stage of every pipeline holds its part of one and the same beat, or a
\* bubble in all lanes, for every depth, number of lanes and pattern of stalls:
\* nothing in the code compares what meets behind the last stage (aes_top).
THEOREM BeatsAligned == Spec => []PipesAligned
<1>1. OrderInv => PipesAligned
  BY DEF OrderInv
<1>2. QED
  BY OrderInit, OrderNext, <1>1, PTL DEF Spec

-----------------------------------------------------------------------------
\* A beat on the output wires stays there until it is taken or the core is
\* reset, whatever the other stages hold.
LEMMA HeldNext ==
    ASSUME OutValid, [Next]_vars
    PROVE  \/ OutValid' /\ OutItem' = OutItem
           \/ delivered' = Append(delivered, OutItem)
           \/ accepted' = <<>>
<1>1. ENC_ROUNDS \in Stages
  BY RoundsAssumption DEF Stages
<1>2. ASSUME \A l \in Lanes : aes'[l][ENC_ROUNDS] = aes[l][ENC_ROUNDS],
             dat'[ENC_ROUNDS] = dat[ENC_ROUNDS]
      PROVE  OutValid' /\ OutItem' = OutItem
  BY <1>2 DEF OutValid, OutItem
<1>3. CASE \E valid \in BOOLEAN, beat \in Beats : Drive(valid, beat)
  BY <1>2, <1>3 DEF Drive
<1>4. CASE Clock(TRUE)
  BY <1>4 DEF Clock, CounterAfter
<1>5. CASE Clock(FALSE)
  <2>1. \A l \in Lanes : aes'[l][ENC_ROUNDS] = aes[l][ENC_ROUNDS]
    BY <1>1, <1>5 DEF Clock, CounterAfter, ShiftLane, PipeReg
  <2>2. dat'[ENC_ROUNDS] = dat[ENC_ROUNDS]
    BY <1>1, <1>5 DEF Clock, CounterAfter, ShiftData, PipeReg
  <2>3. QED
    BY <1>2, <2>1, <2>2
<1>6. CASE Reset
  BY <1>6 DEF Reset
<1>7. CASE UNCHANGED vars
  BY <1>2, <1>7 DEF vars
<1>8. QED
  BY <1>3, <1>4, <1>5, <1>6, <1>7 DEF Next

\* The core keeps the AXI-stream rule towards its sink: what it has shown, it
\* shows until the handshake.
THEOREM OutputHeld == Spec => HeldUntilTaken
<1>1. [Next]_vars => [OutValid => \/ OutValid' /\ OutItem' = OutItem
                                  \/ delivered' = Append(delivered, OutItem)
                                  \/ accepted' = <<>>]_vars
  BY HeldNext
<1>2. QED
  BY <1>1, PTL DEF Spec, HeldUntilTaken

-----------------------------------------------------------------------------
\* A step that accepts a beat continues the chain of counters.
LEMMA CountersAccept ==
    ASSUME TypeOK, CountersFollowPackets, src.valid, Clock(TRUE)
    PROVE  CountersFollowPackets'
<1> DEFINE n == Len(accepted)
           item == Encrypted(src.beat, counter)
<1>1. /\ accepted \in Seq(Item) /\ n = Len(accepted) /\ n \in Nat
      /\ counter \in Counters /\ src.beat \in Beats
  BY DEF TypeOK
<1>2. item \in Item
  BY <1>1, EncryptedType
<1>3. accepted' = Append(accepted, item) /\ counter' = NextCounter(counter, src.beat)
  BY DEF Clock, CounterAfter
<1>4. item.blk[0] = counter /\ item.last = src.beat.last
  BY <1>1, FirstBlock DEF Encrypted
<1> HIDE DEF item, n
<1>5. Len(accepted') = n + 1 /\ accepted'[n + 1] = item
  BY <1>1, <1>2, <1>3
<1>6. \A k \in 1 .. n : accepted'[k] = accepted[k]
  BY <1>1, <1>2, <1>3
<1>7. \A k \in 1 .. n : BaseCounter'[k] = BaseCounter[k]
  BY <1>1, <1>5, <1>6 DEF BaseCounter
<1>8. BaseCounter'[n + 1] = counter
  BY <1>1, <1>4, <1>5 DEF BaseCounter
<1>9. BaseCounter'[n + 2] = NextCounter(counter, item)
  BY <1>1, <1>3, <1>4, <1>5 DEF BaseCounter, NextCounter
<1>10. BaseCounter[n + 1] = counter
  BY <1>1 DEF BaseCounter
<1>11. BaseCounter'[1] = 0
  <2>1. BaseCounter[1] = 0
    BY DEF CountersFollowPackets
  <2>2. CASE n = 0
    BY <1>8, <1>10, <2>1, <2>2
  <2>3. CASE n # 0
    BY <1>1, <1>7, <2>1, <2>3
  <2>4. QED
    BY <2>2, <2>3
<1>12. ASSUME NEW k \in 1 .. n + 1
       PROVE  BaseCounter'[k + 1] = NextCounter(BaseCounter'[k], accepted'[k])
  <2>1. CASE k \in 1 .. n
    <3>1. BaseCounter[k + 1] = NextCounter(BaseCounter[k], accepted[k])
      BY <1>1, <2>1 DEF CountersFollowPackets
    <3>2. BaseCounter'[k] = BaseCounter[k] /\ accepted'[k] = accepted[k]
      BY <1>6, <1>7, <2>1
    <3>3. BaseCounter'[k + 1] = BaseCounter[k + 1]
      <4>1. CASE k = n
        BY <1>8, <1>10, <4>1
      <4>2. CASE k # n
        BY <1>1, <1>7, <2>1, <4>2
      <4>3. QED
        BY <4>1, <4>2
    <3>4. QED
      BY <3>1, <3>2, <3>3 DEF NextCounter
  <2>2. CASE k = n + 1
    <3>1. k + 1 = n + 2
      BY <1>1, <2>2
    <3>2. QED
      BY <1>5, <1>8, <1>9, <2>2, <3>1 DEF NextCounter
  <2>3. QED
    BY <1>1, <2>1, <2>2
<1>13. QED
  BY <1>5, <1>11, <1>12 DEF CountersFollowPackets

LEMMA CountersInit == Init => CountersFollowPackets
  BY DEF Init, CountersFollowPackets, BaseCounter

LEMMA CountersNext ==
    TypeOK /\ CountersFollowPackets /\ [Next]_vars => CountersFollowPackets'
<1> SUFFICES ASSUME TypeOK, CountersFollowPackets, [Next]_vars
             PROVE  CountersFollowPackets'
  OBVIOUS
<1>1. ASSUME UNCHANGED <<accepted, counter>>
      PROVE  CountersFollowPackets'
  BY <1>1 DEF CountersFollowPackets, BaseCounter
<1>2. CASE \E valid \in BOOLEAN, beat \in Beats : Drive(valid, beat)
  BY <1>1, <1>2 DEF Drive, hist
<1>3. ASSUME NEW tready \in BOOLEAN, Clock(tready)
      PROVE  CountersFollowPackets'
  <2>1. CASE src.valid /\ tready
    <3>1. tready = TRUE
      BY <2>1
    <3>2. QED
      BY <1>3, <2>1, <3>1, CountersAccept
  <2>2. CASE ~(src.valid /\ tready)
    BY <1>1, <1>3, <2>2 DEF Clock, CounterAfter
  <2>3. QED
    BY <2>1, <2>2
<1>4. CASE Reset
  BY <1>4 DEF Reset, CountersFollowPackets, BaseCounter
<1>5. CASE UNCHANGED vars
  BY <1>1, <1>5 DEF vars, hist
<1>6. QED
  BY <1>2, <1>3, <1>4, <1>5 DEF Next

\* The counters of a packet are determined by the number of packets before
\* it, so a core that sees the same packet ends computes the same counters.
THEOREM CountersDetermined == Spec => []CountersFollowPackets
<1>1. CountersFollowPackets /\ TypeOK /\ [Next]_vars => CountersFollowPackets'
  BY CountersNext
<1>2. QED
  BY CountersInit, <1>1, TypeCorrect, PTL DEF Spec

-----------------------------------------------------------------------------
\* The counters of a core follow from the packet ends before each beat alone.
\* BlocksApart compares any two beats, so it needs where a counter stands
\* counted from the reset, not from its neighbour.
LEMMA ChainNext ==
    TypeOK /\ Chain(accepted, counter) /\ [Next]_vars => Chain(accepted, counter)'
<1> SUFFICES ASSUME TypeOK, Chain(accepted, counter), [Next]_vars
             PROVE  Chain(accepted', counter')
  BY DEF Chain, Ends, CounterAt, CounterInput
<1>1. ASSUME UNCHANGED <<accepted, counter>>
      PROVE  Chain(accepted', counter')
  BY <1>1
<1>2. CASE \E valid \in BOOLEAN, beat \in Beats : Drive(valid, beat)
  BY <1>1, <1>2 DEF Drive, hist
<1>3. ASSUME NEW tready \in BOOLEAN, Clock(tready)
      PROVE  Chain(accepted', counter')
  <2>1. CASE src.valid /\ tready
    <3>1. /\ accepted' = Append(accepted, Encrypted(src.beat, counter))
          /\ counter' = NextCounter(counter, src.beat)
      BY <1>3, <2>1 DEF Clock, CounterAfter
    <3>2. /\ accepted \in Seq(Item) /\ counter \in Counters /\ src.beat \in Beats
      BY DEF TypeOK
    <3>3. Encrypted(src.beat, counter) \in Item /\ src.beat.last \in BOOLEAN
      BY <3>2, EncryptedType, BeatsAssumption DEF Beat
    <3>4. Chain(Append(accepted, Encrypted(src.beat, counter)),
                NextCounter(counter, src.beat))
      BY <3>2, <3>3, ChainGrows
    <3>5. QED
      BY <3>1, <3>4
  <2>2. CASE ~(src.valid /\ tready)
    BY <1>1, <1>3, <2>2 DEF Clock, CounterAfter
  <2>3. QED
    BY <2>1, <2>2
<1>4. CASE Reset
  BY <1>4, ChainOfNone DEF Reset
<1>5. CASE UNCHANGED vars
  BY <1>1, <1>5 DEF vars, hist
<1>6. QED
  BY <1>2, <1>3, <1>4, <1>5 DEF Next

\* The packets that end between two beats are the difference of those that end
\* before each.
LEMMA EndsBetween ==
    ASSUME NEW k \in Nat, NEW m \in Nat, k <= m
    PROVE  Cardinality(PacketsBefore(m) \ PacketsBefore(k))
             = Ends(accepted, m) - Ends(accepted, k)
<1>1. PacketsBefore(k) \subseteq PacketsBefore(m)
  BY DEF PacketsBefore
<1>2. IsFiniteSet(PacketsBefore(m)) /\ IsFiniteSet(PacketsBefore(k))
  BY EndsType DEF PacketsBefore
<1>3. Cardinality(PacketsBefore(m) \ PacketsBefore(k))
        = Cardinality(PacketsBefore(m))
            - Cardinality(PacketsBefore(m) \cap PacketsBefore(k))
  BY <1>2, FS_Difference
<1>4. PacketsBefore(m) \cap PacketsBefore(k) = PacketsBefore(k)
  BY <1>1
<1>5. QED
  BY <1>3, <1>4 DEF PacketsBefore, Ends

\* Fewer packet ends than a turn of the counter holds keep all blocks apart:
\* the lanes of one beat may not reach into the next either.
LEMMA LanesApart ==
    ASSUME NEW x \in Nat, NEW y \in Nat, y - x \in 1 .. CtrMod \div NPAR - 1,
           NEW l \in Lanes, NEW n \in Lanes
    PROVE  CounterInput(CounterAt(x))[l] # CounterInput(CounterAt(y))[n]
<1> DEFINE M == CtrMod
<1> DEFINE q == M \div NPAR
<1> DEFINE d == y - x
<1>1. NPAR * x \in Int /\ NPAR * y \in Int /\ NPAR * y - NPAR * x = NPAR * d
  BY NPARAssumption
<1>2. \A v, w \in Int : ((v % M) + w) % M = (v + w) % M
  BY CtrModAssumption, ModAdd
<1>3. l \in Int /\ n \in Int /\ l \in 0 .. NPAR - 1 /\ n \in 0 .. NPAR - 1
  BY NPARAssumption DEF Lanes
<1>4. /\ CounterInput(CounterAt(x))[l] = (NPAR * x + l) % M
      /\ CounterInput(CounterAt(y))[n] = (NPAR * y + n) % M
  <2>1. /\ (((NPAR * x) % M) + l) % M = (NPAR * x + l) % M
        /\ (((NPAR * y) % M) + n) % M = (NPAR * y + n) % M
    BY <1>1, <1>2, <1>3
  <2>2. QED
    BY <2>1 DEF CounterInput, CounterAt
<1> DEFINE s == (NPAR * y + n) - (NPAR * x + l)
<1>5. s = NPAR * d + (n - l)
  BY <1>1, <1>3
<1>6. NPAR * q <= M
  <2>1. M = NPAR * q + (M % NPAR) /\ q \in Int /\ M % NPAR \in 0 .. NPAR - 1
    BY CtrModAssumption, NPARAssumption, DivMod
  <2>2. QED
    BY <2>1, NPARAssumption
<1>7. q \in Int
  BY CtrModAssumption, NPARAssumption, DivMod
<1> HIDE DEF q
<1>8. d \in Int /\ d >= 1 /\ q - d >= 1
  BY <1>7 DEF q
<1> HIDE DEF d
<1>9. NPAR * d >= NPAR /\ NPAR * (q - d) >= NPAR
  BY <1>7, <1>8, NPARAssumption, MulBound
<1>10. NPAR * (q - d) = NPAR * q - NPAR * d
  BY <1>7, <1>8, NPARAssumption
<1>11. NPAR * d \in Int /\ NPAR * q \in Int
  BY <1>7, <1>8, NPARAssumption
<1>12. s \in 1 .. M - 1
  BY <1>3, <1>5, <1>6, <1>9, <1>10, <1>11, CtrModAssumption, NPARAssumption
<1> HIDE DEF s
<1>13. s % M = s
  BY <1>12, CtrModAssumption
<1>14. (NPAR * y + n) % M = (NPAR * x + l) % M <=> s % M = 0
  <2>1. NPAR * y + n \in Int /\ NPAR * x + l \in Int
    BY <1>1, <1>3
  <2>2. QED
    BY <2>1, CtrModAssumption, ModEqual DEF s
<1>15. QED
  BY <1>4, <1>12, <1>13, <1>14

\* No two packets less than a full turn of the counter apart share a block of
\* key stream, for any number of lanes, whether or not it divides the number of
\* counters, and wherever the counter wraps (vfpga_top).
THEOREM PacketsApart == Spec => []BlocksApart
<1>1. Init => Chain(accepted, counter)
  BY ChainOfNone DEF Init
<1>2. TypeOK /\ Chain(accepted, counter) => BlocksApart
  <2> SUFFICES ASSUME TypeOK, Chain(accepted, counter),
                      NEW k \in 1 .. Len(accepted), NEW m \in 1 .. Len(accepted),
                      Cardinality(PacketsBefore(m) \ PacketsBefore(k))
                        \in 1 .. CtrMod \div NPAR - 1,
                      NEW l \in Lanes, NEW n \in Lanes
               PROVE  accepted[k].blk[l] # accepted[m].blk[n]
    BY DEF BlocksApart
  <2>1. k \in Nat /\ m \in Nat
    BY DEF TypeOK
  <2>2. k <= m
    <3> SUFFICES ASSUME m < k PROVE FALSE
      BY <2>1
    <3>1. PacketsBefore(m) \ PacketsBefore(k) = {}
      BY <2>1 DEF PacketsBefore
    <3>2. QED
      BY <3>1, FS_EmptySet
  <2>3. Ends(accepted, m) - Ends(accepted, k) \in 1 .. CtrMod \div NPAR - 1
    BY <2>1, <2>2, EndsBetween
  <2>4. Ends(accepted, m) \in Nat /\ Ends(accepted, k) \in Nat
    BY <2>1, EndsType
  <2>5. /\ accepted[k].blk = CounterInput(CounterAt(Ends(accepted, k)))
        /\ accepted[m].blk = CounterInput(CounterAt(Ends(accepted, m)))
    BY DEF Chain
  <2>6. QED
    BY <2>3, <2>4, <2>5, LanesApart
<1>3. QED
  BY <1>1, <1>2, ChainNext, TypeCorrect, PTL DEF Spec

-----------------------------------------------------------------------------
\* Every step of the registers is a step of the stream, or none.
LEMMA StreamStep == OrderInv /\ [Next]_vars => [Stream!Next]_(Stream!vars)
<1> SUFFICES ASSUME OrderInv, [Next]_vars
             PROVE  Stream!Next \/ UNCHANGED <<counter, accepted, delivered>>
  BY DEF Stream!vars
<1>1. CASE \E valid \in BOOLEAN, beat \in Beats : Drive(valid, beat)
  BY <1>1 DEF Drive, hist
<1>2. CASE Clock(FALSE)
  BY <1>2 DEF Clock, CounterAfter
<1>3. CASE Clock(TRUE)
  <2>1. src.valid => /\ src.beat \in Beats
                     /\ accepted' = Append(accepted, Encrypted(src.beat, counter))
                     /\ counter' = NextCounter(counter, src.beat)
    BY <1>3 DEF Clock, CounterAfter, OrderInv, TypeOK
  <2>2. ~src.valid => UNCHANGED <<counter, accepted>>
    BY <1>3 DEF Clock, CounterAfter
  <2>3. OutValid => /\ Len(delivered) < Len(accepted)
                    /\ delivered' = Append(delivered, accepted[Len(delivered) + 1])
    BY <1>3, OutIsNext DEF Clock, CounterAfter
  <2>4. ~OutValid => UNCHANGED delivered
    BY <1>3 DEF Clock, CounterAfter
  <2>5. src.valid => \E beat \in Beats : Stream!Accept(beat)
    BY <2>1 DEF Stream!Accept, Stream!Encrypted, Stream!NextCounter,
       Stream!CounterInput, Stream!Lanes, Encrypted, NextCounter, CounterInput, Lanes
  <2>6. OutValid => Stream!Deliver
    BY <2>3 DEF Stream!Deliver
  <2>7. QED
    BY <2>2, <2>4, <2>5, <2>6
       DEF Stream!Next, Stream!AcceptOnly, Stream!DeliverOnly, Stream!Both
<1>4. CASE Reset
  BY <1>4 DEF Reset, Stream!Next, Stream!Reset
<1>5. CASE UNCHANGED vars
  BY <1>5 DEF vars, hist
<1>6. QED
  BY <1>1, <1>2, <1>3, <1>4, <1>5 DEF Next

\* The pipelines of registers implement the stream of whole beats: the
\* promise a neighbour of the core may rely on.  (Its fairness is left to the
\* model checker.)
THEOREM CoreImplementsStream == Spec => Stream!Spec
<1>1. Init => Stream!Init
  BY DEF Init, Stream!Init
<1>2. QED
  BY OrderInit, OrderNext, StreamStep, <1>1, PTL DEF Spec, Stream!Spec
=============================================================================
