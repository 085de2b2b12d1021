------------------------ MODULE MlPreprocessingProofs -----------------------
(***************************************************************************)
(* What the host gets from the ML preprocessing kernel, for every depth of *)
(* its FIFOs and pipelines, every width of words and number of lanes.      *)
(***************************************************************************)
EXTENDS MlPreprocessing, TLAPS

\* What has become of a beat by the time it is in place p.
Progress(p, beat) ==
    IF p <= 2 THEN beat
    ELSE IF p <= 4 THEN Dense_NegsToZero(beat)
    ELSE IF p <= 6 THEN Dense_Log(Dense_NegsToZero(beat))
    ELSE Preprocessed(beat)

\* The dataflow of this code has three functions that change a beat.
LEMMA ThreeFunctions ==
    ASSUME NEW beat
    PROVE  Preprocessed(beat) = Dense_Log(Dense_Log(Dense_NegsToZero(beat)))
  BY DEF Preprocessed, ReadBy

\* before[p] beats of accepted have left place p, and before[0] have entered.
\* The places hold the others, in the order in which they were accepted.
InPlace(before) ==
    /\ before \in [0 .. 9 -> Nat]
    /\ before[0] = Len(accepted)
    /\ before[9] = Len(stored)
    /\ \A p \in Places : before[p - 1] = before[p] + Len(held[p])
    /\ \A p \in Places : \A i \in 1 .. Len(held[p]) :
           held[p][i] = Progress(p, accepted[before[p] + i])

StoredInOrder ==
    /\ Len(stored) <= Len(accepted)
    /\ \A k \in 1 .. Len(stored) : stored[k] = Preprocessed(accepted[k])

KernelInv ==
    /\ TypeOK
    /\ \E before \in [0 .. 9 -> Nat] : InPlace(before)
    /\ StoredInOrder

-----------------------------------------------------------------------------
LEMMA WordTypes ==
    ASSUME NEW word \in Words
    PROVE  Clamp(word) \in Words /\ Log(word) \in Words
<1>1. MaxInt \in Nat /\ MaxInt > 0
  BY WordsAssumption
<1>2. Clamp(word) \in Words
  BY <1>1 DEF Clamp, Words, MinInt
<1>3. CASE AddOne(word) > 0
  <2>1. AddOne(word) \in 1 .. MaxInt
    BY <1>1, <1>3 DEF AddOne, Words, MinInt
  <2>2. LogBits[AddOne(word)] \in 0 .. MaxInt - 1
    BY <2>1, LogAssumption
  <2>3. QED
    BY <1>1, <1>2, <1>3, <2>2 DEF Log, Words, MinInt
<1>4. CASE ~(AddOne(word) > 0)
  BY <1>2, <1>4, WordsAssumption DEF Log
<1>5. QED
  BY <1>3, <1>4

LEMMA BeatTypes ==
    ASSUME NEW beat \in Beat
    PROVE  Dense_NegsToZero(beat) \in Beat /\ Dense_Log(beat) \in Beat
<1>1. beat.data \in [Lanes -> Words]
  BY DEF Beat
<1>2. [l \in Lanes |-> Clamp(beat.data[l])] \in [Lanes -> Words]
  BY <1>1, WordTypes
<1>3. [l \in Lanes |-> Log(beat.data[l])] \in [Lanes -> Words]
  BY <1>1, WordTypes
<1>4. QED
  BY <1>2, <1>3 DEF Beat, Dense_NegsToZero, Dense_Log

LEMMA ReadByType ==
    ASSUME NEW p \in Places, NEW beat \in Beat
    PROVE  ReadBy(p, beat) \in Beat
  BY BeatTypes DEF ReadBy, Places

\* Reading a beat into the next place is the next step of its progress.
LEMMA ReadByProgress ==
    ASSUME NEW p \in 1 .. 8, NEW beat
    PROVE  ReadBy(p + 1, Progress(p, beat)) = Progress(p + 1, beat)
<1>1. CASE p = 2
  BY <1>1 DEF ReadBy, Progress
<1>2. CASE p = 4
  BY <1>2 DEF ReadBy, Progress
<1>3. CASE p = 6
  BY <1>3, ThreeFunctions DEF ReadBy, Progress
<1>4. CASE p \in {1, 3, 5, 7, 8}
  <2>1. ReadBy(p + 1, Progress(p, beat)) = Progress(p, beat)
    BY <1>4 DEF ReadBy
  <2>2. Progress(p, beat) = Progress(p + 1, beat)
    BY <1>4 DEF Progress
  <2>3. QED
    BY <2>1, <2>2
<1>5. QED
  BY <1>1, <1>2, <1>3, <1>4

\* The clamped word and both logarithms keep the order of words.
LEMMA WordsKeepOrder ==
    ASSUME NEW v \in Words, NEW w \in Words, v <= w, w < MaxInt
    PROVE  Log(Log(Clamp(v))) <= Log(Log(Clamp(w)))
<1>1. MaxInt \in Nat /\ MaxInt > 0
  BY WordsAssumption
<1>2. /\ Clamp(v) \in 0 .. MaxInt - 1 /\ Clamp(w) \in 0 .. MaxInt - 1
      /\ Clamp(v) <= Clamp(w)
  BY <1>1 DEF Clamp, Words, MinInt
<1>3. ASSUME NEW x \in 0 .. MaxInt - 1, NEW y \in 0 .. MaxInt - 1, x <= y
      PROVE  /\ Log(x) \in 0 .. MaxInt - 1 /\ Log(y) \in 0 .. MaxInt - 1
             /\ Log(x) <= Log(y)
  <2>1. AddOne(x) = x + 1 /\ AddOne(y) = y + 1
    BY <1>1, <1>3 DEF AddOne
  <2>2. x + 1 \in 1 .. MaxInt /\ y + 1 \in 1 .. MaxInt /\ x + 1 <= y + 1
    BY <1>1, <1>3
  <2>3. Log(x) = LogBits[x + 1] /\ Log(y) = LogBits[y + 1]
    BY <2>1, <2>2 DEF Log
  <2>4. QED
    BY <2>2, <2>3, LogAssumption
<1>4. /\ Log(Clamp(v)) \in 0 .. MaxInt - 1 /\ Log(Clamp(w)) \in 0 .. MaxInt - 1
      /\ Log(Clamp(v)) <= Log(Clamp(w))
  BY <1>2, <1>3
<1>5. QED
  BY <1>3, <1>4

LEMMA PreprocessedLane ==
    ASSUME NEW beat \in Beat, NEW l \in Lanes
    PROVE  Preprocessed(beat).data[l] = Log(Log(Clamp(beat.data[l])))
<1>1. Dense_NegsToZero(beat).data = [m \in Lanes |-> Clamp(beat.data[m])]
  BY DEF Dense_NegsToZero, Beat
<1>2. Dense_Log(Dense_NegsToZero(beat)).data
        = [m \in Lanes |-> Log(Dense_NegsToZero(beat).data[m])]
  BY BeatTypes DEF Dense_Log, Beat
<1>3. Dense_NegsToZero(beat) \in Beat
  BY BeatTypes
<1>4. Dense_Log(Dense_NegsToZero(beat)) \in Beat
  BY <1>3, BeatTypes
<1>5. Preprocessed(beat).data
        = [m \in Lanes |-> Log(Dense_Log(Dense_NegsToZero(beat)).data[m])]
  BY <1>4, ThreeFunctions DEF Dense_Log, Beat
<1>6. QED
  BY <1>1, <1>2, <1>5

-----------------------------------------------------------------------------
LEMMA KernelInit == Init => KernelInv
<1> SUFFICES ASSUME Init PROVE KernelInv
  OBVIOUS
<1>1. TypeOK
  BY DepthAssumption DEF Init, TypeOK, Capacity, Places
<1>2. InPlace([p \in 0 .. 9 |-> 0])
  BY DEF Init, InPlace, Places
<1>3. [p \in 0 .. 9 |-> 0] \in [0 .. 9 -> Nat]
  OBVIOUS
<1>4. StoredInOrder
  BY DEF Init, StoredInOrder
<1>5. QED
  BY <1>1, <1>2, <1>3, <1>4 DEF KernelInv

LEMMA PlaceTypes ==
    ASSUME NEW p \in Places
    PROVE  p \in Int /\ p \in 0 .. 9 /\ p - 1 \in 0 .. 9 /\ p # 0
  BY DEF Places

\* What InPlace says of a place.
LEMMA PlaceFacts ==
    ASSUME TypeOK, NEW before, InPlace(before), NEW p \in Places
    PROVE  /\ before[p] \in Nat /\ before[p - 1] \in Nat /\ Len(held[p]) \in Nat
           /\ before[p - 1] = before[p] + Len(held[p])
<1>1. before[p - 1] = before[p] + Len(held[p])
  BY DEF InPlace
<1>2. before[p] \in Nat /\ before[p - 1] \in Nat
  BY PlaceTypes DEF InPlace
<1>3. Len(held[p]) \in Nat
  BY DEF TypeOK
<1>4. QED
  BY <1>1, <1>2, <1>3

\* The places hold no more than what has been accepted and not stored.
LEMMA Bounds ==
    ASSUME TypeOK, NEW before, InPlace(before)
    PROVE  /\ Len(accepted) \in Nat /\ Len(stored) \in Nat
           /\ \A p \in Places : Len(held[p]) \in Nat /\ held[p] \in Seq(Beat)
           /\ \A p \in 0 .. 9 : before[p] \in Nat /\ before[p] <= Len(accepted)
<1>1. /\ Len(accepted) \in Nat /\ Len(stored) \in Nat
      /\ \A p \in Places : Len(held[p]) \in Nat /\ held[p] \in Seq(Beat)
  BY DEF TypeOK
<1>2. \A p \in 0 .. 9 : before[p] \in Nat
  BY DEF InPlace
<1>3. ASSUME NEW p \in 1 .. 9 PROVE before[p] <= before[p - 1]
  <2>1. before[p - 1] = before[p] + Len(held[p])
    BY DEF InPlace, Places
  <2>2. Len(held[p]) \in Nat
    BY <1>1 DEF Places
  <2>3. before[p] \in Nat
    BY <1>2
  <2>4. QED
    BY <2>1, <2>2, <2>3
<1>4. /\ before[1] <= before[0] /\ before[2] <= before[1] /\ before[3] <= before[2]
      /\ before[4] <= before[3] /\ before[5] <= before[4] /\ before[6] <= before[5]
      /\ before[7] <= before[6] /\ before[8] <= before[7] /\ before[9] <= before[8]
  BY <1>3
<1>5. /\ before[0] \in Nat /\ before[1] \in Nat /\ before[2] \in Nat
      /\ before[3] \in Nat /\ before[4] \in Nat /\ before[5] \in Nat
      /\ before[6] \in Nat /\ before[7] \in Nat /\ before[8] \in Nat /\ before[9] \in Nat
  BY <1>2
<1>6. /\ before[1] <= before[0] /\ before[2] <= before[0] /\ before[3] <= before[0]
      /\ before[4] <= before[0] /\ before[5] <= before[0] /\ before[6] <= before[0]
      /\ before[7] <= before[0] /\ before[8] <= before[0] /\ before[9] <= before[0]
  BY <1>4, <1>5
<1>7. ASSUME NEW p \in 0 .. 9 PROVE before[p] <= before[0]
  <2>1. p \in {0, 1, 2, 3, 4, 5, 6, 7, 8, 9}
    OBVIOUS
  <2>2. QED
    BY <1>5, <1>6, <2>1
<1>8. QED
  BY <1>1, <1>2, <1>7 DEF InPlace

LEMMA LoadDataStep ==
    ASSUME KernelInv, LoadData
    PROVE  KernelInv'
<1>1. PICK beat \in Beats :
        /\ accepted' = Append(accepted, beat)
        /\ held' = [held EXCEPT ![1] = Append(@, beat)]
        /\ stored' = stored
  BY DEF LoadData
<1>2. PICK before : before \in [0 .. 9 -> Nat] /\ InPlace(before)
  BY DEF KernelInv
<1>0. PICK n : n = Len(accepted)
  OBVIOUS
<1> DEFINE after == [before EXCEPT ![0] = n + 1]
<1>3. /\ n \in Nat /\ Len(stored) \in Nat
      /\ \A p \in Places : Len(held[p]) \in Nat /\ held[p] \in Seq(Beat)
      /\ \A p \in 0 .. 9 : before[p] \in Nat /\ before[p] <= n
  BY <1>0, <1>2, Bounds DEF KernelInv
<1>4. beat \in Beat /\ accepted \in Seq(Beat) /\ held \in [Places -> Seq(Beat)]
  BY FeatureBeatsAssumption DEF KernelInv, TypeOK
<1>5. /\ accepted' \in Seq(Beat) /\ Len(accepted') = n + 1 /\ accepted'[n + 1] = beat
      /\ \A k \in 1 .. n : accepted'[k] = accepted[k]
  BY <1>0, <1>1, <1>4
<1>6. /\ held' \in [Places -> Seq(Beat)]
      /\ Len(held'[1]) = Len(held[1]) + 1
      /\ held'[1][Len(held[1]) + 1] = beat
      /\ \A i \in 1 .. Len(held[1]) : held'[1][i] = held[1][i]
      /\ \A p \in Places \ {1} : held'[p] = held[p]
  <2>1. 1 \in Places
    BY DEF Places
  <2>2. held[1] \in Seq(Beat) /\ Append(held[1], beat) \in Seq(Beat)
    BY <1>4, <2>1
  <2>3. /\ held' \in [Places -> Seq(Beat)]
        /\ held'[1] = Append(held[1], beat)
        /\ \A p \in Places \ {1} : held'[p] = held[p]
    BY <1>1, <1>4, <2>1, <2>2
  <2>4. QED
    BY <1>4, <2>2, <2>3
<1>7. TypeOK'
  <2>1. ASSUME NEW p \in Places PROVE Len(held'[p]) <= Capacity(p)
    <3>1. Capacity(p) \in Nat /\ Len(held[p]) <= Capacity(p)
      BY DepthAssumption DEF KernelInv, TypeOK, Capacity
    <3>2. CASE p = 1
      BY <1>3, <1>6, <3>1, <3>2 DEF LoadData
    <3>3. CASE p # 1
      BY <1>6, <3>1, <3>3
    <3>4. QED
      BY <3>2, <3>3
  <2>2. QED
    BY <1>1, <1>5, <1>6, <2>1 DEF KernelInv, TypeOK
<1>8. InPlace(after)'
  <2>0. n + 1 \in Nat
    BY <1>3
  <2>1. /\ after \in [0 .. 9 -> Nat] /\ after[0] = n + 1
        /\ \A p \in 0 .. 9 : p # 0 => after[p] = before[p]
    BY <1>2, <2>0
  <2> HIDE DEF after
  <2>2. after[0] = Len(accepted') /\ after[9] = Len(stored')
    BY <1>1, <1>2, <1>5, <2>1 DEF InPlace
  <2>3. ASSUME NEW p \in Places
        PROVE  after[p - 1] = after[p] + Len(held'[p])
    <3>0. p \in Int /\ p \in 0 .. 9 /\ p - 1 \in 0 .. 9 /\ p # 0
      BY PlaceTypes
    <3>1. /\ before[p] \in Nat /\ before[p - 1] \in Nat /\ Len(held[p]) \in Nat
          /\ before[p - 1] = before[p] + Len(held[p])
      BY <1>2, PlaceFacts DEF KernelInv
    <3>2. CASE p = 1
      <4>1. before[0] = n
        BY <1>0, <1>2 DEF InPlace
      <4>2. after[p] = before[p] /\ p - 1 = 0
        BY <2>1, <3>0, <3>2
      <4>3. Len(held'[p]) = Len(held[p]) + 1
        BY <1>6, <3>2
      <4>4. after[p - 1] = n + 1 /\ n = before[p] + Len(held[p])
        BY <2>1, <3>1, <4>1, <4>2
      <4>5. QED
        BY <3>1, <4>2, <4>3, <4>4
    <3>3. CASE p # 1
      <4>1. p - 1 # 0 /\ held'[p] = held[p]
        BY <1>6, <3>0, <3>3
      <4>2. QED
        BY <2>1, <3>0, <3>1, <4>1
    <3>4. QED
      BY <3>2, <3>3
  <2>4. ASSUME NEW p \in Places, NEW i \in 1 .. Len(held'[p])
        PROVE  held'[p][i] = Progress(p, accepted'[after[p] + i])
    <3>0. p \in 0 .. 9 /\ p # 0 /\ p - 1 \in 0 .. 9
      BY DEF Places
    <3>1. /\ after[p] = before[p] /\ before[p] \in Nat /\ Len(held[p]) \in Nat
          /\ before[p - 1] = before[p] + Len(held[p]) /\ before[p - 1] <= n
      <4>1. before[p] \in Nat /\ Len(held[p]) \in Nat /\ before[p - 1] = before[p] + Len(held[p])
        BY <1>2, PlaceFacts DEF KernelInv
      <4>2. QED
        BY <1>3, <2>1, <3>0, <4>1
    <3>2. CASE p = 1 /\ i = Len(held[1]) + 1
      <4>1. before[0] = n
        BY <1>0, <1>2 DEF InPlace
      <4>2. n = before[p] + Len(held[p])
        BY <3>1, <3>2, <4>1
      <4>5. after[p] + i = n + 1
        BY <3>1, <3>2, <4>2
      <4>3. accepted'[after[p] + i] = beat /\ held'[p][i] = beat
        BY <1>5, <1>6, <3>2, <4>5
      <4>4. QED
        BY <3>2, <4>3 DEF Progress
    <3>3. CASE ~(p = 1 /\ i = Len(held[1]) + 1)
      <4>1. i \in 1 .. Len(held[p]) /\ held'[p][i] = held[p][i]
        <5>1. CASE p = 1
          BY <1>6, <2>4, <3>1, <3>3, <5>1
        <5>2. CASE p # 1
          BY <1>6, <2>4, <5>2
        <5>3. QED
          BY <5>1, <5>2
      <4>2. before[p] + i \in 1 .. n
        <5>1. i \in Nat /\ 1 <= i /\ i <= Len(held[p])
          BY <3>1, <4>1
        <5>2. n \in Nat /\ before[p] + Len(held[p]) <= n
          BY <1>3, <3>1
        <5>3. QED
          BY <3>1, <5>1, <5>2
      <4>3. held[p][i] = Progress(p, accepted[before[p] + i])
        BY <1>2, <4>1 DEF InPlace
      <4>4. QED
        BY <1>5, <3>1, <4>1, <4>2, <4>3
    <3>4. QED
      BY <3>2, <3>3
  <2>5. QED
    BY <2>1, <2>2, <2>3, <2>4 DEF InPlace
<1>9. after \in [0 .. 9 -> Nat]
  <2>1. n + 1 \in Nat
    BY <1>3
  <2>2. QED
    BY <1>2, <2>1
<1>10. StoredInOrder'
  <2>1. /\ Len(stored) <= n
        /\ \A k \in 1 .. Len(stored) : stored[k] = Preprocessed(accepted[k])
    BY <1>0 DEF KernelInv, StoredInOrder
  <2>2. \A k \in 1 .. Len(stored) : accepted'[k] = accepted[k]
    BY <1>3, <1>5, <2>1
  <2>3. Len(stored) <= n + 1
    BY <1>3, <2>1
  <2>4. QED
    BY <1>1, <1>5, <2>1, <2>2, <2>3 DEF StoredInOrder
<1>11. QED
  BY <1>7, <1>8, <1>9, <1>10 DEF KernelInv

LEMMA MoveStep ==
    ASSUME KernelInv, NEW q \in 1 .. 8, Move(q)
    PROVE  KernelInv'
<1> DEFINE head == Head(held[q])
<1>1. /\ held[q] # <<>> /\ Len(held[q + 1]) < Capacity(q + 1)
      /\ held' = [held EXCEPT ![q] = Tail(@), ![q + 1] = Append(@, ReadBy(q + 1, head))]
      /\ accepted' = accepted /\ stored' = stored
  BY DEF Move
<1>2. PICK before : before \in [0 .. 9 -> Nat] /\ InPlace(before)
  BY DEF KernelInv
<1> DEFINE after == [before EXCEPT ![q] = @ + 1]
<1>3. /\ Len(accepted) \in Nat /\ Len(stored) \in Nat
      /\ \A p \in Places : Len(held[p]) \in Nat /\ held[p] \in Seq(Beat)
      /\ \A p \in 0 .. 9 : before[p] \in Nat /\ before[p] <= Len(accepted)
  BY <1>2, Bounds DEF KernelInv
<1>4. /\ q \in Places /\ q + 1 \in Places /\ q \in 0 .. 9 /\ q # q + 1
      /\ held \in [Places -> Seq(Beat)] /\ Len(held[q]) > 0
  <2>1. q \in Places /\ q + 1 \in Places /\ q \in 0 .. 9 /\ q # q + 1
    BY DEF Places
  <2>2. held \in [Places -> Seq(Beat)]
    BY DEF KernelInv, TypeOK
  <2>3. held[q] \in Seq(Beat) /\ held[q] # <<>>
    BY <1>1, <2>1, <2>2
  <2>4. Len(held[q]) > 0
    BY <2>3
  <2>5. QED
    BY <2>1, <2>2, <2>4
<1>5. head \in Beat /\ ReadBy(q + 1, head) \in Beat /\ head = held[q][1]
  BY <1>3, <1>4, <1>1, ReadByType
<1>6. head = Progress(q, accepted[before[q] + 1])
  <2>1. 1 \in 1 .. Len(held[q])
    BY <1>3, <1>4
  <2>2. QED
    BY <1>2, <1>4, <1>5, <2>1 DEF InPlace
<1> DEFINE next == ReadBy(q + 1, head)
<1>7. next = Progress(q + 1, accepted[before[q] + 1])
  BY <1>6, ReadByProgress
<1> HIDE DEF next, head
<1>8. /\ held' \in [Places -> Seq(Beat)]
      /\ held'[q] = Tail(held[q]) /\ held'[q + 1] = Append(held[q + 1], next)
      /\ \A p \in Places : p # q /\ p # q + 1 => held'[p] = held[p]
  <2>1. Tail(held[q]) \in Seq(Beat) /\ Append(held[q + 1], next) \in Seq(Beat)
    BY <1>1, <1>3, <1>4, <1>5 DEF next
  <2>2. held' = [held EXCEPT ![q] = Tail(@), ![q + 1] = Append(@, next)]
    BY <1>1 DEF next
  <2>3. QED
    BY <1>4, <2>1, <2>2
<1>9. /\ Len(held'[q]) = Len(held[q]) - 1
      /\ \A i \in 1 .. Len(held[q]) - 1 : held'[q][i] = held[q][i + 1]
  BY <1>3, <1>4, <1>8, <1>1
<1>10. /\ Len(held'[q + 1]) = Len(held[q + 1]) + 1
       /\ held'[q + 1][Len(held[q + 1]) + 1] = next
       /\ \A i \in 1 .. Len(held[q + 1]) : held'[q + 1][i] = held[q + 1][i]
  BY <1>3, <1>4, <1>8, <1>5 DEF next
<1>11. TypeOK'
  <2>1. ASSUME NEW p \in Places PROVE Len(held'[p]) <= Capacity(p)
    <3>1. Capacity(p) \in Nat /\ Len(held[p]) <= Capacity(p)
      BY DepthAssumption DEF KernelInv, TypeOK, Capacity
    <3>2. CASE p = q
      BY <1>3, <1>4, <1>9, <3>1, <3>2
    <3>3. CASE p = q + 1
      BY <1>1, <1>3, <1>4, <1>10, <3>1, <3>3
    <3>4. CASE p # q /\ p # q + 1
      BY <1>8, <3>1, <3>4
    <3>5. QED
      BY <3>2, <3>3, <3>4
  <2>2. QED
    BY <1>1, <1>8, <2>1 DEF KernelInv, TypeOK
<1>12. after \in [0 .. 9 -> Nat]
  <2>1. before[q] \in Nat
    BY <1>3, <1>4
  <2>3. before[q] + 1 \in Nat
    BY <2>1
  <2>4. QED
    BY <1>2, <2>3
<1>13. InPlace(after)'
  <2>1. /\ after[q] = before[q] + 1
        /\ \A p \in 0 .. 9 : p # q => after[p] = before[p]
    BY <1>2, <1>4
  <2> HIDE DEF after
  <2>2. after[0] = Len(accepted') /\ after[9] = Len(stored')
    <3>1. q # 0 /\ q # 9 /\ 0 \in 0 .. 9 /\ 9 \in 0 .. 9
      OBVIOUS
    <3>2. QED
      BY <1>1, <1>2, <2>1, <3>1 DEF InPlace
  <2>3. ASSUME NEW p \in Places
        PROVE  after[p - 1] = after[p] + Len(held'[p])
    <3>a. p \in 0 .. 9 /\ p - 1 \in 0 .. 9 /\ p \in Int
      BY DEF Places
    <3>0. /\ before[p - 1] = before[p] + Len(held[p])
          /\ before[p] \in Nat /\ before[p - 1] \in Nat /\ Len(held[p]) \in Nat
          /\ p \in 0 .. 9 /\ p - 1 \in 0 .. 9 /\ p \in Int
      BY <1>2, <3>a, PlaceFacts DEF KernelInv
    <3>1. CASE p = q
      <4>1. after[p - 1] = before[p - 1] /\ after[p] = before[p] + 1
        <5>1. p - 1 # q
          BY <3>0, <3>1
        <5>2. QED
          BY <2>1, <3>0, <3>1, <5>1
      <4>2. Len(held'[p]) = Len(held[p]) - 1
        BY <1>9, <3>1
      <4>3. (before[p] + 1) + (Len(held[p]) - 1) = before[p] + Len(held[p])
        BY <3>0
      <4>4. QED
        BY <3>0, <4>1, <4>2, <4>3
    <3>2. CASE p = q + 1
      <4>1. after[p - 1] = before[p - 1] + 1 /\ after[p] = before[p]
        <5>1. p - 1 = q /\ p # q
          BY <3>0, <3>2
        <5>2. QED
          BY <2>1, <3>0, <5>1
      <4>2. QED
        BY <1>10, <3>0, <3>2, <4>1
    <3>3. CASE p # q /\ p # q + 1
      <4>1. after[p - 1] = before[p - 1] /\ after[p] = before[p]
        <5>1. p - 1 # q
          BY <3>0, <3>3
        <5>2. QED
          BY <2>1, <3>0, <3>3, <5>1
      <4>2. QED
        BY <1>8, <3>0, <3>3, <4>1
    <3>4. QED
      BY <3>1, <3>2, <3>3
  <2>4. ASSUME NEW p \in Places, NEW i \in 1 .. Len(held'[p])
        PROVE  held'[p][i] = Progress(p, accepted'[after[p] + i])
    <3>a. p \in 0 .. 9 /\ p \in Int
      BY DEF Places
    <3>0. /\ p \in 0 .. 9 /\ p \in Int /\ before[p] \in Nat /\ Len(held[p]) \in Nat
          /\ i \in Nat
      <4>1. i \in Nat
        BY <2>4
      <4>2. before[p] \in Nat /\ Len(held[p]) \in Nat
        BY <1>2, PlaceFacts DEF KernelInv
      <4>3. QED
        BY <3>a, <4>1, <4>2
    <3>1. CASE p = q
      <4>1. i \in 1 .. Len(held[q]) - 1 /\ i + 1 \in 1 .. Len(held[q])
        BY <1>9, <2>4, <3>0, <3>1
      <4>2. held'[p][i] = Progress(p, accepted[before[p] + (i + 1)])
        BY <1>2, <1>9, <3>1, <4>1 DEF InPlace
      <4>3. before[p] + (i + 1) = after[p] + i
        <5>1. after[p] = before[p] + 1
          BY <2>1, <3>1
        <5>2. QED
          BY <3>0, <5>1
      <4>4. QED
        BY <1>1, <4>2, <4>3
    <3>2. CASE p = q + 1 /\ i = Len(held[p]) + 1
      <4>1. before[q] = before[p] + Len(held[p])
        <5>1. p - 1 = q
          BY <3>0, <3>2
        <5>2. QED
          BY <1>2, <5>1 DEF InPlace
      <4>2. after[p] + i = before[q] + 1
        <5>1. after[p] = before[p]
          BY <2>1, <3>0, <3>2
        <5>2. QED
          BY <3>0, <3>2, <4>1, <5>1
      <4>3. QED
        BY <1>1, <1>7, <1>10, <3>2, <4>2
    <3>3. CASE p # q /\ ~(p = q + 1 /\ i = Len(held[p]) + 1)
      <4>1. i \in 1 .. Len(held[p]) /\ held'[p][i] = held[p][i]
        <5>1. CASE p = q + 1
          BY <1>10, <2>4, <3>0, <3>3, <5>1
        <5>2. CASE p # q + 1
          BY <1>8, <2>4, <3>3, <5>2
        <5>3. QED
          BY <5>1, <5>2
      <4>2. after[p] = before[p]
        BY <2>1, <3>0, <3>3
      <4>3. QED
        BY <1>1, <1>2, <4>1, <4>2 DEF InPlace
    <3>4. QED
      BY <3>1, <3>2, <3>3
  <2>5. QED
    BY <1>12, <2>2, <2>3, <2>4 DEF InPlace, after
<1>14. StoredInOrder'
  BY <1>1 DEF KernelInv, StoredInOrder
<1>15. QED
  BY <1>11, <1>12, <1>13, <1>14 DEF KernelInv

\* The beat that StoreData writes is the oldest one that has not been stored.
LEMMA StoredNext ==
    ASSUME KernelInv, StoreData
    PROVE  /\ Len(stored) < Len(accepted)
           /\ Head(held[9]) = Preprocessed(accepted[Len(stored) + 1])
<1>1. PICK before : before \in [0 .. 9 -> Nat] /\ InPlace(before)
  BY DEF KernelInv
<1>2. 9 \in Places /\ 9 - 1 \in 0 .. 9
  BY DEF Places
<1>3. /\ before[9] \in Nat /\ before[9 - 1] \in Nat /\ Len(held[9]) \in Nat
      /\ before[9 - 1] = before[9] + Len(held[9])
  BY <1>1, <1>2, PlaceFacts DEF KernelInv
<1>4. before[9] = Len(stored) /\ before[9 - 1] <= Len(accepted)
  <2>1. before[9] = Len(stored)
    BY <1>1 DEF InPlace
  <2>2. \A p \in 0 .. 9 : before[p] <= Len(accepted)
    BY <1>1, Bounds DEF KernelInv
  <2>3. QED
    BY <1>2, <2>1, <2>2
<1>5. held[9] \in Seq(Beat) /\ held[9] # <<>>
  BY <1>2 DEF KernelInv, TypeOK, StoreData
<1>6. Len(held[9]) > 0 /\ Head(held[9]) = held[9][1]
  BY <1>5
<1>7. Len(accepted) \in Nat
  BY DEF KernelInv, TypeOK
<1>8. Len(stored) < Len(accepted)
  BY <1>3, <1>4, <1>6, <1>7
<1>9. held[9][1] = Progress(9, accepted[before[9] + 1])
  <2>1. 1 \in 1 .. Len(held[9])
    BY <1>3, <1>6
  <2>2. QED
    BY <1>1, <1>2, <2>1 DEF InPlace
<1>10. QED
  BY <1>4, <1>6, <1>8, <1>9 DEF Progress

LEMMA StoreDataStep ==
    ASSUME KernelInv, StoreData
    PROVE  KernelInv'
<1>1. /\ held[9] # <<>> /\ accepted' = accepted
      /\ stored' = Append(stored, Head(held[9]))
      /\ held' = [held EXCEPT ![9] = Tail(@)]
  BY DEF StoreData
<1>2. PICK before : before \in [0 .. 9 -> Nat] /\ InPlace(before)
  BY DEF KernelInv
<1> DEFINE after == [before EXCEPT ![9] = before[9] + 1]
<1>3. /\ held \in [Places -> Seq(Beat)] /\ stored \in Seq(Beat)
      /\ accepted \in Seq(Beat) /\ 9 \in Places
  BY DEF KernelInv, TypeOK, Places
<1>4. held[9] \in Seq(Beat) /\ Head(held[9]) \in Beat /\ Tail(held[9]) \in Seq(Beat)
  BY <1>1, <1>3
<1>5. /\ held' \in [Places -> Seq(Beat)]
      /\ held'[9] = Tail(held[9])
      /\ \A p \in Places : p # 9 => held'[p] = held[p]
  BY <1>1, <1>3, <1>4
<1>6. /\ Len(held'[9]) = Len(held[9]) - 1
      /\ \A i \in 1 .. Len(held[9]) - 1 : held'[9][i] = held[9][i + 1]
  BY <1>1, <1>4, <1>5
<1>7. /\ stored' \in Seq(Beat) /\ Len(stored') = Len(stored) + 1
      /\ stored'[Len(stored) + 1] = Head(held[9])
      /\ \A k \in 1 .. Len(stored) : stored'[k] = stored[k]
  BY <1>1, <1>3, <1>4
<1>8. TypeOK'
  <2>1. ASSUME NEW p \in Places PROVE Len(held'[p]) <= Capacity(p)
    <3>1. Capacity(p) \in Nat /\ Len(held[p]) <= Capacity(p) /\ Len(held[p]) \in Nat
      BY <1>3, DepthAssumption DEF KernelInv, TypeOK, Capacity
    <3>2. CASE p = 9
      BY <1>6, <3>1, <3>2
    <3>3. CASE p # 9
      BY <1>5, <3>1, <3>3
    <3>4. QED
      BY <3>2, <3>3
  <2>2. QED
    BY <1>1, <1>3, <1>5, <1>7, <2>1 DEF TypeOK
<1>9. /\ after \in [0 .. 9 -> Nat] /\ after[9] = before[9] + 1
      /\ \A p \in 0 .. 9 : p # 9 => after[p] = before[p]
  <2>1. 9 \in 0 .. 9 /\ before[9] \in Nat
    BY <1>2
  <2>2. before[9] + 1 \in Nat
    BY <2>1
  <2>3. QED
    BY <1>2, <2>1, <2>2
<1> HIDE DEF after
<1>10. InPlace(after)'
  <2>1. after[0] = Len(accepted') /\ after[9] = Len(stored')
    <3>1. 0 \in 0 .. 9 /\ before[0] = Len(accepted) /\ before[9] = Len(stored)
      BY <1>2 DEF InPlace
    <3>2. after[0] = before[0]
      <4>1. 0 \in 0 .. 9 /\ 0 # 9
        OBVIOUS
      <4>2. QED
        BY <1>9, <4>1
    <3>3. QED
      BY <1>1, <1>7, <1>9, <3>1, <3>2
  <2>2. ASSUME NEW p \in Places
        PROVE  after[p - 1] = after[p] + Len(held'[p])
    <3>0. p \in Int /\ p \in 0 .. 9 /\ p - 1 \in 0 .. 9 /\ p - 1 # 9
      BY DEF Places
    <3>1. /\ before[p] \in Nat /\ before[p - 1] \in Nat /\ Len(held[p]) \in Nat
          /\ before[p - 1] = before[p] + Len(held[p])
      BY <1>2, PlaceFacts DEF KernelInv
    <3>2. after[p - 1] = before[p - 1]
      BY <1>9, <3>0
    <3>3. CASE p = 9
      <4>1. after[p] = before[p] + 1 /\ Len(held'[p]) = Len(held[p]) - 1
        BY <1>6, <1>9, <3>3
      <4>2. (before[p] + 1) + (Len(held[p]) - 1) = before[p] + Len(held[p])
        BY <3>1
      <4>3. QED
        BY <3>1, <3>2, <4>1, <4>2
    <3>4. CASE p # 9
      BY <1>5, <1>9, <3>0, <3>1, <3>2, <3>4
    <3>5. QED
      BY <3>3, <3>4
  <2>3. ASSUME NEW p \in Places, NEW i \in 1 .. Len(held'[p])
        PROVE  held'[p][i] = Progress(p, accepted'[after[p] + i])
    <3>0. p \in 0 .. 9
      BY DEF Places
    <3>1. before[p] \in Nat /\ Len(held[p]) \in Nat
      BY <1>2, PlaceFacts DEF KernelInv
    <3>2. CASE p = 9
      <4>1. i \in 1 .. Len(held[9]) - 1 /\ i + 1 \in 1 .. Len(held[9]) /\ i \in Nat
        BY <1>6, <2>3, <3>1, <3>2
      <4>2. held'[p][i] = Progress(p, accepted[before[p] + (i + 1)])
        BY <1>2, <1>6, <3>2, <4>1 DEF InPlace
      <4>3. before[p] + (i + 1) = after[p] + i
        <5>1. after[p] = before[p] + 1
          BY <1>9, <3>2
        <5>2. QED
          BY <3>1, <4>1, <5>1
      <4>4. QED
        BY <1>1, <4>2, <4>3
    <3>3. CASE p # 9
      <4>1. held'[p] = held[p] /\ after[p] = before[p]
        BY <1>5, <1>9, <3>0, <3>3
      <4>2. i \in 1 .. Len(held[p])
        BY <2>3, <4>1
      <4>3. QED
        BY <1>1, <1>2, <4>1, <4>2 DEF InPlace
    <3>4. QED
      BY <3>2, <3>3
  <2>4. QED
    BY <1>9, <2>1, <2>2, <2>3 DEF InPlace
<1>11. StoredInOrder'
  <2>1. /\ Len(stored) \in Nat /\ Len(accepted) \in Nat /\ Len(stored) < Len(accepted)
        /\ Head(held[9]) = Preprocessed(accepted[Len(stored) + 1])
    BY <1>3, StoredNext
  <2>2. Len(stored') <= Len(accepted')
    BY <1>1, <1>7, <2>1
  <2>3. ASSUME NEW k \in 1 .. Len(stored')
        PROVE  stored'[k] = Preprocessed(accepted'[k])
    <3>1. CASE k = Len(stored) + 1
      BY <1>1, <1>7, <2>1, <3>1
    <3>2. CASE k # Len(stored) + 1
      <4>1. k \in 1 .. Len(stored)
        BY <1>7, <2>1, <3>2
      <4>2. QED
        BY <1>1, <1>7, <4>1 DEF KernelInv, StoredInOrder
    <3>3. QED
      BY <3>1, <3>2
  <2>4. QED
    BY <2>2, <2>3 DEF StoredInOrder
<1>12. QED
  BY <1>8, <1>9, <1>10, <1>11 DEF KernelInv

LEMMA KernelNext == KernelInv /\ [Next]_vars => KernelInv'
<1> SUFFICES ASSUME KernelInv, [Next]_vars
             PROVE  KernelInv'
  OBVIOUS
<1>1. CASE LoadData
  BY <1>1, LoadDataStep
<1>2. CASE \E q \in 1 .. 8 : Move(q)
  BY <1>2, MoveStep
<1>3. CASE StoreData
  BY <1>3, StoreDataStep
<1>4. CASE UNCHANGED vars
  BY <1>4 DEF vars, KernelInv, TypeOK, InPlace, StoredInOrder
<1>5. QED
  BY <1>1, <1>2, <1>3, <1>4 DEF Next

LEMMA KernelInvariant == Spec => []KernelInv
  BY KernelInit, KernelNext, PTL DEF Spec

-----------------------------------------------------------------------------
\* Whatever the depths, the host never sees two features in the wrong order
\* that the network brought in the right one (ml_preprocessing.hpp).
THEOREM FeaturesOrdered == Spec => []FeaturesKeepOrder
<1>1. KernelInv => FeaturesKeepOrder
  <2> SUFFICES ASSUME KernelInv,
                      NEW j \in 1 .. Len(stored), NEW k \in 1 .. Len(stored),
                      NEW l \in Lanes, NEW m \in Lanes,
                      accepted[j].data[l] <= accepted[k].data[m],
                      accepted[k].data[m] < MaxInt
               PROVE  stored[j].data[l] <= stored[k].data[m]
    BY DEF FeaturesKeepOrder
  <2>1. /\ stored[j] = Preprocessed(accepted[j]) /\ stored[k] = Preprocessed(accepted[k])
        /\ Len(stored) <= Len(accepted)
    BY DEF KernelInv, StoredInOrder
  <2>0. accepted \in Seq(Beat) /\ stored \in Seq(Beat)
    BY DEF KernelInv, TypeOK
  <2>2. accepted \in Seq(Beat) /\ Len(accepted) \in Nat /\ Len(stored) \in Nat
    BY <2>0
  <2>3. j \in 1 .. Len(accepted) /\ k \in 1 .. Len(accepted)
    BY <2>1, <2>2
  <2>4. accepted[j] \in Beat /\ accepted[k] \in Beat
    BY <2>2, <2>3
  <2>5. accepted[j].data[l] \in Words /\ accepted[k].data[m] \in Words
    BY <2>4 DEF Beat
  <2>6. /\ stored[j].data[l] = Log(Log(Clamp(accepted[j].data[l])))
        /\ stored[k].data[m] = Log(Log(Clamp(accepted[k].data[m])))
    BY <2>1, <2>4, PreprocessedLane
  <2>7. QED
    BY <2>5, <2>6, WordsKeepOrder
<1>2. QED
  BY <1>1, KernelInvariant, PTL

\* For every depth of its FIFOs and pipelines the kernel is the stream: nothing
\* is lost, doubled, overtaken or passed through a function twice
\* (ml_preprocessing.cpp).
THEOREM KernelImplementsStream == Spec => Stream!Spec
<1>1. Init => Stream!Init
  BY DEF Init, Stream!Init
<1>2. KernelInv /\ [Next]_vars => [Stream!Next]_(Stream!vars)
  <2> SUFFICES ASSUME KernelInv, [Next]_vars
               PROVE  [Stream!Next]_(Stream!vars)
    OBVIOUS
  <2>1. CASE LoadData
    BY <2>1 DEF LoadData, Stream!Next, Stream!Accept
  <2>2. CASE \E q \in 1 .. 8 : Move(q)
    BY <2>2 DEF Move, Stream!vars
  <2>3. CASE StoreData
    BY <2>3, StoredNext DEF StoreData, Stream!Next, Stream!Deliver
  <2>4. CASE UNCHANGED vars
    BY <2>4 DEF vars, Stream!vars
  <2>5. QED
    BY <2>1, <2>2, <2>3, <2>4 DEF Next
<1>3. QED
  BY <1>1, <1>2, KernelInvariant, PTL DEF Spec, Stream!Spec
=============================================================================
