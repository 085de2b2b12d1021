--------------------------- MODULE CtrBeatsProofs ---------------------------
(***************************************************************************)
(* Lemmas about counters and encrypted beats, for any width of either, and *)
(* about the remainder of a sum, for a modulus that need not be a literal: *)
(* what counters that wrap need of arithmetic.                             *)
(***************************************************************************)
EXTENDS CtrBeats, FiniteSetTheorems, TLAPS

\* The blocks formed from a counter are counters.
LEMMA CounterInputType ==
    ASSUME NEW c \in Counters
    PROVE  CounterInput(c) \in [Lanes -> Counters]
<1>1. \A l \in Lanes : (c + l) % CtrMod \in 0 .. CtrMod - 1
  BY CtrModAssumption, NPARAssumption DEF Lanes, Counters
<1>2. QED
  BY <1>1 DEF CounterInput, Counters

\* The register holds a counter after any beat.
LEMMA NextCounterType ==
    ASSUME NEW c \in Counters, NEW beat
    PROVE  NextCounter(c, beat) \in Counters
<1>1. (c + NPAR) % CtrMod \in 0 .. CtrMod - 1
  BY CtrModAssumption, NPARAssumption DEF Counters
<1>2. QED
  BY <1>1 DEF NextCounter, Counters

\* An accepted beat becomes an encrypted beat.
LEMMA EncryptedType ==
    ASSUME NEW c \in Counters, NEW beat \in Beats
    PROVE  Encrypted(beat, c) \in Item
<1>1. beat \in Beat
  BY BeatsAssumption
<1>2. QED
  BY <1>1, CounterInputType DEF Encrypted, Item, Beat

\* The first lane's block is the counter itself.
LEMMA FirstBlock ==
    ASSUME NEW c \in Counters
    PROVE  CounterInput(c)[0] = c
<1>1. 0 \in Lanes
  BY NPARAssumption DEF Lanes
<1>2. (c + 0) % CtrMod = c
  BY CtrModAssumption DEF Counters
<1>3. QED
  BY <1>1, <1>2 DEF CounterInput

-----------------------------------------------------------------------------
\* Quotient and remainder, as the provers know them.
LEMMA DivMod ==
    ASSUME NEW a \in Int, NEW m \in Nat \ {0}
    PROVE  a = m * (a \div m) + (a % m) /\ a \div m \in Int /\ a % m \in 0 .. m - 1
  OBVIOUS

\* A product with a positive factor is not smaller than the other.
LEMMA MulBound ==
    ASSUME NEW m \in Nat \ {0}, NEW d \in Int, d >= 1
    PROVE  m * d >= m
  OBVIOUS

\* The remainder is unique.
LEMMA Remainder ==
    ASSUME NEW m \in Nat \ {0}, NEW k \in Int, NEW s \in 0 .. m - 1
    PROVE  (m * k + s) % m = s
<1> DEFINE a == m * k + s
<1> DEFINE q == a \div m
<1> DEFINE r == a % m
<1>1. a \in Int /\ m * k \in Int
  OBVIOUS
<1>2. a = m * q + r /\ q \in Int /\ r \in 0 .. m - 1
  BY <1>1, DivMod
<1> HIDE DEF q, r
<1>3. m * (k - q) = r - s
  BY <1>1, <1>2
<1>4. k - q < 1
  <2> SUFFICES ASSUME k - q >= 1 PROVE FALSE
    BY <1>2
  <2>1. m * (k - q) >= m
    BY <1>2, MulBound
  <2>2. QED
    BY <2>1, <1>2, <1>3
<1>5. q - k < 1
  <2> SUFFICES ASSUME q - k >= 1 PROVE FALSE
    BY <1>2
  <2>1. m * (q - k) >= m
    BY <1>2, MulBound
  <2>2. m * (q - k) = s - r
    BY <1>1, <1>2
  <2>3. QED
    BY <2>1, <1>2, <2>2
<1>6. k = q
  BY <1>2, <1>4, <1>5
<1>7. r = s
  BY <1>1, <1>2, <1>6
<1>8. QED
  BY <1>7 DEF r

\* The remainder may be taken before or after adding.
LEMMA ModAdd ==
    ASSUME NEW x \in Int, NEW n \in Int, NEW m \in Nat \ {0}
    PROVE  ((x % m) + n) % m = (x + n) % m
<1> DEFINE q == x \div m
<1> DEFINE r == x % m
<1>1. x = m * q + r /\ q \in Int /\ r \in 0 .. m - 1
  BY DivMod
<1> HIDE DEF q, r
<1> DEFINE p == (r + n) \div m
<1> DEFINE s == (r + n) % m
<1>2. r + n \in Int
  BY <1>1
<1>3. r + n = m * p + s /\ p \in Int /\ s \in 0 .. m - 1
  BY <1>2, DivMod
<1> HIDE DEF p, s
<1>4. x + n = m * (q + p) + s
  BY <1>1, <1>3
<1>5. (m * (q + p) + s) % m = s
  <2>1. q + p \in Int
    BY <1>1, <1>3
  <2>2. QED
    BY <1>3, <2>1, Remainder
<1>6. QED
  BY <1>4, <1>5 DEF s, r

\* Two numbers have the same remainder if their difference has none.
LEMMA ModEqual ==
    ASSUME NEW x \in Int, NEW y \in Int, NEW m \in Nat \ {0}
    PROVE  x % m = y % m <=> (x - y) % m = 0
<1> DEFINE p == x \div m
<1> DEFINE q == y \div m
<1> DEFINE r == x % m
<1> DEFINE s == y % m
<1>1. /\ x = m * p + r /\ p \in Int /\ r \in 0 .. m - 1
      /\ y = m * q + s /\ q \in Int /\ s \in 0 .. m - 1
  BY DivMod
<1> HIDE DEF p, q, r, s
<1>2. ASSUME r = s PROVE (x - y) % m = 0
  <2>1. x - y = m * (p - q) + 0 /\ p - q \in Int /\ 0 \in 0 .. m - 1
    BY <1>1, <1>2
  <2>2. (m * (p - q) + 0) % m = 0
    BY <2>1, Remainder
  <2>3. QED
    BY <2>1, <2>2
<1>3. ASSUME (x - y) % m = 0 PROVE r = s
  <2> DEFINE d == (x - y) \div m
  <2>1. x - y = m * d + 0 /\ d \in Int
    <3>1. x - y \in Int
      OBVIOUS
    <3>2. QED
      BY <1>3, <3>1, DivMod
  <2> HIDE DEF d
  <2>2. x = m * (q + d) + s /\ q + d \in Int
    BY <1>1, <2>1
  <2>3. (m * (q + d) + s) % m = s
    BY <1>1, <2>2, Remainder
  <2>4. QED
    BY <2>2, <2>3 DEF r
<1>4. QED
  BY <1>2, <1>3 DEF r, s

-----------------------------------------------------------------------------
\* A core that has accepted s since its reset and whose counter is c: both
\* follow from the packet ends.
Chain(s, c) ==
    /\ c = CounterAt(Ends(s, Len(s) + 1))
    /\ \A k \in 1 .. Len(s) : s[k].blk = CounterInput(CounterAt(Ends(s, k)))

\* A core has a counter after any number of packet ends.
LEMMA CounterAtType ==
    ASSUME NEW ends \in Nat
    PROVE  CounterAt(ends) \in Counters
<1>1. NPAR * ends \in Nat
  BY NPARAssumption
<1>2. (NPAR * ends) % CtrMod \in 0 .. CtrMod - 1
  BY <1>1, CtrModAssumption
<1>3. QED
  BY <1>2 DEF CounterAt, Counters

\* It begins with 0.
LEMMA CounterAtZero == CounterAt(0) = 0
<1>1. NPAR * 0 = 0 /\ 0 % CtrMod = 0
  BY NPARAssumption, CtrModAssumption
<1>2. QED
  BY <1>1 DEF CounterAt

\* Another packet end moves it on by the lanes of a beat.
LEMMA CounterAtNext ==
    ASSUME NEW ends \in Nat
    PROVE  CounterAt(ends + 1) = (CounterAt(ends) + NPAR) % CtrMod
<1>1. NPAR * ends \in Nat /\ NPAR * (ends + 1) = NPAR * ends + NPAR
  BY NPARAssumption
<1>2. (((NPAR * ends) % CtrMod) + NPAR) % CtrMod = (NPAR * ends + NPAR) % CtrMod
  <2>1. NPAR * ends \in Int /\ NPAR \in Int
    BY <1>1, NPARAssumption
  <2>2. \A x, n \in Int : ((x % CtrMod) + n) % CtrMod = (x + n) % CtrMod
    BY CtrModAssumption, ModAdd
  <2>3. QED
    BY <2>1, <2>2, Zenon
<1>3. QED
  BY <1>1, <1>2 DEF CounterAt

\* Packet ends are counted by a number.
LEMMA EndsType ==
    ASSUME NEW s, NEW k \in Nat
    PROVE  Ends(s, k) \in Nat /\ IsFiniteSet({j \in 1 .. k - 1 : s[j].last})
<1>1. IsFiniteSet(1 .. k - 1)
  BY FS_Interval
<1>2. {j \in 1 .. k - 1 : s[j].last} \subseteq 1 .. k - 1
  OBVIOUS
<1>3. IsFiniteSet({j \in 1 .. k - 1 : s[j].last})
  BY <1>1, <1>2, FS_Subset
<1>4. QED
  BY <1>3, FS_CardinalityType DEF Ends

\* Nothing ends before the first beat.
LEMMA EndsOfNone ==
    ASSUME NEW s
    PROVE  Ends(s, 1) = 0
<1>1. {j \in 1 .. 1 - 1 : s[j].last} = {}
  OBVIOUS
<1>2. QED
  BY <1>1, FS_EmptySet DEF Ends

\* One more beat leaves the packet ends before the others as they are, and is
\* counted after itself if it is one.
LEMMA EndsOfAppend ==
    ASSUME NEW S, NEW s \in Seq(S), NEW e \in S, e.last \in BOOLEAN
    PROVE  /\ \A k \in 1 .. Len(s) + 1 : Ends(Append(s, e), k) = Ends(s, k)
           /\ Ends(Append(s, e), Len(s) + 2)
                = IF e.last THEN Ends(s, Len(s) + 1) + 1 ELSE Ends(s, Len(s) + 1)
<1> DEFINE t == Append(s, e)
<1> DEFINE n == Len(s)
<1>1. n \in Nat /\ t[n + 1] = e /\ \A k \in 1 .. n : t[k] = s[k]
  OBVIOUS
<1> HIDE DEF t, n
<1>2. ASSUME NEW k \in 1 .. n + 1 PROVE Ends(t, k) = Ends(s, k)
  <2>1. \A j \in 1 .. k - 1 : t[j] = s[j]
    BY <1>1
  <2>2. {j \in 1 .. k - 1 : t[j].last} = {j \in 1 .. k - 1 : s[j].last}
    BY <2>1
  <2>3. QED
    BY <2>2 DEF Ends
<1> DEFINE before == {j \in 1 .. n : s[j].last}
<1>3. /\ n + 1 \in Nat /\ (n + 1) - 1 = n /\ (n + 2) - 1 = n + 1
  BY <1>1
<1>4. IsFiniteSet(before) /\ Ends(s, n + 1) = Cardinality(before)
  BY <1>3, EndsType DEF Ends
<1>5. ASSUME e.last
      PROVE  Ends(t, n + 2) = Ends(s, n + 1) + 1
  <2>1. {j \in 1 .. n + 1 : t[j].last} = before \cup {n + 1}
    BY <1>1, <1>5
  <2>2. n + 1 \notin before
    BY <1>1
  <2>3. Cardinality(before \cup {n + 1}) = Cardinality(before) + 1
    BY <1>4, <2>2, FS_AddElement
  <2>4. QED
    BY <1>3, <1>4, <2>1, <2>3 DEF Ends
<1>6. ASSUME ~e.last
      PROVE  Ends(t, n + 2) = Ends(s, n + 1)
  <2>1. {j \in 1 .. n + 1 : t[j].last} = before
    BY <1>1, <1>6
  <2>2. QED
    BY <1>3, <1>4, <2>1 DEF Ends
<1>7. QED
  BY <1>2, <1>5, <1>6 DEF t, n

\* Accepting a beat keeps a core's counters those of its packet ends.
LEMMA ChainGrows ==
    ASSUME NEW S, NEW s \in Seq(S), NEW c, Chain(s, c),
           NEW beat, beat.last \in BOOLEAN, Encrypted(beat, c) \in S
    PROVE  Chain(Append(s, Encrypted(beat, c)), NextCounter(c, beat))
<1> DEFINE e == Encrypted(beat, c)
<1> DEFINE t == Append(s, e)
<1> DEFINE n == Len(s)
<1>1. e.last = beat.last /\ e.blk = CounterInput(c)
  BY DEF Encrypted
<1>2. e \in S
  OBVIOUS
<1> HIDE DEF e
<1>3. n \in Nat /\ Len(t) = n + 1 /\ t[n + 1] = e /\ \A k \in 1 .. n : t[k] = s[k]
  BY <1>2
<1>4. /\ \A k \in 1 .. n + 1 : Ends(t, k) = Ends(s, k)
      /\ Ends(t, n + 2) = IF e.last THEN Ends(s, n + 1) + 1 ELSE Ends(s, n + 1)
  BY <1>1, <1>2, EndsOfAppend
<1>5. c = CounterAt(Ends(s, n + 1))
  BY DEF Chain
<1>6. \A k \in 1 .. n : s[k].blk = CounterInput(CounterAt(Ends(s, k)))
  BY DEF Chain
<1> HIDE DEF t, n
<1>7. Ends(s, n + 1) \in Nat
  <2>1. n + 1 \in Nat
    BY <1>3
  <2>2. QED
    BY <2>1, EndsType
<1>8. NextCounter(c, beat) = CounterAt(Ends(t, n + 2))
  <2>1. CASE beat.last
    BY <1>1, <1>4, <1>5, <1>7, <2>1, CounterAtNext DEF NextCounter
  <2>2. CASE ~beat.last
    BY <1>1, <1>4, <1>5, <2>2 DEF NextCounter
  <2>3. QED
    BY <2>1, <2>2
<1>9. ASSUME NEW k \in 1 .. n + 1
      PROVE  t[k].blk = CounterInput(CounterAt(Ends(t, k)))
  <2>1. CASE k = n + 1
    BY <1>1, <1>3, <1>4, <1>5, <2>1
  <2>2. CASE k \in 1 .. n
    BY <1>3, <1>4, <1>6, <2>2
  <2>3. QED
    BY <1>3, <2>1, <2>2
<1>10. Len(t) + 1 = n + 2
  BY <1>3
<1>11. Chain(t, NextCounter(c, beat))
  BY <1>3, <1>8, <1>9, <1>10 DEF Chain
<1>12. QED
  BY <1>11 DEF t, e

\* A core begins with the counter of no packet ends.
LEMMA ChainOfNone == Chain(<<>>, 0)
<1>1. Len(<<>>) = 0 /\ 0 + 1 = 1
  OBVIOUS
<1>2. QED
  BY <1>1, EndsOfNone, CounterAtZero DEF Chain
=============================================================================
