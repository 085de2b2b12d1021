--------------------------- MODULE AesLinkProofs ----------------------------
(***************************************************************************)
(* What the receiver reads, for every number of lanes, every counter       *)
(* width, every network that keeps order but may move packet ends, any     *)
(* other senders and receivers, and resets of either node at any time.     *)
(***************************************************************************)
EXTENDS AesLink, CtrBeatsProofs, TLAPS

\* Beats in the network, or that have arrived, carry the key stream of the
\* packet ends their senders had seen.
Stamped(s) ==
    \A k \in 1 .. Len(s) : s[k].item.blk = CounterInput(CounterAt(s[k].ends))

\* What a core has let out is what it has accepted.
QueuesOrdered ==
    /\ Len(encDelivered) <= Len(encAccepted)
    /\ \A k \in 1 .. Len(encDelivered) : encDelivered[k] = encAccepted[k]
    /\ Len(decDelivered) <= Len(decAccepted)
    /\ \A k \in 1 .. Len(decDelivered) : decDelivered[k] = decAccepted[k]

\* Every word that arrived carries the key stream it left with.
Carried ==
    /\ Len(origin) = Len(decAccepted)
    /\ \A k \in 1 .. Len(decAccepted) :
           /\ decAccepted[k].keep = origin[k].item.keep
           /\ \A l \in Lanes :
                  decAccepted[k].data[l] = [plain |-> origin[k].item.data[l],
                                            blk |-> origin[k].item.blk[l]]

LinkInv ==
    /\ TypeOK
    /\ Chain(encAccepted, outgoing)
    /\ Stamped(wire)
    /\ Chain(decAccepted, incoming)
    /\ Stamped(origin)
    /\ QueuesOrdered
    /\ Carried

-----------------------------------------------------------------------------
\* A beat stamped with the ends its sender had seen may be put into the network.
LEMMA StampedGrows ==
    ASSUME NEW s \in Seq(Sent), Stamped(s), NEW x \in Sent,
           x.item.blk = CounterInput(CounterAt(x.ends))
    PROVE  Append(s, x) \in Seq(Sent) /\ Stamped(Append(s, x))
<1> DEFINE t == Append(s, x)
<1>1. /\ t \in Seq(Sent) /\ Len(s) \in Nat /\ Len(t) = Len(s) + 1
      /\ t[Len(s) + 1] = x /\ \A k \in 1 .. Len(s) : t[k] = s[k]
  OBVIOUS
<1> HIDE DEF t
<1>2. ASSUME NEW k \in 1 .. Len(s) + 1
      PROVE  t[k].item.blk = CounterInput(CounterAt(t[k].ends))
  <2>1. CASE k = Len(s) + 1
    BY <1>1, <2>1
  <2>2. CASE k \in 1 .. Len(s)
    BY <1>1, <2>2 DEF Stamped
  <2>3. QED
    BY <1>1, <2>1, <2>2
<1>3. QED
  BY <1>1, <1>2 DEF Stamped, t

-----------------------------------------------------------------------------
\* The cores' instances of the operators on beats are those of CtrBeats.
LEMMA SameOperators ==
    ASSUME NEW beat, NEW c
    PROVE  /\ Enc!Encrypted(beat, c) = Encrypted(beat, c)
           /\ Dec!Encrypted(beat, c) = Encrypted(beat, c)
           /\ Enc!NextCounter(c, beat) = NextCounter(c, beat)
           /\ Dec!NextCounter(c, beat) = NextCounter(c, beat)
BY DEF Enc!Encrypted, Dec!Encrypted, Enc!NextCounter, Dec!NextCounter,
       Enc!CounterInput, Dec!CounterInput, Enc!Lanes, Dec!Lanes,
       Encrypted, NextCounter, CounterInput, Lanes

LEMMA WireType ==
    ASSUME NEW item \in Item, NEW last \in BOOLEAN, NEW c \in Counters
    PROVE  Encrypted(Wire(item, last), c) \in Dec!Item
<1>1. CounterInput(c) \in [Lanes -> Counters]
  BY CounterInputType
<1>2. [l \in Lanes |-> [plain |-> item.data[l], blk |-> item.blk[l]]]
        \in [Lanes -> Cipher]
  BY DEF Item, Cipher
<1>3. Dec!Item = [data : [Lanes -> Cipher], keep : [Lanes -> Keep],
                  last : BOOLEAN, blk : [Lanes -> Counters]]
  BY DEF Dec!Item, Dec!Lanes, Dec!Counters, Lanes, Counters
<1>4. item.keep \in [Lanes -> Keep]
  BY DEF Item
<1>5. QED
  BY <1>1, <1>2, <1>3, <1>4 DEF Encrypted, Wire

LEMMA LinkInit == Init => LinkInv
<1> SUFFICES ASSUME Init PROVE LinkInv
  OBVIOUS
<1>1. /\ outgoing = 0 /\ encAccepted = <<>> /\ encDelivered = <<>> /\ wire = <<>>
      /\ incoming = 0 /\ decAccepted = <<>> /\ decDelivered = <<>>
      /\ origin = <<>> /\ resets = 0
  BY DEF Init, Enc!Init, Dec!Init
<1>2. 0 \in Counters
  BY CtrModAssumption DEF Counters
<1>3. TypeOK
  BY <1>1, <1>2 DEF TypeOK
<1>4. Stamped(wire) /\ Stamped(origin) /\ QueuesOrdered /\ Carried
  BY <1>1 DEF Stamped, QueuesOrdered, Carried
<1>5. QED
  BY <1>1, <1>3, <1>4, ChainOfNone DEF LinkInv

\* The sender's core accepts a beat: its chain grows.
LEMMA EncryptStep ==
    ASSUME LinkInv, Encrypt
    PROVE  LinkInv'
<1>1. PICK beat \in Beats :
        /\ encAccepted' = Append(encAccepted, Encrypted(beat, outgoing))
        /\ outgoing' = NextCounter(outgoing, beat)
        /\ UNCHANGED encDelivered
  BY SameOperators DEF Encrypt, Enc!AcceptOnly, Enc!Accept
<1> DEFINE item == Encrypted(beat, outgoing)
<1>2. /\ UNCHANGED <<wire, incoming, decAccepted, decDelivered, origin, resets>>
      /\ encAccepted' = Append(encAccepted, item)
  BY <1>1 DEF Encrypt, decVars
<1>3. /\ encAccepted \in Seq(Item) /\ encDelivered \in Seq(Item) /\ outgoing \in Counters
      /\ beat.last \in BOOLEAN
  BY BeatsAssumption DEF LinkInv, TypeOK, Beat
<1>4. item \in Item
  BY <1>3, EncryptedType
<1>5. Chain(encAccepted', outgoing')
  BY <1>1, <1>3, <1>4, ChainGrows DEF LinkInv
<1> HIDE DEF item
<1>6. TypeOK'
  BY <1>1, <1>2, <1>3, <1>4, NextCounterType DEF LinkInv, TypeOK
<1>7. QueuesOrdered'
  BY <1>1, <1>2, <1>3, <1>4 DEF LinkInv, QueuesOrdered
<1>8. Chain(decAccepted, incoming)' /\ Stamped(wire)' /\ Stamped(origin)' /\ Carried'
  BY <1>2 DEF LinkInv, Chain, Stamped, Carried, Ends
<1>9. Chain(encAccepted, outgoing)'
  BY <1>5 DEF Chain, Ends
<1>10. QED
  BY <1>6, <1>7, <1>8, <1>9 DEF LinkInv

\* A beat leaves the sender, with the key stream of the ends before it.
LEMMA SendStep ==
    ASSUME LinkInv, Send
    PROVE  LinkInv'
<1> DEFINE n == Len(encDelivered) + 1
<1> DEFINE x == [item |-> encAccepted[n], ends |-> Ends(encAccepted, n)]
<1>1. /\ Len(encDelivered) < Len(encAccepted)
      /\ encDelivered' = Append(encDelivered, encAccepted[n])
      /\ UNCHANGED <<outgoing, encAccepted, incoming, decAccepted, decDelivered,
                     origin, resets>>
  BY DEF Send, Enc!DeliverOnly, Enc!Deliver, decVars
<1>2. /\ encAccepted \in Seq(Item) /\ encDelivered \in Seq(Item) /\ wire \in Seq(Sent)
      /\ Len(encDelivered) \in Nat /\ Len(encAccepted) \in Nat
  BY DEF LinkInv, TypeOK
<1>3. n \in 1 .. Len(encAccepted) /\ n \in Nat /\ encAccepted[n] \in Item
  BY <1>1, <1>2
<1>4. encDelivered' \in Seq(Item) /\ encDelivered'[n] = encAccepted[n]
  BY <1>1, <1>2, <1>3
<1>5. wire' = wire \/ wire' = Append(wire, x)
  BY <1>4 DEF Send
<1>6. x \in Sent /\ x.item.blk = CounterInput(CounterAt(x.ends))
  BY <1>3, EndsType DEF LinkInv, Chain, Sent
<1>7. wire' \in Seq(Sent) /\ Stamped(wire')
  BY <1>2, <1>5, <1>6, StampedGrows DEF LinkInv
<1>8. TypeOK'
  BY <1>1, <1>4, <1>7 DEF LinkInv, TypeOK
<1>9. QueuesOrdered'
  BY <1>1, <1>2, <1>3 DEF LinkInv, QueuesOrdered
<1>10. (Chain(encAccepted, outgoing) /\ Chain(decAccepted, incoming))'
  BY <1>1 DEF LinkInv, Chain, Ends
<1>11. Stamped(origin)' /\ Carried'
  BY <1>1 DEF LinkInv, Stamped, Carried
<1>12. Stamped(wire)'
  BY <1>7 DEF Stamped
<1>13. QED
  BY <1>8, <1>9, <1>10, <1>11, <1>12 DEF LinkInv

\* A beat of another sender carries the key stream of its own core.
LEMMA PeerSendStep ==
    ASSUME LinkInv, PeerSend
    PROVE  LinkInv'
<1>1. PICK beat \in Beats, ends \in PeerEnds :
        wire' = Append(wire, [item |-> Encrypted(beat, CounterAt(ends)), ends |-> ends])
  BY DEF PeerSend
<1>2. UNCHANGED <<outgoing, encAccepted, encDelivered, incoming, decAccepted,
                  decDelivered, origin, resets>>
  BY DEF PeerSend, encVars, decVars
<1> DEFINE x == [item |-> Encrypted(beat, CounterAt(ends)), ends |-> ends]
<1>3. ends \in Nat /\ CounterAt(ends) \in Counters
  BY PeerEndsAssumption, CounterAtType
<1>4. x \in Sent /\ x.item.blk = CounterInput(CounterAt(x.ends))
  <2>1. Encrypted(beat, CounterAt(ends)) \in Item
    BY <1>3, EncryptedType
  <2>2. Encrypted(beat, CounterAt(ends)).blk = CounterInput(CounterAt(ends))
    BY DEF Encrypted
  <2>3. QED
    BY <1>3, <2>1, <2>2 DEF Sent
<1>5. wire \in Seq(Sent) /\ wire' = Append(wire, x)
  BY <1>1 DEF LinkInv, TypeOK
<1> HIDE DEF x
<1>6. wire' \in Seq(Sent) /\ Stamped(wire')
  BY <1>4, <1>5, StampedGrows DEF LinkInv
<1>7. TypeOK'
  BY <1>2, <1>6 DEF LinkInv, TypeOK
<1>8. QueuesOrdered' /\ Stamped(origin)' /\ Carried'
  BY <1>2 DEF LinkInv, QueuesOrdered, Stamped, Carried
<1>9. (Chain(encAccepted, outgoing) /\ Chain(decAccepted, incoming))'
  BY <1>2 DEF LinkInv, Chain, Ends
<1>10. Stamped(wire)'
  BY <1>6 DEF Stamped
<1>11. QED
  BY <1>7, <1>8, <1>9, <1>10 DEF LinkInv

\* A beat arrives: it is decrypted at the receiver's own counter.
LEMMA ArriveStep ==
    ASSUME LinkInv, Arrive
    PROVE  LinkInv'
<1> DEFINE x == Head(wire)
<1>1. /\ wire \in Seq(Sent) /\ wire # <<>> /\ origin \in Seq(Sent)
      /\ decAccepted \in Seq(Dec!Item) /\ decDelivered \in Seq(Dec!Item)
      /\ incoming \in Counters
  BY DEF Arrive, LinkInv, TypeOK
<1>2. /\ x \in Sent /\ x = wire[1] /\ Len(wire) \in Nat /\ Len(wire) > 0
      /\ Tail(wire) \in Seq(Sent) /\ Len(Tail(wire)) = Len(wire) - 1
      /\ \A k \in 1 .. Len(wire) - 1 : Tail(wire)[k] = wire[k + 1]
  BY <1>1
<1>3. PICK last \in BOOLEAN : Dec!Accept(Wire(x.item, last))
  <2>1. x.item.last \in BOOLEAN
    BY <1>2 DEF Sent, Item
  <2>2. QED
    BY <2>1 DEF Arrive
<1> DEFINE beat == Wire(x.item, last)
<1> DEFINE d == Encrypted(beat, incoming)
<1>4. /\ decAccepted' = Append(decAccepted, d)
      /\ incoming' = NextCounter(incoming, beat)
      /\ wire' = Tail(wire) /\ origin' = Append(origin, x)
      /\ UNCHANGED <<outgoing, encAccepted, encDelivered, decDelivered, resets>>
  BY <1>3, SameOperators DEF Arrive, Dec!Accept, encVars
<1>5. d \in Dec!Item /\ beat.last \in BOOLEAN
  <2>1. x.item \in Item
    BY <1>2 DEF Sent
  <2>2. QED
    BY <1>1, <2>1, WireType DEF Wire
<1>6. /\ d.keep = x.item.keep
      /\ \A l \in Lanes : d.data[l] = [plain |-> x.item.data[l], blk |-> x.item.blk[l]]
  BY DEF Encrypted, Wire
<1>7. Chain(decAccepted', incoming')
  BY <1>1, <1>4, <1>5, ChainGrows DEF LinkInv
<1>8. x.item.blk = CounterInput(CounterAt(x.ends))
  <2>1. 1 \in 1 .. Len(wire)
    BY <1>2
  <2>2. QED
    BY <1>2, <2>1 DEF LinkInv, Stamped
<1> HIDE DEF beat, d, x
<1>9. origin' \in Seq(Sent) /\ Stamped(origin')
  BY <1>1, <1>2, <1>4, <1>8, StampedGrows DEF LinkInv
<1>10. wire' \in Seq(Sent) /\ Stamped(wire')
  <2>1. ASSUME NEW k \in 1 .. Len(wire) - 1
        PROVE  Tail(wire)[k].item.blk = CounterInput(CounterAt(Tail(wire)[k].ends))
    <3>1. k + 1 \in 1 .. Len(wire) /\ Tail(wire)[k] = wire[k + 1]
      BY <1>2
    <3>2. QED
      BY <3>1 DEF LinkInv, Stamped
  <2>2. QED
    BY <1>2, <1>4, <2>1 DEF Stamped
<1>11. decAccepted' \in Seq(Dec!Item)
  BY <1>1, <1>4, <1>5
<1>12. incoming' \in Counters
  BY <1>1, <1>4, NextCounterType
<1>13. TypeOK'
  BY <1>4, <1>9, <1>10, <1>11, <1>12 DEF LinkInv, TypeOK
<1>14. /\ Len(decAccepted) \in Nat /\ Len(decAccepted') = Len(decAccepted) + 1
       /\ decAccepted'[Len(decAccepted) + 1] = d
       /\ \A k \in 1 .. Len(decAccepted) : decAccepted'[k] = decAccepted[k]
  BY <1>1, <1>4, <1>5
<1>15. QueuesOrdered'
  <2>1. /\ Len(decDelivered) \in Nat /\ Len(decDelivered) <= Len(decAccepted)
        /\ \A k \in 1 .. Len(decDelivered) : decDelivered[k] = decAccepted[k]
    BY <1>1 DEF LinkInv, QueuesOrdered
  <2>2. \A k \in 1 .. Len(decDelivered) : decDelivered[k] = decAccepted'[k]
    BY <1>14, <2>1
  <2>3. Len(decDelivered) <= Len(decAccepted')
    BY <1>14, <2>1
  <2>4. QED
    BY <1>4, <2>2, <2>3 DEF LinkInv, QueuesOrdered
<1>16. Carried'
  <2>1. /\ Len(origin) = Len(decAccepted) /\ Len(origin') = Len(decAccepted) + 1
        /\ origin'[Len(decAccepted) + 1] = x
        /\ \A k \in 1 .. Len(decAccepted) : origin'[k] = origin[k]
    BY <1>1, <1>2, <1>4 DEF LinkInv, Carried
  <2>2. ASSUME NEW k \in 1 .. Len(decAccepted) + 1
        PROVE  /\ decAccepted'[k].keep = origin'[k].item.keep
               /\ \A l \in Lanes :
                      decAccepted'[k].data[l] = [plain |-> origin'[k].item.data[l],
                                                 blk |-> origin'[k].item.blk[l]]
    <3>1. CASE k = Len(decAccepted) + 1
      BY <1>6, <1>14, <2>1, <3>1
    <3>2. CASE k \in 1 .. Len(decAccepted)
      BY <1>14, <2>1, <3>2 DEF LinkInv, Carried
    <3>3. QED
      BY <1>14, <3>1, <3>2
  <2>3. QED
    BY <1>14, <2>1, <2>2 DEF Carried
<1>17. Chain(encAccepted, outgoing)'
  BY <1>4 DEF LinkInv, Chain, Ends
<1>18. (Chain(decAccepted, incoming) /\ Stamped(wire) /\ Stamped(origin))'
  BY <1>7, <1>9, <1>10 DEF Chain, Ends, Stamped
<1>19. QED
  BY <1>13, <1>15, <1>16, <1>17, <1>18 DEF LinkInv

\* A beat reaches the receiver's memory.
LEMMA StoreStep ==
    ASSUME LinkInv, Store
    PROVE  LinkInv'
<1>1. /\ Len(decDelivered) < Len(decAccepted)
      /\ decDelivered' = Append(decDelivered, decAccepted[Len(decDelivered) + 1])
      /\ UNCHANGED <<outgoing, encAccepted, encDelivered, wire, incoming, decAccepted,
                     origin, resets>>
  BY DEF Store, Dec!DeliverOnly, Dec!Deliver, encVars
<1>2. /\ decAccepted \in Seq(Dec!Item) /\ decDelivered \in Seq(Dec!Item)
      /\ Len(decDelivered) \in Nat /\ Len(decAccepted) \in Nat
  BY DEF LinkInv, TypeOK
<1>3. decAccepted[Len(decDelivered) + 1] \in Dec!Item
  BY <1>1, <1>2
<1>4. TypeOK'
  BY <1>1, <1>2, <1>3 DEF LinkInv, TypeOK
<1>5. QueuesOrdered'
  BY <1>1, <1>2, <1>3 DEF LinkInv, QueuesOrdered
<1>6. (Chain(encAccepted, outgoing) /\ Chain(decAccepted, incoming))'
  BY <1>1 DEF LinkInv, Chain, Ends
<1>7. (Stamped(wire) /\ Stamped(origin) /\ Carried)'
  BY <1>1 DEF LinkInv, Stamped, Carried
<1>8. QED
  BY <1>4, <1>5, <1>6, <1>7 DEF LinkInv

\* A reset empties one node's core and clears its counter; what the other node
\* and the network hold keeps the counters it was made with.
LEMMA ResetSenderStep ==
    ASSUME LinkInv, ResetSender
    PROVE  LinkInv'
<1>1. /\ outgoing' = 0 /\ encAccepted' = <<>> /\ encDelivered' = <<>>
      /\ resets' = resets + 1
      /\ UNCHANGED <<wire, incoming, decAccepted, decDelivered, origin>>
  BY DEF ResetSender, Enc!Reset, decVars
<1>2. 0 \in Counters
  BY CtrModAssumption DEF Counters
<1>3. TypeOK'
  BY <1>1, <1>2 DEF LinkInv, TypeOK
<1>4. QueuesOrdered'
  BY <1>1 DEF LinkInv, QueuesOrdered
<1>5. Chain(encAccepted', outgoing')
  BY <1>1, ChainOfNone
<1>6. Chain(encAccepted, outgoing)'
  BY <1>5 DEF Chain, Ends
<1>7. (Chain(decAccepted, incoming) /\ Stamped(wire) /\ Stamped(origin) /\ Carried)'
  BY <1>1 DEF LinkInv, Chain, Ends, Stamped, Carried
<1>8. QED
  BY <1>3, <1>4, <1>6, <1>7 DEF LinkInv

LEMMA ResetReceiverStep ==
    ASSUME LinkInv, ResetReceiver
    PROVE  LinkInv'
<1>1. /\ incoming' = 0 /\ decAccepted' = <<>> /\ decDelivered' = <<>> /\ origin' = <<>>
      /\ resets' = resets + 1
      /\ UNCHANGED <<outgoing, encAccepted, encDelivered, wire>>
  BY DEF ResetReceiver, Dec!Reset, encVars
<1>2. 0 \in Counters
  BY CtrModAssumption DEF Counters
<1>3. TypeOK'
  BY <1>1, <1>2 DEF LinkInv, TypeOK
<1>4. QueuesOrdered' /\ Carried' /\ Stamped(origin)'
  BY <1>1 DEF LinkInv, QueuesOrdered, Carried, Stamped
<1>5. Chain(decAccepted', incoming')
  BY <1>1, ChainOfNone
<1>6. Chain(decAccepted, incoming)'
  BY <1>5 DEF Chain, Ends
<1>7. (Chain(encAccepted, outgoing) /\ Stamped(wire))'
  BY <1>1 DEF LinkInv, Chain, Ends, Stamped
<1>8. QED
  BY <1>3, <1>4, <1>6, <1>7 DEF LinkInv

LEMMA LinkNext == LinkInv /\ [Next]_vars => LinkInv'
<1> SUFFICES ASSUME LinkInv, [Next]_vars PROVE LinkInv'
  OBVIOUS
<1>1. CASE UNCHANGED vars
  BY <1>1 DEF vars, encVars, decVars, LinkInv, TypeOK, Chain, Ends, Stamped,
     QueuesOrdered, Carried
<1>2. QED
  BY <1>1, EncryptStep, SendStep, PeerSendStep, ArriveStep, StoreStep,
     ResetSenderStep, ResetReceiverStep DEF Next

LEMMA LinkInvariant == Spec => []LinkInv
  BY LinkInit, LinkNext, PTL DEF Spec

-----------------------------------------------------------------------------
\* The blocks formed from two counters are the same only if the counters are.
LEMMA SameBlocks ==
    ASSUME NEW c \in Counters, NEW d \in Counters
    PROVE  (\A l \in Lanes : CounterInput(c)[l] = CounterInput(d)[l]) <=> c = d
<1>1. 0 \in Lanes
  BY NPARAssumption DEF Lanes
<1>2. QED
  BY <1>1, FirstBlock

\* A beat reads as it was sent if, and only if, its key stream is removed with
\* the blocks it was made with.
LEMMA RestoredBy ==
    ASSUME LinkInv, NEW k \in 1 .. Len(decDelivered)
    PROVE  /\ origin[k].ends \in Nat /\ Ends(decAccepted, k) \in Nat
           /\ Restored(k) <=> CounterAt(origin[k].ends) = CounterAt(Ends(decAccepted, k))
<1>1. decDelivered[k] = decAccepted[k] /\ k \in 1 .. Len(decAccepted) /\ k \in Nat
  BY DEF LinkInv, QueuesOrdered, TypeOK
<1>2. k \in 1 .. Len(origin) /\ origin[k] \in Sent
  BY <1>1 DEF LinkInv, Carried, TypeOK
<1>3. origin[k].ends \in Nat /\ Ends(decAccepted, k) \in Nat
  BY <1>1, <1>2, EndsType DEF Sent
<1> DEFINE c == CounterAt(origin[k].ends)
<1> DEFINE d == CounterAt(Ends(decAccepted, k))
<1>4. c \in Counters /\ d \in Counters
  BY <1>3, CounterAtType
<1>5. origin[k].item.blk = CounterInput(c)
  BY <1>2 DEF LinkInv, Stamped
<1>6. decAccepted[k].blk = CounterInput(d)
  BY <1>1 DEF LinkInv, Chain
<1>7. /\ decAccepted[k].keep = origin[k].item.keep
      /\ \A l \in Lanes :
             decAccepted[k].data[l] = [plain |-> origin[k].item.data[l],
                                       blk |-> origin[k].item.blk[l]]
  BY <1>1 DEF LinkInv, Carried
<1>8. \A l \in Lanes : /\ decAccepted[k].data[l].plain = origin[k].item.data[l]
                       /\ decAccepted[k].data[l].blk = origin[k].item.blk[l]
  <2>1. ASSUME NEW l \in Lanes
        PROVE  /\ decAccepted[k].data[l].plain = origin[k].item.data[l]
               /\ decAccepted[k].data[l].blk = origin[k].item.blk[l]
    <3>1. decAccepted[k].data[l] = [plain |-> origin[k].item.data[l],
                                    blk |-> origin[k].item.blk[l]]
      BY <1>7
    <3>2. QED
      BY <3>1
  <2>2. QED
    BY <2>1
<1> HIDE DEF c, d
<1>9. Restored(k) <=> \A l \in Lanes : CounterInput(c)[l] = CounterInput(d)[l]
  BY <1>1, <1>5, <1>6, <1>7, <1>8 DEF Restored
<1>10. QED
  BY <1>3, <1>4, <1>9, SameBlocks DEF c, d

\* The receiver decrypts what a sender encrypted exactly if the two have seen
\* equally many packet ends, up to full turns of the counter: no other agreement
\* between two cores is needed, and this one is (vfpga_top).
THEOREM ReceiverRestores == Spec => []RestoredOnlyInStep
<1>1. ASSUME NEW x \in Nat, NEW y \in Nat
      PROVE  CounterAt(x) = CounterAt(y) <=> (NPAR * (x - y)) % CtrMod = 0
  <2>1. /\ NPAR * x \in Int /\ NPAR * y \in Int
        /\ NPAR * (x - y) = NPAR * x - NPAR * y
    BY NPARAssumption
  <2>2. \A v, w \in Int : v % CtrMod = w % CtrMod <=> (v - w) % CtrMod = 0
    BY CtrModAssumption, ModEqual
  <2>3. (NPAR * x) % CtrMod = (NPAR * y) % CtrMod
            <=> (NPAR * x - NPAR * y) % CtrMod = 0
    BY <2>1, <2>2, Zenon
  <2>4. QED
    BY <2>1, <2>3 DEF CounterAt
<1>2. LinkInv => RestoredOnlyInStep
  <2> SUFFICES ASSUME LinkInv, NEW k \in 1 .. Len(decDelivered)
               PROVE  Restored(k) <=>
                        (NPAR * (origin[k].ends - Ends(decAccepted, k))) % CtrMod = 0
    BY DEF RestoredOnlyInStep
  <2>1. /\ origin[k].ends \in Nat /\ Ends(decAccepted, k) \in Nat
        /\ Restored(k) <=> CounterAt(origin[k].ends) = CounterAt(Ends(decAccepted, k))
    BY RestoredBy
  <2>2. QED
    BY <1>1, <2>1
<1>3. QED
  BY <1>2, LinkInvariant, PTL
=============================================================================
