------------------------------- MODULE AesLink ------------------------------
(***************************************************************************)
(* What one BALBOA node writes to another: the outgoing crypto core of the *)
(* sender, the RDMA network, the incoming crypto core of the receiver.     *)
(* Each core is the stream CtrStream that AesPipeline implements.  A node  *)
(* has one counter for all it sends, to whichever node, and one for all it *)
(* receives, from whichever node; the counters are never exchanged.  Each  *)
(* core derives its own from the packet ends it has seen since its reset,  *)
(* so decryption depends on the two having seen equally many.              *)
(*                                                                         *)
(* The network is external (Coyote's RoCE stack on reliable connections):  *)
(* it keeps the order of the beats and loses none, also when the crypto    *)
(* core of a node is reset.  Whether it also keeps the packet ends, or may *)
(* cut the beats into packets anew, is EndsKept.                           *)
(***************************************************************************)
EXTENDS CtrBeats

CONSTANTS
    EndsKept,    \* the network delivers tlast on the beats that left with it
    PeerEnds,    \* packet ends that other senders may have sent so far
    MaxBeats,    \* bound on the beats of the sender between two of its resets
    MaxArrivals, \* bound on the beats that come before one of another sender
    MaxResets    \* bound on the resets of either node

ASSUME EndsKeptAssumption == EndsKept \in BOOLEAN
ASSUME PeerEndsAssumption == PeerEnds \subseteq Nat
ASSUME BoundsAssumption ==
    MaxBeats \in Nat /\ MaxArrivals \in Nat /\ MaxResets \in Nat

VARIABLES
    outgoing, encAccepted, encDelivered,  \* the sender's core
    wire,                                 \* the beats in the network
    incoming, decAccepted, decDelivered,  \* the receiver's core
    origin,  \* history: what arrived at the receiver, as it left its sender
    resets   \* history: number of resets so far

encVars == <<outgoing, encAccepted, encDelivered>>
decVars == <<incoming, decAccepted, decDelivered, origin>>
vars == <<encVars, wire, decVars, resets>>

\* The receiver's core gets lanes that are already xor'ed with a key stream.
Cipher == [plain : Data, blk : Counters]

CipherBeats == [data : [Lanes -> Cipher], keep : [Lanes -> Keep], last : BOOLEAN]

Enc == INSTANCE CtrStream WITH
    counter <- outgoing, accepted <- encAccepted, delivered <- encDelivered

Dec == INSTANCE CtrStream WITH
    counter <- incoming, accepted <- decAccepted, delivered <- decDelivered,
    Data <- Cipher, Beats <- CipherBeats

\* A beat in the network, with the packet ends its sender had seen before it.
Sent == [item : Item, ends : Nat]

TypeOK ==
    /\ outgoing \in Counters
    /\ encAccepted \in Seq(Item)
    /\ encDelivered \in Seq(Item)
    /\ wire \in Seq(Sent)
    /\ incoming \in Counters
    /\ decAccepted \in Seq(Dec!Item)
    /\ decDelivered \in Seq(Dec!Item)
    /\ origin \in Seq(Sent)
    /\ resets \in Nat

Init == Enc!Init /\ wire = <<>> /\ Dec!Init /\ origin = <<>> /\ resets = 0

\* The beat that arrives for one that has left a sender's core.
Wire(item, last) ==
    [data |-> [l \in Lanes |-> [plain |-> item.data[l], blk |-> item.blk[l]]],
     keep |-> item.keep, last |-> last]

\* The sender's core accepts a beat from host memory.
Encrypt ==
    /\ Len(encAccepted) < MaxBeats
    /\ Enc!AcceptOnly
    /\ UNCHANGED <<wire, decVars, resets>>

\* It lets one out, to this receiver or to another node.
Send ==
    /\ Enc!DeliverOnly
    /\ LET n == Len(encDelivered) + 1
       IN  \/ wire' = Append(wire, [item |-> encDelivered'[n], ends |-> Ends(encAccepted, n)])
           \/ UNCHANGED wire
    /\ UNCHANGED <<decVars, resets>>

\* Another node writes to this receiver, with a core and a counter of its own.
PeerSend ==
    /\ Len(wire) + Len(origin) < MaxArrivals
    /\ \E beat \in Beats, ends \in PeerEnds :
           wire' = Append(wire, [item |-> Encrypted(beat, CounterAt(ends)), ends |-> ends])
    /\ UNCHANGED <<encVars, decVars, resets>>

\* The next beat arrives and the receiver's core accepts it.
Arrive ==
    /\ wire # <<>>
    /\ LET item == Head(wire).item
       IN  \E last \in IF EndsKept THEN {item.last} ELSE BOOLEAN :
               Dec!Accept(Wire(item, last))
    /\ wire' = Tail(wire)
    /\ origin' = Append(origin, Head(wire))
    /\ UNCHANGED <<encVars, decDelivered, resets>>

\* A decrypted beat reaches the receiver's host memory.
Store == Dec!DeliverOnly /\ UNCHANGED <<encVars, wire, origin, resets>>

\* One node's vFPGA is reset: the beats in its cores are gone and its counters
\* are cleared.  The other node and the network are not told.
ResetSender ==
    /\ resets < MaxResets /\ resets' = resets + 1
    /\ Enc!Reset
    /\ UNCHANGED <<wire, decVars>>

ResetReceiver ==
    /\ resets < MaxResets /\ resets' = resets + 1
    /\ Dec!Reset /\ origin' = <<>>
    /\ UNCHANGED <<encVars, wire>>

Next ==
    \/ Encrypt \/ Send \/ PeerSend \/ Arrive \/ Store
    \/ ResetSender \/ ResetReceiver

Spec == Init /\ [][Next]_vars

\* Streams and network make progress; the application need not send.
FairSpec == Spec /\ WF_vars(Send) /\ WF_vars(Arrive) /\ WF_vars(Store)
-----------------------------------------------------------------------------
\* The second xor removes the first key stream if it is of the same block.
Restored(k) ==
    /\ decDelivered[k].keep = origin[k].item.keep
    /\ \A l \in Lanes :
           /\ decDelivered[k].data[l].plain = origin[k].item.data[l]
           /\ decDelivered[k].data[l].blk = decDelivered[k].blk[l]

\* A beat is stored as it was in its sender's memory exactly if its sender and
\* the receiver had seen equally many packet ends since their resets, wherever in
\* the streams these were, up to full turns of the counter (vfpga_top: the two
\* counters move on tlast alone).  After the reset of one node, a packet end
\* added or lost on the way, a packet to another receiver or one from another
\* sender, nothing in the cores puts the counters back in step.
RestoredOnlyInStep ==
    \A k \in 1 .. Len(decDelivered) :
        Restored(k) <=> (NPAR * (origin[k].ends - Ends(decAccepted, k))) % CtrMod = 0

\* Beats do not get stuck: once nodes are no longer reset and send no more, all
\* that was encrypted since has left and all that arrived is stored.
AllStored ==
    <>[](/\ Len(encDelivered) = Len(encAccepted)
         /\ wire = <<>>
         /\ Len(decDelivered) = Len(decAccepted))
=============================================================================
