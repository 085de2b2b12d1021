----------------------------- MODULE CtrStream ------------------------------
(***************************************************************************)
(* What a crypto core promises to its two neighbours: it is a stream.      *)
(* Every beat it accepts is encrypted whole, at the counter of its packet, *)
(* and leaves once, in order.  Nothing is said of registers, of stalls or  *)
(* of latency.                                                             *)
(***************************************************************************)
EXTENDS CtrBeats

VARIABLES
    counter,     \* the block counter of the next beat
    accepted,    \* the beats accepted since the last reset, encrypted
    delivered    \* the beats that have left since the last reset

vars == <<counter, accepted, delivered>>

Init == counter = 0 /\ accepted = <<>> /\ delivered = <<>>

Accept(beat) ==
    /\ accepted' = Append(accepted, Encrypted(beat, counter))
    /\ counter' = NextCounter(counter, beat)

\* Mutant: a beat leaves only when the next one pushes it out.
DeliverPushed ==
    /\ Len(delivered) + 1 < Len(accepted)
    /\ delivered' = Append(delivered, accepted[Len(delivered) + 1])

Deliver ==
    /\ Len(delivered) < Len(accepted)
    /\ delivered' = Append(delivered, accepted[Len(delivered) + 1])

\* A clock edge may take a beat in, let one out, or do both.
AcceptOnly  == (\E beat \in Beats : Accept(beat)) /\ UNCHANGED delivered
DeliverOnly == Deliver /\ UNCHANGED <<counter, accepted>>
Both        == (\E beat \in Beats : Accept(beat)) /\ Deliver

Reset == counter' = 0 /\ accepted' = <<>> /\ delivered' = <<>>

Next == AcceptOnly \/ DeliverOnly \/ Both \/ Reset

Spec == Init /\ [][Next]_vars

FairSpec == Spec /\ WF_vars(DeliverOnly \/ Both)
=============================================================================
