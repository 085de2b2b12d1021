--------------------------- MODULE FeatureStream ----------------------------
(***************************************************************************)
(* What the ML preprocessing kernel is to the network that feeds it and to *)
(* the host memory behind it, whatever it computes: a stream from which    *)
(* the result of every beat leaves once, and in the order of the beats.    *)
(* Nothing is said of the functions that make the result, nor of the       *)
(* places in which they keep beats.                                        *)
(***************************************************************************)
EXTENDS Sequences, Naturals

CONSTANTS
    Beats,     \* the beats that may arrive
    Result(_)  \* what leaves for a beat

VARIABLES
    accepted,  \* the beats taken from axi_in
    stored     \* the beats given to axi_out

vars == <<accepted, stored>>

Init == accepted = <<>> /\ stored = <<>>

Accept == \E beat \in Beats : accepted' = Append(accepted, beat) /\ UNCHANGED stored

Deliver ==
    /\ Len(stored) < Len(accepted)
    /\ stored' = Append(stored, Result(accepted[Len(stored) + 1]))
    /\ UNCHANGED accepted

Next == Accept \/ Deliver

Spec == Init /\ [][Next]_vars

FairSpec == Spec /\ WF_vars(Deliver)
=============================================================================
