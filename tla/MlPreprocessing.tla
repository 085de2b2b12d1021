-------------------------- MODULE MlPreprocessing ---------------------------
(***************************************************************************)
(* The ML preprocessing kernel: five functions in HLS dataflow, each with  *)
(* a FIFO to the next.  They run freely and all at once.  A function looks *)
(* whether its input is empty, and does nothing if so; a beat that it has  *)
(* read is in its pipeline until the write into its output succeeds, which *)
(* blocks while the FIFO behind it is full, or the host not ready.         *)
(*                                                                         *)
(* A beat is therefore in one of nine places: place 2s - 1 is the pipeline *)
(* of function s, place 2s the FIFO it writes.                             *)
(***************************************************************************)
EXTENDS FeatureBeats

CONSTANTS
    StreamDepth,  \* depth of a FIFO, 64 in the code
    StageDepth,   \* beats the pipeline of a function holds (HLS's schedule)
    MaxBeats      \* bound on the beats that arrive

ASSUME DepthAssumption ==
    StreamDepth \in Nat \ {0} /\ StageDepth \in Nat \ {0} /\ MaxBeats \in Nat

VARIABLES
    held,      \* the beats in each place, the oldest first
    accepted,  \* history: the beats that were read from axi_in
    stored     \* history: the beats that were written to axi_out

vars == <<held, accepted, stored>>

Places == 1 .. 9

\* LoadData, Dense_NegsToZero, Dense_Log, Dense_Log, StoreData
Pipelines == {1, 3, 5, 7, 9}

\* stream_load, stream_zero, stream_log, stream_mod
Streams == {2, 4, 6, 8}

Capacity(p) == IF p \in Streams THEN StreamDepth ELSE StageDepth

TypeOK ==
    /\ held \in [Places -> Seq(Beat)]
    /\ \A p \in Places : Len(held[p]) <= Capacity(p)
    /\ accepted \in Seq(Beat)
    /\ stored \in Seq(Beat)

Init ==
    /\ held = [p \in Places |-> <<>>]
    /\ accepted = <<>>
    /\ stored = <<>>

\* Mutant: the logarithm comes before the clamping.
ReadByLogFirst(p, beat) ==
    IF p = 5 THEN Dense_NegsToZero(beat)
    ELSE IF p \in {3, 7} THEN Dense_Log(beat) ELSE beat

\* What becomes of a beat that is read into the pipeline of a function.
ReadBy(p, beat) ==
    IF p = 3 THEN Dense_NegsToZero(beat)
    ELSE IF p \in {5, 7} THEN Dense_Log(beat) ELSE beat

\* A beat that each of the functions has read once, in the order of the dataflow.
\* In this code that makes two logarithms, the second one of the bit patterns that
\* the first one leaves, where ml_preprocessing.hpp (L27) names one, log1p.
Preprocessed(beat) == ReadBy(9, ReadBy(7, ReadBy(5, ReadBy(3, ReadBy(1, beat)))))

\* LoadData reads a beat from the network.
LoadData ==
    /\ Len(accepted) < MaxBeats
    /\ Len(held[1]) < Capacity(1)
    /\ \E beat \in Beats :
           /\ accepted' = Append(accepted, beat)
           /\ held' = [held EXCEPT ![1] = Append(@, beat)]
    /\ UNCHANGED stored

\* Mutant: a write into a full FIFO is lost.
MoveLossy(p) ==
    /\ held[p] # <<>>
    /\ p + 1 \in Pipelines => Len(held[p + 1]) < Capacity(p + 1)
    /\ held' = [held EXCEPT ![p] = Tail(@),
                            ![p + 1] = IF Len(@) < Capacity(p + 1)
                                       THEN Append(@, ReadBy(p + 1, Head(held[p]))) ELSE @]
    /\ UNCHANGED <<accepted, stored>>

\* The oldest beat of a place moves on: a function writes it into its FIFO, or
\* the next function reads it from there.
Move(p) ==
    /\ held[p] # <<>>
    /\ Len(held[p + 1]) < Capacity(p + 1)
    /\ held' = [held EXCEPT ![p] = Tail(@),
                            ![p + 1] = Append(@, ReadBy(p + 1, Head(held[p])))]
    /\ UNCHANGED <<accepted, stored>>

\* The host takes the beat that StoreData writes.
StoreData ==
    /\ held[9] # <<>>
    /\ stored' = Append(stored, Head(held[9]))
    /\ held' = [held EXCEPT ![9] = Tail(@)]
    /\ UNCHANGED accepted

Next == LoadData \/ (\E p \in 1 .. 8 : Move(p)) \/ StoreData

Spec == Init /\ [][Next]_vars

\* The functions are clocked and free-running (ap_ctrl_none); the host's memory
\* takes what it is given, if not at once.
FairSpec == Spec /\ (\A p \in 1 .. 8 : WF_vars(Move(p))) /\ WF_vars(StoreData)
-----------------------------------------------------------------------------
Stream == INSTANCE FeatureStream WITH Result <- Preprocessed

\* The kernel is a stream of whole beats: whatever the fill of its FIFOs, none
\* is lost, doubled or overtaken, each has been through every function of the
\* dataflow once, and each is stored in the end (ml_preprocessing.cpp; a READ's
\* completion depends on the last beat of its response getting through).  It says
\* nothing of which functions these should be.
StreamSpec == Stream!FairSpec

\* A feature that is not smaller than another, in the same or another beat, is
\* not smaller after the kernel, although the second Dense_Log reads bit
\* patterns for integers: they are in the floats' order, and the clamping has
\* kept all arguments of logf above zero.  The largest integer is the exception,
\* because adding one to it wraps.
FeaturesKeepOrder ==
    \A j, k \in 1 .. Len(stored) : \A l, m \in Lanes :
        /\ accepted[j].data[l] <= accepted[k].data[m]
        /\ accepted[k].data[m] < MaxInt
        => stored[j].data[l] <= stored[k].data[m]
=============================================================================
