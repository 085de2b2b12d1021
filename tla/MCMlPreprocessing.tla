-------------------------- MODULE MCMlPreprocessing -------------------------
(***************************************************************************)
(* Small instance of MlPreprocessing: words of four bits, two lanes, FIFOs *)
(* and pipelines of one beat.  The beats have the extreme integers, zero,  *)
(* and neighbours that logf does and does not tell apart.                  *)
(***************************************************************************)
EXTENDS MlPreprocessing, TLC

CONSTANTS all, some

MCKeep == {all, some}
MCLogBits == <<0, 3, 4, 4, 5, 5, 5>>
MCMinusInfinity == -1

MCBeat(a, b, keep, last) == [data |-> (0 :> a @@ 1 :> b), keep |-> keep, last |-> last]
MCBeats == {MCBeat(-8, -1, all, FALSE), MCBeat(0, 1, all, FALSE),
            MCBeat(6, 2, some, TRUE), MCBeat(7, 3, all, TRUE)}
=============================================================================
