----------------------------- MODULE MCAesLink ------------------------------
(***************************************************************************)
(* Small instance of AesLink: two lanes that differ, both kinds of beat,   *)
(* and a counter that wraps after two packets.                             *)
(***************************************************************************)
EXTENDS AesLink, TLC

CONSTANTS d0, d1, k0, k1

MCData == {d0, d1}
MCKeep == {k0, k1}

MCBeat(l0, l1, e0, e1, last) == [data |-> (0 :> l0 @@ 1 :> l1),
                                 keep |-> (0 :> e0 @@ 1 :> e1),
                                 last |-> last]
MCBeats == {MCBeat(d0, d1, k1, k1, FALSE), MCBeat(d1, d0, k1, k0, TRUE)}
=============================================================================
