---------------------------- MODULE MCRdmaModule ----------------------------
(***************************************************************************)
(* Small instance of RdmaModule: a server started for READs and one for    *)
(* WRITEs, each with two runs, of two transfers and of one.                *)
(***************************************************************************)
EXTENDS RdmaModule

MCServers == {[writes |-> w, transfers |-> <<2, 1>>] : w \in BOOLEAN}
=============================================================================
