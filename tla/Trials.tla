------------------------------- MODULE Trials -------------------------------
(***************************************************************************)
(* What the software baseline promises: its trials follow each other, and  *)
(* in each the client's buffer of that size goes to the server once,       *)
(* encrypted by the client, comes back once, encrypted by the server, and  *)
(* is then plain again.  Nothing is said of requests, queues and events,   *)
(* nor of the server's own loop, nor that the trials end: a fault or a     *)
(* lost wakeup may stop them anywhere.                                     *)
(***************************************************************************)
EXTENDS Naturals

CONSTANTS client, server, NUM_TRAIL, MAX_SIZE

VARIABLES
    phase,      \* "ready", "asked", "answered" or "taken"
    sz, trial,  \* the client's size and its trial of that size
    data        \* the size of the data and the layers of AES on them

vars == <<phase, sz, trial, data>>

Init ==
    /\ phase = "ready"
    /\ sz = 1 /\ trial = 0
    /\ data = [size |-> 0, layers |-> {}]

\* One end works on the data of this trial.
Step(from, to, layers) ==
    /\ phase = from
    /\ phase' = to
    /\ data' = [size |-> sz, layers |-> layers]
    /\ UNCHANGED <<sz, trial>>

Ask   == Step("ready", "asked", {client})
Serve == Step("asked", "answered", {server})
Take  == Step("answered", "taken", {})

NextTrial ==
    /\ phase = "taken"
    /\ phase' = "ready"
    /\ IF trial < NUM_TRAIL - 1
       THEN trial' = trial + 1 /\ sz' = sz
       ELSE trial' = 0 /\ sz < MAX_SIZE /\ sz' = sz + 1
    /\ UNCHANGED data

Next == Ask \/ Serve \/ Take \/ NextTrial

Spec == Init /\ [][Next]_vars
=============================================================================
