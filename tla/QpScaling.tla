----------------------------- MODULE QpScaling ------------------------------
(***************************************************************************)
(* The client of the bandwidth distribution experiment: several queue      *)
(* pairs, each with its own Coyote thread; in each run it clears all       *)
(* completion counters, invokes the READs of one queue pair after the      *)
(* other, and sweeps over the queue pairs until all are reported done.     *)
(* Done is to mean that the READs have completed ("Check if the transfer   *)
(* is done"), and the time until then is what the experiment measures; but *)
(* the sweep compares the completions with completed[], which is zero and  *)
(* stays so: the code reports a queue pair when NO READ of it has          *)
(* completed, and does not end when one has.                               *)
(* The connSync of each run is commented out, and the server does nothing  *)
(* in its runs (it spins), so only the client and its network are here.    *)
(***************************************************************************)
EXTENDS Naturals, FiniteSets

CONSTANTS
    n_parallel_qps,     \* queue pairs
    N_THROUGHPUT_REPS,  \* READs per queue pair and run (64 in the code)
    n_runs              \* runs

\* There are queue pairs, READs and runs.
SomeOfEach == {n_parallel_qps, N_THROUGHPUT_REPS, n_runs} \subseteq Nat \ {0}

QPs == 0 .. n_parallel_qps - 1

VARIABLES
    loop,           \* the loop the client is in
    run,            \* i
    j, k,           \* the queue pair and the READ it has come to
    counts,         \* LOCAL_WRITE completions of each thread
    transfer_done,  \* per queue pair: reported done in this run
    reads,          \* per queue pair: READs invoked and not arrived
    freed           \* the buffers of these queue pairs are freed

sweepVars == <<loop, run, j, k, counts, transfer_done, reads, freed>>

SweepInit ==
    /\ loop = "clear"
    /\ run = 0
    /\ j = 0
    /\ k = 0
    /\ counts = [q \in QPs |-> 0]
    /\ transfer_done = [q \in QPs |-> FALSE]
    /\ reads = [q \in QPs |-> 0]
    /\ freed = {}

\* The loops over the queue pairs: on to the next one, or to the loop after.
NextQp(after) ==
    /\ j' = (j + 1) % n_parallel_qps
    /\ loop' = IF j + 1 = n_parallel_qps THEN after ELSE loop

Clear ==
    /\ loop = "clear"
    /\ counts' = [counts EXCEPT ![j] = 0]
    /\ transfer_done' = [transfer_done EXCEPT ![j] = FALSE]
    /\ NextQp("invoke")
    /\ UNCHANGED <<run, k, reads, freed>>

InvokeRead ==
    /\ loop = "invoke"
    /\ reads' = [reads EXCEPT ![j] = @ + 1]
    /\ k' = (k + 1) % N_THROUGHPUT_REPS
    /\ IF k + 1 = N_THROUGHPUT_REPS THEN NextQp("poll") ELSE UNCHANGED <<loop, j>>
    /\ UNCHANGED <<run, counts, transfer_done, freed>>

\* checkCompleted is compared with completed[j], which nothing has set: the
\* opposite of what is reported.
ReportsDone(q) == counts[q] = 0

\* One queue pair of a sweep.  transfer_done only grows during the sweeps of a
\* run, so a sweep that ends with all of them has found all of them.
Poll ==
    /\ loop = "poll"
    /\ transfer_done' = [transfer_done EXCEPT ![j] = @ \/ ReportsDone(j)]
    /\ j' = (j + 1) % n_parallel_qps
    /\ IF j + 1 = n_parallel_qps /\ \A q \in QPs : transfer_done'[q]
       THEN /\ loop' = IF run + 1 = n_runs THEN "free" ELSE "clear"
            /\ run' = IF run + 1 = n_runs THEN run ELSE run + 1
       ELSE UNCHANGED <<loop, run>>
    /\ UNCHANGED <<k, counts, reads, freed>>

\* After the last run the first buffer is freed; the connSync that follows is
\* not answered by a server that spins, so the client gets no further.
Free ==
    /\ loop = "free"
    /\ freed' = {j}
    /\ loop' = "final"
    /\ UNCHANGED <<run, j, k, counts, transfer_done, reads>>

Arrive(q) ==
    /\ reads[q] > 0
    /\ reads' = [reads EXCEPT ![q] = @ - 1]
    /\ counts' = [counts EXCEPT ![q] = @ + 1]
    /\ UNCHANGED <<loop, run, j, k, transfer_done, freed>>

ClientStep == Clear \/ InvokeRead \/ Poll \/ Free

SweepNext == ClientStep \/ \E q \in QPs : Arrive(q)

SweepSpec == SweepInit /\ [][SweepNext]_sweepVars

-----------------------------------------------------------------------------
\* A queue pair is reported done only when all its READs of the run have arrived
\* ("Transfer for QP %d is done" is printed and its timer stopped at that).  The
\* code does not keep this.
DoneWhenArrived == loop = "poll" => \A q \in QPs : transfer_done[q] => reads[q] = 0
=============================================================================
