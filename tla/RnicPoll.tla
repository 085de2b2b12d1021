------------------------------ MODULE RnicPoll ------------------------------
(***************************************************************************)
(* The throughput tester for commercial NICs.  It makes a queue pair,      *)
(* exchanges its description for the peer's over TCP, takes the queue pair *)
(* to RTR and RTS, and sleeps instead of waiting for the peer.  What read  *)
(* returns is printed and not looked at.  Then for each message size it    *)
(* makes n_reps_lat runs; a run posts n_transactions READs and then polls  *)
(* the completion queue, one entry at a time, until it has that many.      *)
(* Every poll stores its entry in wc_batch[0]; the others stay as they     *)
(* were created, a success, so the check that ends a run sees the last     *)
(* entry only.  What ibv_post_send returns is never looked at.             *)
(*                                                                         *)
(* External, from libibverbs: requests complete in order; after one that   *)
(* fails all others fail too; a request keeps its place in the send queue  *)
(* until its completion is polled; a completion that finds the completion  *)
(* queue full is lost and puts the queue into an error state, in which     *)
(* polling may fail; a READ of a peer that is not ready is tried again for *)
(* a while and then fails.  The peer is the program at the other end: it   *)
(* connects, sends the description of its queue, in as many pieces as TCP  *)
(* likes, and sets its queue pair up when it has the tester's.             *)
(***************************************************************************)
EXTENDS Integers, Sequences

CONSTANTS
    MaxTransactions, \* bound on the argument n_transactions
    MaxReps,         \* bound on the argument n_reps_lat
    MaxSizes,        \* bound on the sizes from min_size to max_size
    CqSize,          \* entries of the completion queue (100 in the code)
    max_send_wr      \* requests of the send queue (2048 in the code)

\* The parts of struct ibvQ, in order: the ends of the queue pair (ip_addr, qpn,
\* psn), the buffer (rkey, vaddr), and what the tester does not use.
Parts == 0 .. 3
Used  == 2

ASSUME TesterAssumption ==
    /\ {MaxTransactions, MaxReps, MaxSizes} \subseteq Nat
    /\ {CqSize, max_send_wr} \subseteq Nat \ {0}

VARIABLES
    pc,
    n_transactions, \* READs of a run, as given on the command line
    n_reps_lat,     \* runs of each size, likewise
    num_sizes,      \* sizes from min_size, doubled while up to max_size
    size, run,      \* position in the two loops
    posted,         \* calls of ibv_post_send in this run
    num_comp,       \* completions polled in this run
    status,         \* wc_batch[0].status
    measured,       \* samples of this size
    sq,             \* requests that are not completed
    cq,             \* the completion queue
    qp,             \* state of the queue pair
    overrun,        \* a completion was lost
    rejected,       \* a request was not accepted
    heard,          \* parts of the peer's description that read has returned
    peer,           \* what the peer does
    sent            \* parts of its description that it has sent

args  == <<n_transactions, n_reps_lat, num_sizes>>
loop  == <<args, size, run, posted, num_comp, status, measured>>
nic   == <<sq, cq, qp, overrun>>
setup == <<heard, peer, sent>>
vars  == <<pc, loop, nic, rejected, setup>>

Status == {"success", "error"}

\* The three numbers may be zero.  A min_size of zero, which doubling does not
\* change, is not given.
Init ==
    /\ pc = "create"
    /\ n_transactions \in 0 .. MaxTransactions
    /\ n_reps_lat \in 0 .. MaxReps
    /\ num_sizes \in 0 .. MaxSizes
    /\ size = 1
    /\ run = 1
    /\ posted = 0
    /\ num_comp = 0
    /\ status = "success"
    /\ measured = 0
    /\ sq = 0
    /\ cq = <<>>
    /\ qp = "reset"
    /\ overrun = FALSE
    /\ rejected = FALSE
    /\ heard = 0
    /\ peer = "away"
    /\ sent = 0

-----------------------------------------------------------------------------
(* Set-up. *)

SetUp == {"create", "accept", "exchange", "answer", "rtr", "rts"}

\* Device, buffer, completion queue and queue pair are made.
Create ==
    /\ pc = "create"
    /\ qp' = "init"
    /\ pc' = "accept"
    /\ UNCHANGED <<loop, sq, cq, overrun, rejected, setup>>

Accept ==
    /\ pc = "accept"
    /\ peer # "away"
    /\ pc' = "exchange"
    /\ UNCHANGED <<loop, nic, rejected, setup>>

\* Where the loop over the sizes goes when it has come to size s.
AtSize(s) == IF s > num_sizes THEN "done" ELSE IF n_reps_lat = 0 THEN "stats" ELSE "start"

\* One read, which returns what there is, or nothing if the peer has closed.
ReadQueue ==
    /\ pc = "exchange"
    /\ \/ sent > 0 /\ heard' \in 1 .. sent
       \/ sent = 0 /\ peer = "closed" /\ heard' = 0
    /\ pc' = "answer"
    /\ UNCHANGED <<loop, nic, rejected, peer, sent>>

\* The read fails: that is printed, and the program goes on with what the buffer
\* held before.
ReadFails ==
    /\ pc = "exchange"
    /\ pc' = "answer"
    /\ UNCHANGED <<loop, nic, rejected, setup>>

\* The tester sends its own description.
WriteQueue ==
    /\ pc = "answer"
    /\ pc' = "rtr"
    /\ UNCHANGED <<loop, nic, rejected, setup>>

\* The queue pair becomes ready to receive, then to send, and the tester sleeps
\* for half a second.
ModifyQp ==
    /\ pc \in {"rtr", "rts"}
    /\ qp' = pc
    /\ pc' = IF pc = "rtr" THEN "rts" ELSE AtSize(1)
    /\ UNCHANGED <<loop, sq, cq, overrun, rejected, setup>>

\* Any call of the set-up but that read ends the program by an exception.
SetUpFails ==
    /\ pc \in SetUp \ {"exchange"}
    /\ pc' = "failed"
    /\ UNCHANGED <<loop, nic, rejected, setup>>

-----------------------------------------------------------------------------
(* The runs. *)

\* A run begins: the buffer is cleared and the clock started.
StartRun ==
    /\ pc = "start"
    /\ posted' = 0
    /\ IF n_transactions = 0
       THEN pc' = "poll" /\ num_comp' = 0
       ELSE pc' = "post" /\ UNCHANGED num_comp
    /\ UNCHANGED <<args, size, run, status, measured, nic, rejected, setup>>

\* Mutant: one READ too few is posted.
PostSendShort ==
    /\ pc = "post"
    /\ IF sq + Len(cq) < max_send_wr
       THEN sq' = sq + 1 /\ UNCHANGED rejected
       ELSE rejected' = TRUE /\ UNCHANGED sq
    /\ posted' = posted + 1
    /\ num_comp' = 0
    /\ pc' = IF posted + 2 >= n_transactions THEN "poll" ELSE "post"
    /\ UNCHANGED <<args, size, run, status, measured, cq, qp, overrun, setup>>

\* The first poll of a run finds num_comp at zero.
PostSend ==
    /\ pc = "post"
    /\ IF sq + Len(cq) < max_send_wr
       THEN sq' = sq + 1 /\ UNCHANGED rejected
       ELSE rejected' = TRUE /\ UNCHANGED sq
    /\ posted' = posted + 1
    /\ num_comp' = 0
    /\ pc' = IF posted + 1 = n_transactions THEN "poll" ELSE "post"
    /\ UNCHANGED <<args, size, run, status, measured, cq, qp, overrun, setup>>

\* Mutant: the loop ends one completion early.
PollCqShort ==
    /\ pc = "poll"
    /\ cq # <<>>
    /\ status' = Head(cq)
    /\ cq' = Tail(cq)
    /\ num_comp' = num_comp + 1
    /\ pc' = IF num_comp + 2 >= n_transactions THEN "check" ELSE "poll"
    /\ UNCHANGED <<args, size, run, posted, measured, sq, qp, overrun, rejected, setup>>

\* Mutant: the loop wants one completion more.
PollCqLong ==
    /\ pc = "poll"
    /\ cq # <<>>
    /\ status' = Head(cq)
    /\ cq' = Tail(cq)
    /\ num_comp' = num_comp + 1
    /\ pc' = IF num_comp >= n_transactions THEN "check" ELSE "poll"
    /\ UNCHANGED <<args, size, run, posted, measured, sq, qp, overrun, rejected, setup>>

\* Mutant: the first entry of a run is kept instead of the last.
PollCqKeepsFirst ==
    /\ pc = "poll"
    /\ cq # <<>>
    /\ status' = IF num_comp = 0 THEN Head(cq) ELSE status
    /\ cq' = Tail(cq)
    /\ num_comp' = num_comp + 1
    /\ pc' = IF num_comp + 1 >= n_transactions THEN "check" ELSE "poll"
    /\ UNCHANGED <<args, size, run, posted, measured, sq, qp, overrun, rejected, setup>>

\* ibv_poll_cq for one entry; while there is none the loop spins.
PollCq ==
    /\ pc = "poll"
    /\ cq # <<>>
    /\ status' = Head(cq)
    /\ cq' = Tail(cq)
    /\ num_comp' = num_comp + 1
    /\ pc' = IF num_comp + 1 >= n_transactions THEN "check" ELSE "poll"
    /\ UNCHANGED <<args, size, run, posted, measured, sq, qp, overrun, rejected, setup>>

\* A run of no READ polls once, finds nothing and ends.
PollCqForNone ==
    /\ pc = "poll"
    /\ n_transactions = 0
    /\ cq = <<>>
    /\ pc' = "check"
    /\ UNCHANGED <<loop, nic, rejected, setup>>

\* A poll that fails takes one from num_comp, which is then compared as an
\* unsigned number: below zero it ends the loop, and the program.
PollCqFails ==
    /\ pc = "poll"
    /\ overrun
    /\ IF num_comp = 0
       THEN pc' = "failed" /\ UNCHANGED num_comp
       ELSE num_comp' = num_comp - 1 /\ UNCHANGED pc
    /\ UNCHANGED <<args, size, run, posted, status, measured, nic, rejected, setup>>

\* Mutant: the status is not looked at.
CheckStatusNever ==
    /\ pc = "check"
    /\ measured' = measured + 1
    /\ IF run = n_reps_lat
       THEN pc' = "stats" /\ UNCHANGED run
       ELSE pc' = "start" /\ run' = run + 1
    /\ UNCHANGED <<args, size, posted, num_comp, status, nic, rejected, setup>>

\* wc_batch, which has an entry per READ, is checked, a sample is stored, and the
\* loop over runs goes round.
CheckStatus ==
    /\ pc = "check"
    /\ \/ status = "error" /\ n_transactions > 0
          /\ pc' = "failed" /\ UNCHANGED <<run, measured>>
       \/ (status = "success" \/ n_transactions = 0) /\ measured' = measured + 1
          /\ IF run = n_reps_lat
             THEN pc' = "stats" /\ UNCHANGED run
             ELSE pc' = "start" /\ run' = run + 1
    /\ UNCHANGED <<args, size, posted, num_comp, status, nic, rejected, setup>>

\* Data cleaning: the largest and the smallest entry are removed, unless they are
\* the last one.
Cleaned(samples) ==
    IF samples > 2 THEN samples - 2 ELSE IF samples > 0 THEN 1 ELSE 0

\* p1, p5, p10, p25, p50, p75, p90, p95, p99: which of the sorted samples.  A
\* place before the first one is read nevertheless.
PercentileIndices(samples) ==
    {(f[1] * samples) \div f[2] - 1 :
        f \in {<<1, 100>>, <<1, 20>>, <<1, 10>>, <<1, 4>>, <<1, 2>>,
               <<3, 4>>, <<9, 10>>, <<19, 20>>, <<99, 100>>}}

\* The statistics of a size, and on to the next one.  To read from no samples may
\* end the program.
Statistics ==
    /\ pc = "stats"
    /\ measured' = 0
    /\ run' = 1
    /\ \/ pc' = AtSize(size + 1) /\ size' = size + 1
       \/ Cleaned(measured) = 0 /\ pc' = "failed" /\ UNCHANGED size
    /\ UNCHANGED <<args, posted, num_comp, status, nic, rejected, setup>>

\* The oldest request completes: a READ only from a peer that is ready, and
\* with its address and key.
Complete ==
    /\ sq > 0
    /\ sq' = sq - 1
    /\ \E s \in Status :
          /\ s = "success" => qp = "rts" /\ heard >= Used /\ peer = "ready"
          /\ qp' = IF s = "success" THEN qp ELSE "error"
          /\ IF Len(cq) < CqSize
             THEN cq' = Append(cq, s) /\ UNCHANGED overrun
             ELSE overrun' = TRUE /\ UNCHANGED cq
    /\ UNCHANGED <<pc, loop, rejected, setup>>

\* The peer connects, describes its queue piece by piece, and is ready once it
\* has the tester's description; or it goes away before.
Peer ==
    /\ \/ peer = "away" /\ peer' = "connected" /\ UNCHANGED sent
       \/ peer = "connected" /\ sent' \in {n \in Parts : n > sent} /\ UNCHANGED peer
       \/ peer = "connected" /\ pc \notin {"create", "accept", "exchange", "answer"}
          /\ peer' = "ready" /\ UNCHANGED sent
       \/ peer = "connected" /\ peer' = "closed" /\ UNCHANGED sent
    /\ UNCHANGED <<pc, loop, nic, rejected, heard>>

Tester ==
    \/ Create \/ Accept \/ ReadQueue \/ WriteQueue \/ ModifyQp
    \/ StartRun \/ PostSend \/ PollCq \/ PollCqForNone
    \/ CheckStatus \/ Statistics

Next == Tester \/ SetUpFails \/ ReadFails \/ PollCqFails \/ Complete \/ Peer

Spec == Init /\ [][Next]_vars

\* The host runs and the NIC completes what was posted, in time or in error.
\* The peer need do nothing, and nothing needs to fail.
FairSpec == Spec /\ WF_vars(Tester) /\ WF_vars(Complete)
-----------------------------------------------------------------------------
\* Runs do not share completions: a run starts with nothing under way, so its
\* clock measures its own READs, and the memset of its start (hMem) meets none.
RunsApart == pc \in {"start", "stats", "done"} => sq = 0 /\ cq = <<>>

\* No sample is taken of a run in which a READ failed, although only the last
\* completion of a run is looked at: those after a failed one fail as well.
FailuresSeen == pc \in {"start", "stats", "done"} => qp = "rts"

\* Samples are of READs of the peer's buffer, although a description of which
\* only a part was read is taken for whole ("Received size" is only printed), and
\* although the tester sleeps instead of waiting for the peer.  (A run of no READ
\* gives a sample of nothing.)
SamplesAreReads == measured > 0 /\ n_transactions > 0 => heard >= Used /\ peer = "ready"

\* Once a peer has been heard, or has gone, the program comes to its end or
\* reports a failure, if a run fits the queues: it never polls for a completion
\* that does not come.  What earlier runs leave behind does not fill the queues,
\* and a peer that never gets ready does not keep the program.
EndsIfQueuesSuffice ==
    [](pc = "answer" /\ n_transactions <= CqSize /\ n_transactions <= max_send_wr
           => <>(pc \in {"done", "failed"}))

\* Whatever the queues, nothing but a READ that was not accepted or a completion
\* that was lost keeps a program that has come through the exchange from its end:
\* it ends, or polls for good for what one of these has made impossible.
SpinsOnlyForLost ==
    [](pc = "answer" => <>[](\/ pc \in {"done", "failed"}
                             \/ pc = "poll" /\ (rejected \/ overrun)))
=============================================================================
