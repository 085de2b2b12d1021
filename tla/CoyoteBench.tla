---------------------------- MODULE CoyoteBench -----------------------------
(***************************************************************************)
(* The RDMA benchmark of the ML preprocessing experiment: run_bench of the *)
(* clients and of the server, called by both sides for the same sequence   *)
(* of benches.  One client copies its buffer to the GPU at each completion *)
(* (main, main_rdma_cpu_gpu), the other has its RDMA buffer on the GPU and *)
(* waits for the number of them (main_rdma_gpu).  The two sides share no   *)
(* state but the memory that RDMA reaches; they pace each other by         *)
(* connSync and by the number of LOCAL_WRITE completions, which each side  *)
(* clears and polls.                                                       *)
(*                                                                         *)
(* External, from Coyote: invoke queues a transfer and returns; the memory *)
(* is read when the transfer is executed; a WRITE, or the response to a    *)
(* READ, adds one to the completions of the side it is stored at; connSync *)
(* returns when both sides have called it as often.                        *)
(***************************************************************************)
EXTENDS Naturals, Sequences

CONSTANTS
    client, server,
    Operations,  \* the benchmarks run: READ (FALSE), WRITE (TRUE)
    Clients,     \* the clients run: copying (FALSE), GPU-direct (TRUE)
    N_RUNS,      \* runs of each bench
    Transfers    \* the transfers of each bench: throughput, latency, ...

Procs == {client, server}
Benches == DOMAIN Transfers

ASSUME ProcsAssumption == client # server
ASSUME BenchAssumption ==
    /\ Operations \subseteq BOOLEAN /\ Clients \subseteq BOOLEAN
    /\ N_RUNS \in Nat \ {0} /\ Transfers \in Seq(Nat \ {0})

VARIABLES
    operation,  \* the benchmark both sides were started for
    direct,     \* the client that was started
    thrown,     \* the client has thrown, at a copy that failed, and is gone
    pc,         \* what a side does next
    bench, run, \* its position in the two loops
    posted,     \* transfers it has invoked in this run
    seen,       \* completed: completions the client has answered with a copy
    count,      \* LOCAL_WRITE completions of its cThread
    mem,        \* contents of its RDMA buffer
    gpu,        \* contents of the copying client's GPU buffer
    wire,       \* its transfers that are not executed yet
    syncs       \* its calls of connSync

common == <<operation, direct, thrown>>
position == <<bench, run, posted>>
vars == <<common, pc, position, seen, count, mem, gpu, wire, syncs>>

Peer(p) == IF p = client THEN server ELSE client
Contents == {"zero", "data"}
Steps == {"fill", "clear", "sync", "meet", "invoke", "poll", "await", "done"}
Over(p) == bench[p] > Len(Transfers)

TypeOK ==
    /\ operation \in Operations
    /\ direct \in Clients
    /\ thrown \in BOOLEAN
    /\ pc \in [Procs -> Steps]
    /\ bench \in [Procs -> 1 .. Len(Transfers) + 1]
    /\ run \in [Procs -> 0 .. N_RUNS - 1]
    /\ posted \in [Procs -> Nat]
    /\ seen \in Nat
    /\ count \in [Procs -> Nat]
    /\ mem \in [Procs -> Contents]
    /\ gpu \in Contents
    /\ wire \in [Procs -> Nat]
    /\ syncs \in [Procs -> Nat]

Init ==
    /\ operation \in Operations
    /\ direct \in Clients
    /\ thrown = FALSE
    /\ pc = [p \in Procs |-> IF Len(Transfers) = 0 THEN "sync" ELSE "fill"]
    /\ bench = [p \in Procs |-> 1]
    /\ run = [p \in Procs |-> 0]
    /\ posted = [p \in Procs |-> 0]
    /\ seen = 0
    /\ count = [p \in Procs |-> 0]
    /\ mem \in [Procs -> Contents]
    /\ gpu \in Contents
    /\ wire = [p \in Procs |-> 0]
    /\ syncs = [p \in Procs |-> 0]

Goto(p, step) == pc' = [pc EXCEPT ![p] = step]

\* The loops over runs and benches; after the last bench comes a final sync.
NextRun(p) ==
    LET again == run[p] + 1 < N_RUNS
        last  == bench[p] = Len(Transfers)
    IN  /\ run' = [run EXCEPT ![p] = IF again THEN @ + 1 ELSE 0]
        /\ bench' = [bench EXCEPT ![p] = IF again THEN @ ELSE @ + 1]
        /\ posted' = [posted EXCEPT ![p] = 0]
        /\ Goto(p, IF again THEN "clear" ELSE IF last THEN "sync" ELSE "fill")

-----------------------------------------------------------------------------
\* Mutant: the roles in a READ and in a WRITE are confused.
FillSwapped(p) ==
    /\ pc[p] = "fill"
    /\ mem' = [mem EXCEPT ![p] = IF operation = (p = server) THEN "data" ELSE "zero"]
    /\ Goto(p, "clear")
    /\ UNCHANGED <<common, position, seen, count, gpu, wire, syncs>>

\* The side that is to send first has the data, the other one zeros.
Fill(p) ==
    /\ pc[p] = "fill"
    /\ mem' = [mem EXCEPT ![p] = IF operation = (p = client) THEN "data" ELSE "zero"]
    /\ Goto(p, "clear")
    /\ UNCHANGED <<common, position, seen, count, gpu, wire, syncs>>

\* Mutant: completions are not cleared.
ClearCompletedNever(p) ==
    /\ pc[p] = "clear"
    /\ Goto(p, "sync")
    /\ UNCHANGED <<common, position, seen, count, mem, gpu, wire, syncs>>

ClearCompleted(p) ==
    /\ pc[p] = "clear"
    /\ count' = [count EXCEPT ![p] = 0]
    /\ Goto(p, "sync")
    /\ UNCHANGED <<common, position, seen, mem, gpu, wire, syncs>>

ConnSync(p) ==
    /\ pc[p] = "sync"
    /\ syncs' = [syncs EXCEPT ![p] = @ + 1]
    /\ Goto(p, "meet")
    /\ UNCHANGED <<common, position, seen, count, mem, gpu, wire>>

\* Mutant: connSync does not wait for the other side.
SyncReturnsAlone(p) ==
    /\ pc[p] = "meet"
    /\ \/ Over(p) /\ Goto(p, "done") /\ UNCHANGED position
       \/ ~Over(p) /\ p = client /\ Goto(p, "invoke") /\ UNCHANGED position
       \/ ~Over(p) /\ p = server /\ operation /\ Goto(p, "await") /\ UNCHANGED position
       \/ ~Over(p) /\ p = server /\ ~operation /\ NextRun(p)
    /\ UNCHANGED <<common, seen, count, mem, gpu, wire, syncs>>

\* A READ leaves the server with nothing to do in this run.
SyncReturns(p) ==
    /\ pc[p] = "meet"
    /\ syncs[Peer(p)] >= syncs[p]
    /\ \/ Over(p) /\ Goto(p, "done") /\ UNCHANGED position
       \/ ~Over(p) /\ p = client /\ Goto(p, "invoke") /\ UNCHANGED position
       \/ ~Over(p) /\ p = server /\ operation /\ Goto(p, "await") /\ UNCHANGED position
       \/ ~Over(p) /\ p = server /\ ~operation /\ NextRun(p)
    /\ UNCHANGED <<common, seen, count, mem, gpu, wire, syncs>>

\* The server spins until it has all WRITEs, comparing with !=.
AwaitWrites ==
    /\ pc[server] = "await"
    /\ count[server] = Transfers[bench[server]]
    /\ Goto(server, "invoke")
    /\ UNCHANGED <<common, position, seen, count, mem, gpu, wire, syncs>>

\* The client queues a transfer, and after the last one polls.
Invoke ==
    /\ pc[client] = "invoke"
    /\ wire' = [wire EXCEPT ![client] = @ + 1]
    /\ IF posted[client] + 1 < Transfers[bench[client]]
       THEN posted' = [posted EXCEPT ![client] = @ + 1] /\ UNCHANGED <<pc, bench, run>>
       ELSE Goto(client, "poll") /\ UNCHANGED position
    /\ UNCHANGED <<common, seen, count, mem, gpu, syncs>>

\* The server queues a write-back, and after the last one goes on at once.
InvokeBack ==
    /\ pc[server] = "invoke"
    /\ wire' = [wire EXCEPT ![server] = @ + 1]
    /\ IF posted[server] + 1 < Transfers[bench[server]]
       THEN posted' = [posted EXCEPT ![server] = @ + 1] /\ UNCHANGED <<pc, bench, run>>
       ELSE NextRun(server)
    /\ UNCHANGED <<common, seen, count, mem, gpu, syncs>>

\* Mutant: the client wants to see each completion alone.
PollCompletedExact ==
    /\ pc[client] = "poll" /\ ~direct /\ ~thrown
    /\ count[client] = seen + 1
    /\ gpu' = mem[client]
    /\ IF seen + 1 < Transfers[bench[client]]
       THEN seen' = seen + 1 /\ UNCHANGED <<pc, position>>
       ELSE seen' = 0 /\ NextRun(client)
    /\ UNCHANGED <<common, count, mem, wire, syncs>>

\* The client answers each completion with a copy of its buffer to the GPU.
PollCompleted ==
    /\ pc[client] = "poll" /\ ~direct /\ ~thrown
    /\ count[client] > seen
    /\ gpu' = mem[client]
    /\ IF seen + 1 < Transfers[bench[client]]
       THEN seen' = seen + 1 /\ UNCHANGED <<pc, position>>
       ELSE seen' = 0 /\ NextRun(client)
    /\ UNCHANGED <<common, count, mem, wire, syncs>>

\* That copy fails, and the exception ends the client: the transfers it has
\* invoked are executed nevertheless.
CopyFails ==
    /\ pc[client] = "poll" /\ ~direct /\ ~thrown
    /\ count[client] > seen
    /\ thrown' = TRUE
    /\ UNCHANGED <<operation, direct, pc, position, seen, count, mem, gpu, wire, syncs>>

\* Mutant: the GPU-direct client does not wait for the transfers.
AwaitTransfersNot ==
    /\ pc[client] = "poll" /\ direct
    /\ NextRun(client)
    /\ UNCHANGED <<common, seen, count, mem, gpu, wire, syncs>>

\* The GPU-direct client spins until it has all completions, with != too.
AwaitTransfers ==
    /\ pc[client] = "poll" /\ direct
    /\ count[client] = Transfers[bench[client]]
    /\ NextRun(client)
    /\ UNCHANGED <<common, seen, count, mem, gpu, wire, syncs>>

\* A transfer that p has invoked is executed.
Transfer(p) ==
    LET to   == IF operation THEN Peer(p) ELSE p
        from == IF operation THEN p ELSE Peer(p)
    IN
    /\ wire[p] > 0
    /\ wire' = [wire EXCEPT ![p] = @ - 1]
    /\ mem' = [mem EXCEPT ![to] = mem[from]]
    /\ count' = [count EXCEPT ![to] = @ + 1]
    /\ UNCHANGED <<common, pc, position, seen, gpu, syncs>>

Program(p) ==
    \/ Fill(p) \/ ClearCompleted(p) \/ ConnSync(p) \/ SyncReturns(p)
    \/ p = server /\ (AwaitWrites \/ InvokeBack)
    \/ p = client /\ (Invoke \/ PollCompleted \/ AwaitTransfers)

Next == CopyFails \/ \E p \in Procs : Program(p) \/ Transfer(p)

Spec == Init /\ [][Next]_vars

\* Both hosts run, both spin on their counters, and queued transfers are
\* executed in the end.
FairSpec == Spec /\ \A p \in Procs : WF_vars(Program(p)) /\ WF_vars(Transfer(p))
-----------------------------------------------------------------------------
\* Transfers under way that will be stored at p.
Incoming(p) == IF operation THEN wire[Peer(p)] ELSE wire[p]

\* A side never clears a completion of a run that is not over, and none of an
\* earlier run is added after it has cleared: both clear before connSync, and
\* by then the loops that count (run_bench of clients and server) have seen all.
NothingCleared ==
    \A p \in Procs :
        pc[p] \in {"clear", "sync"} /\ (p = client \/ operation) => Incoming(p) = 0

\* The polled counter never passes the value that the server and the GPU-direct
\* client compare it with by !=, which they would otherwise spin on for ever.
NeverTooMany ==
    \A p \in Procs :
        pc[p] \in {"await", "poll"} => count[p] + Incoming(p) <= Transfers[bench[p]]

\* The server runs ahead of the client by one connSync at most, and while it
\* does it leaves the counters of the client alone: every transfer belongs to
\* the run its receiver is in.
InStep ==
    /\ syncs[server] \in {syncs[client] - 1, syncs[client], syncs[client] + 1}
    /\ pc[client] \in {"invoke", "poll"} /\ syncs[server] > syncs[client]
           => pc[server] = "meet"
    /\ pc[server] \in {"await", "invoke"} => pc[client] \in {"meet", "invoke", "poll"}
                                             /\ bench[client] = bench[server]
                                             /\ run[client] = run[server]

\* The client has ended a run.
RunEnded ==
    \/ pc[client] = "clear" /\ run[client] > 0
    \/ pc[client] = "fill" /\ bench[client] > 1
    \/ pc[client] = "sync" /\ Over(client) /\ bench[client] > 1

\* When a run is over, what its transfers are to bring to the client is there,
\* in its buffer and on the GPU (where the GPU-direct client's buffer is): for
\* READs what the server has set, for WRITEs "the same content back" (run_bench
\* of the client).
ContentArrives ==
    RunEnded => mem[client] = "data" /\ (direct \/ gpu = "data")

\* ContentArrives for READs, where the server may be a run ahead but its buffer
\* is the same in all runs.
ReadContentArrives == ~operation => ContentArrives

\* Both programs get through all benches and their final sync, unless the client
\* throws; then the server waits for it for good.
BothEnd ==
    /\ <>(thrown \/ \A p \in Procs : pc[p] = "done")
    /\ [](thrown => [](pc[server] # "done"))
=============================================================================
