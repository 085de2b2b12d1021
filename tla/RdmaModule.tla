----------------------------- MODULE RdmaModule -----------------------------
(***************************************************************************)
(* RDMAClient of client_py/src/rdma_module.cpp, the Python script that     *)
(* makes its calls one after another and goes on after an exception        *)
(* (example.py), and the standard server program that answers them         *)
(* (sw/src/server/main.cpp).  A call clears the completions of the thread, *)
(* syncs with the server, invokes its transfers and answers the            *)
(* LOCAL_WRITE completions; the Python function it is given, or a copy to  *)
(* the GPU, may raise in between.  The server is started for READs, of     *)
(* which it sees nothing but connSync, or for WRITEs, which it counts and  *)
(* writes back; it makes a fixed number of runs and leaves.                *)
(*                                                                         *)
(* External: Coyote executes transfers in order and each adds a completion *)
(* where it is stored; connSync is a meeting of both sides; a process that *)
(* has ended answers no READ for sure; copies of one HIP stream are done   *)
(* in order, and a blocking copy is done after all queued before it.       *)
(***************************************************************************)
EXTENDS Naturals, Sequences

CONSTANTS
    Kinds,       \* the methods called: rdma_cpu, rdma_cpu_gpu, ...
    Servers,     \* the servers run: their operation and transfers of each run
    MaxTransfers,\* bound on n_transfers
    MaxCalls     \* bound on the calls of a script

RdmaKinds == {"cpu", "cpu_gpu", "process", "async"}
AllKinds  == RdmaKinds \cup {"local", "read_gpu"}

ASSUME KindsAssumption == Kinds \subseteq AllKinds
ASSUME ServersAssumption ==
    Servers \subseteq [writes : BOOLEAN, transfers : Seq(Nat \ {0})]
ASSUME BoundsAssumption == MaxTransfers \in Nat \ {0} /\ MaxCalls \in Nat \ {0}

VARIABLES
    \* The client.
    pc,          \* its next step
    kind, is_write, n,  \* the current call, its direction and n_transfers
    calls,       \* calls made so far, the current one included
    posted,      \* transfers it has invoked
    completed,   \* completions it has answered
    count,       \* LOCAL_WRITE completions since the last clear
    cpu,         \* what mem_cpu holds
    stream,      \* copies queued on the HIP stream: what they will store
    gpu,         \* what mem_gpu holds
    outcome,     \* how the last call ended
    \* The server and what is under way.
    server,      \* how it was started
    srv,         \* its next step
    served,      \* connSyncs it has returned from
    received,    \* LOCAL_WRITE completions since its last clear
    wire,        \* the client's transfers: the call, and whether a WRITE
    back,        \* the server's WRITEs
    \* History.
    raised,      \* some call has ended by an exception after its connSync
    agreed       \* the calls so far were what the server was started for

call   == <<kind, is_write, n, calls>>
gpuSide == <<cpu, stream, gpu>>
srvSide == <<server, srv, served, received, back>>
vars == <<pc, call, posted, completed, count, gpuSide, outcome, srvSide, wire, raised, agreed>>

\* What a buffer holds: contents of the server's, of the Python function's
\* result, or of this cut to integers (as the asynchronous call does).
Words == {"none", "remote", "processed", "truncated"}
Steps == {"idle", "clear", "sync", "invoke", "wait", "drain", "local", "leave", "done"}

Runs == Len(server.transfers)

Init ==
    /\ pc = "idle"
    /\ kind \in Kinds /\ is_write = FALSE /\ n = 0 /\ calls = 0
    /\ posted = 0 /\ completed = 0 /\ count = 0
    /\ cpu = "none" /\ stream = <<>> /\ gpu = "none"
    /\ outcome = "none"
    /\ server \in Servers
    /\ srv = "clear" /\ served = 0 /\ received = 0
    /\ wire = <<>> /\ back = 0
    /\ raised = FALSE /\ agreed = TRUE

-----------------------------------------------------------------------------
(* The client. *)

\* The script makes its next call.
Call(k, write, transfers) ==
    /\ pc = "idle"
    /\ calls < MaxCalls
    /\ kind' = k /\ is_write' = write /\ n' = transfers
    /\ calls' = calls + 1
    /\ posted' = 0 /\ completed' = 0
    /\ outcome' = "none"
    /\ pc' = IF k \in RdmaKinds THEN "clear" ELSE "local"
    /\ agreed' = (agreed /\ (k \in RdmaKinds =>
           /\ served < Runs
           /\ write = server.writes
           /\ write => transfers = server.transfers[served + 1]))
    /\ UNCHANGED <<count, gpuSide, srvSide, wire, raised>>

\* A size above that of the buffer is refused before anything is done.
Refuse ==
    /\ pc = "idle"
    /\ calls < MaxCalls
    /\ calls' = calls + 1
    /\ outcome' = "raised"
    /\ UNCHANGED <<pc, kind, is_write, n, posted, completed, count, gpuSide, srvSide,
                   wire, raised, agreed>>

\* Mutant: the completions of the call before are kept.
ClearCompletedNever ==
    /\ pc = "clear"
    /\ pc' = "sync"
    /\ UNCHANGED <<call, posted, completed, count, gpuSide, outcome, srvSide, wire, raised, agreed>>

ClearCompleted ==
    /\ pc = "clear"
    /\ count' = 0
    /\ pc' = "sync"
    /\ UNCHANGED <<call, posted, completed, gpuSide, outcome, srvSide, wire, raised, agreed>>

\* What the server does when a connSync returns: it awaits WRITEs, goes on to the
\* next connSync, or has come back from the final one and leaves.
ServerMeets ==
    /\ srv = "meet"
    /\ served' = served + 1
    /\ srv' = IF served = Runs THEN "over"
              ELSE IF server.writes THEN "await"
              ELSE IF served + 1 = Runs THEN "meet" ELSE "clear"
    /\ UNCHANGED <<server, received, back>>

ConnSync ==
    /\ pc = "sync"
    /\ ServerMeets
    /\ pc' = "invoke"
    /\ UNCHANGED <<call, posted, completed, count, gpuSide, outcome, wire, raised, agreed>>

Invoke ==
    /\ pc = "invoke"
    /\ posted' = posted + 1
    /\ wire' = Append(wire, [call |-> calls, write |-> is_write])
    /\ pc' = IF posted + 1 = n THEN "wait" ELSE "invoke"
    /\ UNCHANGED <<call, completed, count, gpuSide, outcome, srvSide, raised, agreed>>

\* The call returns, or its exception reaches the script.
End(how) ==
    /\ pc' = "idle"
    /\ outcome' = how
    /\ raised' = (raised \/ (how = "raised" /\ kind \in RdmaKinds))

\* rdma_cpu spins until the counter equals n_transfers.
WaitAll ==
    /\ pc = "wait"
    /\ kind = "cpu"
    /\ count = n
    /\ End("returned")
    /\ UNCHANGED <<call, posted, completed, count, gpuSide, srvSide, wire, agreed>>

\* Mutant: the asynchronous copies are not waited for.
AnswerUndrained(last) == IF last THEN End("returned") ELSE UNCHANGED <<pc, outcome, raised>>

\* After the last answer a call returns; the asynchronous one first waits for
\* its stream.
Answer(last) ==
    IF ~last THEN UNCHANGED <<pc, outcome, raised>>
    ELSE IF kind = "async" THEN pc' = "drain" /\ UNCHANGED <<outcome, raised>>
    ELSE End("returned")

\* A blocking copy to the GPU, after those that are queued.
Copy(word) == stream' = <<>> /\ gpu' = word /\ UNCHANGED cpu

\* Mutant: the loop wants to see each completion alone.
AnswerCompletionExact ==
    /\ pc = "wait"
    /\ kind # "cpu"
    /\ count = completed + 1
    /\ completed' = completed + 1
    /\ IF kind = "async"
       THEN stream' = Append(stream, "truncated") /\ UNCHANGED <<cpu, gpu>>
       ELSE Copy(IF kind = "cpu_gpu" THEN cpu ELSE "processed")
    /\ Answer(completed + 1 = n)
    /\ UNCHANGED <<call, posted, count, srvSide, wire, agreed>>

\* The other calls answer each completion by a copy to the GPU.
AnswerCompletion ==
    /\ pc = "wait"
    /\ kind # "cpu"
    /\ count > completed
    /\ completed' = completed + 1
    /\ IF kind = "async"
       THEN stream' = Append(stream, "truncated") /\ UNCHANGED <<cpu, gpu>>
       ELSE Copy(IF kind = "cpu_gpu" THEN cpu ELSE "processed")
    /\ Answer(completed + 1 = n)
    /\ UNCHANGED <<call, posted, count, srvSide, wire, agreed>>

\* The Python function, the copy to the GPU or the wait for its stream raises: the
\* transfers that are under way and the copies that are queued go on.
Raise ==
    /\ \/ pc = "wait" /\ kind # "cpu" /\ count > completed
       \/ pc \in {"drain", "local"}
    /\ End("raised")
    /\ UNCHANGED <<call, posted, completed, count, gpuSide, srvSide, wire, agreed>>

\* hipStreamSynchronize.
Drain ==
    /\ pc = "drain"
    /\ stream = <<>>
    /\ End("returned")
    /\ UNCHANGED <<call, posted, completed, count, gpuSide, srvSide, wire, agreed>>

\* local_process_to_gpu: n times the Python function and a copy, no RDMA.
LocalProcess ==
    /\ pc = "local" /\ kind = "local"
    /\ completed' = completed + 1
    /\ Copy("processed")
    /\ IF completed + 1 = n THEN End("returned") ELSE UNCHANGED <<pc, outcome, raised>>
    /\ UNCHANGED <<call, posted, count, srvSide, wire, agreed>>

\* read_gpu_memory copies the GPU's buffer over the one that RDMA stores to.
ReadGpuMemory ==
    /\ pc = "local" /\ kind = "read_gpu"
    /\ stream' = <<>>
    /\ gpu' = IF stream = <<>> THEN gpu ELSE stream[Len(stream)]
    /\ cpu' = gpu'
    /\ End("returned")
    /\ UNCHANGED <<call, posted, completed, count, srvSide, wire, agreed>>

\* Mutant: the destructor does not sync with the server.
LeaveUnsynced ==
    /\ pc = "leave"
    /\ pc' = "done"
    /\ UNCHANGED <<call, posted, completed, count, gpuSide, outcome, srvSide, wire, raised, agreed>>

\* The script ends; the destructor syncs with the server once more.
Destroy ==
    /\ pc = "idle"
    /\ pc' = "leave"
    /\ UNCHANGED <<call, posted, completed, count, gpuSide, outcome, srvSide, wire, raised, agreed>>

Leave ==
    /\ pc = "leave"
    /\ ServerMeets
    /\ pc' = "done"
    /\ UNCHANGED <<call, posted, completed, count, gpuSide, outcome, wire, raised, agreed>>

-----------------------------------------------------------------------------
(* The server and the network. *)

ServerClears ==
    /\ srv = "clear"
    /\ received' = 0
    /\ srv' = "meet"
    /\ UNCHANGED <<pc, call, posted, completed, count, gpuSide, outcome, server, served, back,
                   wire, raised, agreed>>

\* It spins until it has all WRITEs of the run, with !=, and writes them back.
ServerAnswers ==
    /\ srv = "await"
    /\ received = server.transfers[served]
    /\ back' = back + server.transfers[served]
    /\ srv' = IF served = Runs THEN "meet" ELSE "clear"
    /\ UNCHANGED <<pc, call, posted, completed, count, gpuSide, outcome, server, served, received,
                   wire, raised, agreed>>

\* A READ's response is stored at the client, a WRITE at the server.
TransferArrives ==
    /\ wire # <<>>
    /\ wire' = Tail(wire)
    /\ IF Head(wire).write
       THEN received' = received + 1 /\ UNCHANGED <<count, cpu>>
       ELSE count' = count + 1 /\ cpu' = "remote" /\ UNCHANGED received
    /\ UNCHANGED <<pc, call, posted, completed, stream, gpu, outcome, server, srv, served, back,
                   raised, agreed>>

BackArrives ==
    /\ back > 0
    /\ back' = back - 1
    /\ count' = count + 1
    /\ cpu' = "remote"
    /\ UNCHANGED <<pc, call, posted, completed, stream, gpu, outcome, server, srv, served, received,
                   wire, raised, agreed>>

CopyDone ==
    /\ stream # <<>>
    /\ gpu' = Head(stream)
    /\ stream' = Tail(stream)
    /\ UNCHANGED <<pc, call, posted, completed, count, cpu, outcome, srvSide, wire, raised, agreed>>

Client ==
    \/ ClearCompleted \/ ConnSync \/ Invoke \/ WaitAll \/ AnswerCompletion
    \/ Drain \/ LocalProcess \/ ReadGpuMemory \/ Leave

Server == ServerClears \/ ServerAnswers

Next ==
    \/ \E k \in Kinds, write \in BOOLEAN, transfers \in 1 .. MaxTransfers :
           Call(k, write, transfers)
    \/ Refuse \/ Client \/ Raise \/ Destroy
    \/ Server \/ TransferArrives \/ BackArrives \/ CopyDone

Spec == Init /\ [][Next]_vars

\* Both hosts run, transfers arrive while the server is there, and copies are
\* done.  The script need not make another call, nor end.
FairSpec ==
    /\ Spec
    /\ WF_vars(Client) /\ WF_vars(Server) /\ WF_vars(CopyDone)
    /\ WF_vars(srv # "over" /\ TransferArrives) /\ WF_vars(srv # "over" /\ BackArrives)
-----------------------------------------------------------------------------
\* Transfers of the current call that are under way.
Outstanding == {i \in 1 .. Len(wire) : wire[i].call = calls}

\* A call that returns has its data, none of its transfers is still under way,
\* as long as the calls of the script were what the server was started for and
\* none has raised: clearCompleted and the loops over completions keep the calls
\* of a script apart. ("Read data via RDMA, process it, then transfer to GPU".)
CompleteUnlessRaised ==
    outcome = "returned" /\ kind \in RdmaKinds /\ agreed /\ ~raised
        => Outstanding = {} /\ back = 0

\* What a call of this kind leaves on the GPU.
ResultOf(k) ==
    CASE k = "cpu_gpu" -> "remote"
      [] k \in {"process", "local"} -> "processed"
      [] k = "async" -> "truncated"

\* When a call returns the GPU has its result, and no copy of this or of an
\* earlier call, one that raised included, is still queued to change it;
\* whatever the server and the transfers under way do.
GpuSettled ==
    outcome = "returned" /\ kind \notin {"cpu", "read_gpu"}
        => stream = <<>> /\ gpu = ResultOf(kind)

\* rdma_cpu compares by !=: with transfers left over from a call that raised its
\* counter may step past the number it waits for between two looks.
SteppedPast == kind = "cpu" /\ count > n

\* A call ends if the script's calls so far were what the server was started
\* for, whatever calls that raised have left under way; the only one that may
\* spin for good is an rdma_cpu whose counter has stepped past its number.
CallsEnd == [](pc = "clear" => <>(pc = "idle" \/ ~agreed \/ (raised /\ SteppedPast)))

\* If its calls were what the server was started for, one that raised included,
\* the script ends: the destructor finds the server at a connSync, the final one
\* if the script has made all runs, and then the server ends too.  If it has
\* made fewer, because a size was refused or its loops are others than the
\* server's, it takes a run's connSync for the final one, and the server waits
\* for good (~RDMAClient, main of the server).
EndTogether ==
    /\ [](pc = "leave" /\ agreed => <>(pc = "done"))
    /\ [](pc = "leave" /\ agreed /\ served = Runs => <>(srv = "over"))
    /\ [](pc = "leave" /\ agreed /\ served < Runs => [](srv # "over"))
=============================================================================
