----------------------------- MODULE SwBaseline -----------------------------
(***************************************************************************)
(* The software baseline of the AES experiment: client and server of       *)
(* software_baseline/, each with one completion queue behind a completion  *)
(* channel, and the reliable RDMA connection that they set up.             *)
(*                                                                         *)
(* In each trial the client encrypts its buffer, WRITEs it to the server   *)
(* and SENDs a flag with its size; the server decrypts and encrypts it     *)
(* again with its own IV, WRITEs it back and SENDs the flag back; the      *)
(* client decrypts.  Every completion is awaited by the same three calls:  *)
(* ibv_get_cq_event, ibv_req_notify_cq, ibv_poll_cq for one entry.  Which  *)
(* operation the polled entry belongs to is never looked at.               *)
(*                                                                         *)
(* External, from libibverbs: a completion entry raises a channel event    *)
(* only if the queue is armed when the entry is added, and disarms it; a   *)
(* connection delivers in order; a SEND that meets no posted receive fails *)
(* at the sender, whose connection parameters leave rnr_retry_count at 0.  *)
(* From librdmacm: rdma_connect, rdma_accept and the client's librdmacm    *)
(* send a request, a reply and a confirmation; with the reply both ends    *)
(* can carry data, whatever the server has been told.                      *)
(***************************************************************************)
EXTENDS Naturals, Sequences

CONSTANTS
    client, server,
    NUM_TRAIL,   \* trials of one message size
    MAX_SIZE     \* number of message sizes, START_SIZE .. MAX_BUF_SIZE

Procs == {client, server}

ASSUME ProcsAssumption == client # server
ASSUME TrialsAssumption == NUM_TRAIL \in Nat \ {0} /\ MAX_SIZE \in Nat \ {0}

VARIABLES
    pc,       \* the call a process is about to make
    stage,    \* the completion it believes it is waiting for
    sz,       \* its message size, as an index
    trial,    \* its trial of that size
    flag,     \* its notify_flag
    buf,      \* its buffer: the size last put there and the layers of AES on it
    cq,       \* its completion queue
    armed,    \* its queue raises an event for the next entry
    events,   \* events in its completion channel
    recvs,    \* receives it has posted and that are not consumed
    wire,     \* its send requests that the peer's NIC has not yet executed
    acks,     \* answers to them that have not yet reached its NIC
    cm,       \* the last message of the connection managers
    exited    \* the programs that returned because a call failed, at their pc

progress == <<pc, stage, sz, trial>>
memory   == <<flag, buf>>
queues   == <<cq, armed, events>>
state == <<progress, memory, queues, recvs, wire, acks, cm>>
vars == <<state, exited>>

Peer(p) == IF p = client THEN server ELSE client

Sizes == 1 .. MAX_SIZE
SetUp == {"resolve", "route", "listen", "create", "connect", "accept", "establish"}
Calls == SetUp \cup
         {"encrypt", "serve", "write", "send", "wait", "arm", "poll",
          "decrypt", "repost", "done", "failed"}
Stages == {"WRITE", "SEND", "NOTIFY"}
Entries == [op : {"WRITE", "SEND", "RECV"}, status : {"success", "error"}]
Requests == [op : {"WRITE", "SEND"}, size : Sizes]

Typed ==
    /\ pc \in [Procs -> Calls]
    /\ stage \in [Procs -> Stages]
    /\ sz \in [Procs -> Sizes]
    /\ trial \in [Procs -> 0 .. NUM_TRAIL - 1]
    /\ flag \in [Procs -> 0 .. MAX_SIZE]
    /\ buf \in [Procs -> [size : 0 .. MAX_SIZE, layers : SUBSET Procs]]
    /\ cq \in [Procs -> Seq(Entries)]
    /\ armed \in [Procs -> BOOLEAN]
    /\ events \in [Procs -> Nat]
    /\ recvs \in [Procs -> Nat]
    /\ wire \in [Procs -> Seq(Requests)]
    /\ acks \in [Procs -> Seq(Entries)]
    /\ cm \in {"none", "request", "reply", "confirmation"}

TypeOK == Typed /\ exited \subseteq Procs

-----------------------------------------------------------------------------
\* The server listens, the client has an address to resolve.
Init ==
    /\ pc = [p \in Procs |-> IF p = client THEN "resolve" ELSE "listen"]
    /\ stage = [p \in Procs |-> "NOTIFY"]
    /\ sz = [p \in Procs |-> 1]
    /\ trial = [p \in Procs |-> 0]
    /\ flag = [p \in Procs |-> 0]
    /\ buf = [p \in Procs |-> [size |-> 0, layers |-> {}]]
    /\ cq = [p \in Procs |-> <<>>]
    /\ armed = [p \in Procs |-> FALSE]
    /\ events = [p \in Procs |-> 0]
    /\ recvs = [p \in Procs |-> 0]
    /\ wire = [p \in Procs |-> <<>>]
    /\ acks = [p \in Procs |-> <<>>]
    /\ cm = "none"
    /\ exited = {}

LastTrial(p) == sz[p] = MAX_SIZE /\ trial[p] = NUM_TRAIL - 1

Goto(p, call) == pc' = [pc EXCEPT ![p] = call]

\* AES with p's IV, over a buffer that has it (decrypts) or has not (encrypts).
Toggle(layers, p) == (layers \ {p}) \cup ({p} \ layers)

\* Mutant: the trial is not reset when the size changes.
NextTrialUnreset(p, call) ==
    /\ Goto(p, IF LastTrial(p) THEN "done" ELSE call)
    /\ trial' = [trial EXCEPT ![p] = IF LastTrial(p) THEN @ ELSE @ + 1]
    /\ sz' = [sz EXCEPT ![p] = IF trial[p] = NUM_TRAIL - 1 /\ ~LastTrial(p)
                                THEN @ + 1 ELSE @]

\* The loop over trials and sizes goes round or ends.
NextTrial(p, call) ==
    /\ Goto(p, IF LastTrial(p) THEN "done" ELSE call)
    /\ trial' = [trial EXCEPT ![p] = IF LastTrial(p) THEN @ ELSE (@ + 1) % NUM_TRAIL]
    /\ sz' = [sz EXCEPT ![p] = IF trial[p] = NUM_TRAIL - 1 /\ ~LastTrial(p)
                                THEN @ + 1 ELSE @]

-----------------------------------------------------------------------------
(***************************************************************************)
(* The connection is set up.                                               *)
(***************************************************************************)
\* rdma_resolve_addr and rdma_resolve_route, each with its event.
Resolve ==
    /\ pc[client] \in {"resolve", "route"}
    /\ Goto(client, IF pc[client] = "resolve" THEN "route" ELSE "create")
    /\ UNCHANGED <<stage, sz, trial, memory, queues, recvs, wire, acks, cm>>

\* The server's first event, with the client's buffer and IV.
ConnectRequest ==
    /\ pc[server] = "listen"
    /\ cm = "request"
    /\ Goto(server, "create")
    /\ UNCHANGED <<stage, sz, trial, memory, queues, recvs, wire, acks, cm>>

\* Mutant: no receive is posted before the connection.
CreateQpUnreceived(p) ==
    /\ pc[p] = "create"
    /\ armed' = [armed EXCEPT ![p] = TRUE]
    /\ Goto(p, IF p = client THEN "connect" ELSE "accept")
    /\ UNCHANGED <<stage, sz, trial, memory, cq, events, recvs, wire, acks, cm>>

\* Queue, buffer and queue pair are made; the queue is armed and a receive for
\* the flag is posted.
CreateQp(p) ==
    /\ pc[p] = "create"
    /\ armed' = [armed EXCEPT ![p] = TRUE]
    /\ recvs' = [recvs EXCEPT ![p] = @ + 1]
    /\ Goto(p, IF p = client THEN "connect" ELSE "accept")
    /\ UNCHANGED <<stage, sz, trial, memory, cq, events, wire, acks, cm>>

\* rdma_connect and rdma_accept give the peer what it needs to WRITE here.
Connect(p) ==
    /\ pc[p] = IF p = client THEN "connect" ELSE "accept"
    /\ cm' = IF p = client THEN "request" ELSE "reply"
    /\ Goto(p, "establish")
    /\ UNCHANGED <<stage, sz, trial, memory, queues, recvs, wire, acks>>

\* The event that the connection is established: at the client once the reply is
\* there, at the server once the client has confirmed it, some time later.
Established(p) ==
    /\ pc[p] = "establish"
    /\ cm = IF p = client THEN "reply" ELSE "confirmation"
    /\ cm' = "confirmation"
    /\ Goto(p, IF p = client THEN "encrypt" ELSE "wait")
    /\ UNCHANGED <<stage, sz, trial, memory, queues, recvs, wire, acks>>

SetUpStep(p) ==
    \/ p = client /\ Resolve
    \/ p = server /\ ConnectRequest
    \/ CreateQp(p) \/ Connect(p) \/ Established(p)

-----------------------------------------------------------------------------
(***************************************************************************)
(* The programs.                                                           *)
(***************************************************************************)
Encrypt ==
    /\ pc[client] = "encrypt"
    /\ buf' = [buf EXCEPT ![client] = [size |-> sz[client],
                                       layers |-> Toggle(@.layers, client)]]
    /\ flag' = [flag EXCEPT ![client] = sz[client]]
    /\ Goto(client, "write")
    /\ UNCHANGED <<stage, sz, trial, queues, recvs, wire, acks, cm>>

\* Mutant: the server encrypts with the client's IV again.
ServeClientIv ==
    /\ pc[server] = "serve"
    /\ buf' = [buf EXCEPT ![server].layers = Toggle(Toggle(@, client), client)]
    /\ Goto(server, "write")
    /\ UNCHANGED <<stage, sz, trial, flag, queues, recvs, wire, acks, cm>>

\* The server decrypts and encrypts as many bytes as the flag says; a flag of
\* another size than the buffer's leaves part of it as it was.
Serve ==
    /\ pc[server] = "serve"
    /\ buf' = IF flag[server] = buf[server].size
              THEN [buf EXCEPT ![server].layers = Toggle(Toggle(@, client), server)]
              ELSE [buf EXCEPT ![server].layers = Procs]
    /\ Goto(server, "write")
    /\ UNCHANGED <<stage, sz, trial, flag, queues, recvs, wire, acks, cm>>

Decrypt ==
    /\ pc[client] = "decrypt"
    /\ buf' = [buf EXCEPT ![client].layers = Toggle(@, server)]
    /\ IF LastTrial(client) THEN Goto(client, "done") ELSE Goto(client, "repost")
    /\ UNCHANGED <<stage, sz, trial, flag, queues, recvs, wire, acks, cm>>

\* Mutant: the WRITE is not awaited before the SEND.
PostWriteUnawaited(p) ==
    /\ pc[p] = "write"
    /\ wire' = [wire EXCEPT ![p] = Append(@,
           [op |-> "WRITE", size |-> IF p = client THEN sz[p] ELSE flag[p]])]
    /\ Goto(p, "send")
    /\ UNCHANGED <<stage, sz, trial, memory, queues, recvs, acks, cm>>

\* sge.length is the client's trial size, or what the server was told.
PostWrite(p) ==
    /\ pc[p] = "write"
    /\ wire' = [wire EXCEPT ![p] = Append(@,
           [op |-> "WRITE", size |-> IF p = client THEN sz[p] ELSE flag[p]])]
    /\ stage' = [stage EXCEPT ![p] = "WRITE"]
    /\ Goto(p, "wait")
    /\ UNCHANGED <<sz, trial, memory, queues, recvs, acks, cm>>

\* The server posts its next receive after the SEND, before it waits for it.
PostSend(p) ==
    /\ pc[p] = "send"
    /\ wire' = [wire EXCEPT ![p] = Append(@, [op |-> "SEND", size |-> 1])]
    /\ stage' = [stage EXCEPT ![p] = "SEND"]
    /\ IF p = server /\ ~LastTrial(p) THEN Goto(p, "repost") ELSE Goto(p, "wait")
    /\ UNCHANGED <<sz, trial, memory, queues, recvs, acks, cm>>

PostRecv(p) ==
    /\ pc[p] = "repost"
    /\ recvs' = [recvs EXCEPT ![p] = @ + 1]
    /\ \/ p = server /\ Goto(p, "wait") /\ UNCHANGED <<sz, trial>>
       \/ p = client /\ NextTrial(p, "encrypt")
    /\ UNCHANGED <<stage, memory, queues, wire, acks, cm>>

\* ibv_get_cq_event blocks until the channel has an event.
GetCqEvent(p) ==
    /\ pc[p] = "wait"
    /\ events[p] > 0
    /\ events' = [events EXCEPT ![p] = @ - 1]
    /\ Goto(p, "arm")
    /\ UNCHANGED <<stage, sz, trial, memory, cq, armed, recvs, wire, acks, cm>>

\* ibv_req_notify_cq, left out before the very last poll of a program.
FinalWait(p) ==
    LastTrial(p) /\ stage[p] = (IF p = client THEN "NOTIFY" ELSE "SEND")

ReqNotifyCq(p) ==
    /\ pc[p] = "arm"
    /\ armed' = [armed EXCEPT ![p] = @ \/ ~FinalWait(p)]
    /\ Goto(p, "poll")
    /\ UNCHANGED <<stage, sz, trial, memory, cq, events, recvs, wire, acks, cm>>

\* Mutant: the client does not wait for the server's flag.
AfterPollNoNotify(p) ==
    CASE stage[p] = "WRITE" ->
            Goto(p, "send") /\ UNCHANGED <<stage, sz, trial>>
      [] stage[p] = "NOTIFY" ->
            Goto(p, IF p = client THEN "decrypt" ELSE "serve")
            /\ UNCHANGED <<stage, sz, trial>>
      [] stage[p] = "SEND" ->
            /\ stage' = [stage EXCEPT ![p] = "NOTIFY"]
            /\ \/ p = client /\ Goto(p, "decrypt") /\ UNCHANGED <<sz, trial>>
               \/ p = server /\ NextTrial(p, "wait")

\* What follows the poll that ends each wait.
AfterPoll(p) ==
    CASE stage[p] = "WRITE" ->
            Goto(p, "send") /\ UNCHANGED <<stage, sz, trial>>
      [] stage[p] = "NOTIFY" ->
            Goto(p, IF p = client THEN "decrypt" ELSE "serve")
            /\ UNCHANGED <<stage, sz, trial>>
      [] stage[p] = "SEND" ->
            /\ stage' = [stage EXCEPT ![p] = "NOTIFY"]
            /\ \/ p = client /\ Goto(p, "wait") /\ UNCHANGED <<sz, trial>>
               \/ p = server /\ NextTrial(p, "wait")

\* Mutant: the poll drains the queue.
PollCqDrains(p) ==
    /\ pc[p] = "poll"
    /\ IF cq[p] # <<>> /\ Head(cq[p]).status = "success"
       THEN AfterPoll(p)
       ELSE Goto(p, "failed") /\ UNCHANGED <<stage, sz, trial>>
    /\ cq' = [cq EXCEPT ![p] = <<>>]
    /\ UNCHANGED <<memory, armed, events, recvs, wire, acks, cm>>

\* ibv_poll_cq for one entry: an entry that is not there or not a success
\* ends the program.
PollCq(p) ==
    /\ pc[p] = "poll"
    /\ IF cq[p] # <<>> /\ Head(cq[p]).status = "success"
       THEN AfterPoll(p)
       ELSE Goto(p, "failed") /\ UNCHANGED <<stage, sz, trial>>
    /\ cq' = [cq EXCEPT ![p] = IF @ = <<>> THEN @ ELSE Tail(@)]
    /\ UNCHANGED <<memory, armed, events, recvs, wire, acks, cm>>

Program(p) ==
    \/ SetUpStep(p)
    \/ p = client /\ (Encrypt \/ Decrypt)
    \/ p = server /\ Serve
    \/ PostWrite(p) \/ PostSend(p) \/ PostRecv(p)
    \/ GetCqEvent(p) \/ ReqNotifyCq(p) \/ PollCq(p)

\* The calls that may return an error, or in the set-up another event than the
\* one expected.
MayFail == SetUp \cup {"write", "send", "repost", "wait", "arm", "poll"}

\* The program returns -1 then, and is gone from this call on. What it had posted
\* is still carried out, as after an entry that makes it return.
CallFails(p) ==
    /\ p \notin exited
    /\ pc[p] \in MayFail
    /\ exited' = exited \cup {p}
    /\ UNCHANGED state

ProgramStep(p) == p \notin exited /\ Program(p) /\ UNCHANGED exited

-----------------------------------------------------------------------------
(***************************************************************************)
(* The established connection.                                             *)
(***************************************************************************)
Complete(p, entry) ==
    /\ cq' = [cq EXCEPT ![p] = Append(@, entry)]
    /\ events' = [events EXCEPT ![p] = IF armed[p] THEN @ + 1 ELSE @]
    /\ armed' = [armed EXCEPT ![p] = FALSE]

Answer(p, op, status) ==
    /\ acks' = [acks EXCEPT ![p] = Append(@, [op |-> op, status |-> status])]
    /\ wire' = [wire EXCEPT ![p] = IF status = "success" THEN Tail(@) ELSE <<>>]

\* p's WRITE is executed in the peer's memory, which does not notice.
WriteArrives(p) ==
    /\ wire[p] # <<>>
    /\ Head(wire[p]).op = "WRITE"
    /\ buf' = [buf EXCEPT ![Peer(p)] = [size |-> Head(wire[p]).size,
                                        layers |-> buf[p].layers]]
    /\ Answer(p, "WRITE", "success")
    /\ UNCHANGED <<progress, flag, queues, recvs, cm>>

\* p's SEND consumes a receive of the peer.
SendArrives(p) ==
    /\ wire[p] # <<>>
    /\ Head(wire[p]).op = "SEND"
    /\ recvs[Peer(p)] > 0
    /\ recvs' = [recvs EXCEPT ![Peer(p)] = @ - 1]
    /\ flag' = [flag EXCEPT ![Peer(p)] = flag[p]]
    /\ Complete(Peer(p), [op |-> "RECV", status |-> "success"])
    /\ Answer(p, "SEND", "success")
    /\ UNCHANGED <<progress, buf, cm>>

SendFindsNoReceive(p) ==
    /\ wire[p] # <<>>
    /\ Head(wire[p]).op = "SEND"
    /\ recvs[Peer(p)] = 0
    /\ Answer(p, "SEND", "error")
    /\ UNCHANGED <<progress, memory, queues, recvs, cm>>

\* The oldest answer reaches p's NIC and becomes a completion entry.
AckArrives(p) ==
    /\ acks[p] # <<>>
    /\ Complete(p, Head(acks[p]))
    /\ acks' = [acks EXCEPT ![p] = Tail(@)]
    /\ UNCHANGED <<progress, memory, recvs, wire, cm>>

Network(p) == WriteArrives(p) \/ SendArrives(p) \/ SendFindsNoReceive(p)
              \/ AckArrives(p)

NetworkStep(p) == Network(p) /\ UNCHANGED exited

-----------------------------------------------------------------------------
Next == \E p \in Procs : ProgramStep(p) \/ CallFails(p) \/ NetworkStep(p)

Spec == Init /\ [][Next]_vars

\* Every runnable process runs on, and what is on its way arrives.
Fairness == \A p \in Procs : WF_vars(ProgramStep(p)) /\ WF_vars(NetworkStep(p))

FairSpec == Spec /\ Fairness
-----------------------------------------------------------------------------
(***************************************************************************)
(* Properties.                                                             *)
(***************************************************************************)

\* The completion queue has room for two entries (ibv_create_cq) and the queue
\* pair for two sends and one receive (qp_attr.cap): no schedule, and no late
\* acknowledgement, makes either program or its NIC exceed them.
QueuesSuffice ==
    \A p \in Procs :
        /\ Len(cq[p]) <= 2
        /\ Len(wire[p]) + Len(acks[p]) <= 2
        /\ recvs[p] <= 1

\* An event is always for an entry still in the queue, although the queue is
\* armed before it is polled: ibv_poll_cq never returns 0 after an event, a
\* case both programs treat as an error.
EventsHaveEntries ==
    \A p \in Procs :
        events[p] + (IF pc[p] \in {"arm", "poll"} THEN 1 ELSE 0) <= Len(cq[p])

\* A process has its buffer to itself while it computes on it or sends it:
\* no WRITE of the peer is under way then, whichever completion ended its
\* last wait.
BufferOwned ==
    \A p \in Procs :
        \/ pc[p] \in {"encrypt", "serve", "write", "decrypt"}
        \/ (stage[p] = "WRITE" /\ pc[p] # "failed")
        => \A i \in 1 .. Len(wire[Peer(p)]) : wire[Peer(p)][i].op # "WRITE"

\* After each trial the client has the buffer it started with: every layer of
\* AES was removed, over the size of this trial.
RoundTrip ==
    pc[client] = "repost" \/ pc[client] = "done"
        => buf[client] = [size |-> sz[client], layers |-> {}]

\* A SEND finds no receive in one case only: it is the client's, and the server
\* has sent the flag that the client answers but not yet posted its next receive
\* ("Rearm by ibv_post_recv" comes last). The server's always find one.
RejectedOnlyBeforeRepost ==
    \A p \in Procs :
        wire[p] # <<>> /\ Head(wire[p]).op = "SEND" /\ recvs[Peer(p)] = 0
            => p = client /\ pc[server] = "repost"

\* The client gets through all its trials (unless a program fails): every wait
\* is woken by an event.
TrialsEnd == <>(pc[client] = "done" \/ \E p \in Procs : p \in exited \/ pc[p] = "failed")

Finished == \/ \A p \in Procs : pc[p] = "done"
            \/ \E p \in Procs : p \in exited \/ pc[p] = "failed"

\* p blocks for an event while the completion it waits for is in its queue.
LeftBehind(p) == pc[p] = "wait" /\ events[p] = 0 /\ cq[p] # <<>>

\* Nothing but an entry that raised no event keeps the two programs from their
\* ends: once and for all, they have finished or one of them sleeps on such an
\* entry. In particular they never wait for each other with nothing under way.
FinishOrLeftBehind == <>[](Finished \/ \E p \in Procs : LeftBehind(p))

-----------------------------------------------------------------------------
(***************************************************************************)
(* The programs implement trials in turn.  The data are in the buffer of   *)
(* the end that worked on them last.                                       *)
(***************************************************************************)
\* The server has served the trial that the client is in: it is behind its own
\* Serve there, or in a later trial.
Served ==
    \/ sz[server] > sz[client]
    \/ sz[server] = sz[client] /\ trial[server] > trial[client]
    \/ /\ sz[server] = sz[client] /\ trial[server] = trial[client]
       /\ pc[server] \in {"write", "done"} \/ stage[server] # "NOTIFY"

Phase ==
    IF pc[client] \in {"repost", "done"} THEN "taken"
    ELSE IF pc[client] = "encrypt" \/ cm # "confirmation" THEN "ready"
    ELSE IF Served THEN "answered" ELSE "asked"

Data == IF Phase = "answered" THEN buf[server] ELSE buf[client]

\* The two loops together make one sequence of trials: whichever completion a
\* poll takes for which, the server serves each of the client's trials once, on
\* the whole of its data, and the client takes each answer once.
Trial == INSTANCE Trials WITH phase <- Phase, sz <- sz[client], trial <- trial[client],
                              data <- Data
TrialsSpec == Trial!Spec
=============================================================================
