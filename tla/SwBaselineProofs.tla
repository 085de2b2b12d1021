------------------------- MODULE SwBaselineProofs -------------------------
(***************************************************************************)
(* Proofs about SwBaseline, for every number of trials and of sizes: the   *)
(* types, and that events have entries, queues suffice, buffers are not    *)
(* shared, a SEND is refused in one window only, and every trial gives the *)
(* client its buffer back.                                                 *)
(*                                                                         *)
(* One inductive invariant shows them all.  Its heart is TurnInv: while it *)
(* is the server's turn, the client has a receive posted, nothing under    *)
(* way, and waits for its SEND or for the flag.  CountInv says what each   *)
(* process still gets; TrialInv that the two loops are in step, which is   *)
(* why the server's flag is always the size of the client's trial.         *)
(*                                                                         *)
(* From the same invariant, client and server implement Trials: ServedIff  *)
(* says in the terms of the exchange what the refinement mapping says of   *)
(* the two loops.                                                          *)
(*                                                                         *)
(* The last part is about SwCipher: that the loop of iv_increment adds,    *)
(* unless it loses a carry, and what the threads behind the two calls do.  *)
(***************************************************************************)
EXTENDS SwBaseline, SwCipher, FiniteSetTheorems, WellFoundedInduction, TLAPS

\* Len, folded in the proofs, where the provers then take it for a number.
Size(s) == Len(s)

\* p is somewhere in the three calls that await a completion.
Waits(p) == pc[p] \in {"wait", "arm", "poll"}

\* The request of p that its peer's NIC executes next is a WRITE, or a SEND.
Writes(p) == Size(wire[p]) > 0 /\ Head(wire[p]).op = "WRITE"
Sends(p) == Size(wire[p]) > 0 /\ Head(wire[p]).op = "SEND"

\* The client has written its buffer and waits for its SEND to complete or for the
\* server's flag.
AwaitsFlag == Waits(client) /\ stage[client] \in {"SEND", "NOTIFY"}

\* The requests, answers and completion entries of p that are not consumed.
Coming(p) == Size(wire[p]) + Size(acks[p]) + Size(cq[p])

\* Each event of p, the one it has taken and not yet polled for included, has an
\* entry in the queue.
EventOf(p) ==
    /\ events[p] <= Size(cq[p])
    /\ pc[p] \in {"arm", "poll"} => events[p] + 1 <= Size(cq[p])

EventInv == EventOf(client) /\ EventOf(server)

\* Where in its program p is and the completion it believes it waits for agree.
StageOf(p) ==
    /\ pc[p] \in SetUp \cup {"encrypt", "serve", "write", "decrypt", "done"}
           => stage[p] = "NOTIFY"
    /\ pc[p] = "send" => stage[p] = "WRITE"
    /\ pc[p] = "done" => LastTrial(p)
    /\ pc[p] = "repost" => ~LastTrial(p)

StageInv ==
    /\ StageOf(client) /\ StageOf(server)
    /\ pc[client] \notin {"listen", "accept", "serve"}
    /\ pc[server] \notin {"resolve", "route", "connect", "encrypt", "decrypt"}
    /\ pc[client] = "repost" => stage[client] = "NOTIFY"
    /\ pc[server] = "repost" => stage[server] = "SEND"
    /\ pc[client] = "failed" => stage[client] \in {"NOTIFY", "SEND"}
    /\ pc[server] = "failed" => stage[server] = "NOTIFY"

\* How far the connection managers are, from where the programs are.
SetUpInv ==
    /\ pc[client] \in {"resolve", "route", "create", "connect"} => cm = "none"
    /\ pc[client] = "establish" => cm \in {"request", "reply"}
    /\ pc[client] \notin SetUp \cup {"failed"} => cm = "confirmation"
    /\ pc[server] = "listen" => cm \in {"none", "request"}
    /\ pc[server] \in {"create", "accept"} => cm = "request"
    /\ pc[server] = "establish" => cm \in {"reply", "confirmation"}
    /\ pc[server] \notin SetUp \cup {"failed"} => cm = "confirmation"
    /\ cm = "reply" => recvs[server] = 1

\* How many completions the client still gets from what it has posted.
ClientCount ==
    /\ pc[client] = "failed" => Coming(client) = 0 /\ recvs[client] <= 1
    /\ pc[client] \in {"resolve", "route", "create", "decrypt", "repost", "done"} =>
          Coming(client) = 0 /\ recvs[client] = 0
    /\ pc[client] \in {"connect", "establish", "encrypt", "write", "send"} =>
          Coming(client) = 0 /\ recvs[client] = 1
    /\ Waits(client) /\ stage[client] = "WRITE" => Coming(client) = 1 /\ recvs[client] = 1
    /\ Waits(client) /\ stage[client] = "SEND" =>
          Coming(client) + recvs[client] = 2 /\ recvs[client] <= 1
    /\ Waits(client) /\ stage[client] = "NOTIFY" => Coming(client) + recvs[client] = 1

\* The same of the server, which posts its receive between its SEND and its wait.
ServerCount ==
    /\ recvs[server] <= 1
    /\ pc[server] = "failed" =>
          /\ Coming(server) + recvs[server] <= 1
          /\ cm \in {"reply", "confirmation"} => Coming(server) + recvs[server] = 1
    /\ pc[server] \in SetUp \cup {"failed"} => Size(wire[server]) = 0 /\ Size(acks[server]) = 0
    /\ pc[server] \in {"listen", "create", "serve", "write", "send", "done"} =>
          Coming(server) + recvs[server] = 0
    /\ pc[server] = "accept" => Coming(server) = 0 /\ recvs[server] = 1
    /\ pc[server] = "establish" => Coming(server) + recvs[server] = 1
    /\ pc[server] = "repost" => Coming(server) = 1 /\ recvs[server] = 0
    /\ Waits(server) /\ stage[server] = "WRITE" => Coming(server) = 1 /\ recvs[server] = 0
    /\ Waits(server) /\ stage[server] = "SEND" =>
          /\ (LastTrial(server) => Coming(server) + recvs[server] = 1)
          /\ (~LastTrial(server) => Coming(server) + recvs[server] = 2)
    /\ Waits(server) /\ stage[server] = "NOTIFY" => Coming(server) + recvs[server] = 1

CountInv == ClientCount /\ ServerCount

\* A process has at most one request under way, the one it waits for.
RequestOf(p) ==
    Size(wire[p]) > 0 =>
        /\ Size(wire[p]) = 1 /\ Size(acks[p]) = 0 /\ Size(cq[p]) = 0
        /\ Head(wire[p]).op = stage[p]
        /\ pc[p] \in {"wait", "repost"}

RequestInv == RequestOf(client) /\ RequestOf(server)

\* The answer to the client's SEND is that it found no receive.
Refused == \/ \E i \in 1 .. Size(acks[client]) : acks[client][i].status = "error"
           \/ \E i \in 1 .. Size(cq[client]) : cq[client][i].status = "error"

\* Only the client is ever refused, and then it never gets the server's flag.
StatusInv ==
    /\ \A i \in 1 .. Size(acks[server]) : acks[server][i].status = "success"
    /\ \A i \in 1 .. Size(cq[server]) : cq[server][i].status = "success"
    /\ Refused => Waits(client) /\ stage[client] = "SEND" /\ recvs[client] = 1

\* The server has taken the client's flag and the client has not taken its flag:
\* it is for the server to work.
ServerTurn ==
    \/ Sends(server)
    \/ /\ cm \in {"reply", "confirmation"} /\ recvs[server] = 0
       /\ pc[server] \notin {"repost", "done"}
       /\ ~(stage[server] = "SEND" /\ LastTrial(server))

\* The two never work at the same time.
TurnInv ==
    ServerTurn => AwaitsFlag /\ recvs[client] = 1 /\ Size(wire[client]) = 0 /\ ~Refused

\* The server's flag of this trial is with the client, or on its way.
Answered == recvs[client] = 0 \/ Sends(server)

\* The two are in the same trial, or one is a trial ahead of the other.
Same == sz[client] = sz[server] /\ trial[client] = trial[server]
Ahead(p, q) ==
    /\ ~LastTrial(q)
    /\ trial[p] = IF trial[q] = NUM_TRAIL - 1 THEN 0 ELSE trial[q] + 1
    /\ sz[p] = IF trial[q] = NUM_TRAIL - 1 THEN sz[q] + 1 ELSE sz[q]

\* The trials of the two, from the stages of their exchange.
TrialInv ==
    /\ cm # "confirmation" => Same
    /\ cm = "confirmation" =>
         IF Answered
         THEN IF stage[server] = "SEND" \/ pc[server] = "done" THEN Same ELSE Ahead(server, client)
         ELSE /\ pc[server] # "done"
              /\ IF stage[server] = "SEND" THEN Ahead(client, server) ELSE Same

\* p's buffer has the size of the client's trial and the AES of q alone.
Enc(p, q) == buf[p].size = sz[client] /\ buf[p].layers = {q}

\* The sizes and layers of the client's buffer, flag and WRITE, stage by stage.
ClientData ==
    /\ Writes(client) => Head(wire[client]).size = sz[client]
    /\ pc[client] \in SetUp \cup {"encrypt"} => buf[client].layers = {}
    /\ pc[client] \in {"repost", "done"} => buf[client].size = sz[client] /\ buf[client].layers = {}
    /\ pc[client] = "write" \/ stage[client] = "WRITE" => Enc(client, client)
    /\ pc[client] = "write" \/ stage[client] = "WRITE" \/ AwaitsFlag => flag[client] = sz[client]
    /\ (AwaitsFlag \/ pc[client] = "decrypt") /\ recvs[client] = 0 => Enc(client, server)

\* The same of the server's, and of the client's buffer that it writes.
ServerData ==
    /\ Writes(server) => Head(wire[server]).size = sz[client]
    /\ Sends(client) => Enc(server, client)
    /\ stage[client] = "WRITE" /\ Size(wire[client]) = 0 => Enc(server, client)
    /\ ServerTurn => flag[server] = sz[client]
    /\ ServerTurn /\ pc[server] # "write" /\ stage[server] # "WRITE" /\ ~Sends(server)
          => Enc(server, client)
    /\ pc[server] = "write" \/ stage[server] = "WRITE" => Enc(server, server)
    /\ Sends(server) => Enc(client, server)
    /\ stage[server] = "WRITE" /\ Size(wire[server]) = 0 => Enc(client, server)

DataInv == ClientData /\ ServerData

-----------------------------------------------------------------------------
(***************************************************************************)
(* What the actions change.                                                *)
(***************************************************************************)
\* The trials of one size are counted from 0 and wrap.
LEMMA NextTrialOK ==
    ASSUME NEW t \in 0 .. NUM_TRAIL - 1
    PROVE  (t + 1) % NUM_TRAIL = IF t = NUM_TRAIL - 1 THEN 0 ELSE t + 1
  BY TrialsAssumption

\* A step gives p the value v and leaves the peer's as it was.
Only(p, new, old, v) == new[p] = v /\ new[Peer(p)] = old[Peer(p)]

\* There are two processes, each the peer of the other.
LEMMA Peers ==
    /\ client \in Procs /\ server \in Procs
    /\ Peer(client) = server /\ Peer(server) = client
    /\ \A p \in Procs : Peer(p) \in Procs /\ Peer(p) # p
  BY ProcsAssumption DEF Procs, Peer

\* Appending adds one element at the end.
LEMMA AppendEffect ==
    ASSUME NEW S, NEW s \in Seq(S), NEW e
    PROVE  /\ Size(Append(s, e)) = Size(s) + 1
           /\ Append(s, e)[Size(s) + 1] = e
           /\ \A i \in 1 .. Size(s) : Append(s, e)[i] = s[i]
           /\ Size(s) = 0 => Head(Append(s, e)) = e
  BY DEF Size

\* Goto moves one process.
LEMMA GotoEffect ==
    ASSUME Typed, NEW p \in Procs, NEW c, Goto(p, c)
    PROVE  Only(p, pc', pc, c)
  BY Peers DEF Typed, Goto, Only

\* What Resolve changes, process by process.
LEMMA ResolveEffect ==
    ASSUME Typed, Resolve
    PROVE  Only(client, pc', pc, IF pc[client] = "resolve" THEN "route" ELSE "create")
  BY GotoEffect, Peers DEF Resolve

\* What ConnectRequest changes, process by process.
LEMMA ConnectRequestEffect ==
    ASSUME Typed, ConnectRequest
    PROVE  Only(server, pc', pc, "create")
  BY GotoEffect, Peers DEF ConnectRequest

\* What CreateQp changes, process by process.
LEMMA CreateQpEffect ==
    ASSUME Typed, NEW p \in Procs, CreateQp(p)
    PROVE  /\ Only(p, pc', pc, IF p = client THEN "connect" ELSE "accept")
           /\ Only(p, recvs', recvs, recvs[p] + 1)
           /\ Only(p, armed', armed, TRUE)
  BY GotoEffect, Peers DEF CreateQp, Typed, Only

\* What Connect changes, process by process.
LEMMA ConnectEffect ==
    ASSUME Typed, NEW p \in Procs, Connect(p)
    PROVE  Only(p, pc', pc, "establish")
  BY GotoEffect DEF Connect

\* What Established changes, process by process.
LEMMA EstablishedEffect ==
    ASSUME Typed, NEW p \in Procs, Established(p)
    PROVE  Only(p, pc', pc, IF p = client THEN "encrypt" ELSE "wait")
  BY GotoEffect DEF Established

\* What Encrypt changes, process by process.
LEMMA EncryptEffect ==
    ASSUME Typed, Encrypt
    PROVE  /\ Only(client, pc', pc, "write")
           /\ Only(client, buf', buf, [size |-> sz[client], layers |-> Toggle(buf[client].layers, client)])
           /\ Only(client, flag', flag, sz[client])
  BY GotoEffect, Peers DEF Encrypt, Typed, Only

\* What Serve changes, process by process.
LEMMA ServeEffect ==
    ASSUME Typed, Serve
    PROVE  /\ Only(server, pc', pc, "write")
           /\ buf'[client] = buf[client]
           /\ flag[server] = buf[server].size =>
                buf'[server] = [size |-> buf[server].size, layers |-> Toggle(Toggle(buf[server].layers, client), server)]
<1>1. Only(server, pc', pc, "write")
  BY GotoEffect, Peers DEF Serve
<1>2. buf'[client] = buf[client]
  BY Peers DEF Serve
<1>3. ASSUME flag[server] = buf[server].size
      PROVE buf'[server] = [size |-> buf[server].size, layers |-> Toggle(Toggle(buf[server].layers, client), server)]
  <2> DEFINE l == Toggle(Toggle(buf[server].layers, client), server)
  <2> HIDE DEF l
  <2>1. buf' = [buf EXCEPT ![server].layers = l]
    BY <1>3 DEF Serve, l
  <2>2. buf'[server] = [buf[server] EXCEPT !.layers = l]
    BY <2>1, Peers DEF Typed
  <2>3. buf[server] \in [size : 0 .. MAX_SIZE, layers : SUBSET Procs]
    BY Peers DEF Typed
  <2>. QED
    BY <2>2, <2>3 DEF l
<1>. QED
  BY <1>1, <1>2, <1>3

\* What Decrypt changes, process by process.
LEMMA DecryptEffect ==
    ASSUME Typed, Decrypt
    PROVE  /\ Only(client, pc', pc, IF LastTrial(client) THEN "done" ELSE "repost")
           /\ Only(client, buf', buf, [size |-> buf[client].size, layers |-> Toggle(buf[client].layers, server)])
<1>1. Only(client, pc', pc, IF LastTrial(client) THEN "done" ELSE "repost")
  BY GotoEffect, Peers DEF Decrypt
<1>2. Only(client, buf', buf, [size |-> buf[client].size, layers |-> Toggle(buf[client].layers, server)])
  BY Peers DEF Decrypt, Typed, Only
<1>. QED
  BY <1>1, <1>2

\* What PostWrite changes, process by process.
LEMMA PostWriteEffect ==
    ASSUME Typed, NEW p \in Procs, PostWrite(p)
    PROVE  /\ Only(p, pc', pc, "wait")
           /\ Only(p, stage', stage, "WRITE")
           /\ Size(wire'[p]) = Size(wire[p]) + 1 /\ wire'[Peer(p)] = wire[Peer(p)]
           /\ Size(wire[p]) = 0 => /\ Head(wire'[p]).op = "WRITE"
                                   /\ p = client => Head(wire'[p]).size = sz[p]
                                   /\ p # client => Head(wire'[p]).size = flag[p]
<1> DEFINE request == [op |-> "WRITE", size |-> IF p = client THEN sz[p] ELSE flag[p]]
<1> HIDE DEF request
<1>1. Only(p, pc', pc, "wait")
  BY GotoEffect DEF PostWrite
<1>2. Only(p, stage', stage, "WRITE")
  BY Peers DEF PostWrite, Typed, Only
<1>3. wire'[p] = Append(wire[p], request) /\ wire'[Peer(p)] = wire[Peer(p)]
  BY Peers DEF PostWrite, Typed, request
<1>4. wire[p] \in Seq(Requests)
  BY DEF Typed
<1>5. /\ Size(wire'[p]) = Size(wire[p]) + 1
      /\ Size(wire[p]) = 0 => Head(wire'[p]) = request
  BY <1>3, <1>4, AppendEffect
<1>. QED
  BY <1>1, <1>2, <1>3, <1>5 DEF request

\* What PostSend changes, process by process.
LEMMA PostSendEffect ==
    ASSUME Typed, NEW p \in Procs, PostSend(p)
    PROVE  /\ p = server /\ ~LastTrial(p) => Only(p, pc', pc, "repost")
           /\ p = client \/ LastTrial(p) => Only(p, pc', pc, "wait")
           /\ Only(p, stage', stage, "SEND")
           /\ Size(wire'[p]) = Size(wire[p]) + 1 /\ wire'[Peer(p)] = wire[Peer(p)]
           /\ Size(wire[p]) = 0 => Head(wire'[p]).op = "SEND"
<1>1. /\ p = server /\ ~LastTrial(p) => Only(p, pc', pc, "repost")
      /\ p = client \/ LastTrial(p) => Only(p, pc', pc, "wait")
  BY GotoEffect, ProcsAssumption DEF PostSend
<1> DEFINE request == [op |-> "SEND", size |-> 1]
<1> HIDE DEF request
<1>2. Only(p, stage', stage, "SEND")
  BY Peers DEF PostSend, Typed, Only
<1>3. wire'[p] = Append(wire[p], request) /\ wire'[Peer(p)] = wire[Peer(p)]
  BY Peers DEF PostSend, Typed, request
<1>4. wire[p] \in Seq(Requests)
  BY DEF Typed
<1>5. /\ Size(wire'[p]) = Size(wire[p]) + 1
      /\ Size(wire[p]) = 0 => Head(wire'[p]) = request
  BY <1>3, <1>4, AppendEffect
<1>. QED
  BY <1>1, <1>2, <1>3, <1>5 DEF request

\* The loop goes to the next trial or ends.
LEMMA NextTrialEffect ==
    ASSUME Typed, NEW p \in Procs, NEW c, NextTrial(p, c)
    PROVE  /\ Only(p, pc', pc, IF LastTrial(p) THEN "done" ELSE c)
           /\ sz'[Peer(p)] = sz[Peer(p)] /\ trial'[Peer(p)] = trial[Peer(p)]
           /\ LastTrial(p) => sz'[p] = sz[p] /\ trial'[p] = trial[p]
           /\ ~LastTrial(p) => /\ sz'[p] = IF trial[p] = NUM_TRAIL - 1 THEN sz[p] + 1 ELSE sz[p]
                               /\ trial'[p] = IF trial[p] = NUM_TRAIL - 1 THEN 0 ELSE trial[p] + 1
<1>1. Only(p, pc', pc, IF LastTrial(p) THEN "done" ELSE c)
  BY GotoEffect DEF NextTrial
<1>2. trial[p] \in 0 .. NUM_TRAIL - 1 /\ (trial[p] + 1) % NUM_TRAIL = IF trial[p] = NUM_TRAIL - 1 THEN 0 ELSE trial[p] + 1
  BY NextTrialOK DEF Typed
<1>3. sz'[Peer(p)] = sz[Peer(p)] /\ sz'[p] = IF trial[p] = NUM_TRAIL - 1 /\ ~LastTrial(p) THEN sz[p] + 1 ELSE sz[p]
  BY Peers DEF NextTrial, Typed
<1>4. trial'[Peer(p)] = trial[Peer(p)] /\ trial'[p] = IF LastTrial(p) THEN trial[p] ELSE (trial[p] + 1) % NUM_TRAIL
  BY Peers DEF NextTrial, Typed
<1>. QED
  BY <1>1, <1>2, <1>3, <1>4

\* What PostRecv changes, process by process.
LEMMA PostRecvEffect ==
    ASSUME Typed, NEW p \in Procs, PostRecv(p)
    PROVE  /\ Only(p, recvs', recvs, recvs[p] + 1)
           /\ \/ p = server /\ Only(p, pc', pc, "wait") /\ UNCHANGED <<sz, trial>>
              \/ p = client /\ NextTrial(p, "encrypt")
  BY GotoEffect, Peers DEF PostRecv, Typed, Only

\* What GetCqEvent changes, process by process.
LEMMA GetCqEventEffect ==
    ASSUME Typed, NEW p \in Procs, GetCqEvent(p)
    PROVE  Only(p, pc', pc, "arm") /\ Only(p, events', events, events[p] - 1)
  BY GotoEffect, Peers DEF GetCqEvent, Typed, Only

\* What ReqNotifyCq changes, process by process.
LEMMA ReqNotifyCqEffect ==
    ASSUME Typed, NEW p \in Procs, ReqNotifyCq(p)
    PROVE  Only(p, pc', pc, "poll")
  BY GotoEffect DEF ReqNotifyCq

\* What PollCq changes, process by process.
LEMMA PollCqEffect ==
    ASSUME Typed, NEW p \in Procs, EventOf(p), PollCq(p)
    PROVE  /\ Size(cq[p]) > 0 /\ Size(cq'[p]) = Size(cq[p]) - 1 /\ cq'[Peer(p)] = cq[Peer(p)]
           /\ \A i \in 1 .. Size(cq[p]) - 1 : cq'[p][i] = cq[p][i + 1]
           /\ \/ cq[p][1].status # "success" /\ Only(p, pc', pc, "failed") /\ UNCHANGED <<stage, sz, trial>>
              \/ cq[p][1].status = "success" /\ AfterPoll(p)
<1>1. Size(cq[p]) > 0
  BY DEF PollCq, EventOf, Typed, Size
<1>2. Size(cq'[p]) = Size(cq[p]) - 1 /\ cq'[Peer(p)] = cq[Peer(p)]
  BY <1>1, Peers DEF PollCq, Typed, Size
<1>3. \A i \in 1 .. Size(cq[p]) - 1 : cq'[p][i] = cq[p][i + 1]
  BY DEF PollCq, Typed, Size
<1>4. Head(cq[p]) = cq[p][1] /\ cq[p] # <<>>
  BY <1>1 DEF Size
<1>. QED
  BY <1>1, <1>2, <1>3, <1>4, GotoEffect DEF PollCq

\* What follows a poll, by the completion that was awaited.
LEMMA AfterPollEffect ==
    ASSUME Typed, NEW p \in Procs, AfterPoll(p)
    PROVE  \/ stage[p] = "WRITE" /\ Only(p, pc', pc, "send") /\ UNCHANGED <<stage, sz, trial>>
           \/ /\ stage[p] = "NOTIFY" /\ UNCHANGED <<stage, sz, trial>>
              /\ Only(p, pc', pc, IF p = client THEN "decrypt" ELSE "serve")
           \/ /\ stage[p] = "SEND" /\ Only(p, stage', stage, "NOTIFY")
              /\ \/ p = client /\ Only(p, pc', pc, "wait") /\ UNCHANGED <<sz, trial>>
                 \/ p = server /\ NextTrial(p, "wait")
<1>1. stage[p] \in Stages
  BY DEF Typed
<1>2. CASE stage[p] = "WRITE"
  BY <1>2, GotoEffect DEF AfterPoll
<1>3. CASE stage[p] = "NOTIFY"
  BY <1>3, GotoEffect DEF AfterPoll
<1>4. CASE stage[p] = "SEND"
  <2>1. Only(p, stage', stage, "NOTIFY")
    BY <1>4, Peers DEF AfterPoll, Typed, Only
  <2>. QED
    BY <1>4, <2>1, GotoEffect DEF AfterPoll
<1>. QED
  BY <1>1, <1>2, <1>3, <1>4 DEF Stages

\* A completion is added at the end of the queue.
LEMMA CompleteEffect ==
    ASSUME Typed, NEW p \in Procs, NEW e \in Entries, Complete(p, e)
    PROVE  /\ Size(cq'[p]) = Size(cq[p]) + 1 /\ cq'[Peer(p)] = cq[Peer(p)]
           /\ cq'[p][Size(cq[p]) + 1] = e
           /\ \A i \in 1 .. Size(cq[p]) : cq'[p][i] = cq[p][i]
           /\ Only(p, events', events, IF armed[p] THEN events[p] + 1 ELSE events[p])
<1>1. cq'[p] = Append(cq[p], e) /\ cq'[Peer(p)] = cq[Peer(p)]
  BY Peers DEF Complete, Typed
<1>3. Only(p, events', events, IF armed[p] THEN events[p] + 1 ELSE events[p])
  BY Peers DEF Complete, Typed, Only
<1>4. /\ Size(cq'[p]) = Size(cq[p]) + 1
      /\ cq'[p][Size(cq[p]) + 1] = e
      /\ \A i \in 1 .. Size(cq[p]) : cq'[p][i] = cq[p][i]
  BY <1>1 DEF Size
<1>. QED
  BY <1>1, <1>3, <1>4

\* An answer takes the only request off the wire.
LEMMA AnswerEffect ==
    ASSUME Typed, NEW p \in Procs, NEW op \in {"WRITE", "SEND"}, NEW status \in {"success", "error"},
           Answer(p, op, status), Size(wire[p]) = 1
    PROVE  /\ Size(acks'[p]) = Size(acks[p]) + 1 /\ acks'[Peer(p)] = acks[Peer(p)]
           /\ acks'[p][Size(acks[p]) + 1] = [op |-> op, status |-> status]
           /\ \A i \in 1 .. Size(acks[p]) : acks'[p][i] = acks[p][i]
           /\ Size(wire'[p]) = 0 /\ wire'[Peer(p)] = wire[Peer(p)]
<1>2. /\ acks'[p] = Append(acks[p], [op |-> op, status |-> status])
      /\ acks'[Peer(p)] = acks[Peer(p)]
  BY Peers DEF Answer, Typed
<1>3. wire'[Peer(p)] = wire[Peer(p)] /\ wire'[p] = IF status = "success" THEN Tail(wire[p]) ELSE <<>>
  BY Peers DEF Answer, Typed
<1>4. Size(Tail(wire[p])) = 0 /\ Size(<<>>) = 0
  BY DEF Size
<1>6. /\ Size(acks'[p]) = Size(acks[p]) + 1
      /\ acks'[p][Size(acks[p]) + 1] = [op |-> op, status |-> status]
      /\ \A i \in 1 .. Size(acks[p]) : acks'[p][i] = acks[p][i]
  BY <1>2 DEF Size
<1>. QED
  BY <1>2, <1>3, <1>4, <1>6

\* What WriteArrives changes, process by process.
LEMMA WriteArrivesEffect ==
    ASSUME Typed, NEW p \in Procs, WriteArrives(p)
    PROVE  Size(wire[p]) > 0 /\ Only(Peer(p), buf', buf, [size |-> Head(wire[p]).size, layers |-> buf[p].layers])
<1>1. Size(wire[p]) > 0
  BY DEF WriteArrives, Size
<1>. QED
  BY <1>1, Peers DEF WriteArrives, Typed, Only, Peer, Procs

\* What SendArrives changes, process by process.
LEMMA SendArrivesEffect ==
    ASSUME Typed, NEW p \in Procs, SendArrives(p)
    PROVE  /\ Size(wire[p]) > 0
           /\ Only(Peer(p), recvs', recvs, recvs[Peer(p)] - 1)
           /\ Only(Peer(p), flag', flag, flag[p])
<1>1. Size(wire[p]) > 0
  BY DEF SendArrives, Size
<1>2. Only(Peer(p), recvs', recvs, recvs[Peer(p)] - 1)
  BY Peers DEF SendArrives, Typed, Only, Peer, Procs
<1>3. Only(Peer(p), flag', flag, flag[p])
  BY Peers DEF SendArrives, Typed, Only, Peer, Procs
<1>. QED
  BY <1>1, <1>2, <1>3

\* What AckArrives changes, process by process.
LEMMA AckArrivesEffect ==
    ASSUME Typed, NEW p \in Procs, AckArrives(p)
    PROVE  /\ Size(acks[p]) > 0 /\ Head(acks[p]) = acks[p][1] /\ acks[p][1] \in Entries
           /\ Size(acks'[p]) = Size(acks[p]) - 1 /\ acks'[Peer(p)] = acks[Peer(p)]
           /\ \A i \in 1 .. Size(acks[p]) - 1 : acks'[p][i] = acks[p][i + 1]
<1>1. acks[p] \in Seq(Entries) /\ acks[p] # <<>> /\ acks'[p] = Tail(acks[p]) /\ acks'[Peer(p)] = acks[Peer(p)]
  BY Peers DEF AckArrives, Typed
<1>. QED
  BY <1>1 DEF Size

-----------------------------------------------------------------------------
(***************************************************************************)
(* Types.                                                                  *)
(***************************************************************************)
\* Goto keeps pc in its type.
LEMMA GotoType ==
    ASSUME Typed, NEW p \in Procs, NEW c \in Calls, Goto(p, c)
    PROVE  pc' \in [Procs -> Calls]
  BY DEF Typed, Goto

\* NextTrial keeps sizes and trials in their ranges.
LEMMA NextTrialType ==
    ASSUME Typed, NEW p \in Procs, NEW c \in Calls, NextTrial(p, c)
    PROVE  pc' \in [Procs -> Calls] /\ sz' \in [Procs -> Sizes] /\ trial' \in [Procs -> 0 .. NUM_TRAIL - 1]
<1>1. pc' \in [Procs -> Calls]
  <2>1. "done" \in Calls
    BY DEF Calls
  <2>2. QED
    BY <2>1, GotoType DEF NextTrial
<1>2. trial[p] \in 0 .. NUM_TRAIL - 1 /\ sz[p] \in 1 .. MAX_SIZE
  BY DEF Typed, Sizes
<1>3. trial' \in [Procs -> 0 .. NUM_TRAIL - 1]
  <2>1. (trial[p] + 1) % NUM_TRAIL \in 0 .. NUM_TRAIL - 1
    BY <1>2, TrialsAssumption
  <2>2. QED
    BY <2>1 DEF NextTrial, Typed
<1>4. sz' \in [Procs -> Sizes]
  <2>1. trial[p] = NUM_TRAIL - 1 /\ ~LastTrial(p) => sz[p] + 1 \in Sizes
    BY <1>2, TrialsAssumption DEF LastTrial, Sizes
  <2>2. QED
    BY <2>1 DEF NextTrial, Typed
<1>. QED
  BY <1>1, <1>3, <1>4

\* Complete keeps the queues in their types.
LEMMA CompleteType ==
    ASSUME Typed, NEW p \in Procs, NEW e \in Entries, Complete(p, e)
    PROVE  cq' \in [Procs -> Seq(Entries)] /\ armed' \in [Procs -> BOOLEAN] /\ events' \in [Procs -> Nat]
<1>1. cq' \in [Procs -> Seq(Entries)]
  BY DEF Complete, Typed
<1>2. armed' \in [Procs -> BOOLEAN]
  BY DEF Complete, Typed
<1>3. events' \in [Procs -> Nat]
  BY DEF Complete, Typed
<1>. QED
  BY <1>1, <1>2, <1>3

\* Answer keeps wire and acks in their types.
LEMMA AnswerType ==
    ASSUME Typed, NEW p \in Procs, NEW op \in {"WRITE", "SEND"}, NEW status \in {"success", "error"},
           Answer(p, op, status), wire[p] # <<>>
    PROVE  acks' \in [Procs -> Seq(Entries)] /\ wire' \in [Procs -> Seq(Requests)]
<1>1. [op |-> op, status |-> status] \in Entries
  BY DEF Entries
<1>2. acks' \in [Procs -> Seq(Entries)]
  BY <1>1 DEF Answer, Typed
<1>4. wire' \in [Procs -> Seq(Requests)]
  BY DEF Answer, Typed
<1>. QED
  BY <1>2, <1>4

\* Layers of AES stay a set of processes.
LEMMA ToggleType ==
    ASSUME NEW l \in SUBSET Procs, NEW p \in Procs
    PROVE  Toggle(l, p) \in SUBSET Procs
  BY DEF Toggle

\* The server writes as many bytes as a flag said.
FlagSet == pc[server] = "write" => flag[server] \in Sizes

\* So does the buffer they are on.
LEMMA LayersType ==
    ASSUME Typed, NEW p \in Procs, NEW l \in SUBSET Procs
    PROVE  [buf EXCEPT ![p].layers = l] \in [Procs -> [size : 0 .. MAX_SIZE, layers : SUBSET Procs]]
<1>1. buf \in [Procs -> [size : 0 .. MAX_SIZE, layers : SUBSET Procs]]
  BY DEF Typed
<1>. QED
  BY <1>1

\* Every step keeps the types, if the server never writes under a flag it was not sent.
LEMMA NextType ==
    ASSUME Typed, FlagSet, [Next]_vars
    PROVE  Typed'
<1> USE DEF Calls, SetUp
<1>1. ASSUME Resolve PROVE Typed'
  BY <1>1, GotoType, Peers DEF Resolve, Typed, memory, queues
<1>2. ASSUME ConnectRequest PROVE Typed'
  BY <1>2, GotoType, Peers DEF ConnectRequest, Typed, memory, queues
<1>3. ASSUME NEW p \in Procs, CreateQp(p) PROVE Typed'
  <2>1. recvs' \in [Procs -> Nat] /\ armed' \in [Procs -> BOOLEAN]
    BY <1>3 DEF CreateQp, Typed
  <2>. QED
    BY <1>3, <2>1, GotoType DEF CreateQp, Typed, memory
<1>4. ASSUME NEW p \in Procs, Connect(p) PROVE Typed'
  BY <1>4, GotoType DEF Connect, Typed, memory, queues
<1>5. ASSUME NEW p \in Procs, Established(p) PROVE Typed'
  BY <1>5, GotoType DEF Established, Typed, memory, queues
<1>6. ASSUME UNCHANGED state PROVE Typed'
  BY <1>6 DEF state, progress, memory, queues, Typed
<1>7. ASSUME Encrypt PROVE Typed'
  <2>1. Toggle(buf[client].layers, client) \in SUBSET Procs
    BY ToggleType, Peers DEF Typed
  <2>3. sz[client] \in 0 .. MAX_SIZE
    <3>1. sz[client] \in Sizes
      BY Peers DEF Typed
    <3>. QED
      BY <3>1 DEF Sizes
  <2>2. buf' \in [Procs -> [size : 0 .. MAX_SIZE, layers : SUBSET Procs]] /\ flag' \in [Procs -> 0 .. MAX_SIZE]
    BY <1>7, <2>1, <2>3 DEF Encrypt, Typed
  <2>. QED
    BY <1>7, <2>2, GotoType, Peers DEF Encrypt, Typed, queues
<1>8. ASSUME Decrypt PROVE Typed'
  <2>1. buf' \in [Procs -> [size : 0 .. MAX_SIZE, layers : SUBSET Procs]]
    <3>1. Toggle(buf[client].layers, server) \in SUBSET Procs
      BY ToggleType, Peers DEF Typed
    <3>2. QED
      BY <1>8, <3>1, LayersType, Peers DEF Decrypt
  <2>2. pc' \in [Procs -> Calls]
    BY <1>8, GotoType, Peers DEF Decrypt
  <2>. QED
    BY <1>8, <2>1, <2>2 DEF Decrypt, Typed, queues
<1>9. ASSUME Serve PROVE Typed'
  <2>1. Toggle(Toggle(buf[server].layers, client), server) \in SUBSET Procs /\ Procs \in SUBSET Procs
    BY ToggleType, Peers DEF Typed
  <2>2. buf' \in [Procs -> [size : 0 .. MAX_SIZE, layers : SUBSET Procs]]
    BY <1>9, <2>1, LayersType, Peers DEF Serve
  <2>. QED
    BY <1>9, <2>2, GotoType, Peers DEF Serve, Typed, queues
<1>10. ASSUME NEW p \in Procs, PostWrite(p) PROVE Typed'
  <2>1. stage' \in [Procs -> Stages]
    BY <1>10 DEF PostWrite, Typed, Stages
  <2>2. [op |-> "WRITE", size |-> IF p = client THEN sz[p] ELSE flag[p]] \in Requests
    <3>1. sz[p] \in Sizes /\ (p = server => flag[p] \in Sizes)
      BY <1>10 DEF Typed, PostWrite, FlagSet
    <3>2. QED
      BY <3>1 DEF Requests, Procs
  <2>3. wire' \in [Procs -> Seq(Requests)]
    BY <1>10, <2>2 DEF PostWrite, Typed
  <2>. QED
    BY <1>10, <2>1, <2>3, GotoType DEF PostWrite, Typed, memory, queues
<1>11. ASSUME NEW p \in Procs, PostSend(p) PROVE Typed'
  <2>1. stage' \in [Procs -> Stages]
    BY <1>11 DEF PostSend, Typed, Stages
  <2>2. [op |-> "SEND", size |-> 1] \in Requests
    BY TrialsAssumption DEF Requests, Sizes
  <2>3. wire' \in [Procs -> Seq(Requests)]
    BY <1>11, <2>2 DEF PostSend, Typed
  <2>4. pc' \in [Procs -> Calls]
    BY <1>11, GotoType DEF PostSend
  <2>. QED
    BY <1>11, <2>1, <2>3, <2>4 DEF PostSend, Typed, memory, queues
<1>12. ASSUME NEW p \in Procs, PostRecv(p) PROVE Typed'
  <2>1. recvs' \in [Procs -> Nat]
    BY <1>12 DEF PostRecv, Typed
  <2>2. pc' \in [Procs -> Calls] /\ sz' \in [Procs -> Sizes] /\ trial' \in [Procs -> 0 .. NUM_TRAIL - 1]
    <3>1. CASE Goto(p, "wait") /\ UNCHANGED <<sz, trial>>
      BY <3>1, GotoType DEF Typed
    <3>2. CASE NextTrial(p, "encrypt")
      BY <3>2, NextTrialType
    <3>. QED
      BY <1>12, <3>1, <3>2 DEF PostRecv
  <2>. QED
    BY <1>12, <2>1, <2>2 DEF PostRecv, Typed, memory, queues
<1>13. ASSUME NEW p \in Procs, GetCqEvent(p) PROVE Typed'
  <2>1. events' \in [Procs -> Nat]
    BY <1>13 DEF GetCqEvent, Typed
  <2>. QED
    BY <1>13, <2>1, GotoType DEF GetCqEvent, Typed, memory
<1>14. ASSUME NEW p \in Procs, ReqNotifyCq(p) PROVE Typed'
  <2>1. armed' \in [Procs -> BOOLEAN]
    BY <1>14 DEF ReqNotifyCq, Typed
  <2>. QED
    BY <1>14, <2>1, GotoType DEF ReqNotifyCq, Typed, memory
<1>15. ASSUME NEW p \in Procs, PollCq(p) PROVE Typed'
  <2>1. cq' \in [Procs -> Seq(Entries)]
    BY <1>15 DEF PollCq, Typed
  <2>2. ASSUME AfterPoll(p)
        PROVE  /\ pc' \in [Procs -> Calls] /\ stage' \in [Procs -> Stages]
               /\ sz' \in [Procs -> Sizes] /\ trial' \in [Procs -> 0 .. NUM_TRAIL - 1]
    <3>1. CASE stage[p] \in {"WRITE", "NOTIFY"}
      BY <2>2, <3>1, GotoType, <1>15 DEF AfterPoll, Typed
    <3>2. CASE stage[p] = "SEND"
      <4>1. stage' \in [Procs -> Stages]
        BY <2>2, <3>2 DEF AfterPoll, Typed, Stages
      <4>2. (Goto(p, "wait") /\ UNCHANGED <<sz, trial>>) \/ NextTrial(p, "wait")
        BY <2>2, <3>2 DEF AfterPoll
      <4>3. CASE Goto(p, "wait") /\ UNCHANGED <<sz, trial>>
        BY <4>1, <4>3, GotoType DEF Typed
      <4>4. CASE NextTrial(p, "wait")
        BY <4>1, <4>4, NextTrialType
      <4>. QED
        BY <4>2, <4>3, <4>4
    <3>. QED
      BY <3>1, <3>2 DEF Typed, Stages
  <2>3. ASSUME Goto(p, "failed"), UNCHANGED <<stage, sz, trial>>
        PROVE  /\ pc' \in [Procs -> Calls] /\ stage' \in [Procs -> Stages]
               /\ sz' \in [Procs -> Sizes] /\ trial' \in [Procs -> 0 .. NUM_TRAIL - 1]
    BY <1>15, <2>3, GotoType DEF Typed
  <2>. QED
    BY <1>15, <2>1, <2>2, <2>3 DEF PollCq, Typed, memory
<1>16. ASSUME NEW p \in Procs, WriteArrives(p) PROVE Typed'
  <2>1. acks' \in [Procs -> Seq(Entries)] /\ wire' \in [Procs -> Seq(Requests)]
    BY <1>16, AnswerType DEF WriteArrives
  <2>2. Head(wire[p]).size \in 0 .. MAX_SIZE
    <3>1. Head(wire[p]) \in Requests
      BY <1>16 DEF WriteArrives, Typed
    <3>2. QED
      BY <3>1 DEF Requests, Sizes
  <2>3. buf' \in [Procs -> [size : 0 .. MAX_SIZE, layers : SUBSET Procs]]
    BY <1>16, <2>2, Peers DEF WriteArrives, Typed
  <2>. QED
    BY <1>16, <2>1, <2>3 DEF WriteArrives, Typed, progress, queues
<1>17. ASSUME NEW p \in Procs, SendArrives(p) PROVE Typed'
  <2>1. acks' \in [Procs -> Seq(Entries)] /\ wire' \in [Procs -> Seq(Requests)]
    BY <1>17, AnswerType DEF SendArrives
  <2>2. [op |-> "RECV", status |-> "success"] \in Entries
    BY DEF Entries
  <2>3. cq' \in [Procs -> Seq(Entries)] /\ armed' \in [Procs -> BOOLEAN] /\ events' \in [Procs -> Nat]
    BY <1>17, <2>2, CompleteType, Peers DEF SendArrives
  <2>4. recvs' \in [Procs -> Nat]
    <3>1. recvs[Peer(p)] - 1 \in Nat
      <4>1. recvs[Peer(p)] \in Nat
        BY Peers DEF Typed
      <4>2. recvs[Peer(p)] > 0
        BY <1>17 DEF SendArrives
      <4>. QED
        BY <4>1, <4>2
    <3>. QED
      BY <1>17, <3>1 DEF SendArrives, Typed
  <2>5. flag' \in [Procs -> 0 .. MAX_SIZE]
    BY <1>17, Peers DEF SendArrives, Typed
  <2>. QED
    BY <1>17, <2>1, <2>3, <2>4, <2>5 DEF SendArrives, Typed, progress
<1>18. ASSUME NEW p \in Procs, SendFindsNoReceive(p) PROVE Typed'
  <2>1. acks' \in [Procs -> Seq(Entries)] /\ wire' \in [Procs -> Seq(Requests)]
    BY <1>18, AnswerType DEF SendFindsNoReceive
  <2>. QED
    BY <1>18, <2>1 DEF SendFindsNoReceive, Typed, progress, memory, queues
<1>19. ASSUME NEW p \in Procs, AckArrives(p) PROVE Typed'
  <2>1. Head(acks[p]) \in Entries /\ acks' \in [Procs -> Seq(Entries)]
    BY <1>19 DEF AckArrives, Typed
  <2>2. cq' \in [Procs -> Seq(Entries)] /\ armed' \in [Procs -> BOOLEAN] /\ events' \in [Procs -> Nat]
    BY <1>19, <2>1, CompleteType DEF AckArrives
  <2>. QED
    BY <1>19, <2>1, <2>2 DEF AckArrives, Typed, progress, memory
<1>. QED
  BY <1>1, <1>2, <1>3, <1>4, <1>5, <1>6, <1>7, <1>8, <1>9, <1>10, <1>11, <1>12, <1>13,
     <1>14, <1>15, <1>16, <1>17, <1>18, <1>19
     DEF Next, ProgramStep, CallFails, NetworkStep, vars, Program, SetUpStep, Network

-----------------------------------------------------------------------------
(***************************************************************************)
(* The invariant and the actions.                                          *)
(***************************************************************************)
\* What the provers must know of p's state to reckon with it.
NumbersOf(p) ==
    /\ Size(wire[p]) \in Nat /\ Size(acks[p]) \in Nat /\ Size(cq[p]) \in Nat
    /\ recvs[p] \in Nat /\ events[p] \in Nat
    /\ sz[p] \in Sizes /\ trial[p] \in 0 .. NUM_TRAIL - 1
    /\ pc[p] \in Calls /\ stage[p] \in Stages

\* The counts and indices of both processes are numbers.
LEMMA Numbers ==
    ASSUME Typed
    PROVE  NumbersOf(client) /\ NumbersOf(server)
<1>1. ASSUME NEW p \in Procs PROVE NumbersOf(p)
  BY DEF Typed, NumbersOf, Size
<1>. QED
  BY <1>1, Peers

\* The same after a step.
LEMMA NumbersPrime ==
    ASSUME Typed'
    PROVE  NumbersOf(client)' /\ NumbersOf(server)'
<1>1. ASSUME NEW p \in Procs PROVE NumbersOf(p)'
  BY DEF Typed, NumbersOf, Size
<1>. QED
  BY <1>1, Peers

\* A request is a WRITE or a SEND.
LEMMA HeadOp ==
    ASSUME Typed, NEW p \in Procs, Size(wire[p]) > 0
    PROVE  Head(wire[p]).op \in {"WRITE", "SEND"}
<1>1. wire[p] \in Seq(Requests)
  BY DEF Typed
<1>2. Head(wire[p]) \in Requests
  BY <1>1 DEF Size
<1>. QED
  BY <1>2 DEF Requests

\* An entry is a success or an error.
LEMMA EntryStatus ==
    ASSUME Typed, NEW p \in Procs, Size(cq[p]) > 0
    PROVE  cq[p][1].status \in {"success", "error"}
<1>1. cq[p] \in Seq(Entries)
  BY DEF Typed
<1>2. cq[p][1] \in Entries
  BY <1>1 DEF Size
<1>. QED
  BY <1>2 DEF Entries

\* Numbers that add up to zero are zero.
LEMMA ZeroSum ==
    ASSUME NEW a \in Nat, NEW b \in Nat, NEW c \in Nat, NEW d \in Nat, a + b + c + d = 0
    PROVE  a = 0 /\ b = 0 /\ c = 0 /\ d = 0
  OBVIOUS

\* Where nothing is to come the queues are empty.
LEMMA NothingComing ==
    ASSUME Typed, NEW p \in Procs, Coming(p) + recvs[p] = 0
    PROVE  Size(wire[p]) = 0 /\ Size(acks[p]) = 0 /\ Size(cq[p]) = 0 /\ recvs[p] = 0
<1>1. Size(wire[p]) \in Nat /\ Size(acks[p]) \in Nat /\ Size(cq[p]) \in Nat /\ recvs[p] \in Nat
  BY DEF Typed, Size
<1>. QED
  BY <1>1, ZeroSum DEF Coming

\* The entry of a received SEND is an entry.
LEMMA RecvEntry == [op |-> "RECV", status |-> "success"] \in Entries
  BY DEF Entries

\* What SendFindsNoReceive changes, process by process.
LEMMA SendFindsNoReceiveEffect ==
    ASSUME Typed, NEW p \in Procs, SendFindsNoReceive(p)
    PROVE  Size(wire[p]) > 0
  BY DEF SendFindsNoReceive, Size

\* All of it.
StateInv == /\ EventInv /\ StageInv /\ SetUpInv /\ CountInv /\ RequestInv
            /\ StatusInv /\ TurnInv /\ TrialInv /\ DataInv

\* The server computes, writes or sends.
ServerWorks == pc[server] \in {"serve", "write"} \/ stage[server] = "WRITE" \/ Sends(server)

\* When the server works or sends it is its turn, and the client waits.
LEMMA TurnOfServer ==
    ASSUME Typed, StateInv
    PROVE  ServerWorks => ServerTurn /\ AwaitsFlag /\ recvs[client] = 1
<1> USE Numbers DEF NumbersOf, StateInv, ServerWorks
<1>1. ASSUME pc[server] \in {"serve", "write"} \/ stage[server] = "WRITE" PROVE ServerTurn
  <2>1. pc[server] \in {"serve", "write", "send", "wait", "arm", "poll"}
    BY <1>1 DEF StageInv, StageOf, Calls
  <2>2. recvs[server] = 0
    BY <1>1, <2>1 DEF CountInv, ServerCount, Coming, Waits
  <2>3. cm = "confirmation" /\ stage[server] # "SEND"
    BY <1>1 DEF SetUpInv, SetUp, StageInv, StageOf
  <2>. QED
    BY <2>1, <2>2, <2>3 DEF ServerTurn
<1>2. ServerWorks => ServerTurn
  BY <1>1 DEF ServerTurn
<1>. QED
  BY <1>2 DEF TurnInv

\* Resolve of the client keeps the invariant.
LEMMA ResolveClient ==
    ASSUME Typed, Typed', StateInv, Resolve
    PROVE  StateInv'
<1> USE ProcsAssumption
        DEF StateInv, EventOf, StageOf, RequestOf, Waits, Coming, Sends, Writes,
            ServerWorks, LastTrial, NumbersOf, SetUp
<1>1. pc[client] \in {"resolve", "route"}
  BY DEF Resolve
<1>2. /\ pc'[client] \in {"route", "create"} /\ pc'[server] = pc[server]
  BY ResolveEffect, Peers DEF Only
<1>3. /\ stage' = stage /\ sz' = sz /\ trial' = trial /\ flag' = flag /\ buf' = buf
      /\ cq' = cq /\ events' = events /\ recvs' = recvs /\ wire' = wire /\ acks' = acks
      /\ cm' = cm
  BY DEF Resolve, memory, queues
<1>4. /\ NumbersOf(client) /\ NumbersOf(server) /\ NumbersOf(client)' /\ NumbersOf(server)'
      /\ ServerWorks => ServerTurn /\ AwaitsFlag /\ recvs[client] = 1
  BY Numbers, NumbersPrime, TurnOfServer
<1>5. ServerTurn' => ServerTurn
  BY <1>2, <1>3 DEF ServerTurn
<1>6. EventInv'
  BY <1>2, <1>3 DEF EventInv
<1>7. StageInv'
  BY <1>1, <1>2, <1>3 DEF StageInv
<1>8. SetUpInv'
  BY <1>1, <1>2, <1>3 DEF SetUpInv
<1>9. ClientCount'
  BY <1>1, <1>2, <1>3, <1>4, <1>5 DEF StageInv, CountInv, ClientCount
<1>10. ServerCount'
  BY <1>2, <1>3 DEF CountInv, ServerCount
<1>11. RequestInv'
  BY <1>1, <1>2, <1>3 DEF RequestInv
<1>12. StatusInv'
  BY <1>1, <1>3 DEF StatusInv, Refused
<1>13. TurnInv'
  BY <1>1, <1>2, <1>3, <1>4, <1>5
     DEF StageInv, CountInv, ClientCount, TurnInv, AwaitsFlag, Refused
<1>14. TrialInv'
  BY <1>2, <1>3 DEF TrialInv, Answered, Same, Ahead
<1>15. ClientData'
  BY <1>1, <1>2, <1>3 DEF DataInv, ClientData, AwaitsFlag, Enc
<1>16. ServerData'
  BY <1>2, <1>3, <1>5 DEF DataInv, ServerData, Enc
<1>. QED
  BY <1>6, <1>7, <1>8, <1>9, <1>10, <1>11, <1>12, <1>13, <1>14, <1>15, <1>16
     DEF DataInv, CountInv

\* ConnectRequest of the server keeps the invariant.
LEMMA ConnectRequestServer ==
    ASSUME Typed, Typed', StateInv, ConnectRequest
    PROVE  StateInv'
<1> USE ProcsAssumption
        DEF StateInv, EventOf, StageOf, RequestOf, Waits, Coming, Sends, Writes,
            ServerWorks, LastTrial, NumbersOf, SetUp
<1>1. pc[server] = "listen" /\ cm = "request"
  BY DEF ConnectRequest
<1>2. /\ pc'[server] = "create" /\ pc'[client] = pc[client]
  BY ConnectRequestEffect, Peers DEF Only
<1>3. /\ stage' = stage /\ sz' = sz /\ trial' = trial /\ flag' = flag /\ buf' = buf
      /\ cq' = cq /\ events' = events /\ recvs' = recvs /\ wire' = wire /\ acks' = acks
      /\ cm' = cm
  BY DEF ConnectRequest, memory, queues
<1>5. ServerTurn' => ServerTurn
  BY <1>1, <1>3 DEF ServerTurn
<1>6. EventInv'
  BY <1>2, <1>3 DEF EventInv
<1>7. StageInv'
  BY <1>1, <1>2, <1>3 DEF StageInv
<1>8. SetUpInv'
  BY <1>1, <1>2, <1>3 DEF SetUpInv
<1>9. ClientCount'
  BY <1>2, <1>3 DEF CountInv, ClientCount
<1>10. ServerCount'
  BY <1>1, <1>2, <1>3 DEF CountInv, ServerCount
<1>11. RequestInv'
  BY <1>1, <1>2, <1>3 DEF RequestInv
<1>12. StatusInv'
  BY <1>2, <1>3 DEF StatusInv, Refused
<1>13. TurnInv'
  BY <1>2, <1>3, <1>5 DEF TurnInv, AwaitsFlag, Refused
<1>14. TrialInv'
  BY <1>1, <1>3 DEF TrialInv, Same
<1>15. ClientData'
  BY <1>2, <1>3 DEF DataInv, ClientData, AwaitsFlag, Enc
<1>16. ServerData'
  BY <1>1, <1>2, <1>3, <1>5 DEF DataInv, ServerData, Enc
<1>. QED
  BY <1>6, <1>7, <1>8, <1>9, <1>10, <1>11, <1>12, <1>13, <1>14, <1>15, <1>16
     DEF DataInv, CountInv

\* CreateQp of the client keeps the invariant.
LEMMA CreateQpClient ==
    ASSUME Typed, Typed', StateInv, CreateQp(client)
    PROVE  StateInv'
<1> USE ProcsAssumption
        DEF StateInv, EventOf, StageOf, RequestOf, Waits, Coming, Sends, Writes,
            ServerWorks, LastTrial, NumbersOf, SetUp
<1>1. pc[client] = "create"
  BY DEF CreateQp
<1>2. /\ pc'[client] = "connect" /\ pc'[server] = pc[server]
      /\ recvs'[client] = recvs[client] + 1 /\ recvs'[server] = recvs[server]
  BY <1>1, CreateQpEffect, Peers DEF Only
<1>3. /\ stage' = stage /\ sz' = sz /\ trial' = trial /\ flag' = flag /\ buf' = buf
      /\ cq' = cq /\ events' = events /\ wire' = wire /\ acks' = acks /\ cm' = cm
  BY DEF CreateQp, memory
<1>5. ServerTurn' => ServerTurn
  BY <1>2, <1>3 DEF ServerTurn
<1>6. EventInv'
  BY <1>2, <1>3 DEF EventInv
<1>7. StageInv'
  BY <1>1, <1>2, <1>3 DEF StageInv
<1>8. SetUpInv'
  BY <1>1, <1>2, <1>3 DEF SetUpInv
<1>9. ClientCount'
  BY <1>1, <1>2, <1>3 DEF CountInv, ClientCount
<1>10. ServerCount'
  BY <1>2, <1>3 DEF CountInv, ServerCount
<1>11. RequestInv'
  BY <1>1, <1>2, <1>3 DEF RequestInv
<1>12. StatusInv'
  BY <1>1, <1>3 DEF StatusInv, Refused
<1>13. TurnInv'
  BY <1>1, <1>5 DEF TurnInv, AwaitsFlag
<1>14. TrialInv'
  BY <1>1, <1>3 DEF SetUpInv, TrialInv, Same
<1>15. ClientData'
  BY <1>1, <1>2, <1>3 DEF DataInv, ClientData, AwaitsFlag, Enc
<1>16. ServerData'
  BY <1>2, <1>3, <1>5 DEF DataInv, ServerData, Enc
<1>. QED
  BY <1>6, <1>7, <1>8, <1>9, <1>10, <1>11, <1>12, <1>13, <1>14, <1>15, <1>16
     DEF DataInv, CountInv

\* CreateQp of the server keeps the invariant.
LEMMA CreateQpServer ==
    ASSUME Typed, Typed', StateInv, CreateQp(server)
    PROVE  StateInv'
<1> USE ProcsAssumption
        DEF StateInv, EventOf, StageOf, RequestOf, Waits, Coming, Sends, Writes,
            ServerWorks, LastTrial, NumbersOf, SetUp
<1>1. pc[server] = "create"
  BY DEF CreateQp
<1>2. /\ pc'[server] = "accept" /\ pc'[client] = pc[client]
      /\ recvs'[server] = recvs[server] + 1 /\ recvs'[client] = recvs[client]
  BY <1>1, CreateQpEffect, Peers DEF Only
<1>3. /\ stage' = stage /\ sz' = sz /\ trial' = trial /\ flag' = flag /\ buf' = buf
      /\ cq' = cq /\ events' = events /\ wire' = wire /\ acks' = acks /\ cm' = cm
  BY DEF CreateQp, memory
<1>4. /\ NumbersOf(client) /\ NumbersOf(server) /\ NumbersOf(client)' /\ NumbersOf(server)'
      /\ ServerWorks => ServerTurn /\ AwaitsFlag /\ recvs[client] = 1
  BY Numbers, NumbersPrime, TurnOfServer
<1>5. ServerTurn' => ServerTurn
  BY <1>2, <1>3, <1>4 DEF ServerTurn
<1>6. EventInv'
  BY <1>2, <1>3 DEF EventInv
<1>7. StageInv'
  BY <1>1, <1>2, <1>3 DEF StageInv
<1>8. SetUpInv'
  BY <1>1, <1>2, <1>3 DEF SetUpInv
<1>9. ClientCount'
  BY <1>2, <1>3 DEF CountInv, ClientCount
<1>10. ServerCount'
  BY <1>1, <1>2, <1>3, <1>4 DEF CountInv, ServerCount
<1>11. RequestInv'
  BY <1>1, <1>2, <1>3 DEF RequestInv
<1>12. StatusInv'
  BY <1>2, <1>3 DEF StatusInv, Refused
<1>13. TurnInv'
  BY <1>2, <1>3, <1>5 DEF TurnInv, AwaitsFlag, Refused
<1>14. TrialInv'
  BY <1>1, <1>2, <1>3 DEF TrialInv, Answered, Same, Ahead
<1>15. ClientData'
  BY <1>2, <1>3 DEF DataInv, ClientData, AwaitsFlag, Enc
<1>16. ServerData'
  BY <1>1, <1>2, <1>3, <1>5 DEF DataInv, ServerData, Enc
<1>. QED
  BY <1>6, <1>7, <1>8, <1>9, <1>10, <1>11, <1>12, <1>13, <1>14, <1>15, <1>16
     DEF DataInv, CountInv

\* Connect of the client keeps the invariant.
LEMMA ConnectClient ==
    ASSUME Typed, Typed', StateInv, Connect(client)
    PROVE  StateInv'
<1> USE ProcsAssumption
        DEF StateInv, EventOf, StageOf, RequestOf, Waits, Coming, Sends, Writes,
            ServerWorks, LastTrial, NumbersOf, SetUp
<1>1. pc[client] = "connect"
  BY DEF Connect
<1>2. /\ pc'[client] = "establish" /\ pc'[server] = pc[server]
      /\ cm' = "request"
  BY ConnectEffect, Peers DEF Only, Connect
<1>3. /\ stage' = stage /\ sz' = sz /\ trial' = trial /\ flag' = flag /\ buf' = buf
      /\ cq' = cq /\ events' = events /\ recvs' = recvs /\ wire' = wire /\ acks' = acks
  BY DEF Connect, memory, queues
<1>5. ServerTurn' => ServerTurn
  BY <1>2, <1>3 DEF ServerTurn
<1>6. EventInv'
  BY <1>2, <1>3 DEF EventInv
<1>7. StageInv'
  BY <1>1, <1>2, <1>3 DEF StageInv
<1>8. SetUpInv'
  BY <1>1, <1>2 DEF SetUpInv
<1>9. ClientCount'
  BY <1>1, <1>2, <1>3 DEF CountInv, ClientCount
<1>10. ServerCount'
  BY <1>2, <1>3 DEF CountInv, ServerCount
<1>11. RequestInv'
  BY <1>1, <1>2, <1>3 DEF RequestInv
<1>12. StatusInv'
  BY <1>1, <1>3 DEF StatusInv, Refused
<1>13. TurnInv'
  BY <1>1, <1>5 DEF TurnInv, AwaitsFlag
<1>14. TrialInv'
  BY <1>1, <1>2, <1>3 DEF SetUpInv, TrialInv, Same
<1>15. ClientData'
  BY <1>1, <1>2, <1>3 DEF DataInv, ClientData, AwaitsFlag, Enc
<1>16. ServerData'
  BY <1>2, <1>3, <1>5 DEF DataInv, ServerData, Enc
<1>. QED
  BY <1>6, <1>7, <1>8, <1>9, <1>10, <1>11, <1>12, <1>13, <1>14, <1>15, <1>16
     DEF DataInv, CountInv

\* Connect of the server keeps the invariant.
LEMMA ConnectServer ==
    ASSUME Typed, Typed', StateInv, Connect(server)
    PROVE  StateInv'
<1> USE ProcsAssumption
        DEF StateInv, EventOf, StageOf, RequestOf, Waits, Coming, Sends, Writes,
            ServerWorks, LastTrial, NumbersOf, SetUp
<1>1. pc[server] = "accept"
  BY DEF Connect
<1>2. /\ pc'[server] = "establish" /\ pc'[client] = pc[client]
      /\ cm' = "reply"
  BY ConnectEffect, Peers DEF Only, Connect
<1>3. /\ stage' = stage /\ sz' = sz /\ trial' = trial /\ flag' = flag /\ buf' = buf
      /\ cq' = cq /\ events' = events /\ recvs' = recvs /\ wire' = wire /\ acks' = acks
  BY DEF Connect, memory, queues
<1>4. /\ NumbersOf(client) /\ NumbersOf(server) /\ NumbersOf(client)' /\ NumbersOf(server)'
      /\ ServerWorks => ServerTurn /\ AwaitsFlag /\ recvs[client] = 1
  BY Numbers, NumbersPrime, TurnOfServer
<1>5. /\ Size(wire[server]) = 0 /\ Size(acks[server]) = 0 /\ Size(cq[server]) = 0
      /\ recvs[server] = 1
  BY <1>1, <1>4 DEF CountInv, ServerCount
<1>6. ~ServerTurn'
  BY <1>3, <1>5 DEF ServerTurn
<1>7. EventInv'
  BY <1>2, <1>3 DEF EventInv
<1>8. StageInv'
  BY <1>1, <1>2, <1>3 DEF StageInv
<1>9. SetUpInv'
  BY <1>1, <1>2, <1>3, <1>5 DEF SetUpInv
<1>10. ClientCount'
  BY <1>2, <1>3 DEF CountInv, ClientCount
<1>11. ServerCount'
  BY <1>2, <1>3, <1>5 DEF ServerCount
<1>12. RequestInv'
  BY <1>2, <1>3, <1>5 DEF RequestInv
<1>13. StatusInv'
  BY <1>1, <1>2, <1>3 DEF StatusInv, Refused
<1>14. TurnInv'
  BY <1>6 DEF TurnInv
<1>15. TrialInv'
  BY <1>1, <1>2, <1>3 DEF SetUpInv, TrialInv, Same
<1>16. ClientData'
  BY <1>2, <1>3 DEF DataInv, ClientData, AwaitsFlag, Enc
<1>17. ServerData'
  BY <1>2, <1>3, <1>6 DEF DataInv, ServerData, Enc
<1>. QED
  BY <1>7, <1>8, <1>9, <1>10, <1>11, <1>12, <1>13, <1>14, <1>15, <1>16, <1>17
     DEF DataInv, CountInv

\* Established of the client keeps the invariant.
LEMMA EstablishedClient ==
    ASSUME Typed, Typed', StateInv, Established(client)
    PROVE  StateInv'
<1> USE ProcsAssumption
        DEF StateInv, EventOf, StageOf, RequestOf, Waits, Coming, Sends, Writes,
            ServerWorks, LastTrial, NumbersOf, SetUp
<1>1. pc[client] = "establish" /\ cm = "reply"
  BY DEF Established
<1>2. /\ pc'[client] = "encrypt" /\ pc'[server] = pc[server]
      /\ cm' = "confirmation"
  BY EstablishedEffect, Peers DEF Only, Established
<1>3. /\ stage' = stage /\ sz' = sz /\ trial' = trial /\ flag' = flag /\ buf' = buf
      /\ cq' = cq /\ events' = events /\ recvs' = recvs /\ wire' = wire /\ acks' = acks
  BY DEF Established, memory, queues
<1>4. /\ NumbersOf(client) /\ NumbersOf(server) /\ NumbersOf(client)' /\ NumbersOf(server)'
      /\ ServerWorks => ServerTurn /\ AwaitsFlag /\ recvs[client] = 1
  BY Numbers, NumbersPrime, TurnOfServer
<1>5. recvs[client] = 1 /\ ~ServerWorks
  BY <1>1, <1>4 DEF CountInv, ClientCount, AwaitsFlag
<1>6. pc[server] # "done" /\ stage[server] # "SEND"
  BY <1>1 DEF SetUpInv, StageInv
<1>7. ServerTurn' => ServerTurn
  BY <1>1, <1>2, <1>3 DEF ServerTurn
<1>8. EventInv'
  BY <1>2, <1>3 DEF EventInv
<1>9. StageInv'
  BY <1>1, <1>2, <1>3 DEF StageInv
<1>10. SetUpInv'
  BY <1>1, <1>2 DEF SetUpInv
<1>11. ClientCount'
  BY <1>1, <1>2, <1>3 DEF CountInv, ClientCount
<1>12. ServerCount'
  BY <1>1, <1>2, <1>3 DEF CountInv, ServerCount
<1>13. RequestInv'
  BY <1>1, <1>2, <1>3 DEF RequestInv
<1>14. StatusInv'
  BY <1>1, <1>2, <1>3 DEF StatusInv, Refused
<1>15. TurnInv'
  BY <1>1, <1>7 DEF TurnInv, AwaitsFlag
<1>16. TrialInv'
  BY <1>2, <1>3, <1>5, <1>6 DEF TrialInv, Answered, Same
<1>17. ClientData'
  BY <1>1, <1>2, <1>3 DEF DataInv, ClientData, AwaitsFlag, Enc
<1>18. ServerData'
  BY <1>2, <1>3, <1>7 DEF DataInv, ServerData, Enc
<1>. QED
  BY <1>8, <1>9, <1>10, <1>11, <1>12, <1>13, <1>14, <1>15, <1>16, <1>17, <1>18
     DEF DataInv, CountInv

\* Established of the server keeps the invariant.
LEMMA EstablishedServer ==
    ASSUME Typed, Typed', StateInv, Established(server)
    PROVE  StateInv'
<1> USE ProcsAssumption
        DEF StateInv, EventOf, StageOf, RequestOf, Waits, Coming, Sends, Writes,
            ServerWorks, LastTrial, NumbersOf, SetUp
<1>1. pc[server] = "establish" /\ cm = "confirmation"
  BY DEF Established
<1>2. /\ pc'[server] = "wait" /\ pc'[client] = pc[client]
      /\ cm' = "confirmation"
  BY EstablishedEffect, Peers DEF Only, Established
<1>3. /\ stage' = stage /\ sz' = sz /\ trial' = trial /\ flag' = flag /\ buf' = buf
      /\ cq' = cq /\ events' = events /\ recvs' = recvs /\ wire' = wire /\ acks' = acks
  BY DEF Established, memory, queues
<1>5. ServerTurn' => ServerTurn
  BY <1>1, <1>3 DEF ServerTurn
<1>6. EventInv'
  BY <1>2, <1>3 DEF EventInv
<1>7. StageInv'
  BY <1>2, <1>3 DEF StageInv
<1>8. SetUpInv'
  BY <1>1, <1>2 DEF SetUpInv
<1>9. ClientCount'
  BY <1>2, <1>3 DEF CountInv, ClientCount
<1>10. ServerCount'
  BY <1>1, <1>2, <1>3 DEF StageInv, CountInv, ServerCount
<1>11. RequestInv'
  BY <1>2, <1>3 DEF RequestInv
<1>12. StatusInv'
  BY <1>2, <1>3 DEF StatusInv, Refused
<1>13. TurnInv'
  BY <1>2, <1>3, <1>5 DEF TurnInv, AwaitsFlag, Refused
<1>14. TrialInv'
  BY <1>1, <1>2, <1>3 DEF TrialInv, Answered, Same, Ahead
<1>15. ClientData'
  BY <1>2, <1>3 DEF DataInv, ClientData, AwaitsFlag, Enc
<1>16. ServerData'
  BY <1>1, <1>2, <1>3, <1>5 DEF DataInv, ServerData, Enc
<1>. QED
  BY <1>6, <1>7, <1>8, <1>9, <1>10, <1>11, <1>12, <1>13, <1>14, <1>15, <1>16
     DEF DataInv, CountInv

\* Encrypt of the client keeps the invariant.
LEMMA EncryptClient ==
    ASSUME Typed, Typed', StateInv, Encrypt
    PROVE  StateInv'
<1> USE ProcsAssumption
        DEF StateInv, EventOf, StageOf, RequestOf, Waits, Coming, Sends, Writes,
            ServerWorks, LastTrial, NumbersOf, SetUp, Toggle
<1>1. pc[client] = "encrypt"
  BY DEF Encrypt
<1>2. /\ pc'[client] = "write" /\ pc'[server] = pc[server]
      /\ buf'[client] = [size |-> sz[client], layers |-> Toggle(buf[client].layers, client)]
      /\ buf'[server] = buf[server]
      /\ flag'[client] = sz[client] /\ flag'[server] = flag[server]
  BY EncryptEffect, Peers DEF Only
<1>3. /\ stage' = stage /\ sz' = sz /\ trial' = trial /\ cq' = cq /\ events' = events
      /\ recvs' = recvs /\ wire' = wire /\ acks' = acks /\ cm' = cm
  BY DEF Encrypt, queues
<1>4. /\ NumbersOf(client) /\ NumbersOf(server) /\ NumbersOf(client)' /\ NumbersOf(server)'
      /\ ServerWorks => ServerTurn /\ AwaitsFlag /\ recvs[client] = 1
  BY Numbers, NumbersPrime, TurnOfServer
<1>5. ServerTurn' => ServerTurn
  BY <1>2, <1>3 DEF ServerTurn
<1>6. EventInv'
  BY <1>2, <1>3 DEF EventInv
<1>7. StageInv'
  BY <1>1, <1>2, <1>3 DEF StageInv
<1>8. SetUpInv'
  BY <1>1, <1>2, <1>3 DEF SetUpInv
<1>9. ClientCount'
  BY <1>1, <1>2, <1>3 DEF CountInv, ClientCount
<1>10. ServerCount'
  BY <1>2, <1>3 DEF CountInv, ServerCount
<1>11. RequestInv'
  BY <1>1, <1>2, <1>3 DEF RequestInv
<1>12. StatusInv'
  BY <1>1, <1>3 DEF StatusInv, Refused
<1>13. TurnInv'
  BY <1>1, <1>5 DEF TurnInv, AwaitsFlag
<1>14. TrialInv'
  BY <1>2, <1>3 DEF TrialInv, Answered, Same, Ahead
<1>15. ClientData'
  BY <1>1, <1>2, <1>3 DEF DataInv, ClientData, AwaitsFlag, Enc
<1>16. ServerData'
  BY <1>1, <1>2, <1>3, <1>4, <1>5 DEF DataInv, ServerData, AwaitsFlag, Enc
<1>. QED
  BY <1>6, <1>7, <1>8, <1>9, <1>10, <1>11, <1>12, <1>13, <1>14, <1>15, <1>16
     DEF DataInv, CountInv

\* Decrypt of the client keeps the invariant.
LEMMA DecryptClient ==
    ASSUME Typed, Typed', StateInv, Decrypt
    PROVE  StateInv'
<1> USE ProcsAssumption
        DEF StateInv, EventOf, StageOf, RequestOf, Waits, Coming, Sends, Writes,
            ServerWorks, LastTrial, NumbersOf, SetUp, Toggle
<1>1. pc[client] = "decrypt"
  BY DEF Decrypt
<1>2. /\ pc'[server] = pc[server]
      /\ LastTrial(client) => pc'[client] = "done"
      /\ ~LastTrial(client) => pc'[client] = "repost"
      /\ buf'[client] = [size |-> buf[client].size, layers |-> Toggle(buf[client].layers, server)]
      /\ buf'[server] = buf[server]
  BY DecryptEffect, Peers DEF Only
<1>3. /\ stage' = stage /\ sz' = sz /\ trial' = trial /\ flag' = flag /\ cq' = cq
      /\ events' = events /\ recvs' = recvs /\ wire' = wire /\ acks' = acks /\ cm' = cm
  BY DEF Decrypt, queues
<1>4. /\ NumbersOf(client) /\ NumbersOf(server) /\ NumbersOf(client)' /\ NumbersOf(server)'
      /\ ServerWorks => ServerTurn /\ AwaitsFlag /\ recvs[client] = 1
  BY Numbers, NumbersPrime, TurnOfServer
<1>5. recvs[client] = 0 /\ Size(wire[client]) = 0
  BY <1>1, <1>4 DEF CountInv, ClientCount
<1>6. buf[client].size = sz[client] /\ buf[client].layers = {server}
  BY <1>1, <1>5 DEF DataInv, ClientData, Enc
<1>7. buf'[client].size = sz[client] /\ buf'[client].layers = {}
  BY <1>2, <1>6
<1>8. ServerTurn' => ServerTurn
  BY <1>2, <1>3 DEF ServerTurn
<1>9. EventInv'
  BY <1>2, <1>3 DEF EventInv
<1>10. StageInv'
  BY <1>1, <1>2, <1>3 DEF StageInv
<1>11. SetUpInv'
  BY <1>1, <1>2, <1>3 DEF SetUpInv
<1>12. ClientCount'
  BY <1>1, <1>2, <1>3, <1>4, <1>5, <1>6, <1>7, <1>8 DEF StageInv, CountInv, ClientCount
<1>13. ServerCount'
  BY <1>2, <1>3 DEF CountInv, ServerCount
<1>14. RequestInv'
  BY <1>1, <1>2, <1>3 DEF RequestInv
<1>15. StatusInv'
  BY <1>3, <1>4, <1>5 DEF StatusInv, Refused
<1>16. TurnInv'
  BY <1>5, <1>8 DEF TurnInv
<1>17. TrialInv'
  BY <1>2, <1>3 DEF TrialInv, Answered, Same, Ahead
<1>18. ClientData'
  BY <1>1, <1>2, <1>3, <1>5 DEF DataInv, ClientData, AwaitsFlag, Enc
<1>19. ServerData'
  BY <1>2, <1>3, <1>4, <1>5, <1>6, <1>8 DEF DataInv, ServerData, Enc
<1>. QED
  BY <1>9, <1>10, <1>11, <1>12, <1>13, <1>14, <1>15, <1>16, <1>17, <1>18, <1>19
     DEF DataInv, CountInv

\* Serve of the server keeps the invariant.
LEMMA ServeServer ==
    ASSUME Typed, Typed', StateInv, Serve
    PROVE  StateInv'
<1> USE ProcsAssumption
        DEF StateInv, EventOf, StageOf, RequestOf, Waits, Coming, Sends, Writes,
            ServerWorks, LastTrial, NumbersOf, SetUp, Toggle
<1>1. pc[server] = "serve"
  BY DEF Serve
<1>2. /\ pc'[server] = "write" /\ pc'[client] = pc[client]
      /\ flag[server] = buf[server].size =>
            buf'[server] = [size |-> buf[server].size,
                            layers |-> Toggle(Toggle(buf[server].layers, client), server)]
      /\ buf'[client] = buf[client]
  BY ServeEffect, Peers DEF Only
<1>3. /\ stage' = stage /\ sz' = sz /\ trial' = trial /\ flag' = flag /\ cq' = cq
      /\ events' = events /\ recvs' = recvs /\ wire' = wire /\ acks' = acks /\ cm' = cm
  BY DEF Serve, queues
<1>4. /\ NumbersOf(client) /\ NumbersOf(server) /\ NumbersOf(client)' /\ NumbersOf(server)'
      /\ ServerWorks => ServerTurn /\ AwaitsFlag /\ recvs[client] = 1
  BY Numbers, NumbersPrime, TurnOfServer
<1>5. ServerTurn /\ stage[server] = "NOTIFY" /\ ~Sends(server)
  BY <1>1, <1>4 DEF StageInv, RequestInv
<1>6. /\ buf[server].size = sz[client] /\ buf[server].layers = {client}
      /\ flag[server] = sz[client]
  BY <1>1, <1>5 DEF DataInv, ServerData, Enc
<1>9. EventInv'
  BY <1>2, <1>3 DEF EventInv
<1>10. StageInv'
  BY <1>2, <1>3, <1>5 DEF StageInv
<1>11. SetUpInv'
  BY <1>1, <1>2, <1>3 DEF SetUpInv
<1>12. ClientCount'
  BY <1>2, <1>3 DEF CountInv, ClientCount
<1>13. ServerCount'
  BY <1>1, <1>2, <1>3 DEF CountInv, ServerCount
<1>14. RequestInv'
  BY <1>1, <1>2, <1>3 DEF RequestInv
<1>15. StatusInv'
  BY <1>1, <1>2, <1>3 DEF StatusInv, Refused
<1>16. TurnInv'
  BY <1>1, <1>2, <1>3, <1>4 DEF TurnInv, AwaitsFlag, Refused
<1>17. TrialInv'
  BY <1>1, <1>2, <1>3 DEF TrialInv, Answered, Same, Ahead
<1>18. ClientData'
  BY <1>2, <1>3 DEF DataInv, ClientData, AwaitsFlag, Enc
<1>19. ServerData'
  BY <1>2, <1>3, <1>5, <1>6 DEF TurnInv, AwaitsFlag, DataInv, ServerData, Enc
<1>. QED
  BY <1>9, <1>10, <1>11, <1>12, <1>13, <1>14, <1>15, <1>16, <1>17, <1>18, <1>19
     DEF DataInv, CountInv

\* PostWrite of the client keeps the invariant.
LEMMA PostWriteClient ==
    ASSUME Typed, Typed', StateInv, PostWrite(client)
    PROVE  StateInv'
<1> USE ProcsAssumption
        DEF StateInv, EventOf, StageOf, RequestOf, Waits, Coming, Sends, Writes,
            ServerWorks, LastTrial, NumbersOf, SetUp
<1>1. pc[client] = "write"
  BY DEF PostWrite
<1>2. /\ pc'[client] = "wait" /\ pc'[server] = pc[server]
      /\ stage'[client] = "WRITE" /\ stage'[server] = stage[server]
      /\ Size(wire'[client]) = Size(wire[client]) + 1 /\ wire'[server] = wire[server]
      /\ Size(wire[client]) = 0 => /\ Head(wire'[client]).op = "WRITE"
                                 /\ Head(wire'[client]).size = sz[client]
  BY PostWriteEffect, Peers DEF Only
<1>3. /\ sz' = sz /\ trial' = trial /\ flag' = flag /\ buf' = buf /\ cq' = cq
      /\ events' = events /\ recvs' = recvs /\ acks' = acks /\ cm' = cm
  BY DEF PostWrite, memory, queues
<1>4. /\ NumbersOf(client) /\ NumbersOf(server) /\ NumbersOf(client)' /\ NumbersOf(server)'
      /\ ServerWorks => ServerTurn /\ AwaitsFlag /\ recvs[client] = 1
  BY Numbers, NumbersPrime, TurnOfServer
<1>5. Size(wire[client]) = 0
  BY <1>1, <1>4 DEF CountInv, ClientCount
<1>6. ~ServerTurn /\ ~ServerTurn' /\ ~ServerWorks
  BY <1>1, <1>2, <1>3, <1>4 DEF TurnInv, AwaitsFlag, ServerTurn
<1>7. EventInv'
  BY <1>2, <1>3 DEF EventInv
<1>8. StageInv'
  BY <1>2, <1>3 DEF StageInv
<1>9. SetUpInv'
  BY <1>1, <1>2, <1>3 DEF SetUpInv
<1>10. ClientCount'
  BY <1>1, <1>2, <1>3, <1>4 DEF CountInv, ClientCount
<1>11. ServerCount'
  BY <1>2, <1>3 DEF CountInv, ServerCount
<1>12. RequestInv'
  BY <1>1, <1>2, <1>3, <1>4 DEF CountInv, ClientCount, RequestInv
<1>13. StatusInv'
  BY <1>1, <1>2, <1>3 DEF StatusInv, Refused
<1>14. TurnInv'
  BY <1>6 DEF TurnInv
<1>15. TrialInv'
  BY <1>2, <1>3 DEF TrialInv, Answered, Same, Ahead
<1>16. ClientData'
  BY <1>1, <1>2, <1>3, <1>4, <1>5, <1>6
     DEF StageInv, CountInv, ClientCount, DataInv, ClientData, AwaitsFlag, Enc
<1>17. ServerData'
  BY <1>2, <1>5, <1>6 DEF RequestInv, ServerData
<1>. QED
  BY <1>7, <1>8, <1>9, <1>10, <1>11, <1>12, <1>13, <1>14, <1>15, <1>16, <1>17
     DEF DataInv, CountInv

\* PostWrite of the server keeps the invariant.
LEMMA PostWriteServer ==
    ASSUME Typed, Typed', StateInv, PostWrite(server)
    PROVE  StateInv'
<1> USE ProcsAssumption
        DEF StateInv, EventOf, StageOf, RequestOf, Waits, Coming, Sends, Writes,
            ServerWorks, LastTrial, NumbersOf, SetUp
<1>1. pc[server] = "write"
  BY DEF PostWrite
<1>2. /\ pc'[server] = "wait" /\ pc'[client] = pc[client]
      /\ stage'[server] = "WRITE" /\ stage'[client] = stage[client]
      /\ Size(wire'[server]) = Size(wire[server]) + 1 /\ wire'[client] = wire[client]
      /\ Size(wire[server]) = 0 => /\ Head(wire'[server]).op = "WRITE"
                                 /\ Head(wire'[server]).size = flag[server]
  BY PostWriteEffect, Peers DEF Only
<1>3. /\ sz' = sz /\ trial' = trial /\ flag' = flag /\ buf' = buf /\ cq' = cq
      /\ events' = events /\ recvs' = recvs /\ acks' = acks /\ cm' = cm
  BY DEF PostWrite, memory, queues
<1>4. /\ NumbersOf(client) /\ NumbersOf(server) /\ NumbersOf(client)' /\ NumbersOf(server)'
      /\ ServerWorks => ServerTurn /\ AwaitsFlag /\ recvs[client] = 1
  BY Numbers, NumbersPrime, TurnOfServer
<1>5. Coming(server) + recvs[server] = 0
  BY <1>1 DEF CountInv, ServerCount
<1>6. Size(wire[server]) = 0 /\ Size(acks[server]) = 0 /\ Size(cq[server]) = 0
  BY <1>5, NothingComing, Peers
<1>9. EventInv'
  BY <1>2, <1>3 DEF EventInv
<1>10. StageInv'
  BY <1>2, <1>3 DEF StageInv
<1>11. SetUpInv'
  BY <1>1, <1>2, <1>3 DEF SetUpInv
<1>12. ClientCount'
  BY <1>2, <1>3 DEF CountInv, ClientCount
<1>13. ServerCount'
  BY <1>1, <1>2, <1>3, <1>4 DEF SetUpInv, CountInv, ServerCount
<1>14. RequestInv'
  BY <1>2, <1>3, <1>6 DEF RequestInv
<1>15. StatusInv'
  BY <1>1, <1>2, <1>3 DEF StatusInv, Refused
<1>16. TurnInv'
  BY <1>1, <1>2, <1>3, <1>4 DEF TurnInv, AwaitsFlag, Refused
<1>17. TrialInv'
  BY <1>1, <1>2, <1>3, <1>6 DEF StageInv, TrialInv, Answered, Same, Ahead
<1>18. ClientData'
  BY <1>2, <1>3 DEF DataInv, ClientData, AwaitsFlag, Enc
<1>19. ServerData'
  BY <1>1, <1>2, <1>3, <1>4, <1>5 DEF DataInv, ServerData, Enc
<1>. QED
  BY <1>9, <1>10, <1>11, <1>12, <1>13, <1>14, <1>15, <1>16, <1>17, <1>18, <1>19
     DEF DataInv, CountInv

\* PostSend of the client keeps the invariant.
LEMMA PostSendClient ==
    ASSUME Typed, Typed', StateInv, PostSend(client)
    PROVE  StateInv'
<1> USE ProcsAssumption
        DEF StateInv, EventOf, StageOf, RequestOf, Waits, Coming, Sends, Writes,
            ServerWorks, LastTrial, NumbersOf, SetUp
<1>1. pc[client] = "send"
  BY DEF PostSend
<1>2. /\ pc'[client] = "wait" /\ pc'[server] = pc[server]
      /\ stage'[client] = "SEND" /\ stage'[server] = stage[server]
      /\ Size(wire'[client]) = Size(wire[client]) + 1 /\ wire'[server] = wire[server]
      /\ Size(wire[client]) = 0 => Head(wire'[client]).op = "SEND"
  BY PostSendEffect, Peers DEF Only
<1>3. /\ sz' = sz /\ trial' = trial /\ flag' = flag /\ buf' = buf /\ cq' = cq
      /\ events' = events /\ recvs' = recvs /\ acks' = acks /\ cm' = cm
  BY DEF PostSend, memory, queues
<1>4. /\ NumbersOf(client) /\ NumbersOf(server) /\ NumbersOf(client)' /\ NumbersOf(server)'
      /\ ServerWorks => ServerTurn /\ AwaitsFlag /\ recvs[client] = 1
  BY Numbers, NumbersPrime, TurnOfServer
<1>5. /\ Size(wire[client]) = 0 /\ Size(acks[client]) = 0 /\ Size(cq[client]) = 0
      /\ recvs[client] = 1 /\ stage[client] = "WRITE"
  BY <1>1, <1>4 DEF StageInv, CountInv, ClientCount
<1>6. ~ServerTurn /\ ~ServerTurn' /\ ~ServerWorks
  BY <1>2, <1>3, <1>4, <1>5 DEF TurnInv, AwaitsFlag, ServerTurn
<1>7. EventInv'
  BY <1>2, <1>3 DEF EventInv
<1>8. StageInv'
  BY <1>2, <1>3 DEF StageInv
<1>9. SetUpInv'
  BY <1>2, <1>3, <1>5 DEF StageInv, SetUpInv
<1>10. ClientCount'
  BY <1>2, <1>3, <1>5 DEF ClientCount
<1>11. ServerCount'
  BY <1>2, <1>3 DEF CountInv, ServerCount
<1>12. RequestInv'
  BY <1>2, <1>3, <1>5 DEF RequestInv
<1>13. StatusInv'
  BY <1>3, <1>4, <1>5 DEF StatusInv, Refused
<1>14. TurnInv'
  BY <1>6 DEF TurnInv
<1>15. TrialInv'
  BY <1>2, <1>3 DEF TrialInv, Answered, Same, Ahead
<1>16. ClientData'
  BY <1>2, <1>3, <1>5 DEF DataInv, ClientData
<1>17. ServerData'
  BY <1>2, <1>3, <1>5, <1>6 DEF DataInv, ServerData, Enc
<1>. QED
  BY <1>7, <1>8, <1>9, <1>10, <1>11, <1>12, <1>13, <1>14, <1>15, <1>16, <1>17
     DEF DataInv, CountInv

\* PostSend of the server keeps the invariant.
LEMMA PostSendServer ==
    ASSUME Typed, Typed', StateInv, PostSend(server)
    PROVE  StateInv'
<1> USE ProcsAssumption
        DEF StateInv, EventOf, StageOf, RequestOf, Waits, Coming, Sends, Writes,
            ServerWorks, LastTrial, NumbersOf, SetUp
<1>1. pc[server] = "send"
  BY DEF PostSend
<1>2. /\ pc'[client] = pc[client]
      /\ LastTrial(server) => pc'[server] = "wait"
      /\ ~LastTrial(server) => pc'[server] = "repost"
      /\ stage'[server] = "SEND" /\ stage'[client] = stage[client]
      /\ Size(wire'[server]) = Size(wire[server]) + 1 /\ wire'[client] = wire[client]
      /\ Size(wire[server]) = 0 => Head(wire'[server]).op = "SEND"
  BY PostSendEffect, Peers DEF Only
<1>3. /\ sz' = sz /\ trial' = trial /\ flag' = flag /\ buf' = buf /\ cq' = cq
      /\ events' = events /\ recvs' = recvs /\ acks' = acks /\ cm' = cm
  BY DEF PostSend, memory, queues
<1>4. /\ NumbersOf(client) /\ NumbersOf(server) /\ NumbersOf(client)' /\ NumbersOf(server)'
      /\ ServerWorks => ServerTurn /\ AwaitsFlag /\ recvs[client] = 1
  BY Numbers, NumbersPrime, TurnOfServer
<1>5. Coming(server) + recvs[server] = 0
  BY <1>1 DEF CountInv, ServerCount
<1>6. Size(wire[server]) = 0 /\ Size(acks[server]) = 0 /\ Size(cq[server]) = 0
  BY <1>5, NothingComing, Peers
<1>7. stage[server] = "WRITE"
  BY <1>1 DEF StageInv
<1>8. ServerTurn
  BY <1>4, <1>7
<1>9. ServerTurn' => ServerTurn
  BY <1>8
<1>10. EventInv'
  BY <1>2, <1>3 DEF EventInv
<1>11. StageInv'
  BY <1>2, <1>3 DEF StageInv
<1>12. SetUpInv'
  BY <1>1, <1>2, <1>3 DEF SetUpInv
<1>13. ClientCount'
  BY <1>1, <1>2, <1>3 DEF CountInv, ClientCount
<1>14. ServerCount'
  BY <1>2, <1>3, <1>4, <1>5, <1>6 DEF ServerCount
<1>15. RequestInv'
  BY <1>1, <1>2, <1>3, <1>4, <1>8 DEF CountInv, ServerCount, RequestInv
<1>16. StatusInv'
  BY <1>1, <1>2, <1>3 DEF StatusInv, Refused
<1>17. TurnInv'
  BY <1>2, <1>3, <1>9 DEF TurnInv, AwaitsFlag, Refused
<1>18. TrialInv'
  BY <1>2, <1>3, <1>4, <1>5, <1>7 DEF TrialInv, Answered, Same
<1>19. ClientData'
  BY <1>2, <1>3 DEF DataInv, ClientData, AwaitsFlag, Enc
<1>20. ServerData'
  BY <1>1, <1>2, <1>3, <1>4, <1>6 DEF StageInv, DataInv, ServerData, Enc
<1>. QED
  BY <1>10, <1>11, <1>12, <1>13, <1>14, <1>15, <1>16, <1>17, <1>18, <1>19, <1>20
     DEF DataInv, CountInv

\* PostRecv of the client keeps the invariant.
LEMMA PostRecvClient ==
    ASSUME Typed, Typed', StateInv, PostRecv(client)
    PROVE  StateInv'
<1> USE ProcsAssumption
        DEF StateInv, EventOf, StageOf, RequestOf, Waits, Coming, Sends, Writes,
            ServerWorks, LastTrial, NumbersOf, SetUp
<1>1. pc[client] = "repost"
  BY DEF PostRecv
<1>2. /\ pc'[server] = pc[server]
      /\ LastTrial(client) => pc'[client] = "done"
      /\ ~LastTrial(client) => pc'[client] = "encrypt"
      /\ recvs'[client] = recvs[client] + 1 /\ recvs'[server] = recvs[server]
      /\ sz'[server] = sz[server] /\ trial'[server] = trial[server]
      /\ ~LastTrial(client) =>
            /\ sz'[client] = IF trial[client] = NUM_TRAIL - 1 THEN sz[client] + 1 ELSE sz[client]
            /\ trial'[client] = IF trial[client] = NUM_TRAIL - 1 THEN 0 ELSE trial[client] + 1
  BY PostRecvEffect, NextTrialEffect, Peers DEF Only
<1>3. /\ stage' = stage /\ flag' = flag /\ buf' = buf /\ cq' = cq /\ events' = events
      /\ wire' = wire /\ acks' = acks /\ cm' = cm
  BY DEF PostRecv, memory, queues
<1>4. /\ NumbersOf(client) /\ NumbersOf(server) /\ NumbersOf(client)' /\ NumbersOf(server)'
      /\ ServerWorks => ServerTurn /\ AwaitsFlag /\ recvs[client] = 1
  BY Numbers, NumbersPrime, TurnOfServer
<1>5. ~LastTrial(client) /\ stage[client] = "NOTIFY"
  BY <1>1 DEF StageInv
<1>6. /\ Size(wire[client]) = 0 /\ Size(acks[client]) = 0 /\ Size(cq[client]) = 0
      /\ recvs[client] = 0
  BY <1>1, <1>4 DEF CountInv, ClientCount
<1>7. ~ServerTurn /\ ~ServerTurn' /\ ~ServerWorks
  BY <1>2, <1>3, <1>4, <1>6 DEF TurnInv, ServerTurn
<1>8. /\ cm = "confirmation"
      /\ stage[server] = "SEND" \/ pc[server] = "done" => Same
      /\ stage[server] # "SEND" /\ pc[server] # "done" => Ahead(server, client)
  BY <1>1, <1>6 DEF SetUpInv, TrialInv, Answered
<1>9. pc[server] # "done"
  BY <1>5, <1>8 DEF StageInv, Same
<1>10. EventInv'
  BY <1>2, <1>3 DEF EventInv
<1>11. StageInv'
  BY <1>2, <1>3, <1>5 DEF StageInv
<1>12. SetUpInv'
  BY <1>1, <1>2, <1>3 DEF SetUpInv
<1>13. ClientCount'
  BY <1>2, <1>3, <1>5, <1>6 DEF ClientCount
<1>14. ServerCount'
  BY <1>1, <1>2, <1>3 DEF CountInv, ServerCount
<1>15. RequestInv'
  BY <1>1, <1>2, <1>3 DEF CountInv, ClientCount, RequestInv
<1>16. StatusInv'
  BY <1>3, <1>4, <1>5 DEF StatusInv, Refused
<1>17. TurnInv'
  BY <1>6, <1>7 DEF TurnInv
<1>18. TrialInv'
  BY <1>2, <1>3, <1>5, <1>7, <1>8, <1>9 DEF TrialInv, Answered, Same, Ahead
<1>19. ClientData'
  BY <1>1, <1>2, <1>3, <1>4, <1>5, <1>6 DEF DataInv, ClientData, AwaitsFlag
<1>20. ServerData'
  BY <1>2, <1>3, <1>5, <1>7 DEF RequestInv, ServerData
<1>. QED
  BY <1>10, <1>11, <1>12, <1>13, <1>14, <1>15, <1>16, <1>17, <1>18, <1>19, <1>20
     DEF DataInv, CountInv

\* PostRecv of the server keeps the invariant.
LEMMA PostRecvServer ==
    ASSUME Typed, Typed', StateInv, PostRecv(server)
    PROVE  StateInv'
<1> USE ProcsAssumption
        DEF StateInv, EventOf, StageOf, RequestOf, Waits, Coming, Sends, Writes,
            ServerWorks, LastTrial, NumbersOf, SetUp
<1>1. pc[server] = "repost"
  BY DEF PostRecv
<1>2. /\ pc'[server] = "wait" /\ pc'[client] = pc[client]
      /\ recvs'[server] = recvs[server] + 1 /\ recvs'[client] = recvs[client]
      /\ sz' = sz /\ trial' = trial
  BY PostRecvEffect, Peers DEF Only
<1>3. /\ stage' = stage /\ flag' = flag /\ buf' = buf /\ cq' = cq /\ events' = events
      /\ wire' = wire /\ acks' = acks /\ cm' = cm
  BY DEF PostRecv, memory, queues
<1>4. /\ NumbersOf(client) /\ NumbersOf(server) /\ NumbersOf(client)' /\ NumbersOf(server)'
      /\ ServerWorks => ServerTurn /\ AwaitsFlag /\ recvs[client] = 1
  BY Numbers, NumbersPrime, TurnOfServer
<1>5. ServerTurn' => ServerTurn
  BY <1>2, <1>3, <1>4 DEF ServerTurn
<1>6. EventInv'
  BY <1>2, <1>3 DEF EventInv
<1>7. StageInv'
  BY <1>2, <1>3 DEF StageInv
<1>8. SetUpInv'
  BY <1>1, <1>2, <1>3 DEF SetUpInv
<1>9. ClientCount'
  BY <1>2, <1>3 DEF CountInv, ClientCount
<1>10. ServerCount'
  BY <1>1, <1>2, <1>3 DEF StageInv, CountInv, ServerCount
<1>11. RequestInv'
  BY <1>2, <1>3 DEF RequestInv
<1>12. StatusInv'
  BY <1>2, <1>3 DEF StatusInv, Refused
<1>13. TurnInv'
  BY <1>2, <1>3, <1>5 DEF TurnInv, AwaitsFlag, Refused
<1>14. TrialInv'
  BY <1>1, <1>2, <1>3 DEF TrialInv, Answered, Same, Ahead
<1>15. ClientData'
  BY <1>2, <1>3 DEF DataInv, ClientData, AwaitsFlag, Enc
<1>16. ServerData'
  BY <1>1, <1>2, <1>3, <1>5 DEF DataInv, ServerData, Enc
<1>. QED
  BY <1>6, <1>7, <1>8, <1>9, <1>10, <1>11, <1>12, <1>13, <1>14, <1>15, <1>16
     DEF DataInv, CountInv

\* GetCqEvent of the client keeps the invariant.
LEMMA GetCqEventClient ==
    ASSUME Typed, Typed', StateInv, GetCqEvent(client)
    PROVE  StateInv'
<1> USE ProcsAssumption
        DEF StateInv, EventOf, StageOf, RequestOf, Waits, Coming, Sends, Writes,
            ServerWorks, LastTrial, NumbersOf, SetUp
<1>1. pc[client] = "wait" /\ events[client] > 0
  BY DEF GetCqEvent
<1>2. /\ pc'[client] = "arm" /\ pc'[server] = pc[server]
      /\ events'[client] = events[client] - 1 /\ events'[server] = events[server]
  BY GetCqEventEffect, Peers DEF Only
<1>3. /\ stage' = stage /\ sz' = sz /\ trial' = trial /\ flag' = flag /\ buf' = buf
      /\ cq' = cq /\ recvs' = recvs /\ wire' = wire /\ acks' = acks /\ cm' = cm
  BY DEF GetCqEvent, memory
<1>4. /\ NumbersOf(client) /\ NumbersOf(server) /\ NumbersOf(client)' /\ NumbersOf(server)'
      /\ ServerWorks => ServerTurn /\ AwaitsFlag /\ recvs[client] = 1
  BY Numbers, NumbersPrime, TurnOfServer
<1>5. ServerTurn' => ServerTurn
  BY <1>2, <1>3 DEF ServerTurn
<1>6. EventInv'
  BY <1>2, <1>3, <1>4 DEF EventInv
<1>7. StageInv'
  BY <1>2, <1>3 DEF StageInv
<1>8. SetUpInv'
  BY <1>1, <1>2, <1>3 DEF SetUpInv
<1>9. ClientCount'
  BY <1>1, <1>2, <1>3 DEF CountInv, ClientCount
<1>10. ServerCount'
  BY <1>2, <1>3 DEF CountInv, ServerCount
<1>11. RequestInv'
  BY <1>2, <1>3, <1>4 DEF EventInv, RequestInv
<1>12. StatusInv'
  BY <1>2, <1>3 DEF StatusInv, Refused
<1>13. TurnInv'
  BY <1>2, <1>3, <1>5 DEF TurnInv, AwaitsFlag, Refused
<1>14. TrialInv'
  BY <1>2, <1>3 DEF TrialInv, Answered, Same, Ahead
<1>15. ClientData'
  BY <1>1, <1>2, <1>3 DEF DataInv, ClientData, AwaitsFlag, Enc
<1>16. ServerData'
  BY <1>2, <1>3, <1>5 DEF DataInv, ServerData, Enc
<1>. QED
  BY <1>6, <1>7, <1>8, <1>9, <1>10, <1>11, <1>12, <1>13, <1>14, <1>15, <1>16
     DEF DataInv, CountInv

\* GetCqEvent of the server keeps the invariant.
LEMMA GetCqEventServer ==
    ASSUME Typed, Typed', StateInv, GetCqEvent(server)
    PROVE  StateInv'
<1> USE ProcsAssumption
        DEF StateInv, EventOf, StageOf, RequestOf, Waits, Coming, Sends, Writes,
            ServerWorks, LastTrial, NumbersOf, SetUp
<1>1. pc[server] = "wait" /\ events[server] > 0
  BY DEF GetCqEvent
<1>2. /\ pc'[server] = "arm" /\ pc'[client] = pc[client]
      /\ events'[server] = events[server] - 1 /\ events'[client] = events[client]
  BY GetCqEventEffect, Peers DEF Only
<1>3. /\ stage' = stage /\ sz' = sz /\ trial' = trial /\ flag' = flag /\ buf' = buf
      /\ cq' = cq /\ recvs' = recvs /\ wire' = wire /\ acks' = acks /\ cm' = cm
  BY DEF GetCqEvent, memory
<1>4. /\ NumbersOf(client) /\ NumbersOf(server) /\ NumbersOf(client)' /\ NumbersOf(server)'
      /\ ServerWorks => ServerTurn /\ AwaitsFlag /\ recvs[client] = 1
  BY Numbers, NumbersPrime, TurnOfServer
<1>5. ServerTurn' => ServerTurn
  BY <1>1, <1>3 DEF ServerTurn
<1>6. EventInv'
  BY <1>2, <1>3, <1>4 DEF EventInv
<1>7. StageInv'
  BY <1>2, <1>3 DEF StageInv
<1>8. SetUpInv'
  BY <1>1, <1>2, <1>3 DEF SetUpInv
<1>9. ClientCount'
  BY <1>2, <1>3 DEF CountInv, ClientCount
<1>10. ServerCount'
  BY <1>1, <1>2, <1>3 DEF CountInv, ServerCount
<1>11. RequestInv'
  BY <1>2, <1>3, <1>4 DEF EventInv, RequestInv
<1>12. StatusInv'
  BY <1>2, <1>3 DEF StatusInv, Refused
<1>13. TurnInv'
  BY <1>2, <1>3, <1>5 DEF TurnInv, AwaitsFlag, Refused
<1>14. TrialInv'
  BY <1>1, <1>2, <1>3 DEF TrialInv, Answered, Same, Ahead
<1>15. ClientData'
  BY <1>2, <1>3 DEF DataInv, ClientData, AwaitsFlag, Enc
<1>16. ServerData'
  BY <1>1, <1>2, <1>3, <1>5 DEF DataInv, ServerData, Enc
<1>. QED
  BY <1>6, <1>7, <1>8, <1>9, <1>10, <1>11, <1>12, <1>13, <1>14, <1>15, <1>16
     DEF DataInv, CountInv

\* ReqNotifyCq of the client keeps the invariant.
LEMMA ReqNotifyCqClient ==
    ASSUME Typed, Typed', StateInv, ReqNotifyCq(client)
    PROVE  StateInv'
<1> USE ProcsAssumption
        DEF StateInv, EventOf, StageOf, RequestOf, Waits, Coming, Sends, Writes,
            ServerWorks, LastTrial, NumbersOf, SetUp
<1>1. pc[client] = "arm"
  BY DEF ReqNotifyCq
<1>2. /\ pc'[client] = "poll" /\ pc'[server] = pc[server]
  BY ReqNotifyCqEffect, Peers DEF Only
<1>3. /\ stage' = stage /\ sz' = sz /\ trial' = trial /\ flag' = flag /\ buf' = buf
      /\ cq' = cq /\ events' = events /\ recvs' = recvs /\ wire' = wire /\ acks' = acks
      /\ cm' = cm
  BY DEF ReqNotifyCq, memory
<1>5. ServerTurn' => ServerTurn
  BY <1>2, <1>3 DEF ServerTurn
<1>6. EventInv'
  BY <1>1, <1>2, <1>3 DEF EventInv
<1>7. StageInv'
  BY <1>2, <1>3 DEF StageInv
<1>8. SetUpInv'
  BY <1>1, <1>2, <1>3 DEF SetUpInv
<1>9. ClientCount'
  BY <1>1, <1>2, <1>3 DEF CountInv, ClientCount
<1>10. ServerCount'
  BY <1>2, <1>3 DEF CountInv, ServerCount
<1>11. RequestInv'
  BY <1>1, <1>2, <1>3 DEF RequestInv
<1>12. StatusInv'
  BY <1>2, <1>3 DEF StatusInv, Refused
<1>13. TurnInv'
  BY <1>2, <1>3, <1>5 DEF TurnInv, AwaitsFlag, Refused
<1>14. TrialInv'
  BY <1>2, <1>3 DEF TrialInv, Answered, Same, Ahead
<1>15. ClientData'
  BY <1>1, <1>2, <1>3 DEF DataInv, ClientData, AwaitsFlag, Enc
<1>16. ServerData'
  BY <1>2, <1>3, <1>5 DEF DataInv, ServerData, Enc
<1>. QED
  BY <1>6, <1>7, <1>8, <1>9, <1>10, <1>11, <1>12, <1>13, <1>14, <1>15, <1>16
     DEF DataInv, CountInv

\* ReqNotifyCq of the server keeps the invariant.
LEMMA ReqNotifyCqServer ==
    ASSUME Typed, Typed', StateInv, ReqNotifyCq(server)
    PROVE  StateInv'
<1> USE ProcsAssumption
        DEF StateInv, EventOf, StageOf, RequestOf, Waits, Coming, Sends, Writes,
            ServerWorks, LastTrial, NumbersOf, SetUp
<1>1. pc[server] = "arm"
  BY DEF ReqNotifyCq
<1>2. /\ pc'[server] = "poll" /\ pc'[client] = pc[client]
  BY ReqNotifyCqEffect, Peers DEF Only
<1>3. /\ stage' = stage /\ sz' = sz /\ trial' = trial /\ flag' = flag /\ buf' = buf
      /\ cq' = cq /\ events' = events /\ recvs' = recvs /\ wire' = wire /\ acks' = acks
      /\ cm' = cm
  BY DEF ReqNotifyCq, memory
<1>5. ServerTurn' => ServerTurn
  BY <1>1, <1>3 DEF ServerTurn
<1>6. EventInv'
  BY <1>1, <1>2, <1>3 DEF EventInv
<1>7. StageInv'
  BY <1>2, <1>3 DEF StageInv
<1>8. SetUpInv'
  BY <1>1, <1>2, <1>3 DEF SetUpInv
<1>9. ClientCount'
  BY <1>2, <1>3 DEF CountInv, ClientCount
<1>10. ServerCount'
  BY <1>1, <1>2, <1>3 DEF CountInv, ServerCount
<1>11. RequestInv'
  BY <1>1, <1>2, <1>3 DEF RequestInv
<1>12. StatusInv'
  BY <1>2, <1>3 DEF StatusInv, Refused
<1>13. TurnInv'
  BY <1>2, <1>3, <1>5 DEF TurnInv, AwaitsFlag, Refused
<1>14. TrialInv'
  BY <1>1, <1>2, <1>3 DEF TrialInv, Answered, Same, Ahead
<1>15. ClientData'
  BY <1>2, <1>3 DEF DataInv, ClientData, AwaitsFlag, Enc
<1>16. ServerData'
  BY <1>1, <1>2, <1>3, <1>5 DEF DataInv, ServerData, Enc
<1>. QED
  BY <1>6, <1>7, <1>8, <1>9, <1>10, <1>11, <1>12, <1>13, <1>14, <1>15, <1>16
     DEF DataInv, CountInv

\* PollCq finding a failure of the client keeps the invariant.
LEMMA PollFailsClient ==
    ASSUME Typed, Typed', StateInv, PollCq(client),
           cq[client][1].status # "success"
    PROVE  StateInv'
<1> USE ProcsAssumption
        DEF StateInv, EventOf, StageOf, RequestOf, Waits, Coming, Sends, Writes,
            ServerWorks, LastTrial, NumbersOf, SetUp
<1>1. /\ pc[client] = "poll" /\ Size(cq[client]) > 0
      /\ Size(cq'[client]) = Size(cq[client]) - 1 /\ cq'[server] = cq[server]
  BY PollCqEffect, Peers DEF EventInv, PollCq
<1>2. /\ pc'[client] = "failed" /\ pc'[server] = pc[server]
      /\ stage' = stage /\ sz' = sz /\ trial' = trial
  BY PollCqEffect, Peers DEF EventInv, Only
<1>3. /\ flag' = flag /\ buf' = buf /\ events' = events /\ recvs' = recvs /\ wire' = wire
      /\ acks' = acks /\ cm' = cm
  BY DEF PollCq, memory
<1>4. /\ NumbersOf(client) /\ NumbersOf(server) /\ NumbersOf(client)' /\ NumbersOf(server)'
      /\ ServerWorks => ServerTurn /\ AwaitsFlag /\ recvs[client] = 1
  BY Numbers, NumbersPrime, TurnOfServer
<1>5. \A i \in 1 .. Size(cq[client]) - 1 : cq'[client][i] = cq[client][i + 1]
  BY PollCqEffect, Peers DEF EventInv, PollCq
<1>6. cq[client][1].status = "error"
  BY <1>1, EntryStatus, Peers
<1>7. Refused
  BY <1>1, <1>4, <1>6 DEF Refused
<1>8. /\ stage[client] = "SEND" /\ recvs[client] = 1 /\ Size(cq[client]) = 1
      /\ Size(wire[client]) = 0 /\ Size(acks[client]) = 0
  BY <1>1, <1>4, <1>7 DEF StatusInv, CountInv, ClientCount
<1>9. ~ServerTurn /\ ~ServerTurn' /\ ~ServerWorks
  BY <1>2, <1>3, <1>4, <1>7 DEF TurnInv, ServerTurn
<1>10. EventInv'
  BY <1>1, <1>2, <1>3, <1>4 DEF EventInv
<1>11. StageInv'
  BY <1>2, <1>8 DEF StageInv
<1>12. SetUpInv'
  BY <1>2, <1>3 DEF SetUpInv
<1>13. ClientCount'
  BY <1>1, <1>2, <1>3, <1>8 DEF ClientCount
<1>14. ServerCount'
  BY <1>1, <1>2, <1>3 DEF CountInv, ServerCount
<1>15. RequestInv'
  BY <1>1, <1>2, <1>3 DEF RequestInv
<1>16. StatusInv'
  <2>1. ~Refused'
    BY <1>1, <1>3, <1>8 DEF Refused
  <2> QED
    BY <1>1, <1>3, <2>1 DEF StatusInv
<1>17. TurnInv'
  BY <1>9 DEF TurnInv
<1>18. TrialInv'
  BY <1>2, <1>3 DEF TrialInv, Answered, Same, Ahead
<1>19. ClientData'
  BY <1>2, <1>3 DEF DataInv, ClientData, AwaitsFlag, Enc
<1>20. ServerData'
  BY <1>2, <1>3, <1>9 DEF DataInv, ServerData, Enc
<1>. QED
  BY <1>10, <1>11, <1>12, <1>13, <1>14, <1>15, <1>16, <1>17, <1>18, <1>19, <1>20
     DEF DataInv, CountInv

\* PollCq ending the wait for the WRITE of the client keeps the invariant.
LEMMA PollWriteClient ==
    ASSUME Typed, Typed', StateInv, PollCq(client),
           cq[client][1].status = "success", stage[client] = "WRITE"
    PROVE  StateInv'
<1> USE ProcsAssumption
        DEF StateInv, EventOf, StageOf, RequestOf, Waits, Coming, Sends, Writes,
            ServerWorks, LastTrial, NumbersOf, SetUp
<1>1. /\ pc[client] = "poll" /\ Size(cq[client]) > 0
      /\ Size(cq'[client]) = Size(cq[client]) - 1 /\ cq'[server] = cq[server]
  BY PollCqEffect, Peers DEF EventInv, PollCq
<1>2. /\ pc'[client] = "send" /\ pc'[server] = pc[server]
      /\ stage' = stage /\ sz' = sz /\ trial' = trial
  BY PollCqEffect, AfterPollEffect, Peers DEF EventInv, Only
<1>3. /\ flag' = flag /\ buf' = buf /\ events' = events /\ recvs' = recvs /\ wire' = wire
      /\ acks' = acks /\ cm' = cm
  BY DEF PollCq, memory
<1>4. /\ NumbersOf(client) /\ NumbersOf(server) /\ NumbersOf(client)' /\ NumbersOf(server)'
      /\ ServerWorks => ServerTurn /\ AwaitsFlag /\ recvs[client] = 1
  BY Numbers, NumbersPrime, TurnOfServer
<1>6. ServerTurn' => ServerTurn
  BY <1>2, <1>3 DEF ServerTurn
<1>7. EventInv'
  BY <1>1, <1>2, <1>3, <1>4 DEF EventInv
<1>8. StageInv'
  BY <1>2 DEF StageInv
<1>9. SetUpInv'
  BY <1>2, <1>3 DEF StageInv, SetUpInv
<1>10. ClientCount'
  BY <1>1, <1>2, <1>3, <1>4 DEF CountInv, ClientCount
<1>11. ServerCount'
  BY <1>1, <1>2, <1>3 DEF CountInv, ServerCount
<1>12. RequestInv'
  BY <1>1, <1>2, <1>3 DEF RequestInv
<1>13. StatusInv'
  BY <1>1, <1>3, <1>4 DEF CountInv, ClientCount, StatusInv, Refused
<1>14. TurnInv'
  BY <1>6 DEF TurnInv, AwaitsFlag
<1>15. TrialInv'
  BY <1>2, <1>3 DEF TrialInv, Answered, Same, Ahead
<1>16. ClientData'
  BY <1>2, <1>3 DEF DataInv, ClientData, AwaitsFlag, Enc
<1>17. ServerData'
  BY <1>2, <1>3, <1>6 DEF DataInv, ServerData, Enc
<1>. QED
  BY <1>7, <1>8, <1>9, <1>10, <1>11, <1>12, <1>13, <1>14, <1>15, <1>16, <1>17
     DEF DataInv, CountInv

\* PollCq ending the wait for the flag of the client keeps the invariant.
LEMMA PollNotifyClient ==
    ASSUME Typed, Typed', StateInv, PollCq(client),
           cq[client][1].status = "success", stage[client] = "NOTIFY"
    PROVE  StateInv'
<1> USE ProcsAssumption
        DEF StateInv, EventOf, StageOf, RequestOf, Waits, Coming, Sends, Writes,
            ServerWorks, LastTrial, NumbersOf, SetUp
<1>1. /\ pc[client] = "poll" /\ Size(cq[client]) > 0
      /\ Size(cq'[client]) = Size(cq[client]) - 1 /\ cq'[server] = cq[server]
  BY PollCqEffect, Peers DEF EventInv, PollCq
<1>2. /\ pc'[client] = "decrypt" /\ pc'[server] = pc[server]
      /\ stage' = stage /\ sz' = sz /\ trial' = trial
  BY PollCqEffect, AfterPollEffect, Peers DEF EventInv, Only
<1>3. /\ flag' = flag /\ buf' = buf /\ events' = events /\ recvs' = recvs /\ wire' = wire
      /\ acks' = acks /\ cm' = cm
  BY DEF PollCq, memory
<1>4. /\ NumbersOf(client) /\ NumbersOf(server) /\ NumbersOf(client)' /\ NumbersOf(server)'
      /\ ServerWorks => ServerTurn /\ AwaitsFlag /\ recvs[client] = 1
  BY Numbers, NumbersPrime, TurnOfServer
<1>5. \A i \in 1 .. Size(cq[client]) - 1 : cq'[client][i] = cq[client][i + 1]
  BY PollCqEffect, Peers DEF EventInv, PollCq
<1>6. ServerTurn' => ServerTurn
  BY <1>2, <1>3 DEF ServerTurn
<1>7. EventInv'
  BY <1>1, <1>2, <1>3, <1>4 DEF EventInv
<1>8. StageInv'
  BY <1>2 DEF StageInv
<1>9. SetUpInv'
  BY <1>1, <1>2, <1>3 DEF SetUpInv
<1>10. ClientCount'
  BY <1>1, <1>2, <1>3, <1>4, <1>6 DEF CountInv, ClientCount
<1>11. ServerCount'
  BY <1>1, <1>2, <1>3 DEF CountInv, ServerCount
<1>12. RequestInv'
  BY <1>1, <1>2, <1>3 DEF RequestInv
<1>13. StatusInv'
  <2>1. ~Refused
    BY DEF StatusInv
  <2>2. ~Refused'
    BY <1>1, <1>3, <1>4, <1>5, <2>1 DEF Refused
  <2> QED
    BY <1>1, <1>3, <2>2 DEF StatusInv
<1>14. TurnInv'
  BY <1>1, <1>4, <1>6 DEF CountInv, ClientCount, TurnInv
<1>15. TrialInv'
  BY <1>2, <1>3 DEF TrialInv, Answered, Same, Ahead
<1>16. ClientData'
  BY <1>1, <1>2, <1>3 DEF DataInv, ClientData, AwaitsFlag, Enc
<1>17. ServerData'
  BY <1>2, <1>3, <1>6 DEF DataInv, ServerData, Enc
<1>. QED
  BY <1>7, <1>8, <1>9, <1>10, <1>11, <1>12, <1>13, <1>14, <1>15, <1>16, <1>17
     DEF DataInv, CountInv

\* PollCq ending the wait for the SEND of the client keeps the invariant.
LEMMA PollSendClient ==
    ASSUME Typed, Typed', StateInv, PollCq(client),
           cq[client][1].status = "success", stage[client] = "SEND"
    PROVE  StateInv'
<1> USE ProcsAssumption
        DEF StateInv, EventOf, StageOf, RequestOf, Waits, Coming, Sends, Writes,
            ServerWorks, LastTrial, NumbersOf, SetUp
<1>1. /\ pc[client] = "poll" /\ Size(cq[client]) > 0
      /\ Size(cq'[client]) = Size(cq[client]) - 1 /\ cq'[server] = cq[server]
  BY PollCqEffect, Peers DEF EventInv, PollCq
<1>2. /\ pc'[client] = "wait" /\ pc'[server] = pc[server]
      /\ stage'[client] = "NOTIFY" /\ stage'[server] = stage[server]
      /\ sz' = sz /\ trial' = trial
  BY PollCqEffect, AfterPollEffect, Peers DEF EventInv, Only
<1>3. /\ flag' = flag /\ buf' = buf /\ events' = events /\ recvs' = recvs /\ wire' = wire
      /\ acks' = acks /\ cm' = cm
  BY DEF PollCq, memory
<1>4. /\ NumbersOf(client) /\ NumbersOf(server) /\ NumbersOf(client)' /\ NumbersOf(server)'
      /\ ServerWorks => ServerTurn /\ AwaitsFlag /\ recvs[client] = 1
  BY Numbers, NumbersPrime, TurnOfServer
<1>5. \A i \in 1 .. Size(cq[client]) - 1 : cq'[client][i] = cq[client][i + 1]
  BY PollCqEffect, Peers DEF EventInv, PollCq
<1>6. ServerTurn' => ServerTurn
  BY <1>2, <1>3 DEF ServerTurn
<1>7. EventInv'
  BY <1>1, <1>2, <1>3, <1>4 DEF EventInv
<1>8. StageInv'
  BY <1>2 DEF StageInv
<1>9. SetUpInv'
  BY <1>1, <1>2, <1>3 DEF SetUpInv
<1>10. ClientCount'
  BY <1>1, <1>2, <1>3, <1>4 DEF CountInv, ClientCount
<1>11. ServerCount'
  BY <1>1, <1>2, <1>3 DEF CountInv, ServerCount
<1>12. RequestInv'
  BY <1>1, <1>2, <1>3 DEF RequestInv
<1>13. StatusInv'
  BY <1>1, <1>3, <1>4, <1>5 DEF CountInv, ClientCount, StatusInv, Refused
<1>14. TurnInv'
  BY <1>1, <1>2, <1>3, <1>4, <1>5, <1>6 DEF TurnInv, AwaitsFlag, Refused
<1>15. TrialInv'
  BY <1>2, <1>3 DEF TrialInv, Answered, Same, Ahead
<1>16. ClientData'
  BY <1>1, <1>2, <1>3 DEF DataInv, ClientData, AwaitsFlag, Enc
<1>17. ServerData'
  BY <1>2, <1>3, <1>6 DEF DataInv, ServerData, Enc
<1>. QED
  BY <1>7, <1>8, <1>9, <1>10, <1>11, <1>12, <1>13, <1>14, <1>15, <1>16, <1>17
     DEF DataInv, CountInv

\* PollCq ending the wait for the WRITE of the server keeps the invariant.
LEMMA PollWriteServer ==
    ASSUME Typed, Typed', StateInv, PollCq(server),
           cq[server][1].status = "success", stage[server] = "WRITE"
    PROVE  StateInv'
<1> USE ProcsAssumption
        DEF StateInv, EventOf, StageOf, RequestOf, Waits, Coming, Sends, Writes,
            ServerWorks, LastTrial, NumbersOf, SetUp
<1>1. /\ pc[server] = "poll" /\ Size(cq[server]) > 0
      /\ Size(cq'[server]) = Size(cq[server]) - 1 /\ cq'[client] = cq[client]
  BY PollCqEffect, Peers DEF EventInv, PollCq
<1>2. /\ pc'[server] = "send" /\ pc'[client] = pc[client]
      /\ stage' = stage /\ sz' = sz /\ trial' = trial
  BY PollCqEffect, AfterPollEffect, Peers DEF EventInv, Only
<1>3. /\ flag' = flag /\ buf' = buf /\ events' = events /\ recvs' = recvs /\ wire' = wire
      /\ acks' = acks /\ cm' = cm
  BY DEF PollCq, memory
<1>4. /\ NumbersOf(client) /\ NumbersOf(server) /\ NumbersOf(client)' /\ NumbersOf(server)'
      /\ ServerWorks => ServerTurn /\ AwaitsFlag /\ recvs[client] = 1
  BY Numbers, NumbersPrime, TurnOfServer
<1>5. \A i \in 1 .. Size(cq[server]) - 1 : cq'[server][i] = cq[server][i + 1]
  BY PollCqEffect, Peers DEF EventInv, PollCq
<1>7. EventInv'
  BY <1>1, <1>2, <1>3, <1>4 DEF EventInv
<1>8. StageInv'
  BY <1>2 DEF StageInv
<1>9. SetUpInv'
  BY <1>2, <1>3 DEF StageInv, SetUpInv
<1>10. ClientCount'
  BY <1>1, <1>2, <1>3 DEF CountInv, ClientCount
<1>11. ServerCount'
  BY <1>1, <1>2, <1>3, <1>4 DEF CountInv, ServerCount
<1>12. RequestInv'
  BY <1>1, <1>2, <1>3 DEF RequestInv
<1>13. StatusInv'
  BY <1>1, <1>2, <1>3, <1>4, <1>5 DEF StatusInv, Refused
<1>14. TurnInv'
  BY <1>1, <1>2, <1>3, <1>4 DEF TurnInv, AwaitsFlag, Refused
<1>15. TrialInv'
  BY <1>1, <1>2, <1>3 DEF TrialInv, Answered, Same, Ahead
<1>16. ClientData'
  BY <1>2, <1>3 DEF DataInv, ClientData, AwaitsFlag, Enc
<1>17. ServerData'
  BY <1>2, <1>3, <1>4 DEF DataInv, ServerData, Enc
<1>. QED
  BY <1>7, <1>8, <1>9, <1>10, <1>11, <1>12, <1>13, <1>14, <1>15, <1>16, <1>17
     DEF DataInv, CountInv

\* PollCq ending the wait for the flag of the server keeps the invariant.
LEMMA PollNotifyServer ==
    ASSUME Typed, Typed', StateInv, PollCq(server),
           cq[server][1].status = "success", stage[server] = "NOTIFY"
    PROVE  StateInv'
<1> USE ProcsAssumption
        DEF StateInv, EventOf, StageOf, RequestOf, Waits, Coming, Sends, Writes,
            ServerWorks, LastTrial, NumbersOf, SetUp
<1>1. /\ pc[server] = "poll" /\ Size(cq[server]) > 0
      /\ Size(cq'[server]) = Size(cq[server]) - 1 /\ cq'[client] = cq[client]
  BY PollCqEffect, Peers DEF EventInv, PollCq
<1>2. /\ pc'[server] = "serve" /\ pc'[client] = pc[client]
      /\ stage' = stage /\ sz' = sz /\ trial' = trial
  BY PollCqEffect, AfterPollEffect, Peers DEF EventInv, Only
<1>3. /\ flag' = flag /\ buf' = buf /\ events' = events /\ recvs' = recvs /\ wire' = wire
      /\ acks' = acks /\ cm' = cm
  BY DEF PollCq, memory
<1>4. /\ NumbersOf(client) /\ NumbersOf(server) /\ NumbersOf(client)' /\ NumbersOf(server)'
      /\ ServerWorks => ServerTurn /\ AwaitsFlag /\ recvs[client] = 1
  BY Numbers, NumbersPrime, TurnOfServer
<1>5. \A i \in 1 .. Size(cq[server]) - 1 : cq'[server][i] = cq[server][i + 1]
  BY PollCqEffect, Peers DEF EventInv, PollCq
<1>6. ServerTurn' => ServerTurn
  BY <1>1, <1>4 DEF SetUpInv, CountInv, ServerCount, ServerTurn
<1>7. EventInv'
  BY <1>1, <1>2, <1>3, <1>4 DEF EventInv
<1>8. StageInv'
  BY <1>2 DEF StageInv
<1>9. SetUpInv'
  BY <1>1, <1>2, <1>3 DEF SetUpInv
<1>10. ClientCount'
  BY <1>1, <1>2, <1>3 DEF CountInv, ClientCount
<1>11. ServerCount'
  BY <1>1, <1>2, <1>3, <1>4 DEF CountInv, ServerCount
<1>12. RequestInv'
  BY <1>1, <1>2, <1>3 DEF RequestInv
<1>13. StatusInv'
  BY <1>1, <1>2, <1>3, <1>4, <1>5 DEF StatusInv, Refused
<1>14. TurnInv'
  BY <1>1, <1>2, <1>3, <1>6 DEF TurnInv, AwaitsFlag, Refused
<1>15. TrialInv'
  BY <1>1, <1>2, <1>3 DEF TrialInv, Answered, Same, Ahead
<1>16. ClientData'
  BY <1>2, <1>3 DEF DataInv, ClientData, AwaitsFlag, Enc
<1>17. ServerData'
  BY <1>1, <1>2, <1>3, <1>6 DEF DataInv, ServerData, Enc
<1>. QED
  BY <1>7, <1>8, <1>9, <1>10, <1>11, <1>12, <1>13, <1>14, <1>15, <1>16, <1>17
     DEF DataInv, CountInv

\* PollCq ending the wait for the SEND of the server keeps the invariant.
LEMMA PollSendServer ==
    ASSUME Typed, Typed', StateInv, PollCq(server),
           cq[server][1].status = "success", stage[server] = "SEND"
    PROVE  StateInv'
<1> USE ProcsAssumption
        DEF StateInv, EventOf, StageOf, RequestOf, Waits, Coming, Sends, Writes,
            ServerWorks, LastTrial, NumbersOf, SetUp
<1>1. /\ pc[server] = "poll" /\ Size(cq[server]) > 0
      /\ Size(cq'[server]) = Size(cq[server]) - 1 /\ cq'[client] = cq[client]
  BY PollCqEffect, Peers DEF EventInv, PollCq
<1>2. NextTrial(server, "wait")
      /\ stage'[server] = "NOTIFY" /\ stage'[client] = stage[client]
  BY PollCqEffect, AfterPollEffect, Peers DEF EventInv, Only
<1>3. /\ pc'[client] = pc[client] /\ sz'[client] = sz[client] /\ trial'[client] = trial[client]
      /\ LastTrial(server) => pc'[server] = "done" /\ sz'[server] = sz[server] /\ trial'[server] = trial[server]
      /\ ~LastTrial(server) =>
            /\ pc'[server] = "wait"
            /\ sz'[server] = IF trial[server] = NUM_TRAIL - 1 THEN sz[server] + 1 ELSE sz[server]
            /\ trial'[server] = IF trial[server] = NUM_TRAIL - 1 THEN 0 ELSE trial[server] + 1
  BY <1>2, NextTrialEffect, Peers DEF Only
<1>4. /\ flag' = flag /\ buf' = buf /\ events' = events /\ recvs' = recvs /\ wire' = wire
      /\ acks' = acks /\ cm' = cm
  BY DEF PollCq, memory
<1>5. /\ NumbersOf(client) /\ NumbersOf(server) /\ NumbersOf(client)' /\ NumbersOf(server)'
      /\ ServerWorks => ServerTurn /\ AwaitsFlag /\ recvs[client] = 1
  BY Numbers, NumbersPrime, TurnOfServer
<1>6. \A i \in 1 .. Size(cq[server]) - 1 : cq'[server][i] = cq[server][i + 1]
  BY PollCqEffect, Peers DEF EventInv, PollCq
<1>7. Refused' => Refused
  BY <1>1, <1>4 DEF Refused
<1>8. ServerTurn' => ServerTurn
  BY <1>1, <1>2, <1>3, <1>4, <1>5, <1>6, <1>7
     DEF StageInv, SetUpInv, CountInv, ServerCount, ServerTurn
<1>9. EventInv'
  BY <1>1, <1>3, <1>4, <1>5 DEF EventInv
<1>10. StageInv'
  BY <1>2, <1>3 DEF StageInv
<1>11. SetUpInv'
  BY <1>3, <1>4 DEF StageInv, SetUpInv
<1>12. ClientCount'
  BY <1>1, <1>2, <1>3, <1>4 DEF CountInv, ClientCount
<1>13. ServerCount'
  BY <1>1, <1>2, <1>3, <1>4, <1>5 DEF CountInv, ServerCount
<1>14. RequestInv'
  BY <1>1, <1>2, <1>3, <1>4 DEF RequestInv
<1>15. StatusInv'
  BY <1>1, <1>2, <1>3, <1>4, <1>5, <1>6, <1>7 DEF StatusInv
<1>16. TurnInv'
  BY <1>2, <1>3, <1>4, <1>7, <1>8 DEF TurnInv, AwaitsFlag
<1>17. TrialInv'
  BY <1>2, <1>3, <1>4 DEF StageInv, SetUpInv, TrialInv, Answered, Same, Ahead
<1>18. ClientData'
  BY <1>2, <1>3, <1>4 DEF DataInv, ClientData, AwaitsFlag, Enc
<1>19. ServerData'
  BY <1>2, <1>3, <1>4, <1>8 DEF StageInv, DataInv, ServerData, Enc
<1>. QED
  BY <1>9, <1>10, <1>11, <1>12, <1>13, <1>14, <1>15, <1>16, <1>17, <1>18, <1>19
     DEF DataInv, CountInv

\* WriteArrives of the client keeps the invariant.
LEMMA WriteArrivesClient ==
    ASSUME Typed, Typed', StateInv, WriteArrives(client)
    PROVE  StateInv'
<1> USE ProcsAssumption
        DEF StateInv, EventOf, StageOf, RequestOf, Waits, Coming, Sends, Writes,
            ServerWorks, LastTrial, NumbersOf, SetUp
<1>1. /\ Size(wire[client]) = 1 /\ Head(wire[client]).op = "WRITE" /\ stage[client] = "WRITE"
      /\ Size(acks[client]) = 0 /\ Size(cq[client]) = 0 /\ pc[client] \in {"wait", "repost"}
  BY WriteArrivesEffect, Numbers, Peers DEF RequestInv, WriteArrives
<1>2. /\ Size(wire'[client]) = 0 /\ wire'[server] = wire[server]
      /\ Size(acks'[client]) = 1 /\ acks'[server] = acks[server] /\ acks'[client][1].status = "success"
  BY <1>1, AnswerEffect, Peers DEF WriteArrives
<1>3. /\ buf'[server] = [size |-> Head(wire[client]).size, layers |-> buf[client].layers]
      /\ buf'[client] = buf[client]
  BY WriteArrivesEffect, Peers DEF Only
<1>4. /\ pc' = pc /\ stage' = stage /\ sz' = sz /\ trial' = trial /\ flag' = flag
      /\ cq' = cq /\ events' = events /\ recvs' = recvs /\ cm' = cm
  BY DEF WriteArrives, progress, queues
<1>5. /\ NumbersOf(client) /\ NumbersOf(server) /\ NumbersOf(client)' /\ NumbersOf(server)'
      /\ ServerWorks => ServerTurn /\ AwaitsFlag /\ recvs[client] = 1
  BY Numbers, NumbersPrime, TurnOfServer
<1>6. ~ServerTurn /\ ~ServerTurn' /\ ~ServerWorks
  BY <1>1, <1>2, <1>4, <1>5 DEF TurnInv, ServerTurn
<1>7. buf[client].layers = {client} /\ Head(wire[client]).size = sz[client]
  BY <1>1 DEF DataInv, ClientData, Enc
<1>8. EventInv'
  BY <1>4 DEF EventInv
<1>9. StageInv'
  BY <1>4 DEF StageInv
<1>10. SetUpInv'
  BY <1>4 DEF SetUpInv
<1>11. ClientCount'
  BY <1>1, <1>2, <1>4 DEF CountInv, ClientCount
<1>12. ServerCount'
  BY <1>2, <1>4 DEF CountInv, ServerCount
<1>13. RequestInv'
  BY <1>2, <1>4 DEF RequestInv
<1>14. StatusInv'
  BY <1>2, <1>4 DEF StatusInv, Refused
<1>15. TurnInv'
  BY <1>6 DEF TurnInv
<1>16. TrialInv'
  BY <1>2, <1>4 DEF TrialInv, Answered, Same, Ahead
<1>17. ClientData'
  BY <1>2, <1>3, <1>4 DEF DataInv, ClientData, AwaitsFlag, Enc
<1>18. ServerData'
  BY <1>2, <1>3, <1>4, <1>6, <1>7 DEF DataInv, ServerData, Enc
<1>. QED
  BY <1>8, <1>9, <1>10, <1>11, <1>12, <1>13, <1>14, <1>15, <1>16, <1>17, <1>18
     DEF DataInv, CountInv

\* SendArrives of the client keeps the invariant.
LEMMA SendArrivesClient ==
    ASSUME Typed, Typed', StateInv, SendArrives(client)
    PROVE  StateInv'
<1> USE ProcsAssumption
        DEF StateInv, EventOf, StageOf, RequestOf, Waits, Coming, Sends, Writes,
            ServerWorks, LastTrial, NumbersOf, SetUp
<1>1. /\ Size(wire[client]) = 1 /\ Head(wire[client]).op = "SEND" /\ stage[client] = "SEND"
      /\ Size(acks[client]) = 0 /\ Size(cq[client]) = 0 /\ pc[client] \in {"wait", "repost"}
  BY SendArrivesEffect, Numbers, Peers DEF RequestInv, SendArrives
<1>2. /\ Size(wire'[client]) = 0 /\ wire'[server] = wire[server]
      /\ Size(acks'[client]) = 1 /\ acks'[server] = acks[server] /\ acks'[client][1].status = "success"
  BY <1>1, AnswerEffect, Peers DEF SendArrives
<1>3. /\ recvs[server] > 0 /\ recvs'[server] = recvs[server] - 1 /\ recvs'[client] = recvs[client]
      /\ flag'[server] = flag[client] /\ flag'[client] = flag[client]
  BY SendArrivesEffect, Peers DEF SendArrives, Only
<1>4. /\ Size(cq'[server]) = Size(cq[server]) + 1 /\ cq'[client] = cq[client]
      /\ cq'[server][Size(cq[server]) + 1].status = "success"
      /\ events'[server] \in {events[server], events[server] + 1} /\ events'[client] = events[client]
  BY CompleteEffect, RecvEntry, Peers DEF SendArrives, Only
<1>5. /\ pc' = pc /\ stage' = stage /\ sz' = sz /\ trial' = trial /\ buf' = buf
      /\ cm' = cm
  BY DEF SendArrives, progress
<1>6. /\ NumbersOf(client) /\ NumbersOf(server) /\ NumbersOf(client)' /\ NumbersOf(server)'
      /\ ServerWorks => ServerTurn /\ AwaitsFlag /\ recvs[client] = 1
  BY Numbers, NumbersPrime, TurnOfServer
<1>7. \A i \in 1 .. Size(cq[server]) : cq'[server][i] = cq[server][i]
  BY CompleteEffect, RecvEntry, Peers DEF SendArrives
<1>8. ~ServerTurn /\ ~ServerWorks
  BY <1>1, <1>6 DEF TurnInv
<1>9. Size(wire[server]) > 0 => Head(wire[server]).op \in {"WRITE", "SEND"}
  BY HeadOp, Peers
<1>10. Size(wire[server]) = 0
  BY <1>6, <1>8, <1>9 DEF RequestInv
<1>11. Waits(client) /\ recvs[client] = 1 /\ cm = "confirmation"
  BY <1>1, <1>6 DEF CountInv, ClientCount, SetUpInv
<1>12. ~Refused'
  BY <1>1, <1>2, <1>4 DEF Refused
<1>13. Enc(server, client) /\ flag[client] = sz[client]
  BY <1>1, <1>11 DEF DataInv, ClientData, ServerData, AwaitsFlag
<1>14. pc[server] \in {"establish", "failed", "wait", "arm", "poll"}
  BY <1>3, <1>6, <1>11 DEF StageInv, SetUpInv, CountInv, ServerCount, Calls
<1>15. Waits(server) => stage[server] # "WRITE"
  BY <1>3 DEF CountInv, ServerCount
<1>16. /\ Size(wire'[server]) = 0 /\ Size(acks'[server]) = Size(acks[server])
      /\ Size(cq'[server]) = Size(cq[server]) + 1 /\ recvs'[server] = recvs[server] - 1
      /\ recvs[server] > 0
  BY <1>2, <1>3, <1>4, <1>10
<1>17. Coming(server)' + recvs'[server] = Coming(server) + recvs[server]
  BY <1>6, <1>10, <1>16
<1>18. EventInv'
  BY <1>4, <1>5, <1>6 DEF EventInv
<1>19. StageInv'
  BY <1>4, <1>5 DEF StageInv
<1>20. SetUpInv'
  BY <1>5, <1>11 DEF SetUpInv
<1>21. ClientCount'
  BY <1>1, <1>2, <1>3, <1>4, <1>5 DEF CountInv, ClientCount
<1>22. ServerCount'
  <2>1. recvs'[server] <= 1
    BY <1>6, <1>16 DEF CountInv, ServerCount
  <2>2. CASE pc[server] = "establish"
    BY <1>5, <1>16, <1>17, <2>1, <2>2 DEF CountInv, ServerCount
  <2>3. CASE pc[server] = "failed"
    BY <1>5, <1>16, <1>17, <2>1, <2>3 DEF CountInv, ServerCount
  <2>4. CASE Waits(server)
    BY <1>5, <1>6, <1>15, <1>16, <1>17, <2>1, <2>4 DEF CountInv, ServerCount
  <2>. QED
    BY <1>14, <2>2, <2>3, <2>4
<1>23. RequestInv'
  BY <1>1, <1>2, <1>16 DEF RequestInv
<1>24. StatusInv'
  BY <1>2, <1>3, <1>4, <1>5, <1>6, <1>7 DEF StatusInv, Refused
<1>25. TurnInv'
  BY <1>1, <1>2, <1>3, <1>5, <1>11, <1>12 DEF TurnInv, AwaitsFlag
<1>26. TrialInv'
  BY <1>2, <1>3, <1>5 DEF TrialInv, Answered, Same, Ahead
<1>27. ClientData'
  BY <1>1, <1>2, <1>3, <1>5 DEF DataInv, ClientData, AwaitsFlag, Enc
<1>28. ServerData'
  BY <1>2, <1>3, <1>5, <1>13 DEF DataInv, ServerData, Enc
<1>. QED
  BY <1>18, <1>19, <1>20, <1>21, <1>22, <1>23, <1>24, <1>25, <1>26, <1>27, <1>28
     DEF DataInv, CountInv

\* SendFindsNoReceive of the client keeps the invariant.
LEMMA SendFindsNoReceiveClient ==
    ASSUME Typed, Typed', StateInv, SendFindsNoReceive(client)
    PROVE  StateInv'
<1> USE ProcsAssumption
        DEF StateInv, EventOf, StageOf, RequestOf, Waits, Coming, Sends, Writes,
            ServerWorks, LastTrial, NumbersOf, SetUp
<1>1. /\ Size(wire[client]) = 1 /\ Head(wire[client]).op = "SEND" /\ stage[client] = "SEND"
      /\ Size(acks[client]) = 0 /\ Size(cq[client]) = 0 /\ pc[client] \in {"wait", "repost"}
  BY SendFindsNoReceiveEffect, Peers DEF RequestInv, SendFindsNoReceive
<1>2. /\ Size(wire'[client]) = 0 /\ wire'[server] = wire[server]
      /\ Size(acks'[client]) = 1 /\ acks'[server] = acks[server] /\ acks'[client][1].status = "error"
  BY <1>1, AnswerEffect, Peers DEF SendFindsNoReceive
<1>4. /\ pc' = pc /\ stage' = stage /\ sz' = sz /\ trial' = trial /\ flag' = flag
      /\ buf' = buf /\ cq' = cq /\ events' = events /\ recvs' = recvs /\ cm' = cm
  BY DEF SendFindsNoReceive, progress, memory, queues
<1>5. /\ NumbersOf(client) /\ NumbersOf(server) /\ NumbersOf(client)' /\ NumbersOf(server)'
      /\ ServerWorks => ServerTurn /\ AwaitsFlag /\ recvs[client] = 1
  BY Numbers, NumbersPrime, TurnOfServer
<1>6. ServerTurn' => ServerTurn
  BY <1>2, <1>4 DEF ServerTurn
<1>7. EventInv'
  BY <1>4 DEF EventInv
<1>8. StageInv'
  BY <1>4 DEF StageInv
<1>9. SetUpInv'
  BY <1>4 DEF SetUpInv
<1>10. ClientCount'
  BY <1>1, <1>2, <1>4 DEF CountInv, ClientCount
<1>11. ServerCount'
  BY <1>2, <1>4 DEF CountInv, ServerCount
<1>12. RequestInv'
  BY <1>2, <1>4 DEF RequestInv
<1>13. StatusInv'
  BY <1>1, <1>2, <1>4, <1>5 DEF CountInv, ClientCount, StatusInv
<1>14. TurnInv'
  BY <1>1, <1>6 DEF TurnInv
<1>15. TrialInv'
  BY <1>2, <1>4 DEF TrialInv, Answered, Same, Ahead
<1>16. ClientData'
  BY <1>2, <1>4 DEF DataInv, ClientData, AwaitsFlag, Enc
<1>17. ServerData'
  BY <1>1, <1>2, <1>4, <1>6 DEF DataInv, ServerData, Enc
<1>. QED
  BY <1>7, <1>8, <1>9, <1>10, <1>11, <1>12, <1>13, <1>14, <1>15, <1>16, <1>17
     DEF DataInv, CountInv

\* AckArrives of the client keeps the invariant.
LEMMA AckArrivesClient ==
    ASSUME Typed, Typed', StateInv, AckArrives(client)
    PROVE  StateInv'
<1> USE ProcsAssumption
        DEF StateInv, EventOf, StageOf, RequestOf, Waits, Coming, Sends, Writes,
            ServerWorks, LastTrial, NumbersOf, SetUp
<1>1. /\ Size(acks[client]) > 0 /\ acks[client][1] \in Entries /\ Head(acks[client]) = acks[client][1]
      /\ Size(acks'[client]) = Size(acks[client]) - 1 /\ acks'[server] = acks[server]
  BY AckArrivesEffect, Peers
<1>2. /\ Size(cq'[client]) = Size(cq[client]) + 1 /\ cq'[server] = cq[server]
      /\ cq'[client][Size(cq[client]) + 1] = acks[client][1]
      /\ events'[client] \in {events[client], events[client] + 1} /\ events'[server] = events[server]
  BY <1>1, CompleteEffect, Peers DEF AckArrives, Only
<1>3. /\ pc' = pc /\ stage' = stage /\ sz' = sz /\ trial' = trial /\ flag' = flag
      /\ buf' = buf /\ recvs' = recvs /\ wire' = wire /\ cm' = cm
  BY DEF AckArrives, progress, memory
<1>4. /\ NumbersOf(client) /\ NumbersOf(server) /\ NumbersOf(client)' /\ NumbersOf(server)'
      /\ ServerWorks => ServerTurn /\ AwaitsFlag /\ recvs[client] = 1
  BY Numbers, NumbersPrime, TurnOfServer
<1>5. \A i \in 1 .. Size(acks[client]) - 1 : acks'[client][i] = acks[client][i + 1]
  BY AckArrivesEffect, Peers
<1>6. \A i \in 1 .. Size(cq[client]) : cq'[client][i] = cq[client][i]
  BY <1>1, CompleteEffect, Peers DEF AckArrives
<1>7. ServerTurn' => ServerTurn
  BY <1>3 DEF ServerTurn
<1>8. EventInv'
  BY <1>2, <1>3, <1>4 DEF EventInv
<1>9. StageInv'
  BY <1>3 DEF StageInv
<1>10. SetUpInv'
  BY <1>3 DEF SetUpInv
<1>11. ClientCount'
  BY <1>1, <1>2, <1>3, <1>4 DEF CountInv, ClientCount
<1>12. ServerCount'
  BY <1>1, <1>2, <1>3 DEF CountInv, ServerCount
<1>13. RequestInv'
  BY <1>1, <1>2, <1>3 DEF RequestInv
<1>14. StatusInv'
  BY <1>1, <1>2, <1>3, <1>4, <1>5, <1>6 DEF StatusInv, Refused
<1>15. TurnInv'
  BY <1>1, <1>2, <1>3, <1>4, <1>5, <1>6, <1>7 DEF TurnInv, AwaitsFlag, Refused
<1>16. TrialInv'
  BY <1>3 DEF TrialInv, Answered, Same, Ahead
<1>17. ClientData'
  BY <1>3 DEF DataInv, ClientData, AwaitsFlag, Enc
<1>18. ServerData'
  BY <1>3, <1>7 DEF DataInv, ServerData, Enc
<1>. QED
  BY <1>8, <1>9, <1>10, <1>11, <1>12, <1>13, <1>14, <1>15, <1>16, <1>17, <1>18
     DEF DataInv, CountInv

\* WriteArrives of the server keeps the invariant.
LEMMA WriteArrivesServer ==
    ASSUME Typed, Typed', StateInv, WriteArrives(server)
    PROVE  StateInv'
<1> USE ProcsAssumption
        DEF StateInv, EventOf, StageOf, RequestOf, Waits, Coming, Sends, Writes,
            ServerWorks, LastTrial, NumbersOf, SetUp
<1>1. /\ Size(wire[server]) = 1 /\ Head(wire[server]).op = "WRITE" /\ stage[server] = "WRITE"
      /\ Size(acks[server]) = 0 /\ Size(cq[server]) = 0 /\ pc[server] \in {"wait", "repost"}
  BY WriteArrivesEffect, Numbers, Peers DEF RequestInv, WriteArrives
<1>2. /\ Size(wire'[server]) = 0 /\ wire'[client] = wire[client]
      /\ Size(acks'[server]) = 1 /\ acks'[client] = acks[client] /\ acks'[server][1].status = "success"
  BY <1>1, AnswerEffect, Peers DEF WriteArrives
<1>3. /\ buf'[client] = [size |-> Head(wire[server]).size, layers |-> buf[server].layers]
      /\ buf'[server] = buf[server]
  BY WriteArrivesEffect, Peers DEF Only
<1>4. /\ pc' = pc /\ stage' = stage /\ sz' = sz /\ trial' = trial /\ flag' = flag
      /\ cq' = cq /\ events' = events /\ recvs' = recvs /\ cm' = cm
  BY DEF WriteArrives, progress, queues
<1>5. /\ NumbersOf(client) /\ NumbersOf(server) /\ NumbersOf(client)' /\ NumbersOf(server)'
      /\ ServerWorks => ServerTurn /\ AwaitsFlag /\ recvs[client] = 1
  BY Numbers, NumbersPrime, TurnOfServer
<1>6. ServerTurn' => ServerTurn
  BY <1>2, <1>4 DEF ServerTurn
<1>7. EventInv'
  BY <1>4 DEF EventInv
<1>8. StageInv'
  BY <1>4 DEF StageInv
<1>9. SetUpInv'
  BY <1>4 DEF SetUpInv
<1>10. ClientCount'
  BY <1>2, <1>4 DEF CountInv, ClientCount
<1>11. ServerCount'
  BY <1>1, <1>2, <1>4 DEF CountInv, ServerCount
<1>12. RequestInv'
  BY <1>2, <1>4 DEF RequestInv
<1>13. StatusInv'
  BY <1>2, <1>4 DEF StatusInv, Refused
<1>14. TurnInv'
  BY <1>2, <1>4, <1>6 DEF TurnInv, AwaitsFlag, Refused
<1>15. TrialInv'
  BY <1>1, <1>2, <1>4 DEF TrialInv, Answered, Same, Ahead
<1>16. ClientData'
  BY <1>1, <1>2, <1>4, <1>5 DEF DataInv, ClientData, AwaitsFlag
<1>17. ServerData'
  BY <1>1, <1>2, <1>3, <1>4, <1>5 DEF DataInv, ServerData, Enc
<1>. QED
  BY <1>7, <1>8, <1>9, <1>10, <1>11, <1>12, <1>13, <1>14, <1>15, <1>16, <1>17
     DEF DataInv, CountInv

\* SendArrives of the server keeps the invariant.
LEMMA SendArrivesServer ==
    ASSUME Typed, Typed', StateInv, SendArrives(server)
    PROVE  StateInv'
<1> USE ProcsAssumption
        DEF StateInv, EventOf, StageOf, RequestOf, Waits, Coming, Sends, Writes,
            ServerWorks, LastTrial, NumbersOf, SetUp
<1>1. /\ Size(wire[server]) = 1 /\ Head(wire[server]).op = "SEND" /\ stage[server] = "SEND"
      /\ Size(acks[server]) = 0 /\ Size(cq[server]) = 0 /\ pc[server] \in {"wait", "repost"}
  BY SendArrivesEffect, Numbers, Peers DEF RequestInv, SendArrives
<1>2. /\ Size(wire'[server]) = 0 /\ wire'[client] = wire[client]
      /\ Size(acks'[server]) = 1 /\ acks'[client] = acks[client] /\ acks'[server][1].status = "success"
  BY <1>1, AnswerEffect, Peers DEF SendArrives
<1>3. /\ recvs[client] > 0 /\ recvs'[client] = recvs[client] - 1 /\ recvs'[server] = recvs[server]
      /\ flag'[client] = flag[server] /\ flag'[server] = flag[server]
  BY SendArrivesEffect, Peers DEF SendArrives, Only
<1>4. /\ Size(cq'[client]) = Size(cq[client]) + 1 /\ cq'[server] = cq[server]
      /\ cq'[client][Size(cq[client]) + 1].status = "success"
      /\ events'[client] \in {events[client], events[client] + 1} /\ events'[server] = events[server]
  BY CompleteEffect, RecvEntry, Peers DEF SendArrives, Only
<1>5. /\ pc' = pc /\ stage' = stage /\ sz' = sz /\ trial' = trial /\ buf' = buf
      /\ cm' = cm
  BY DEF SendArrives, progress
<1>6. /\ NumbersOf(client) /\ NumbersOf(server) /\ NumbersOf(client)' /\ NumbersOf(server)'
      /\ ServerWorks => ServerTurn /\ AwaitsFlag /\ recvs[client] = 1
  BY Numbers, NumbersPrime, TurnOfServer
<1>7. \A i \in 1 .. Size(cq[client]) : cq'[client][i] = cq[client][i]
  BY CompleteEffect, RecvEntry, Peers DEF SendArrives
<1>8. ServerTurn /\ AwaitsFlag /\ recvs[client] = 1 /\ Size(wire[client]) = 0 /\ ~Refused
  BY <1>1 DEF TurnInv, ServerTurn
<1>9. flag[server] = sz[client] /\ Enc(client, server)
  BY <1>1, <1>8 DEF DataInv, ServerData
<1>10. ~Refused'
  BY <1>2, <1>4, <1>6, <1>7, <1>8 DEF Refused
<1>11. pc[client] \in {"wait", "arm", "poll"} /\ stage[client] \in {"SEND", "NOTIFY"}
  BY <1>8 DEF AwaitsFlag
<1>12. ~ServerTurn'
  BY <1>1, <1>2, <1>3, <1>5 DEF CountInv, ServerCount, ServerTurn
<1>13. /\ Size(wire'[client]) = 0 /\ Size(acks'[client]) = Size(acks[client])
      /\ Size(cq'[client]) = Size(cq[client]) + 1 /\ recvs'[client] = 0
  BY <1>2, <1>3, <1>4, <1>8
<1>14. Coming(client)' + recvs'[client] = Coming(client) + recvs[client]
  BY <1>6, <1>8, <1>13
<1>15. EventInv'
  BY <1>4, <1>5, <1>6 DEF EventInv
<1>16. StageInv'
  BY <1>5 DEF StageInv
<1>17. SetUpInv'
  BY <1>4, <1>5, <1>11 DEF SetUpInv
<1>18. ClientCount'
  BY <1>5, <1>6, <1>8, <1>11, <1>13, <1>14, SMTT(30) DEF CountInv, ClientCount
<1>19. ServerCount'
  BY <1>1, <1>2, <1>3, <1>4, <1>5 DEF CountInv, ServerCount
<1>20. RequestInv'
  BY <1>1, <1>2, <1>13 DEF RequestInv
<1>21. StatusInv'
  BY <1>2, <1>4, <1>10 DEF StatusInv
<1>22. TurnInv'
  BY <1>12 DEF TurnInv
<1>23. TrialInv'
  BY <1>1, <1>3, <1>5, <1>6 DEF TrialInv, Answered, Same
<1>24. ClientData'
  BY <1>2, <1>3, <1>5, <1>8, <1>9 DEF ClientData, AwaitsFlag, Enc
<1>25. ServerData'
  BY <1>1, <1>2, <1>5, <1>12 DEF DataInv, ServerData, Enc
<1>. QED
  BY <1>15, <1>16, <1>17, <1>18, <1>19, <1>20, <1>21, <1>22, <1>23, <1>24, <1>25
     DEF DataInv, CountInv

\* AckArrives of the server keeps the invariant.
LEMMA AckArrivesServer ==
    ASSUME Typed, Typed', StateInv, AckArrives(server)
    PROVE  StateInv'
<1> USE ProcsAssumption
        DEF StateInv, EventOf, StageOf, RequestOf, Waits, Coming, Sends, Writes,
            ServerWorks, LastTrial, NumbersOf, SetUp
<1>1. /\ Size(acks[server]) > 0 /\ acks[server][1] \in Entries /\ Head(acks[server]) = acks[server][1]
      /\ Size(acks'[server]) = Size(acks[server]) - 1 /\ acks'[client] = acks[client]
  BY AckArrivesEffect, Peers
<1>2. /\ Size(cq'[server]) = Size(cq[server]) + 1 /\ cq'[client] = cq[client]
      /\ cq'[server][Size(cq[server]) + 1] = acks[server][1]
      /\ events'[server] \in {events[server], events[server] + 1} /\ events'[client] = events[client]
  BY <1>1, CompleteEffect, Peers DEF AckArrives, Only
<1>3. /\ pc' = pc /\ stage' = stage /\ sz' = sz /\ trial' = trial /\ flag' = flag
      /\ buf' = buf /\ recvs' = recvs /\ wire' = wire /\ cm' = cm
  BY DEF AckArrives, progress, memory
<1>4. /\ NumbersOf(client) /\ NumbersOf(server) /\ NumbersOf(client)' /\ NumbersOf(server)'
      /\ ServerWorks => ServerTurn /\ AwaitsFlag /\ recvs[client] = 1
  BY Numbers, NumbersPrime, TurnOfServer
<1>5. \A i \in 1 .. Size(acks[server]) - 1 : acks'[server][i] = acks[server][i + 1]
  BY AckArrivesEffect, Peers
<1>6. \A i \in 1 .. Size(cq[server]) : cq'[server][i] = cq[server][i]
  BY <1>1, CompleteEffect, Peers DEF AckArrives
<1>7. ServerTurn' => ServerTurn
  BY <1>3 DEF ServerTurn
<1>8. EventInv'
  BY <1>2, <1>3, <1>4 DEF EventInv
<1>9. StageInv'
  BY <1>3 DEF StageInv
<1>10. SetUpInv'
  BY <1>3 DEF SetUpInv
<1>11. ClientCount'
  BY <1>1, <1>2, <1>3 DEF CountInv, ClientCount
<1>12. ServerCount'
  BY <1>1, <1>2, <1>3, <1>4 DEF CountInv, ServerCount
<1>13. RequestInv'
  BY <1>1, <1>2, <1>3 DEF RequestInv
<1>14. StatusInv'
  BY <1>1, <1>2, <1>3, <1>4, <1>5, <1>6 DEF StatusInv, Refused
<1>15. TurnInv'
  BY <1>1, <1>2, <1>3, <1>7 DEF TurnInv, AwaitsFlag, Refused
<1>16. TrialInv'
  BY <1>3 DEF TrialInv, Answered, Same, Ahead
<1>17. ClientData'
  BY <1>3 DEF DataInv, ClientData, AwaitsFlag, Enc
<1>18. ServerData'
  BY <1>3, <1>7 DEF DataInv, ServerData, Enc
<1>. QED
  BY <1>8, <1>9, <1>10, <1>11, <1>12, <1>13, <1>14, <1>15, <1>16, <1>17, <1>18
     DEF DataInv, CountInv

-----------------------------------------------------------------------------
(***************************************************************************)
(* The invariant holds, and what it shows.                                 *)
(***************************************************************************)
\* The client's poll, by what it finds and what it awaited.
LEMMA PollCqClient ==
    ASSUME Typed, Typed', StateInv, PollCq(client)
    PROVE  StateInv'
<1>1. Size(cq[client]) > 0
  BY PollCqEffect, Peers DEF StateInv, EventInv
<1>2. cq[client][1].status \in {"success", "error"} /\ stage[client] \in {"WRITE", "SEND", "NOTIFY"}
  BY <1>1, EntryStatus, Peers DEF Typed, Stages
<1>. QED
  BY <1>2, PollFailsClient, PollWriteClient, PollNotifyClient, PollSendClient

\* No completion entry of the server is a failure.
LEMMA PollCqServer ==
    ASSUME Typed, Typed', StateInv, PollCq(server)
    PROVE  StateInv'
<1>1. Size(cq[server]) > 0 /\ Size(cq[server]) \in Nat
  BY PollCqEffect, Numbers, Peers DEF StateInv, EventInv, NumbersOf
<1>2. cq[server][1].status = "success"
  BY <1>1 DEF StateInv, StatusInv
<1>3. stage[server] \in {"WRITE", "SEND", "NOTIFY"}
  BY Peers DEF Typed, Stages
<1>. QED
  BY <1>2, <1>3, PollWriteServer, PollNotifyServer, PollSendServer

\* The client has always a receive posted for the server's SEND.
LEMMA ServerNotRefused ==
    ASSUME Typed, StateInv
    PROVE  ~SendFindsNoReceive(server)
<1> SUFFICES ASSUME SendFindsNoReceive(server) PROVE FALSE
  OBVIOUS
<1>1. Sends(server) /\ recvs[client] = 0
  BY SendFindsNoReceiveEffect, Peers DEF SendFindsNoReceive, Sends
<1>. QED
  BY <1>1 DEF StateInv, TurnInv, ServerTurn

\* The invariant holds at the start.
LEMMA StateInit == Init => Typed /\ StateInv
<1> SUFFICES ASSUME Init PROVE Typed /\ StateInv
  OBVIOUS
<1>1. /\ pc[client] = "resolve" /\ pc[server] = "listen" /\ cm = "none"
      /\ \A p \in Procs : /\ stage[p] = "NOTIFY" /\ sz[p] = 1 /\ trial[p] = 0
                          /\ buf[p].layers = {} /\ recvs[p] = 0 /\ events[p] = 0
                          /\ Size(cq[p]) = 0 /\ Size(wire[p]) = 0 /\ Size(acks[p]) = 0
  BY Peers DEF Init, Size
<1>2. Typed
  BY TrialsAssumption DEF Init, Typed, Calls, SetUp, Stages, Sizes
<1> USE <1>1, Peers DEF Waits, Coming, Sends, Writes, SetUp, Calls, StageOf, EventOf, RequestOf
<1>3. EventInv /\ StageInv /\ SetUpInv
  BY DEF EventInv, StageInv, SetUpInv
<1>4. CountInv
  BY DEF CountInv, ClientCount, ServerCount
<1>5. RequestInv /\ StatusInv
  BY DEF RequestInv, StatusInv, Refused
<1>6. TurnInv
  BY DEF TurnInv, ServerTurn
<1>7. TrialInv
  BY DEF TrialInv, Same
<1>8. DataInv
  BY DEF DataInv, ClientData, ServerData, AwaitsFlag, ServerTurn
<1>. QED
  BY <1>2, <1>3, <1>4, <1>5, <1>6, <1>7, <1>8 DEF StateInv

\* A program that returns from a failed call leaves all as it is, and so keeps it.
LEMMA StateUnchanged ==
    ASSUME StateInv, UNCHANGED state
    PROVE  StateInv'
<1> USE DEF state, progress, memory, queues, Waits, Coming, Sends, Writes, LastTrial
<1>1. EventInv' /\ StageInv' /\ SetUpInv'
  BY DEF StateInv, EventInv, EventOf, StageInv, StageOf, SetUpInv
<1>2. CountInv'
  BY DEF StateInv, CountInv, ClientCount, ServerCount
<1>3. RequestInv' /\ StatusInv'
  BY DEF StateInv, RequestInv, RequestOf, StatusInv, Refused
<1>4. TurnInv'
  BY DEF StateInv, TurnInv, ServerTurn, AwaitsFlag, Refused
<1>5. TrialInv'
  BY DEF StateInv, TrialInv, Answered, Same, Ahead
<1>6. DataInv'
  BY DEF StateInv, DataInv, ClientData, ServerData, ServerTurn, AwaitsFlag, Enc
<1>. QED
  BY <1>1, <1>2, <1>3, <1>4, <1>5, <1>6 DEF StateInv

\* Every step keeps it.
LEMMA StateNext ==
    ASSUME Typed, Typed', StateInv, [Next]_vars
    PROVE  StateInv'
<1>1. ASSUME Program(client) PROVE StateInv'
  BY <1>1, ProcsAssumption, ResolveClient, CreateQpClient, ConnectClient, EstablishedClient,
     EncryptClient, DecryptClient, PostWriteClient, PostSendClient, PostRecvClient,
     GetCqEventClient, ReqNotifyCqClient, PollCqClient
     DEF Program, SetUpStep
<1>2. ASSUME Program(server) PROVE StateInv'
  BY <1>2, ProcsAssumption, ConnectRequestServer, CreateQpServer, ConnectServer,
     EstablishedServer, ServeServer, PostWriteServer, PostSendServer, PostRecvServer,
     GetCqEventServer, ReqNotifyCqServer, PollCqServer
     DEF Program, SetUpStep
<1>3. ASSUME UNCHANGED state PROVE StateInv'
  BY <1>3, StateUnchanged
<1>4. ASSUME Network(client) PROVE StateInv'
  BY <1>4, WriteArrivesClient, SendArrivesClient, SendFindsNoReceiveClient, AckArrivesClient
     DEF Network
<1>5. ASSUME Network(server) PROVE StateInv'
  BY <1>5, WriteArrivesServer, SendArrivesServer, ServerNotRefused, AckArrivesServer
     DEF Network
<1>. QED
  BY <1>1, <1>2, <1>3, <1>4, <1>5 DEF Next, ProgramStep, CallFails, NetworkStep, vars, Procs

\* The inductive invariant.
IInv == Typed /\ StateInv

\* The flag that the server writes under is the client's size.
LEMMA FlagIsSet ==
    ASSUME IInv
    PROVE  FlagSet
<1>1. ASSUME pc[server] = "write" PROVE flag[server] = sz[client]
  BY <1>1, TurnOfServer DEF IInv, ServerWorks, StateInv, DataInv, ServerData
<1>2. sz[client] \in Sizes
  BY Peers DEF IInv, Typed
<1>. QED
  BY <1>1, <1>2 DEF FlagSet

\* The inductive invariant is inductive.
LEMMA IInvNext == IInv /\ [Next]_vars => IInv'
  BY FlagIsSet, NextType, StateNext DEF IInv

\* It holds in every state.
LEMMA IInvAlways == Spec => []IInv
<1>1. Init => IInv
  BY StateInit DEF IInv
<1>. QED
  BY <1>1, IInvNext, PTL DEF Spec

\* Every variable keeps its type; in particular the server never writes under a flag
\* that it was not sent, and no size or trial runs out of its range.
THEOREM TypeCorrect == Spec => []TypeOK
<1>1. Init => exited \subseteq Procs
  BY DEF Init
<1>2. exited \subseteq Procs /\ [Next]_vars => (exited \subseteq Procs)'
  BY DEF Next, ProgramStep, CallFails, NetworkStep, vars
<1>3. IInv /\ exited \subseteq Procs => TypeOK
  BY DEF IInv, TypeOK
<1>. QED
  BY <1>1, <1>2, <1>3, IInvAlways, PTL DEF Spec

\* Every event is for an entry that is still in the queue (get_cq_event, poll_cq):
\* however completions and waits interleave, a woken process never polls an empty queue.
THEOREM EventsMatchEntries == Spec => []EventsHaveEntries
<1>1. ASSUME IInv PROVE EventsHaveEntries
  <2>1. ASSUME NEW p \in Procs
        PROVE  events[p] + (IF pc[p] \in {"arm", "poll"} THEN 1 ELSE 0) <= Size(cq[p])
    BY <1>1, Numbers DEF IInv, StateInv, EventInv, EventOf, NumbersOf, Procs
  <2>. QED
    BY <2>1 DEF EventsHaveEntries, Size
<1>. QED
  BY <1>1, IInvAlways, PTL

\* The completion queue and the queue pair are as large as was asked for at their
\* creation, whatever the schedule and however late the acknowledgements.
THEOREM QueuesNeverOverrun == Spec => []QueuesSuffice
<1>1. ASSUME IInv PROVE QueuesSuffice
  <2> USE <1>1, Numbers DEF IInv, StateInv, NumbersOf, Coming, Waits
  <2>1. /\ Size(cq[client]) <= 2 /\ Size(wire[client]) + Size(acks[client]) <= 2
        /\ recvs[client] <= 1
    BY DEF CountInv, ClientCount, StageInv, SetUp, Calls, Stages
  <2>2. /\ Size(cq[server]) <= 2 /\ Size(wire[server]) + Size(acks[server]) <= 2
    BY DEF CountInv, ServerCount, StageInv, SetUp, Calls, Stages
  <2>3. recvs[server] <= 1
    BY DEF CountInv, ServerCount
  <2>. QED
    BY <2>1, <2>2, <2>3 DEF QueuesSuffice, Procs, Size
<1>. QED
  BY <1>1, IInvAlways, PTL

\* A process that computes on its buffer or sends it shares it with no WRITE.
THEOREM BufferNeverShared == Spec => []BufferOwned
<1>1. ASSUME IInv PROVE BufferOwned
  <2> SUFFICES ASSUME NEW p \in Procs, NEW i \in 1 .. Len(wire[Peer(p)]),
                      \/ pc[p] \in {"encrypt", "serve", "write", "decrypt"}
                      \/ (stage[p] = "WRITE" /\ pc[p] # "failed"),
                      wire[Peer(p)][i].op = "WRITE"
               PROVE  FALSE
    BY DEF BufferOwned
  <2> DEFINE q == Peer(p)
  <2>1. q \in Procs /\ wire[q] \in Seq(Requests) /\ NumbersOf(q)
    BY <1>1, Peers, Numbers DEF IInv, Typed, Procs
  <2>2. RequestOf(q) /\ Size(wire[q]) > 0
    BY <1>1, <2>1 DEF IInv, StateInv, RequestInv, Procs, Size
  <2>3. Head(wire[q]).op = "WRITE" /\ stage[q] = "WRITE"
    BY <2>2 DEF RequestOf, Size
  <2>4. CASE p = client
    <3>1. stage[server] = "WRITE"
      BY <2>3, <2>4, Peers
    <3>2. AwaitsFlag
      BY <1>1, <3>1, TurnOfServer DEF IInv, ServerWorks
    <3>. QED
      BY <2>4, <3>2 DEF AwaitsFlag, Waits
  <2>5. CASE p = server
    <3>1. Size(wire[client]) > 0
      BY <2>2, <2>5, Peers
    <3>2. ~ServerWorks
      BY <1>1, <3>1, TurnOfServer DEF IInv, StateInv, TurnInv
    <3>. QED
      BY <1>1, <2>5, <3>2 DEF ServerWorks, IInv, StateInv, StageInv
  <2>. QED
    BY <2>4, <2>5 DEF Procs
<1>. QED
  BY <1>1, IInvAlways, PTL

\* The only SEND that can find no receive is the client's, and only in the window
\* between the server's SEND and its ibv_post_recv.
THEOREM RefusedOnlyBeforeRepost == Spec => []RejectedOnlyBeforeRepost
<1>1. ASSUME IInv PROVE RejectedOnlyBeforeRepost
  <2>1. ASSUME Sends(server) PROVE recvs[client] = 1
    BY <1>1, <2>1 DEF IInv, StateInv, TurnInv, ServerTurn
  <2>2. ASSUME Sends(client), recvs[server] = 0 PROVE pc[server] = "repost"
    <3> USE <1>1, <2>2, Numbers DEF IInv, StateInv, NumbersOf, Sends
    <3>1. stage[client] = "SEND" /\ pc[client] = "wait" /\ recvs[client] = 1 /\ cm = "confirmation"
      BY DEF RequestInv, RequestOf, SetUpInv, SetUp, CountInv, ClientCount, Waits, Coming
    <3>2. ~ServerTurn /\ ~Answered
      BY <3>1 DEF TurnInv, ServerTurn, Answered
    <3>3. pc[server] # "done" /\ (stage[server] = "SEND" => ~LastTrial(server))
      BY <3>1, <3>2 DEF TrialInv, Ahead
    <3>. QED
      BY <3>1, <3>2, <3>3 DEF ServerTurn
  <2>3. ASSUME NEW p \in Procs, wire[p] # <<>> /\ Head(wire[p]).op = "SEND"
        PROVE  Sends(p)
    BY <2>3 DEF Sends, Size
  <2>. QED
    BY <2>1, <2>2, <2>3, Peers DEF RejectedOnlyBeforeRepost, Procs
<1>. QED
  BY <1>1, IInvAlways, PTL

\* Each trial gives the client back the buffer it started with.
THEOREM TripIsRound == Spec => []RoundTrip
<1>1. ASSUME IInv PROVE RoundTrip
  <2>1. buf[client] \in [size : 0 .. MAX_SIZE, layers : SUBSET Procs]
    BY <1>1, Peers DEF IInv, Typed
  <2>2. pc[client] \in {"repost", "done"} => buf[client].size = sz[client] /\ buf[client].layers = {}
    BY <1>1 DEF IInv, StateInv, DataInv, ClientData
  <2>. QED
    BY <2>1, <2>2 DEF RoundTrip
<1>. QED
  BY <1>1, IInvAlways, PTL

-----------------------------------------------------------------------------
(***************************************************************************)
(* SwBaseline implements Trials.  Four actions are steps of it: Encrypt,   *)
(* Serve, Decrypt and the client's PostRecv.  Every other one leaves the   *)
(* phase and the data alone, although it may move the server to its next   *)
(* trial, or copy the data from one buffer to the other.                   *)
(***************************************************************************)
\* The client's trial has been served if its answer is with the client or on its
\* way, or the server is about to write its buffer back.
LEMMA ServedIff ==
    IInv /\ cm = "confirmation"
        => (Served <=> Answered \/ pc[server] = "write" \/ stage[server] = "WRITE")
<1> SUFFICES ASSUME IInv, cm = "confirmation"
             PROVE  Served <=> Answered \/ pc[server] = "write" \/ stage[server] = "WRITE"
  OBVIOUS
<1>1. /\ sz[client] \in 1 .. MAX_SIZE /\ sz[server] \in 1 .. MAX_SIZE
      /\ trial[client] \in 0 .. NUM_TRAIL - 1 /\ trial[server] \in 0 .. NUM_TRAIL - 1
      /\ stage[server] \in Stages
      /\ MAX_SIZE \in Nat \ {0} /\ NUM_TRAIL \in Nat \ {0}
  BY Peers, TrialsAssumption DEF IInv, Typed, Sizes
<1>2. pc[server] \in {"write", "done"} => stage[server] = "NOTIFY"
  BY DEF IInv, StateInv, StageInv, StageOf
<1>3. IF Answered
      THEN IF stage[server] = "SEND" \/ pc[server] = "done" THEN Same ELSE Ahead(server, client)
      ELSE /\ pc[server] # "done"
           /\ IF stage[server] = "SEND" THEN Ahead(client, server) ELSE Same
  BY DEF IInv, StateInv, TrialInv
<1>4. Ahead(server, client) => Served
  BY <1>1 DEF Ahead, Served
<1>5. Ahead(client, server) => ~Served
  BY <1>1 DEF Ahead, Served
<1>6. Same => (Served <=> pc[server] \in {"write", "done"} \/ stage[server] # "NOTIFY")
  BY <1>1 DEF Same, Served
<1>7. CASE Answered
  BY <1>3, <1>4, <1>6, <1>7
<1>8. CASE ~Answered /\ stage[server] = "SEND"
  BY <1>2, <1>3, <1>5, <1>8
<1>9. CASE ~Answered /\ stage[server] # "SEND"
  BY <1>1, <1>2, <1>3, <1>6, <1>9 DEF Stages
<1>. QED
  BY <1>7, <1>8, <1>9

\* The same after a step.
LEMMA ServedIffNext ==
    (IInv /\ cm = "confirmation"
        => (Served <=> Answered \/ pc[server] = "write" \/ stage[server] = "WRITE"))'
  BY ServedIff, PTL

\* Until the client waits for the server's flag, the server has not served its trial.
LEMMA NotYetServed ==
    ASSUME IInv, cm = "confirmation", ~AwaitsFlag, recvs[client] = 1
    PROVE  ~Served
<1>1. ~ServerTurn
  BY DEF IInv, StateInv, TurnInv
<1>2. ~Sends(server) /\ pc[server] # "write" /\ stage[server] # "WRITE"
  BY <1>1, TurnOfServer DEF IInv, ServerWorks
<1>. QED
  BY <1>2, ServedIff DEF Answered

\* The places of the client that show in the phase of the trial.
Shown == {"encrypt", "repost", "done"}

\* A step that changes none of what the phase and the data are made of.
LEMMA HiddenStep ==
    ASSUME \/ pc'[client] = pc[client]
           \/ pc[client] \notin Shown /\ pc'[client] \notin Shown,
           cm' = cm \/ (cm # "confirmation" /\ cm' # "confirmation"),
           buf' = buf, sz'[client] = sz[client], trial'[client] = trial[client],
           cm = "confirmation" => (Served' <=> Served)
    PROVE  UNCHANGED Trial!vars
<1>1. Phase' = Phase
  BY DEF Phase, Shown
<1>2. Data' = Data
  BY <1>1 DEF Data
<1>. QED
  BY <1>1, <1>2 DEF Trial!vars

\* Whether a trial is served depends on the loops and on the server's place.
LEMMA ServedUnchanged ==
    ASSUME sz' = sz, trial' = trial,
           \/ pc'[server] = pc[server]
           \/ pc[server] \notin {"write", "done"} /\ pc'[server] \notin {"write", "done"},
           stage'[server] = stage[server]
    PROVE  Served' <=> Served
  BY DEF Served

\* The first state has no trial.
LEMMA TrialInit == Init => Trial!Init
<1> SUFFICES ASSUME Init PROVE Trial!Init
  OBVIOUS
<1>1. /\ pc[client] = "resolve" /\ cm = "none" /\ sz[client] = 1 /\ trial[client] = 0
      /\ buf[client] = [size |-> 0, layers |-> {}]
  BY Peers DEF Init
<1>2. Phase = "ready" /\ Data = buf[client]
  BY <1>1 DEF Phase, Data
<1>. QED
  BY <1>1, <1>2 DEF Trial!Init

\* The steps of the set-up come before the first trial.
LEMMA SetUpHidden ==
    ASSUME IInv, NEW p \in Procs, SetUpStep(p)
    PROVE  UNCHANGED Trial!vars
<1>1. Typed /\ StageInv /\ SetUpInv /\ (p = client \/ p = server)
  BY DEF IInv, StateInv, Procs
<1>2. CASE Resolve
  <2>1. /\ pc'[client] \in {"route", "create"} /\ pc'[server] = pc[server] /\ pc[client] \notin Shown
        /\ UNCHANGED <<stage, sz, trial, buf, cm>>
    BY <1>1, <1>2, ResolveEffect, Peers DEF Only, Resolve, memory, Shown
  <2>. QED
    BY <2>1, HiddenStep, ServedUnchanged DEF Shown
<1>3. CASE ConnectRequest
  <2>1. /\ pc'[server] = "create" /\ pc'[client] = pc[client] /\ pc[server] = "listen"
        /\ UNCHANGED <<stage, sz, trial, buf, cm>>
    BY <1>1, <1>3, ConnectRequestEffect, Peers DEF Only, ConnectRequest, memory
  <2>. QED
    BY <2>1, HiddenStep, ServedUnchanged
<1>4. CASE CreateQp(p)
  <2>1. /\ pc[p] = "create" /\ pc'[p] \in {"connect", "accept"} /\ pc'[Peer(p)] = pc[Peer(p)]
        /\ UNCHANGED <<stage, sz, trial, buf, cm>>
    BY <1>1, <1>4, CreateQpEffect DEF Only, CreateQp, memory
  <2>. QED
    BY <1>1, <2>1, Peers, HiddenStep, ServedUnchanged DEF Shown
<1>5. CASE Connect(p)
  <2>1. /\ pc[p] = (IF p = client THEN "connect" ELSE "accept")
        /\ pc'[p] = "establish" /\ pc'[Peer(p)] = pc[Peer(p)]
        /\ cm' = (IF p = client THEN "request" ELSE "reply")
        /\ UNCHANGED <<stage, sz, trial, buf>>
    BY <1>1, <1>5, ConnectEffect DEF Only, Connect, memory
  <2>2. cm # "confirmation" /\ cm' # "confirmation"
    BY <1>1, <2>1, ProcsAssumption DEF SetUpInv
  <2>. QED
    BY <1>1, <2>1, <2>2, Peers, ProcsAssumption, HiddenStep DEF Shown
<1>6. CASE Established(p)
  <2>1. /\ pc[p] = "establish" /\ pc'[Peer(p)] = pc[Peer(p)]
        /\ pc'[p] = (IF p = client THEN "encrypt" ELSE "wait")
        /\ cm = (IF p = client THEN "reply" ELSE "confirmation") /\ cm' = "confirmation"
        /\ UNCHANGED <<stage, sz, trial, buf>>
    BY <1>1, <1>6, EstablishedEffect DEF Only, Established, memory
  <2>2. CASE p = server
    BY <2>1, <2>2, Peers, ProcsAssumption, HiddenStep, ServedUnchanged
  <2>3. CASE p = client
    <3>1. Phase = "ready" /\ Phase' = "ready"
      BY <2>1, <2>3 DEF Phase
    <3>. QED
      BY <2>1, <3>1 DEF Data, Trial!vars
  <2>. QED
    BY <1>1, <2>2, <2>3
<1>. QED
  BY <1>2, <1>3, <1>4, <1>5, <1>6 DEF SetUpStep

\* Encrypt opens the trial: the server has not served it.
LEMMA EncryptAsks ==
    ASSUME IInv, Encrypt
    PROVE  Trial!Ask
<1>1. Typed /\ StateInv
  BY DEF IInv
<1>2. /\ pc[client] = "encrypt" /\ pc'[client] = "write" /\ pc'[server] = pc[server]
      /\ buf'[client] = [size |-> sz[client], layers |-> Toggle(buf[client].layers, client)]
      /\ UNCHANGED <<stage, sz, trial, cm>>
  BY <1>1, EncryptEffect, Peers DEF Only, Encrypt
<1>3. cm = "confirmation" /\ recvs[client] = 1 /\ buf[client].layers = {} /\ ~AwaitsFlag
  BY <1>1, <1>2 DEF StateInv, SetUpInv, SetUp, CountInv, ClientCount, DataInv, ClientData, AwaitsFlag, Waits
<1>4. ~Served'
  BY <1>2, <1>3, NotYetServed, ServedUnchanged
<1>5. Phase = "ready" /\ Phase' = "asked"
  BY <1>2, <1>3, <1>4 DEF Phase
<1>6. Data' = [size |-> sz[client], layers |-> {client}]
  BY <1>2, <1>3, <1>5 DEF Data, Toggle
<1>. QED
  BY <1>2, <1>5, <1>6 DEF Trial!Ask, Trial!Step

\* Serve is for the trial that the client is in, and for the first time.
LEMMA ServeServes ==
    ASSUME IInv, Serve
    PROVE  Trial!Serve
<1>1. Typed /\ StateInv
  BY DEF IInv
<1>2. pc[server] = "serve" /\ UNCHANGED <<stage, sz, trial, cm>>
  BY DEF Serve
<1>3. ServerTurn /\ AwaitsFlag /\ recvs[client] = 1
  BY <1>1, <1>2, TurnOfServer DEF ServerWorks
<1>4. stage[server] = "NOTIFY" /\ cm = "confirmation" /\ ~Sends(server)
  BY <1>1, <1>2 DEF StateInv, StageInv, StageOf, SetUpInv, SetUp, RequestInv, RequestOf, Sends
<1>5. flag[server] = sz[client] /\ Enc(server, client)
  BY <1>1, <1>2, <1>3, <1>4 DEF StateInv, DataInv, ServerData
<1>6. /\ pc'[server] = "write" /\ pc'[client] = pc[client]
      /\ buf'[server].size = sz[client] /\ buf'[server].layers = {server}
      /\ buf'[server] = [size |-> buf'[server].size, layers |-> buf'[server].layers]
  <2>1. buf' = [buf EXCEPT ![server].layers = Toggle(Toggle(@, client), server)] /\ Goto(server, "write")
    BY <1>5 DEF Serve, Enc
  <2>2. buf[server] \in [size : 0 .. MAX_SIZE, layers : SUBSET Procs] /\ DOMAIN buf = Procs
    BY <1>1, Peers DEF Typed
  <2>3. Toggle(Toggle({client}, client), server) = {server}
    BY DEF Toggle
  <2>4. buf'[server] = [buf[server] EXCEPT !.layers = {server}]
    BY <1>5, <2>1, <2>2, <2>3, Peers DEF Enc
  <2>. QED
    BY <1>1, <1>5, <2>1, <2>2, <2>4, GotoEffect, Peers DEF Only, Enc
<1>7. ~Served
  BY <1>2, <1>3, <1>4, ServedIff DEF Answered
<1>8. Same
  BY <1>1, <1>2, <1>3, <1>4 DEF StateInv, TrialInv, Answered
<1>9. Served'
  BY <1>2, <1>6, <1>8 DEF Served, Same
<1>10. Phase = "asked" /\ Phase' = "answered"
  BY <1>2, <1>3, <1>4, <1>6, <1>7, <1>9 DEF Phase, AwaitsFlag, Waits
<1>11. Data' = [size |-> sz[client], layers |-> {server}]
  BY <1>6, <1>10 DEF Data
<1>. QED
  BY <1>2, <1>10, <1>11 DEF Trial!Serve, Trial!Step

\* Decrypt finds the answer in the client's buffer.
LEMMA DecryptTakes ==
    ASSUME IInv, Decrypt
    PROVE  Trial!Take
<1>1. Typed /\ StateInv
  BY DEF IInv
<1>2. pc[client] = "decrypt" /\ UNCHANGED <<stage, sz, trial, cm>>
  BY DEF Decrypt
<1>3. recvs[client] = 0 /\ cm = "confirmation" /\ Enc(client, server)
  BY <1>1, <1>2 DEF StateInv, CountInv, ClientCount, SetUpInv, SetUp, DataInv, ClientData
<1>4. /\ pc'[client] \in {"repost", "done"}
      /\ buf'[client] = [size |-> sz[client], layers |-> {}]
  <2>1. buf' = [buf EXCEPT ![client].layers = Toggle(@, server)]
    BY DEF Decrypt
  <2>2. buf[client] \in [size : 0 .. MAX_SIZE, layers : SUBSET Procs] /\ DOMAIN buf = Procs
    BY <1>1, Peers DEF Typed
  <2>3. Toggle({server}, server) = {}
    BY DEF Toggle
  <2>4. buf'[client] = [buf[client] EXCEPT !.layers = {}]
    BY <1>3, <2>1, <2>2, <2>3, Peers DEF Enc
  <2>5. pc'[client] \in {"repost", "done"}
    BY <1>1, GotoEffect, Peers DEF Decrypt, Only
  <2>. QED
    BY <1>3, <2>2, <2>4, <2>5 DEF Enc
<1>5. Served
  BY <1>3, ServedIff DEF Answered
<1>6. Phase = "answered" /\ Phase' = "taken"
  BY <1>2, <1>3, <1>4, <1>5 DEF Phase
<1>7. Data' = [size |-> sz[client], layers |-> {}]
  BY <1>4, <1>6 DEF Data
<1>. QED
  BY <1>2, <1>6, <1>7 DEF Trial!Take, Trial!Step

\* The client's PostRecv takes it to the next trial.
LEMMA PostRecvNextTrial ==
    ASSUME IInv, PostRecv(client)
    PROVE  Trial!NextTrial
<1>1. Typed /\ StateInv
  BY DEF IInv
<1>2. /\ pc[client] = "repost" /\ NextTrial(client, "encrypt") /\ ~LastTrial(client)
      /\ UNCHANGED <<buf, cm>>
  BY <1>1, ProcsAssumption DEF PostRecv, memory, StateInv, StageInv, StageOf
<1>3. /\ sz[client] \in 1 .. MAX_SIZE /\ trial[client] \in 0 .. NUM_TRAIL - 1
      /\ MAX_SIZE \in Nat \ {0} /\ NUM_TRAIL \in Nat \ {0}
      /\ DOMAIN sz = Procs /\ DOMAIN trial = Procs
  BY <1>1, Peers, TrialsAssumption DEF Typed, Sizes
<1>4. /\ pc'[client] = "encrypt"
      /\ trial'[client] = (trial[client] + 1) % NUM_TRAIL
      /\ sz'[client] = IF trial[client] = NUM_TRAIL - 1 THEN sz[client] + 1 ELSE sz[client]
  BY <1>1, <1>2, <1>3, GotoEffect, Peers DEF NextTrial, Only
<1>5. trial'[client] = IF trial[client] = NUM_TRAIL - 1 THEN 0 ELSE trial[client] + 1
  BY <1>3, <1>4, NextTrialOK
<1>6. IF trial[client] < NUM_TRAIL - 1
      THEN trial'[client] = trial[client] + 1 /\ sz'[client] = sz[client]
      ELSE trial'[client] = 0 /\ sz[client] < MAX_SIZE /\ sz'[client] = sz[client] + 1
  BY <1>2, <1>3, <1>4, <1>5 DEF LastTrial
<1>7. Phase = "taken" /\ Phase' = "ready"
  BY <1>2, <1>4 DEF Phase
<1>8. Data' = Data
  BY <1>2, <1>7 DEF Data
<1>. QED
  BY <1>6, <1>7, <1>8 DEF Trial!NextTrial

\* A poll moves the client within its trial, and the server perhaps to its next
\* trial, which it has answered then.
LEMMA PollHidden ==
    ASSUME IInv, IInv', NEW p \in Procs, PollCq(p)
    PROVE  UNCHANGED Trial!vars
<1>1. Typed /\ StateInv /\ (p = client \/ p = server)
  BY DEF IInv, Procs
<1>2. pc[p] = "poll" /\ UNCHANGED <<buf, cm, recvs, wire>>
  BY DEF PollCq, memory
<1>3. CASE p = client
  <2>1. /\ UNCHANGED <<sz, trial>> /\ pc'[client] \notin Shown
        /\ pc'[server] = pc[server] /\ stage'[server] = stage[server]
    BY <1>1, <1>3, PollCqEffect, AfterPollEffect, Peers, ProcsAssumption
       DEF StateInv, EventInv, Only, Shown
  <2>. QED
    BY <1>2, <1>3, <2>1, HiddenStep, ServedUnchanged DEF Shown
<1>4. CASE p = server
  <2>1. /\ pc'[server] # "write" /\ (stage'[server] = "WRITE" <=> stage[server] = "WRITE")
        /\ pc'[client] = pc[client] /\ sz'[client] = sz[client] /\ trial'[client] = trial[client]
    <3>1. \/ Only(server, pc', pc, "failed") /\ UNCHANGED <<stage, sz, trial>>
          \/ AfterPoll(server)
      BY <1>1, <1>4, PollCqEffect DEF StateInv, EventInv
    <3>2. ASSUME NextTrial(server, "wait")
          PROVE  /\ pc'[server] \in {"done", "wait"} /\ pc'[client] = pc[client]
                 /\ sz'[client] = sz[client] /\ trial'[client] = trial[client]
      <4>1. sz'[client] = sz[client] /\ trial'[client] = trial[client]
        BY <1>1, <3>2, ProcsAssumption, Peers DEF NextTrial, Typed
      <4>2. PICK c \in {"done", "wait"} : Goto(server, c)
        BY <3>2 DEF NextTrial
      <4>3. Only(server, pc', pc, c)
        BY <1>1, <4>2, GotoEffect, Peers
      <4>. QED
        BY <4>1, <4>3, Peers DEF Only
    <3>. QED
      BY <1>1, <1>4, <3>1, <3>2, AfterPollEffect, Peers, ProcsAssumption DEF Only
  <2>2. Answered' <=> Answered
    BY <1>2 DEF Answered, Sends
  <2>3. cm = "confirmation" => (Served' <=> Answered' \/ pc'[server] = "write" \/ stage'[server] = "WRITE")
    BY <1>2, ServedIffNext
  <2>. QED
    BY <1>2, <1>4, <2>1, <2>2, <2>3, ServedIff, HiddenStep
<1>. QED
  BY <1>1, <1>3, <1>4

\* The other calls of the programs move them within their trials.
LEMMA CallHidden ==
    ASSUME IInv, NEW p \in Procs,
           \/ PostWrite(p) \/ PostSend(p) \/ GetCqEvent(p) \/ ReqNotifyCq(p)
           \/ p = server /\ PostRecv(p)
    PROVE  UNCHANGED Trial!vars
<1>1. Typed /\ StateInv /\ (p = client \/ p = server)
  BY DEF IInv, Procs
<1>2. PICK c \in {"wait", "repost", "arm", "poll"} : Goto(p, c) /\ (p = client => c # "repost")
  BY ProcsAssumption DEF PostWrite, PostSend, PostRecv, GetCqEvent, ReqNotifyCq
<1>3. UNCHANGED <<sz, trial, buf, cm>> /\ pc[p] \in {"write", "send", "wait", "arm", "repost"}
  BY ProcsAssumption DEF PostWrite, PostSend, PostRecv, GetCqEvent, ReqNotifyCq, memory
<1>4. Only(p, pc', pc, c)
  BY <1>1, <1>2, GotoEffect
<1>5. /\ pc[p] = "write" => stage'[p] = "WRITE"
      /\ pc[p] = "send" => stage'[p] = "SEND"
      /\ pc[p] \in {"wait", "arm", "repost"} => stage'[p] = stage[p]
      /\ stage'[Peer(p)] = stage[Peer(p)]
  BY <1>1, Peers DEF PostWrite, PostSend, PostRecv, GetCqEvent, ReqNotifyCq, Typed
<1>6. CASE p = client
  <2>1. pc[client] \notin Shown /\ pc'[client] \notin Shown
    BY <1>2, <1>3, <1>4, <1>6, ProcsAssumption DEF Only, Shown, PostRecv, PostWrite, PostSend, GetCqEvent, ReqNotifyCq
  <2>. QED
    BY <1>3, <1>4, <1>5, <1>6, <2>1, Peers, HiddenStep, ServedUnchanged DEF Only
<1>7. CASE p = server
  <2>1. pc[server] = "send" => stage[server] = "WRITE"
    BY <1>1 DEF StateInv, StageInv, StageOf
  <2>2. Served' <=> Served
    BY <1>2, <1>3, <1>4, <1>5, <1>7, <2>1 DEF Served, Only
  <2>. QED
    BY <1>3, <1>4, <1>7, <2>2, Peers, HiddenStep DEF Only
<1>. QED
  BY <1>1, <1>6, <1>7

\* A WRITE copies the data before the other end works on them: the client's when
\* the server has not served the trial, the server's when it has.
LEMMA WriteHidden ==
    ASSUME IInv, NEW p \in Procs, WriteArrives(p)
    PROVE  UNCHANGED Trial!vars
<1>1. Typed /\ StateInv /\ (p = client \/ p = server)
  BY DEF IInv, Procs
<1>2. UNCHANGED <<pc, stage, sz, trial, cm>> /\ buf'[p] = buf[p]
  BY <1>1, Peers DEF WriteArrives, progress, Typed
<1>3. Phase' = Phase
  BY <1>2 DEF Phase, Served
<1>4. Writes(p) /\ ~Sends(p)
  BY Numbers, <1>1, Peers DEF WriteArrives, Writes, Sends, NumbersOf, Size
<1>5. stage[p] = "WRITE" /\ pc[p] = "wait"
  BY <1>1, <1>4 DEF StateInv, RequestInv, RequestOf, Writes, StageInv
<1>6. cm = "confirmation" /\ pc[client] \notin Shown
  BY <1>1, <1>5, TurnOfServer DEF StateInv, SetUpInv, SetUp, Shown, ServerWorks, AwaitsFlag, Waits
<1>7. CASE p = client
  <2>1. recvs[client] = 1 /\ ~AwaitsFlag
    BY <1>1, <1>5, <1>7 DEF StateInv, CountInv, ClientCount, Waits, AwaitsFlag
  <2>2. Phase = "asked"
    BY <1>6, <2>1, NotYetServed DEF Phase, Shown
  <2>. QED
    BY <1>2, <1>3, <1>7, <2>2 DEF Data, Trial!vars
<1>8. CASE p = server
  <2>1. Phase = "answered"
    BY <1>5, <1>6, <1>8, ServedIff DEF Phase, Shown
  <2>. QED
    BY <1>2, <1>3, <1>8, <2>1 DEF Data, Trial!vars
<1>. QED
  BY <1>1, <1>7, <1>8

\* The other steps of the network move no data.
LEMMA NetworkHidden ==
    ASSUME IInv, NEW p \in Procs, Network(p)
    PROVE  UNCHANGED Trial!vars
<1>1. CASE SendArrives(p) \/ SendFindsNoReceive(p) \/ AckArrives(p)
  <2>1. UNCHANGED <<pc, stage, sz, trial, buf, cm>>
    BY <1>1 DEF SendArrives, SendFindsNoReceive, AckArrives, progress, memory
  <2>. QED
    BY <2>1, HiddenStep, ServedUnchanged
<1>. QED
  BY <1>1, WriteHidden DEF Network

\* Every step of the two programs and of the network is one of the trials, or none.
LEMMA TrialStep == IInv /\ IInv' /\ [Next]_vars => [Trial!Next]_Trial!vars
<1> SUFFICES ASSUME IInv, IInv', [Next]_vars PROVE [Trial!Next]_Trial!vars
  OBVIOUS
<1>1. ASSUME UNCHANGED state PROVE [Trial!Next]_Trial!vars
  <2>1. UNCHANGED <<pc, stage, sz, trial, buf, cm>>
    BY <1>1 DEF state, progress, memory
  <2>. QED
    BY <2>1, HiddenStep, ServedUnchanged
<1>2. ASSUME NEW p \in Procs, Program(p) PROVE [Trial!Next]_Trial!vars
  <2>1. p = client \/ p = server
    BY DEF Procs
  <2>. QED
    BY <1>2, <2>1, SetUpHidden, EncryptAsks, ServeServes, DecryptTakes, PostRecvNextTrial, PollHidden, CallHidden
       DEF Program, Trial!Next
<1>3. ASSUME NEW p \in Procs, Network(p) PROVE [Trial!Next]_Trial!vars
  BY <1>3, NetworkHidden
<1>. QED
  BY <1>1, <1>2, <1>3 DEF Next, ProgramStep, CallFails, NetworkStep, vars

\* Client and server implement the trials, for every number of sizes and of trials
\* and every schedule of hosts and network: each trial is served once, with the
\* client's size, and its answer taken once (the loops of client.c and server.c).
THEOREM ImplementsTrials == Spec => TrialsSpec
<1>. QED
  BY TrialInit, TrialStep, IInvAlways, PTL DEF Spec, TrialsSpec, Trial!Spec

-----------------------------------------------------------------------------
(***************************************************************************)
(* The increment of an IV (iv_increment in common.c).  Weight and the loop *)
(* are recursive functions: that their equations have a solution, and what *)
(* holds of every value, is proved by induction in the form of a set that  *)
(* has 0 and with each number the next.                                    *)
(***************************************************************************)

\* Quotient and remainder, as the provers know them.
LEMMA Division ==
    ASSUME NEW a \in Int, NEW m \in Nat \ {0}
    PROVE  a = m * (a \div m) + (a % m) /\ a \div m \in Int /\ a % m \in 0 .. m - 1
  OBVIOUS

\* The quotient of a natural number is one.
LEMMA NatDivision ==
    ASSUME NEW a \in Nat, NEW m \in Nat \ {0}
    PROVE  a = m * (a \div m) + (a % m) /\ a \div m \in Nat /\ a % m \in 0 .. m - 1
<1> DEFINE q == a \div m
           r == a % m
<1>1. a = m * q + r /\ q \in Int /\ r \in 0 .. m - 1
  OBVIOUS
<1> HIDE DEF q, r
<1>2. q >= 0
  <2>1. CASE q <= -1
    <3>1. m * q <= -m
      BY <1>1, <2>1
    <3> QED
      BY <1>1, <3>1
  <2> QED
    BY <1>1, <2>1
<1>3. a = m * q + r /\ q \in Nat /\ r \in 0 .. m - 1
  BY <1>1, <1>2
<1> QED
  BY <1>3 DEF q, r

\* A set of naturals has a least element, by the order's being well-founded.
LEMMA LeastElement ==
    ASSUME NEW T, T \subseteq Nat, T # {}
    PROVE  \E n \in T : \A m \in T : n <= m
<1> DEFINE R == {p \in Nat \X Nat : p[1] < p[2]}
<1>1. IsWellFoundedOn(R, Nat)
  BY NatLessThanWellFounded DEF OpToRel
<1>2. \A x, y \in Nat : x < y => <<x, y>> \in R
  OBVIOUS
<1> HIDE DEF R
<1>3. PICK x \in T : \A y \in T : ~ (<<y, x>> \in R)
  BY <1>1, WFMin
<1>4. ASSUME NEW m \in T PROVE x <= m
  <2>1. m \in Nat /\ x \in Nat
    BY <1>3
  <2>2. ~ (m < x)
    BY <1>2, <1>3, <2>1
  <2> QED
    BY <2>1, <2>2
<1> QED
  BY <1>3, <1>4

\* Induction: a set that has 0 and with each number the next has them all.
LEMMA Induction ==
    ASSUME NEW S, 0 \in S, \A n \in Nat : n \in S => n + 1 \in S
    PROVE  Nat \subseteq S
<1> DEFINE T == {n \in Nat : n \notin S}
<1> SUFFICES ASSUME T # {} PROVE FALSE
  OBVIOUS
<1>1. PICK n \in T : \A m \in T : n <= m
  BY LeastElement
<1>2. n \in Nat \ {0} /\ n \notin S /\ n - 1 \in Nat /\ (n - 1) + 1 = n
  OBVIOUS
<1>3. n - 1 \in S
  BY <1>1, <1>2
<1> QED
  BY <1>2, <1>3

\* f starts with a, and g makes the next value from a number and its value.
DefinedBy(f, a, g) == f[0] = a /\ \A n \in Nat : f[n + 1] = g[<<n, f[n]>>]

\* Definition by recursion: such a function exists.
LEMMA Recursion ==
    ASSUME NEW V, NEW a \in V, NEW g \in [Nat \X V -> V]
    PROVE  \E f \in [Nat -> V] : DefinedBy(f, a, g)
<1> DEFINE Upto(n) == {f \in [0 .. n -> V] :
                        f[0] = a /\ \A m \in 0 .. n - 1 : f[m + 1] = g[<<m, f[m]>>]}
           E == {n \in Nat : Upto(n) # {}}
           U(f, h) == {m \in Nat : m \in DOMAIN f /\ m \in DOMAIN h => f[m] = h[m]}
<1>1. ASSUME NEW n \in Nat, NEW k \in Nat, NEW f \in Upto(n), NEW h \in Upto(k)
      PROVE  \A m \in (0 .. n) \cap (0 .. k) : f[m] = h[m]
  <2>1. 0 \in U(f, h)
    OBVIOUS
  <2>2. ASSUME NEW m \in Nat, m \in U(f, h) PROVE m + 1 \in U(f, h)
    <3> SUFFICES ASSUME m + 1 \in 0 .. n, m + 1 \in 0 .. k PROVE f[m + 1] = h[m + 1]
      OBVIOUS
    <3>1. m \in 0 .. n - 1 /\ m \in 0 .. k - 1
      OBVIOUS
    <3>2. f[m] = h[m]
      BY <2>2, <3>1
    <3>3. f[m + 1] = g[<<m, f[m]>>]
      BY <3>1
    <3>4. h[m + 1] = g[<<m, h[m]>>]
      BY <3>1
    <3> QED
      BY <3>2, <3>3, <3>4
  <2> HIDE DEF U
  <2>3. Nat \subseteq U(f, h)
    BY <2>1, <2>2, Induction
  <2> QED
    BY <2>3 DEF U
<1>2. Nat \subseteq E
  <2>1. 0 \in E
    <3>1. [m \in 0 .. 0 |-> a] \in Upto(0)
      OBVIOUS
    <3> QED
      BY <3>1
  <2>2. ASSUME NEW n \in Nat, n \in E PROVE n + 1 \in E
    <3>1. PICK f \in Upto(n) : TRUE
      BY <2>2
    <3> DEFINE h == [m \in 0 .. n + 1 |-> IF m = n + 1 THEN g[<<n, f[n]>>] ELSE f[m]]
    <3>2. g[<<n, f[n]>>] \in V
      BY <3>1
    <3>3. h \in [0 .. n + 1 -> V] /\ h[0] = a
      BY <3>1, <3>2
    <3>4. ASSUME NEW m \in 0 .. (n + 1) - 1 PROVE h[m + 1] = g[<<m, h[m]>>]
      <4>1. h[m] = f[m] /\ m \in 0 .. n
        OBVIOUS
      <4>2. CASE m = n
        <5>1. h[n + 1] = g[<<n, f[n]>>]
          OBVIOUS
        <5> QED
          BY <4>1, <4>2, <5>1
      <4>3. CASE m # n
        BY <3>1, <4>1, <4>3
      <4> QED
        BY <4>2, <4>3
    <3> HIDE DEF h
    <3>5. h \in Upto(n + 1)
      BY <3>3, <3>4
    <3> QED
      BY <3>5
  <2> HIDE DEF E
  <2> QED
    BY <2>1, <2>2, Induction
<1> DEFINE Part(n) == CHOOSE f \in Upto(n) : TRUE
           F == [n \in Nat |-> Part(n)[n]]
<1>3. \A n \in Nat : Part(n) \in Upto(n)
  BY <1>2
<1> HIDE DEF Part
<1>4. F \in [Nat -> V]
  BY <1>3
<1>5. F[0] = a
  BY <1>3
<1>6. ASSUME NEW n \in Nat PROVE F[n + 1] = g[<<n, F[n]>>]
  <2>1. Part(n) \in Upto(n) /\ Part(n + 1) \in Upto(n + 1)
    BY <1>3
  <2>2. Part(n + 1)[n + 1] = g[<<n, Part(n + 1)[n]>>]
    BY <2>1
  <2>3. Part(n + 1)[n] = Part(n)[n]
    <3> HIDE DEF Upto
    <3> QED
      BY <1>1, <2>1
  <2> QED
    BY <2>2, <2>3
<1> QED
  BY <1>4, <1>5, <1>6 DEF DefinedBy

\* The remainder is unique.
LEMMA Remainder ==
    ASSUME NEW m \in Nat \ {0}, NEW k \in Int, NEW s \in 0 .. m - 1
    PROVE  (m * k + s) % m = s /\ (m * k + s) \div m = k
<1> DEFINE a == m * k + s
           q == a \div m
           r == a % m
<1>1. m * k \in Int /\ a \in Int
  OBVIOUS
<1>2. a = m * q + r /\ q \in Int /\ r \in 0 .. m - 1
  BY <1>1, Division
<1>3. m * (k - q) = r - s
  <2> HIDE DEF q, r
  <2>1. m * (k - q) = m * k - m * q
    BY <1>2
  <2> QED
    BY <1>1, <1>2, <2>1
<1> HIDE DEF a, q, r
<1>4. k - q \in Int /\ r - s < m /\ r - s > -m
  BY <1>2
<1>5. k - q = 0
  <2>1. CASE k - q >= 1
    <3>1. m * (k - q) >= m
      BY <1>4, <2>1
    <3> QED
      BY <1>3, <1>4, <3>1
  <2>2. CASE k - q <= -1
    <3>1. m * (k - q) <= -m
      BY <1>4, <2>2
    <3> QED
      BY <1>3, <1>4, <3>1
  <2> QED
    BY <1>4, <2>1, <2>2
<1>6. k = q /\ r = s
  BY <1>2, <1>3, <1>5
<1> QED
  BY <1>6 DEF a, q, r

\* The weights of the bytes are the powers of BYTE: each byte weighs BYTE times
\* as much as the one before it.
LEMMA Weights ==
    /\ Weight[0] = 1
    /\ \A k \in Nat : Weight[k] \in Nat \ {0} /\ Weight[k + 1] = BYTE * Weight[k]
<1> DEFINE g == [p \in Nat \X Nat |-> BYTE * p[2]]
           Def(f) == f = [k \in Nat |-> IF k = 0 THEN 1 ELSE BYTE * f[k - 1]]
<1>1. 1 \in Nat /\ g \in [Nat \X Nat -> Nat]
  BY BytesAssumption
<1>2. PICK f \in [Nat -> Nat] : DefinedBy(f, 1, g)
  <2> HIDE DEF g
  <2> QED
    BY <1>1, Recursion
<1>3. \A n \in Nat : f[n + 1] = BYTE * f[n]
  BY <1>2 DEF DefinedBy
<1>4. ASSUME NEW k \in Nat PROVE f[k] = IF k = 0 THEN 1 ELSE BYTE * f[k - 1]
  <2>1. CASE k # 0
    <3>1. k - 1 \in Nat /\ (k - 1) + 1 = k
      BY <2>1
    <3> QED
      BY <1>3, <2>1, <3>1
  <2> QED
    BY <1>2, <2>1 DEF DefinedBy
<1>5. Def(f)
  <2>1. f = [k \in Nat |-> f[k]]
    BY <1>2
  <2> QED
    BY <1>4, <2>1
<1>6. Def(Weight)
  <2> HIDE DEF Def
  <2>1. Weight = CHOOSE w : Def(w)
    BY DEF Weight, Def
  <2> QED
    BY <1>5, <2>1
<1>7. Weight[0] = 1 /\ \A k \in Nat : Weight[k + 1] = BYTE * Weight[k]
  <2> HIDE DEF Weight
  <2>1. \A k \in Nat : Weight[k] = IF k = 0 THEN 1 ELSE BYTE * Weight[k - 1]
    BY <1>6
  <2>2. ASSUME NEW k \in Nat PROVE Weight[k + 1] = BYTE * Weight[k]
    <3>1. k + 1 \in Nat /\ k + 1 # 0 /\ (k + 1) - 1 = k
      OBVIOUS
    <3> QED
      BY <2>1, <3>1
  <2> QED
    BY <2>1, <2>2
<1>8. \A k \in Nat : Weight[k] \in Nat \ {0}
  <2> DEFINE P == {k \in Nat : Weight[k] \in Nat \ {0}}
  <2>1. 0 \in P
    BY <1>7
  <2>2. ASSUME NEW k \in Nat, k \in P PROVE k + 1 \in P
    <3>1. BYTE * Weight[k] \in Nat \ {0}
      BY <2>2, BytesAssumption
    <3> QED
      BY <1>7, <3>1
  <2>3. Nat \subseteq P
    <3> HIDE DEF P
    <3> QED
      BY <2>1, <2>2, Induction
  <2> QED
    BY <2>3
<1> QED
  BY <1>7, <1>8

\* One byte of the addition, when no carry is lost: acc stands for the sum of
\* the bytes done so far and of val, and so does the next one.
LEMMA AddByteAdds ==
    ASSUME NEW n \in Nat, NEW v \in Nat, NEW k \in Nat,
           NEW acc \in [iv : 0 .. Weight[k] - 1, val : Nat],
           acc.iv + Weight[k] * acc.val = (n % Weight[k]) + v
    PROVE  /\ AddByte(n, acc, k).iv \in 0 .. Weight[k + 1] - 1
           /\ AddByte(n, acc, k).val \in Nat
           /\ \E c \in Nat :
                 /\ AddByte(n, acc, k).iv + Weight[k + 1] * c = (n % Weight[k + 1]) + v
                 /\ \/ AddByte(n, acc, k).val = c
                    \/ /\ (n % Weight[k + 1]) + (v % Weight[k + 1]) >= Weight[k + 1]
                       /\ (v \div Weight[k + 1]) % 2 = 1
<1> DEFINE P == Weight[k]
           W == Weight[k + 1]
           q == n \div P
           r == n % P
           i == acc.iv
           x == acc.val
           byte == q % BYTE
           d == x % BYTE
           rest == x \div BYTE
           sum == byte + d
           e == sum % BYTE
           s == sum \div BYTE
           new == AddByte(n, acc, k)
           j == new.iv
           y == new.val
<1>1. /\ P \in Nat \ {0} /\ W \in Nat \ {0} /\ W = BYTE * P
      /\ BYTE \in Nat \ {0, 1} /\ x \in Nat /\ i \in 0 .. P - 1
      /\ i + P * x = r + v
  BY Weights, BytesAssumption
<1> HIDE DEF P, W, i, x
<1>2. n = P * q + r /\ q \in Nat /\ r \in 0 .. P - 1
  BY <1>1, NatDivision
<1> HIDE DEF q, r
<1>3. /\ x = BYTE * rest + d /\ rest \in Nat /\ d \in 0 .. BYTE - 1
      /\ q = BYTE * (q \div BYTE) + byte /\ q \div BYTE \in Nat /\ byte \in 0 .. BYTE - 1
  <2>1. \A a \in Nat : a = BYTE * (a \div BYTE) + (a % BYTE) /\ a \div BYTE \in Nat /\ a % BYTE \in 0 .. BYTE - 1
    BY <1>1, NatDivision
  <2> QED
    BY <1>1, <1>2, <2>1
<1>4. sum = BYTE * s + e /\ s \in {0, 1} /\ e \in 0 .. BYTE - 1 /\ (sum >= BYTE <=> s = 1)
  <2> HIDE DEF byte, d
  <2>1. sum \in Nat /\ sum < 2 * BYTE
    BY <1>1, <1>3
  <2> HIDE DEF sum
  <2>2. sum = BYTE * s + e /\ s \in Nat /\ e \in 0 .. BYTE - 1
    BY <1>1, <2>1, NatDivision
  <2> HIDE DEF s, e
  <2>3. s < 2
    <3>1. CASE s >= 2
      <4>1. BYTE * s >= 2 * BYTE
        BY <1>1, <2>2, <3>1
      <4> QED
        BY <1>1, <2>1, <2>2, <3>1, <4>1
    <3> QED
      BY <2>2, <3>1
  <2> QED
    BY <1>1, <2>1, <2>2, <2>3
<1>5. j = i + e * P /\ y = IF s = 1 /\ rest % 2 = 0 THEN rest + 1 ELSE rest
  BY <1>4 DEF AddByte, ByteOf, P, q, i, x
<1>6. n % W = P * byte + r
  <2> DEFINE h == q \div BYTE
  <2> HIDE DEF P, W, q, r, byte, h
  <2>1. h \in Nat /\ byte \in 0 .. BYTE - 1 /\ q = BYTE * h + byte
    BY <1>3 DEF h
  <2>2. P * q = P * (BYTE * h) + P * byte
    BY <1>1, <2>1
  <2>3. P * (BYTE * h) = (BYTE * P) * h
    BY <1>1, <2>1
  <2>4. n = W * h + (P * byte + r)
    BY <1>1, <1>2, <2>1, <2>2, <2>3
  <2>5. P * byte <= P * (BYTE - 1) /\ P * byte \in Nat
    BY <1>1, <2>1
  <2>6. P * byte + r \in 0 .. W - 1
    <3>1. P * (BYTE - 1) = W - P
      BY <1>1
    <3> QED
      BY <1>1, <1>2, <2>5, <3>1
  <2> DEFINE u == P * byte + r
  <2> HIDE DEF u
  <2>7. (W * h + u) % W = u
    <3>1. W \in Nat \ {0} /\ h \in Int /\ u \in 0 .. W - 1
      BY <1>1, <2>1, <2>6 DEF u
    <3> QED
      BY <3>1, Remainder
  <2> QED
    BY <2>4, <2>7 DEF u
<1> DEFINE c == rest + s
<1> HIDE DEF byte, d, rest, sum, e, s, new, j, y
<1>7. j \in 0 .. W - 1
  <2>1. e * P \in Nat /\ e * P <= (BYTE - 1) * P
    BY <1>1, <1>4
  <2>2. (BYTE - 1) * P = W - P
    BY <1>1
  <2> QED
    BY <1>1, <1>5, <2>1, <2>2
<1>8. y \in Nat /\ c \in Nat
  BY <1>3, <1>4, <1>5
<1>9. j + W * c = (n % W) + v
  <2>1. P * x = P * (BYTE * rest) + P * d
    BY <1>1, <1>3
  <2>2. P * byte + P * d = P * (BYTE * s) + P * e
    BY <1>1, <1>3, <1>4 DEF sum
  <2>3. P * (BYTE * rest) = W * rest /\ P * (BYTE * s) = W * s /\ P * e = e * P
    BY <1>1, <1>3, <1>4
  <2>4. W * c = W * rest + W * s
    BY <1>1, <1>3, <1>4
  <2> HIDE DEF c
  <2>5. /\ P * x \in Int /\ W * rest \in Int /\ P * d \in Int /\ P * byte \in Int
        /\ W * s \in Int /\ e * P \in Int /\ W * c \in Int
    BY <1>1, <1>3, <1>4, <1>8
  <2>6. W * rest = P * x - P * d
    BY <1>1, <1>3, <2>1, <2>3, <2>5
  <2>7. W * s + e * P = P * byte + P * d
    BY <2>2, <2>3, <2>5
  <2>8. j + W * c = i + P * x + P * byte
    BY <1>1, <1>5, <2>4, <2>5, <2>6, <2>7
  <2> DEFINE t == n % W
  <2>9. t = P * byte + r
    BY <1>6
  <2> HIDE DEF t
  <2>10. j + W * c = t + v
    BY <1>1, <1>2, <2>5, <2>8, <2>9
  <2> QED
    BY <2>10 DEF t
<1>10. CASE y = c
  BY <1>7, <1>8, <1>9, <1>10 DEF new, j, y, W
<1>11. CASE y # c
  <2>1. s = 1 /\ rest % 2 = 1 /\ c = rest + 1
    BY <1>3, <1>4, <1>5, <1>11
  <2> DEFINE vq == v \div W
             vr == v % W
             nr == n % W
  <2>2. v = W * vq + vr /\ vq \in Nat /\ vr \in 0 .. W - 1 /\ nr \in 0 .. W - 1
    <3>1. \A a \in Nat : a = W * (a \div W) + (a % W) /\ a \div W \in Nat /\ a % W \in 0 .. W - 1
      BY <1>1, NatDivision
    <3> QED
      BY <3>1
  <2> HIDE DEF vq, vr, nr
  <2>3. vq <= rest
    <3> SUFFICES ASSUME rest + 1 <= vq PROVE FALSE
      BY <1>3, <2>2
    <3>1. W * (rest + 1) <= W * vq /\ W * (rest + 1) = W * rest + W /\ W * rest \in Nat
      BY <1>1, <1>3, <2>2
    <3>2. P * x = W * rest + P * d
      BY <1>1, <1>3
    <3>3. P * d <= W - P /\ P * d \in Nat
      <4>1. P * d <= P * (BYTE - 1) /\ P * d \in Nat
        BY <1>1, <1>3
      <4>2. P * (BYTE - 1) = W - P
        BY <1>1
      <4> QED
        BY <4>1, <4>2
    <3>4. v >= W * rest + W
      BY <1>1, <2>2, <3>1
    <3> QED
      BY <1>1, <1>2, <3>1, <3>2, <3>3, <3>4
  <2>4. W * (c - vq) = nr + vr - j
    <3>1. W * (c - vq) = W * c - W * vq /\ W * c \in Int /\ W * vq \in Int
      BY <1>1, <1>8, <2>2
    <3> QED
      BY <1>7, <1>9, <2>2, <3>1 DEF nr
  <2>5. c - vq < 2
    <3> SUFFICES ASSUME c - vq >= 2 PROVE FALSE
      BY <1>8, <2>2
    <3>1. W * (c - vq) >= 2 * W
      BY <1>1, <1>8, <2>2
    <3> QED
      BY <1>1, <1>7, <2>2, <2>4, <3>1
  <2>6. vq = rest
    BY <1>3, <2>1, <2>2, <2>3, <2>5
  <2>7. W * (c - vq) = W
    BY <1>1, <1>3, <2>1, <2>6
  <2>8. nr + vr >= W /\ vq % 2 = 1
    BY <1>1, <1>7, <2>1, <2>2, <2>4, <2>6, <2>7
  <2> QED
    BY <1>7, <1>8, <1>9, <2>8 DEF new, j, y, W, nr, vr, vq
<1> QED
  BY <1>10, <1>11

\* The values that the loop of iv_increment goes through.
Accumulators == [iv : Nat, val : Nat]

\* A byte of the loop gives a value and an offset again.
LEMMA AddByteType ==
    ASSUME NEW n \in Nat, NEW k \in Nat, NEW acc \in Accumulators
    PROVE  AddByte(n, acc, k) \in Accumulators
<1> DEFINE sum == ByteOf(n, k) + (acc.val % BYTE)
           rest == acc.val \div BYTE
           e == sum % BYTE
<1>1. acc.iv \in Nat /\ acc.val \in Nat /\ BYTE \in Nat \ {0} /\ Weight[k] \in Nat \ {0}
  BY Weights, BytesAssumption DEF Accumulators
<1>2. rest \in Nat /\ acc.val % BYTE \in Nat
  BY <1>1, NatDivision
<1>3. ByteOf(n, k) \in Nat
  <2> DEFINE q == n \div Weight[k]
  <2>1. q \in Nat
    BY <1>1, NatDivision
  <2> HIDE DEF q
  <2>2. q % BYTE \in Nat
    BY <1>1, <2>1, NatDivision
  <2> QED
    BY <2>2 DEF ByteOf, q
<1>4. e \in Nat
  <2>1. sum \in Nat
    BY <1>2, <1>3
  <2> HIDE DEF sum
  <2> QED
    BY <1>1, <2>1, NatDivision
<1>5. AddByte(n, acc, k) =
        [iv |-> acc.iv + e * Weight[k], val |-> IF sum >= BYTE /\ rest % 2 = 0 THEN rest + 1 ELSE rest]
  BY DEF AddByte
<1> HIDE DEF sum, rest, e
<1>6. e * Weight[k] \in Nat
  BY <1>1, <1>4
<1> QED
  BY <1>1, <1>2, <1>5, <1>6 DEF Accumulators

\* What the loop of iv_increment (common.c) has after each number of bytes.
IsLoop(loop, n, v) ==
    /\ loop[0] = [iv |-> 0, val |-> v]
    /\ \A k \in Nat : loop[k + 1] = AddByte(n, loop[k], k)
    /\ IvIncrement(n, v) = loop[IV_BYTES].iv

\* Its recursive definition defines it.
LEMMA IvIncrementLoop ==
    ASSUME NEW n \in Nat, NEW v \in Nat
    PROVE  \E loop \in [Nat -> Accumulators] : IsLoop(loop, n, v)
<1> DEFINE a == [iv |-> 0, val |-> v]
           g == [p \in Nat \X Accumulators |-> AddByte(n, p[2], p[1])]
           Def(f) == f = [k \in Nat |-> IF k = 0 THEN a ELSE AddByte(n, f[k - 1], k - 1)]
           loop == CHOOSE f : Def(f)
<1>1. a \in Accumulators /\ g \in [Nat \X Accumulators -> Accumulators]
  BY AddByteType DEF Accumulators
<1>2. PICK f \in [Nat -> Accumulators] : DefinedBy(f, a, g)
  <2> HIDE DEF a, g
  <2> QED
    BY <1>1, Recursion
<1>3. f[0] = a /\ \A k \in Nat : f[k + 1] = AddByte(n, f[k], k)
  <2>1. \A k \in Nat : <<k, f[k]>> \in Nat \X Accumulators
    BY <1>2
  <2> QED
    BY <1>2, <2>1 DEF DefinedBy
<1>4. Def(f)
  <2>1. ASSUME NEW k \in Nat PROVE f[k] = IF k = 0 THEN a ELSE AddByte(n, f[k - 1], k - 1)
    <3>1. CASE k # 0
      <4>1. k - 1 \in Nat /\ (k - 1) + 1 = k
        BY <3>1
      <4> QED
        BY <1>3, <3>1, <4>1
    <3> QED
      BY <1>3, <3>1
  <2>2. f = [k \in Nat |-> f[k]]
    BY <1>2
  <2> HIDE DEF a
  <2> QED
    BY <2>1, <2>2
<1>5. Def(loop)
  <2> HIDE DEF Def
  <2> QED
    BY <1>4
<1>6. IvIncrement(n, v) = loop[IV_BYTES].iv
  BY DEF IvIncrement
<1> HIDE DEF loop
<1>7. \A k \in Nat : loop[k] = IF k = 0 THEN a ELSE AddByte(n, loop[k - 1], k - 1)
  BY <1>5
<1>8. loop[0] = a /\ \A k \in Nat : loop[k + 1] = AddByte(n, loop[k], k)
  <2>1. ASSUME NEW k \in Nat PROVE loop[k + 1] = AddByte(n, loop[k], k)
    <3>1. k + 1 \in Nat /\ k + 1 # 0 /\ (k + 1) - 1 = k
      OBVIOUS
    <3> QED
      BY <1>7, <3>1
  <2> QED
    BY <1>7, <2>1
<1>9. loop \in [Nat -> Accumulators]
  <2> DEFINE S == {k \in Nat : loop[k] \in Accumulators}
  <2>1. 0 \in S
    BY <1>1, <1>8
  <2>2. ASSUME NEW k \in Nat, k \in S PROVE k + 1 \in S
    BY <1>8, <2>2, AddByteType
  <2>3. Nat \subseteq S
    <3> HIDE DEF S
    <3> QED
      BY <2>1, <2>2, Induction
  <2>4. loop = [k \in Nat |-> loop[k]]
    BY <1>5
  <2> QED
    BY <2>3, <2>4
<1> QED
  BY <1>6, <1>8, <1>9 DEF IsLoop

\* iv_increment adds, modulo the width of an IV, unless a carry is lost.
LEMMA IvIncrementAdds ==
    ASSUME NEW n \in Counters, NEW v \in Nat, ~CarryLost(n, v)
    PROVE  IvIncrement(n, v) = (n + v) % Weight[IV_BYTES]
<1>1. n \in Nat /\ n < Weight[IV_BYTES] /\ IV_BYTES \in Nat \ {0}
  BY Weights, BytesAssumption DEF Counters
<1>2. PICK loop \in [Nat -> Accumulators] : IsLoop(loop, n, v)
  BY <1>1, IvIncrementLoop
<1> DEFINE Adds(k) == /\ loop[k] \in [iv : 0 .. Weight[k] - 1, val : Nat]
                      /\ loop[k].iv + Weight[k] * loop[k].val = (n % Weight[k]) + v
           S == {k \in Nat : k < IV_BYTES => Adds(k)}
<1>3. 0 \in S
  <2>1. Weight[0] = 1 /\ n % 1 = 0
    BY <1>1, Weights
  <2> QED
    BY <1>2, <2>1 DEF IsLoop
<1>4. ASSUME NEW k \in Nat, k \in S, k + 1 < IV_BYTES PROVE Adds(k + 1)
  <2>1. Adds(k)
    BY <1>1, <1>4
  <2> HIDE DEF S
  <2>2. loop[k + 1] \in Accumulators /\ loop[k + 1] = AddByte(n, loop[k], k)
    BY <1>2 DEF IsLoop
  <2>3. PICK c \in Nat :
           /\ loop[k + 1].iv + Weight[k + 1] * c = (n % Weight[k + 1]) + v
           /\ \/ loop[k + 1].val = c
              \/ /\ (n % Weight[k + 1]) + (v % Weight[k + 1]) >= Weight[k + 1]
                 /\ (v \div Weight[k + 1]) % 2 = 1
    BY <1>1, <2>1, <2>2, AddByteAdds
  <2>4. loop[k + 1].iv \in 0 .. Weight[k + 1] - 1 /\ loop[k + 1].val \in Nat
    BY <1>1, <2>1, <2>2, AddByteAdds
  <2>5. k + 1 \in 1 .. IV_BYTES - 1
    BY <1>1, <1>4
  <2>6. loop[k + 1].val = c
    BY <2>3, <2>5 DEF CarryLost
  <2> QED
    BY <2>2, <2>3, <2>4, <2>6 DEF Accumulators
<1>5. Nat \subseteq S
  <2>1. ASSUME NEW k \in Nat, k \in S PROVE k + 1 \in S
    BY <1>4, <2>1
  <2> HIDE DEF S
  <2> QED
    BY <1>3, <2>1, Induction
<1> DEFINE k == IV_BYTES - 1
           W == Weight[IV_BYTES]
<1>6. k \in Nat /\ k + 1 = IV_BYTES /\ Adds(k)
  BY <1>1, <1>5
<1> HIDE DEF S, k
<1>7. loop[k + 1] = AddByte(n, loop[k], k)
  BY <1>2, <1>6 DEF IsLoop
<1>8. PICK c \in Nat : /\ loop[k + 1].iv + Weight[k + 1] * c = (n % Weight[k + 1]) + v
                       /\ loop[k + 1].iv \in 0 .. Weight[k + 1] - 1
  BY <1>1, <1>6, <1>7, AddByteAdds
<1>9. W \in Nat \ {0} /\ n % W = n
  <2>1. W \in Nat \ {0}
    BY <1>1, Weights
  <2> HIDE DEF W
  <2> QED
    BY <1>1, <2>1 DEF W
<1> DEFINE i == loop[IV_BYTES].iv
<1>10. n + v = W * c + i /\ i \in 0 .. W - 1
  <2>1. i + W * c = n + v /\ i \in 0 .. W - 1
    BY <1>6, <1>8, <1>9
  <2> HIDE DEF W, i
  <2> QED
    BY <1>1, <1>9, <2>1
<1> HIDE DEF W, i
<1>11. (W * c + i) % W = i
  <2>1. c \in Int
    OBVIOUS
  <2> QED
    BY <1>9, <1>10, <2>1, Remainder
<1> QED
  BY <1>2, <1>10, <1>11 DEF i, W, IsLoop

-----------------------------------------------------------------------------
(***************************************************************************)
(* The threaded cipher (SwCipher): every call processes every block once,  *)
(* and decryption gives the plain text back, for every number of threads   *)
(* and blocks.  CipherInv describes the segment of each thread: what it    *)
(* has processed, and that the counters in it follow each other.           *)
(***************************************************************************)

\* The next counter of a thread.
Succ(c) == (c + 1) % Weight[IV_BYTES]

\* The threads that a call creates.
Team == 0 .. NumThreads - 1

\* The segment of thread i, from its first block to the one after its last, and
\* the counter it starts with.
StartOf(i) == i * BlocksPerThread
EndOf(i) == ThreadData(i).end
FirstCtr(i) == ThreadData(i).ctr

\* Thread i of call c has been created.
Created(c, i) ==
    /\ i \in Team
    /\ \/ c = call /\ (caller = "create" => i < next)
       \/ c = "encrypt" /\ call = "decrypt"

\* The block that thread i of call c comes to next, created or not, and the
\* counter it has for it.
At(c, i) == IF Created(c, i) THEN work[c][i].block ELSE StartOf(i)
Ctr(c, i) == IF Created(c, i) THEN work[c][i].ctr ELSE FirstCtr(i)

\* Where the caller is.
PlaceInv ==
    /\ size \in Nat \ {0}
    /\ iv \in Counters
    /\ caller \in {"create", "join", "over"}
    /\ call \in CipherCalls
    /\ next \in Team
    /\ caller = "over" => call = "decrypt"

\* The arrays and the records of the threads, of whatever counters.
ShapeInv ==
    /\ text = [b \in 0 .. size - 1 |-> text[b]]
    /\ work = [c \in CipherCalls |-> [i \in Threads |-> work[c][i]]]
    /\ \A c \in CipherCalls, i \in Threads : DOMAIN work[c][i] = {"block", "end", "ctr"}

\* A thread stays in its segment; one that is not created has nothing to do.
WorkInv ==
    \A c \in CipherCalls, i \in Threads :
        IF Created(c, i)
        THEN work[c][i].end = EndOf(i) /\ work[c][i].block \in StartOf(i) .. EndOf(i)
        ELSE work[c][i].block = 0 /\ work[c][i].end = 0

\* A thread that was joined has ended.
JoinInv ==
    \A i \in Team :
        /\ caller = "join" /\ i < next => ~Runs(call, i)
        /\ call = "decrypt" => ~Runs("encrypt", i)
        /\ caller = "over" => ~Runs("decrypt", i)

\* The two blocks have been encrypted, with a counter and the next.
Follows(b) == \E c \in text[b] : text[b] = {c} /\ text[b + 1] = {Succ(c)}

\* Encryption: up to its block a thread has encrypted its segment with the counters
\* from its first one on, and the one it has now is the next.
EncryptInv ==
    call = "encrypt" => \A i \in Team : LET k == At("encrypt", i) IN
        /\ k > StartOf(i) => text[StartOf(i)] = {FirstCtr(i)}
        /\ \A b \in StartOf(i) .. k - 2 : Follows(b)
        /\ IF k = StartOf(i)
           THEN Ctr("encrypt", i) = FirstCtr(i)
           ELSE \E c \in text[k - 1] : text[k - 1] = {c} /\ Ctr("encrypt", i) = Succ(c)
        /\ \A b \in k .. EndOf(i) - 1 : text[b] = {}

\* Decryption: from its block on a thread finds its segment encrypted with the
\* counters from the one it has now on, and before it is plain text.
DecryptInv ==
    call = "decrypt" => \A i \in Team : LET k == At("decrypt", i) IN
        /\ k < EndOf(i) => text[k] = {Ctr("decrypt", i)}
        /\ \A b \in k .. EndOf(i) - 2 : Follows(b)
        /\ \A b \in StartOf(i) .. k - 1 : text[b] = {}

\* The inductive invariant, while no pthread_create has failed.
CipherInv == PlaceInv /\ ShapeInv /\ WorkInv /\ JoinInv /\ EncryptInv /\ DecryptInv

\* Products with a common factor are ordered like the other factors.
LEMMA MulOrder ==
    ASSUME NEW a \in Nat, NEW b \in Nat, NEW m \in Nat, a <= b
    PROVE  a * m <= b * m /\ a * m \in Nat
<1> QED
  OBVIOUS

\* The division of the blocks by the threads (common.c): no thread goes
\* without a block, and the remainder is smaller than the number of threads.
LEMMA TeamCut ==
    ASSUME size \in Nat \ {0}
    PROVE  /\ NumThreads \in Nat \ {0} /\ NumThreads <= MAX_THREADS
           /\ BlocksPerThread \in Nat \ {0} /\ RemainingBlocks \in Nat
           /\ NumThreads * BlocksPerThread + RemainingBlocks = size
           /\ RemainingBlocks < NumThreads
<1>1. NumThreads \in Nat \ {0} /\ NumThreads <= MAX_THREADS /\ NumThreads <= size
  BY ThreadsAssumption DEF NumThreads
<1>2. /\ size = NumThreads * BlocksPerThread + RemainingBlocks
      /\ BlocksPerThread \in Int /\ RemainingBlocks \in 0 .. NumThreads - 1
  BY <1>1 DEF BlocksPerThread, RemainingBlocks
<1> QED
  BY <1>1, <1>2

\* Each thread has a segment of the buffer, and they follow each other.
LEMMA Segments ==
    ASSUME size \in Nat \ {0}, NEW i \in Team
    PROVE  /\ StartOf(i) \in Nat /\ EndOf(i) \in Nat
           /\ StartOf(i) < EndOf(i) /\ EndOf(i) <= size
           /\ \A j \in Team : i < j => EndOf(i) <= StartOf(j)
<1> DEFINE T == NumThreads
           B == BlocksPerThread
           R == RemainingBlocks
<1>1. T \in Nat \ {0} /\ B \in Nat \ {0} /\ R \in Nat /\ T * B + R = size
  BY TeamCut
<1>2. i \in 0 .. T - 1 /\ \A j \in Team : j \in 0 .. T - 1
  BY DEF Team
<1>3. EndOf(i) = (i + 1) * B + (IF i = T - 1 THEN R ELSE 0)
  BY DEF EndOf, ThreadData
<1>4. \A j : StartOf(j) = j * B
  BY DEF StartOf
<1> HIDE DEF T, B, R
<1>5. i * B \in Nat /\ (i + 1) * B \in Nat /\ (i + 1) * B = i * B + B
  BY <1>1, <1>2
<1>6. StartOf(i) \in Nat /\ EndOf(i) \in Nat /\ StartOf(i) < EndOf(i)
  BY <1>1, <1>3, <1>4, <1>5
<1>7. EndOf(i) <= size
  <2>1. (i + 1) * B <= T * B /\ T * B \in Nat
    BY <1>1, <1>2
  <2>2. CASE i = T - 1
    <3>1. (i + 1) * B = T * B
      BY <1>1, <2>2
    <3> QED
      BY <1>1, <1>3, <3>1
  <2>3. CASE i # T - 1
    BY <1>1, <1>3, <1>5, <2>1
  <2> QED
    BY <2>2, <2>3
<1>8. ASSUME NEW j \in Team, i < j PROVE EndOf(i) <= StartOf(j)
  <2>1. (i + 1) * B <= j * B
    BY <1>1, <1>2, <1>8
  <2>2. i # T - 1
    BY <1>2, <1>8
  <2>3. EndOf(i) = (i + 1) * B
    BY <1>3, <1>5, <2>2
  <2> QED
    BY <1>4, <2>1, <2>3
<1> QED
  BY <1>6, <1>7, <1>8

\* Every block is in the segment of a thread.
LEMMA Cover ==
    ASSUME size \in Nat \ {0}, NEW b \in 0 .. size - 1
    PROVE  \E i \in Team : b \in StartOf(i) .. EndOf(i) - 1
<1> DEFINE T == NumThreads
           B == BlocksPerThread
           R == RemainingBlocks
           q == b \div B
           r == b % B
<1>1. T \in Nat \ {0} /\ B \in Nat \ {0} /\ R \in Nat /\ T * B + R = size
  BY TeamCut
<1>2. b = B * q + r /\ q \in Int /\ r \in 0 .. B - 1
  BY <1>1
<1>3. \A i : EndOf(i) = (i + 1) * B + (IF i = T - 1 THEN R ELSE 0) /\ StartOf(i) = i * B
  BY DEF EndOf, ThreadData, StartOf
<1>4. Team = 0 .. T - 1
  BY DEF Team
<1> HIDE DEF T, B, R, q, r
<1>6. B * q = q * B /\ q * B \in Nat /\ (q + 1) * B = q * B + B
  BY <1>1, <1>2
<1>7. CASE q < T
  <2>1. q \in Team
    BY <1>1, <1>2, <1>4, <1>7
  <2>2. b \in StartOf(q) .. EndOf(q) - 1
    <3>1. EndOf(q) >= (q + 1) * B /\ EndOf(q) \in Int
      BY <1>1, <1>3, <1>6
    <3>2. StartOf(q) = q * B
      BY <1>3
    <3> QED
      BY <1>1, <1>2, <3>1, <3>2
  <2> QED
    BY <2>1, <2>2
<1>8. CASE T <= q
  <2>1. T - 1 \in Team /\ T - 1 \in Nat
    BY <1>1, <1>4
  <2>2. (T - 1) * B <= q * B /\ (T - 1) * B \in Nat
    BY <1>1, <1>2, <1>8
  <2>3. EndOf(T - 1) = size
    <3> QED
      BY <1>1, <1>3
  <2>4. StartOf(T - 1) = (T - 1) * B
    BY <1>3
  <2>5. b \in StartOf(T - 1) .. EndOf(T - 1) - 1
    BY <1>2, <1>6, <2>2, <2>3, <2>4
  <2> QED
    BY <2>1, <2>5
<1> QED
  BY <1>1, <1>2, <1>7, <1>8

\* The segments depend on the arguments of the call only.
LEMMA SameCut ==
    UNCHANGED <<size, iv>> =>
        /\ Team' = Team
        /\ \A i : StartOf(i)' = StartOf(i) /\ EndOf(i)' = EndOf(i) /\ FirstCtr(i)' = FirstCtr(i)
  BY DEF Team, StartOf, EndOf, FirstCtr, ThreadData, NumThreads, BlocksPerThread,
         RemainingBlocks

-----------------------------------------------------------------------------
\* The first state.
LEMMA InitInv == CipherInit => CipherInv
<1> SUFFICES ASSUME CipherInit PROVE CipherInv
  OBVIOUS
<1>1. size \in Nat \ {0}
  BY SizesAssumption DEF CipherInit
<1>2. PlaceInv
  BY <1>1, TeamCut, IvsAssumption DEF CipherInit, PlaceInv, CipherCalls, Team
<1>3. \A c \in CipherCalls, i \in Threads : work[c][i] = Idle /\ ~Created(c, i)
  BY DEF CipherInit, Created, Team
<1>4. ShapeInv /\ WorkInv
  BY <1>3 DEF CipherInit, ShapeInv, WorkInv, Idle
<1>5. JoinInv
  BY DEF CipherInit, JoinInv
<1>6. DecryptInv
  BY DEF CipherInit, DecryptInv
<1>7. EncryptInv
  <2> SUFFICES ASSUME NEW i \in Team
               PROVE  /\ At("encrypt", i) = StartOf(i) /\ Ctr("encrypt", i) = FirstCtr(i)
                      /\ StartOf(i) \in Nat
                      /\ \A b \in StartOf(i) .. EndOf(i) - 1 : text[b] = {}
    BY DEF EncryptInv
  <2>1. ~Created("encrypt", i)
    BY DEF CipherInit, Created, Team
  <2>2. StartOf(i) \in Nat /\ EndOf(i) \in Nat /\ EndOf(i) <= size
    BY <1>1, Segments
  <2>3. \A b \in 0 .. size - 1 : text[b] = {}
    BY DEF CipherInit
  <2> QED
    BY <1>1, <2>1, <2>2, <2>3 DEF At, Ctr
<1> QED
  BY <1>2, <1>4, <1>5, <1>6, <1>7 DEF CipherInv

\* The threads of a call are numbered.
LEMMA TeamType ==
    PlaceInv => Team \subseteq Threads /\ Team = 0 .. NumThreads - 1 /\ NumThreads \in Nat
  BY TeamCut, ThreadsAssumption DEF PlaceInv, Team, Threads

\* A thread is created: it stands where it was going to start.
LEMMA CreateNext == CipherInv /\ CreateThread => CipherInv'
<1> SUFFICES ASSUME CipherInv, CreateThread PROVE CipherInv'
  OBVIOUS
<1>1. /\ PlaceInv /\ ShapeInv /\ WorkInv /\ JoinInv /\ EncryptInv /\ DecryptInv
  BY DEF CipherInv
<1>2. /\ caller = "create" /\ next \in Team /\ next \in Threads
      /\ size \in Nat \ {0} /\ call \in CipherCalls
      /\ NumThreads \in Nat /\ Team = 0 .. NumThreads - 1 /\ Team \subseteq Threads
  BY <1>1, TeamType DEF CreateThread, PlaceInv
<1>3. /\ Team' = Team
      /\ \A i : StartOf(i)' = StartOf(i) /\ EndOf(i)' = EndOf(i) /\ FirstCtr(i)' = FirstCtr(i)
  BY SameCut DEF CreateThread
<1>4. UNCHANGED <<size, call, text>>
  BY DEF CreateThread
<1>5. work'[call][next] = ThreadData(next)
  BY <1>1, <1>2 DEF CreateThread, ShapeInv
<1>6. \A c \in CipherCalls, i \in Threads : c # call \/ i # next => work'[c][i] = work[c][i]
  BY DEF CreateThread
<1>7. \A c \in CipherCalls, i \in Threads :
          c = call /\ i = next => ~Created(c, i) /\ Created(c, i)'
  BY <1>2, <1>3 DEF Created, CreateThread
<1>8. \A c \in CipherCalls, i \in Threads : c # call \/ i # next => Created(c, i)' = Created(c, i)
  <2> SUFFICES ASSUME NEW c \in CipherCalls, NEW i \in Threads, c # call \/ i # next
               PROVE  Created(c, i)' = Created(c, i)
    OBVIOUS
  <2>1. CASE c # call
    BY <1>3, <1>4, <2>1 DEF Created
  <2>2. CASE c = call /\ i # next
    <3>1. i \in Team => ((caller' = "create" => i < next') <=> i < next)
      BY <1>2, <2>2 DEF CreateThread
    <3> QED
      BY <1>2, <1>3, <1>4, <3>1 DEF Created
  <2> QED
    BY <2>1, <2>2
<1>9. /\ ThreadData(next).block = StartOf(next) /\ ThreadData(next).end = EndOf(next)
      /\ ThreadData(next).ctr = FirstCtr(next)
      /\ DOMAIN ThreadData(next) = {"block", "end", "ctr"}
  BY DEF ThreadData, StartOf, EndOf, FirstCtr
<1>10. \A c \in CipherCalls, i \in Threads : At(c, i)' = At(c, i) /\ Ctr(c, i)' = Ctr(c, i)
  <2> SUFFICES ASSUME NEW c \in CipherCalls, NEW i \in Threads
               PROVE  At(c, i)' = At(c, i) /\ Ctr(c, i)' = Ctr(c, i)
    OBVIOUS
  <2>1. CASE c = call /\ i = next
    BY <1>5, <1>7, <1>9, <2>1 DEF At, Ctr
  <2>2. CASE c # call \/ i # next
    BY <1>3, <1>6, <1>8, <2>2 DEF At, Ctr
  <2> QED
    BY <2>1, <2>2
<1>11. PlaceInv'
  BY <1>1, <1>2, <1>3 DEF CreateThread, PlaceInv
<1>12. ShapeInv'
  <2>1. work' = [c \in CipherCalls |-> [i \in Threads |-> work'[c][i]]]
    BY <1>1 DEF CreateThread, ShapeInv
  <2>2. \A c \in CipherCalls, i \in Threads : DOMAIN work'[c][i] = {"block", "end", "ctr"}
    BY <1>1, <1>5, <1>6, <1>9 DEF ShapeInv
  <2> QED
    BY <1>1, <1>4, <2>1, <2>2 DEF ShapeInv
<1>13. WorkInv'
  <2> SUFFICES ASSUME NEW c \in CipherCalls, NEW i \in Threads
               PROVE  (IF Created(c, i)
                       THEN work[c][i].end = EndOf(i) /\ work[c][i].block \in StartOf(i) .. EndOf(i)
                       ELSE work[c][i].block = 0 /\ work[c][i].end = 0)'
    BY DEF WorkInv
  <2>1. CASE c = call /\ i = next
    <3>1. StartOf(next) \in StartOf(next) .. EndOf(next)
      BY <1>2, Segments
    <3> QED
      BY <1>3, <1>5, <1>7, <1>9, <2>1, <3>1
  <2>2. CASE c # call \/ i # next
    BY <1>1, <1>3, <1>6, <1>8, <2>2 DEF WorkInv
  <2> QED
    BY <2>1, <2>2
<1>14. JoinInv'
  <2> SUFFICES ASSUME NEW i \in Team
               PROVE  /\ (caller = "join" /\ i < next => ~Runs(call, i))'
                      /\ (call = "decrypt" => ~Runs("encrypt", i))'
                      /\ (caller = "over" => ~Runs("decrypt", i))'
    BY <1>3 DEF JoinInv
  <2>1. ~(caller' = "join" /\ i < next') /\ caller' # "over"
    BY <1>2 DEF CreateThread
  <2>2. call = "decrypt" => work'["encrypt"][i] = work["encrypt"][i]
    BY <1>2, <1>6 DEF CipherCalls
  <2> QED
    BY <1>1, <1>4, <2>1, <2>2 DEF JoinInv, Runs
<1>15. \A i \in Team : /\ At("encrypt", i)' = At("encrypt", i) /\ Ctr("encrypt", i)' = Ctr("encrypt", i)
                       /\ At("decrypt", i)' = At("decrypt", i) /\ Ctr("decrypt", i)' = Ctr("decrypt", i)
  BY <1>2, <1>10 DEF CipherCalls
<1>16. \A b : Follows(b)' = Follows(b)
  BY <1>4 DEF Follows
<1>17. EncryptInv'
  BY <1>1, <1>3, <1>4, <1>15, <1>16 DEF EncryptInv
<1>18. DecryptInv'
  BY <1>1, <1>3, <1>4, <1>15, <1>16 DEF DecryptInv
<1> QED
  BY <1>11, <1>12, <1>13, <1>14, <1>17, <1>18 DEF CipherInv

\* A thread is joined.  With the last one of the encryption every segment is
\* encrypted to its end, which is what the threads of the decryption start from.
LEMMA JoinNext == CipherInv /\ JoinThread => CipherInv'
<1> SUFFICES ASSUME CipherInv, JoinThread PROVE CipherInv'
  OBVIOUS
<1>1. /\ PlaceInv /\ ShapeInv /\ WorkInv /\ JoinInv /\ EncryptInv /\ DecryptInv
  BY DEF CipherInv
<1>2. /\ caller = "join" /\ next \in Team /\ size \in Nat \ {0} /\ call \in CipherCalls
      /\ NumThreads \in Nat \ {0} /\ Team = 0 .. NumThreads - 1 /\ Team \subseteq Threads
  BY <1>1, TeamType DEF JoinThread, PlaceInv
<1>3. /\ Team' = Team
      /\ \A i : StartOf(i)' = StartOf(i) /\ EndOf(i)' = EndOf(i) /\ FirstCtr(i)' = FirstCtr(i)
  BY SameCut DEF JoinThread
<1>4. UNCHANGED <<size, text, work>> /\ ~Runs(call, next)
  BY DEF JoinThread
<1>5. \A c, i : Runs(c, i)' = Runs(c, i)
  BY <1>4 DEF Runs
<1>6. \A b : Follows(b)' = Follows(b)
  BY <1>4 DEF Follows
<1>7. \A i \in Team : i < next + 1 => ~Runs(call, i)
  BY <1>1, <1>2, <1>4 DEF JoinInv
<1>8. ShapeInv'
  BY <1>1, <1>4 DEF ShapeInv
<1>9. \A c \in CipherCalls, i \in Threads : Created(c, i)' = Created(c, i)
  <2> SUFFICES ASSUME NEW c \in CipherCalls, NEW i \in Threads PROVE Created(c, i)' = Created(c, i)
    OBVIOUS
  <2>1. CASE next + 1 = NumThreads /\ call = "encrypt"
    <3>1. caller' = "create" /\ call' = "decrypt" /\ next' = 0
      BY <2>1 DEF JoinThread, Return
    <3> QED
      BY <1>2, <1>3, <2>1, <3>1 DEF Created
  <2>2. CASE ~(next + 1 = NumThreads /\ call = "encrypt")
    <3>1. caller' \in {"join", "over"} /\ call' = call
      BY <2>2 DEF JoinThread, Return
    <3> QED
      BY <1>2, <1>3, <3>1 DEF Created
  <2> QED
    BY <2>1, <2>2
<1>10. \A c \in CipherCalls, i \in Team : At(c, i)' = At(c, i) /\ Ctr(c, i)' = Ctr(c, i)
  BY <1>2, <1>3, <1>4, <1>9 DEF At, Ctr
<1>11. WorkInv'
  BY <1>1, <1>3, <1>4, <1>9 DEF WorkInv
<1>12. PlaceInv'
  BY <1>1, <1>2, <1>3 DEF JoinThread, Return, PlaceInv, CipherCalls
<1>13. CASE next + 1 = NumThreads
  <2>1. \A i \in Team : ~Runs(call, i)
    BY <1>2, <1>7, <1>13
  <2>2. CASE call = "encrypt"
    <3>1. caller' = "create" /\ call' = "decrypt" /\ next' = 0
      BY <1>13, <2>2 DEF JoinThread, Return
    <3>2. JoinInv'
      BY <1>3, <1>5, <2>1, <2>2, <3>1 DEF JoinInv
    <3>3. EncryptInv'
      BY <3>1 DEF EncryptInv
    <3>4. DecryptInv'
      <4> SUFFICES ASSUME NEW i \in Team
                   PROVE  /\ At("decrypt", i) = StartOf(i) /\ Ctr("decrypt", i) = FirstCtr(i)
                          /\ StartOf(i) \in Nat
                          /\ text[StartOf(i)] = {FirstCtr(i)}
                          /\ \A b \in StartOf(i) .. EndOf(i) - 2 : Follows(b)
        BY <1>3, <1>4, <1>6, <1>10 DEF DecryptInv, CipherCalls
      <4>1. ~Created("decrypt", i)
        BY <2>2 DEF Created
      <4>2. At("encrypt", i) = EndOf(i)
        <5>1. Created("encrypt", i)
          BY <1>2, <2>2 DEF Created
        <5>2. work["encrypt"][i].end = EndOf(i) /\ work["encrypt"][i].block \in StartOf(i) .. EndOf(i)
          BY <1>1, <1>2, <5>1 DEF WorkInv, CipherCalls
        <5>3. ~(work["encrypt"][i].block < work["encrypt"][i].end)
          BY <2>1, <2>2 DEF Runs
        <5> QED
          BY <1>2, <5>1, <5>2, <5>3, Segments DEF At
      <4>3. StartOf(i) \in Nat /\ EndOf(i) \in Nat /\ StartOf(i) < EndOf(i)
        BY <1>2, Segments
      <4> QED
        BY <1>1, <2>2, <4>1, <4>2, <4>3 DEF EncryptInv, At, Ctr
    <3> QED
      BY <1>8, <1>11, <1>12, <3>2, <3>3, <3>4 DEF CipherInv
  <2>3. CASE call = "decrypt"
    <3>1. caller' = "over" /\ call' = call /\ next' = next
      BY <1>13, <2>3 DEF JoinThread, Return
    <3>2. JoinInv'
      BY <1>1, <1>3, <1>5, <2>1, <2>3, <3>1 DEF JoinInv
    <3>3. EncryptInv'
      BY <2>3, <3>1 DEF EncryptInv
    <3>4. DecryptInv'
      BY <1>1, <1>3, <1>4, <1>6, <1>10, <3>1 DEF DecryptInv, CipherCalls
    <3> QED
      BY <1>8, <1>11, <1>12, <3>2, <3>3, <3>4 DEF CipherInv
  <2> QED
    BY <1>2, <2>2, <2>3 DEF CipherCalls
<1>14. CASE next + 1 # NumThreads
  <2>1. caller' = caller /\ call' = call /\ next' = next + 1
    BY <1>14 DEF JoinThread
  <2>2. JoinInv'
    BY <1>1, <1>3, <1>5, <1>7, <2>1 DEF JoinInv
  <2>3. EncryptInv'
    BY <1>1, <1>3, <1>4, <1>6, <1>10, <2>1 DEF EncryptInv, CipherCalls
  <2>4. DecryptInv'
    BY <1>1, <1>3, <1>4, <1>6, <1>10, <2>1 DEF DecryptInv, CipherCalls
  <2> QED
    BY <1>8, <1>11, <1>12, <2>2, <2>3, <2>4 DEF CipherInv
<1> QED
  BY <1>13, <1>14

\* A thread processes a block: the other segments are as before, and in its own
\* the counter passes on from block to block.
LEMMA BlockNext ==
    ASSUME CipherInv, NEW c \in CipherCalls, NEW t \in Threads, ProcessBlock(c, t)
    PROVE  CipherInv'
<1>1. /\ PlaceInv /\ ShapeInv /\ WorkInv /\ JoinInv /\ EncryptInv /\ DecryptInv
  BY DEF CipherInv
<1>2. /\ size \in Nat \ {0} /\ call \in CipherCalls
      /\ NumThreads \in Nat /\ Team = 0 .. NumThreads - 1 /\ Team \subseteq Threads
  BY <1>1, TeamType DEF PlaceInv
<1>3. /\ Team' = Team
      /\ \A i : StartOf(i)' = StartOf(i) /\ EndOf(i)' = EndOf(i) /\ FirstCtr(i)' = FirstCtr(i)
  BY SameCut DEF ProcessBlock
<1>4. UNCHANGED <<size, call, caller, next>> /\ Runs(c, t)
  BY DEF ProcessBlock
<1>5. \A d, i : Created(d, i)' = Created(d, i)
  BY <1>3, <1>4 DEF Created
<1>6. Created(c, t) /\ t \in Team
  BY <1>1, <1>4 DEF WorkInv, Runs, Created
<1>7. c = call
  BY <1>1, <1>4, <1>6 DEF JoinInv, Created
<1> DEFINE b == work[c][t].block
           x == work[c][t].ctr
<1>8. b \in StartOf(t) .. EndOf(t) - 1 /\ work[c][t].end = EndOf(t)
  BY <1>1, <1>2, <1>4, <1>6, Segments DEF WorkInv, Runs
<1>9. /\ \A i \in Team : /\ StartOf(i) \in Nat /\ EndOf(i) \in Nat
                         /\ StartOf(i) < EndOf(i) /\ EndOf(i) <= size
      /\ b \in 0 .. size - 1
  BY <1>2, <1>6, <1>8, Segments
<1>10. \A i \in Team : i # t => b \notin StartOf(i) .. EndOf(i) - 1
  <2> SUFFICES ASSUME NEW i \in Team, i # t PROVE b \notin StartOf(i) .. EndOf(i) - 1
    OBVIOUS
  <2>1. CASE i < t
    BY <1>2, <1>6, <1>8, <2>1, Segments
  <2>2. CASE t < i
    BY <1>2, <1>6, <1>8, <1>9, <2>2, Segments
  <2> QED
    BY <1>2, <2>1, <2>2
<1>11. /\ text' = [text EXCEPT ![b] = (@ \ {x}) \cup ({x} \ @)]
       /\ work' = [work EXCEPT ![c][t] =
              [work[c][t] EXCEPT !.block = @ + 1, !.ctr = Succ(@)]]
  BY DEF ProcessBlock, Succ
<1>12. \A d \in CipherCalls, i \in Threads : d # c \/ i # t => work'[d][i] = work[d][i]
  BY <1>11
<1>13. /\ work'[c][t].block = b + 1 /\ work'[c][t].end = work[c][t].end /\ work'[c][t].ctr = Succ(x)
       /\ DOMAIN work'[c][t] = {"block", "end", "ctr"}
  <2>1. work'[c][t] = [work[c][t] EXCEPT !.block = @ + 1, !.ctr = Succ(@)]
    BY <1>1, <1>11 DEF ShapeInv
  <2>2. DOMAIN work[c][t] = {"block", "end", "ctr"}
    BY <1>1 DEF ShapeInv
  <2> QED
    BY <2>1, <2>2
<1>14. /\ DOMAIN text = 0 .. size - 1
       /\ text'[b] = (text[b] \ {x}) \cup ({x} \ text[b])
       /\ \A k \in 0 .. size - 1 : k # b => text'[k] = text[k]
  BY <1>1, <1>9, <1>11 DEF ShapeInv
<1>15. /\ At(c, t) = b /\ Ctr(c, t) = x
       /\ At(c, t)' = b + 1 /\ Ctr(c, t)' = Succ(x)
  BY <1>5, <1>6, <1>13 DEF At, Ctr
<1>16. \A d \in CipherCalls, i \in Threads :
           d # c \/ i # t => At(d, i)' = At(d, i) /\ Ctr(d, i)' = Ctr(d, i)
  BY <1>3, <1>5, <1>12 DEF At, Ctr
<1>17. PlaceInv'
  BY <1>1, <1>3, <1>4 DEF PlaceInv, ProcessBlock
<1>18. ShapeInv'
  <2>1. text' = [k \in 0 .. size' - 1 |-> text'[k]]
    BY <1>1, <1>4, <1>11 DEF ShapeInv
  <2>2. work' = [d \in CipherCalls |-> [i \in Threads |-> work'[d][i]]]
    BY <1>1, <1>11 DEF ShapeInv
  <2>3. \A d \in CipherCalls, i \in Threads : DOMAIN work'[d][i] = {"block", "end", "ctr"}
    BY <1>1, <1>12, <1>13 DEF ShapeInv
  <2> QED
    BY <2>1, <2>2, <2>3 DEF ShapeInv
<1>19. WorkInv'
  <2> SUFFICES ASSUME NEW d \in CipherCalls, NEW i \in Threads
               PROVE  (IF Created(d, i)
                       THEN work[d][i].end = EndOf(i) /\ work[d][i].block \in StartOf(i) .. EndOf(i)
                       ELSE work[d][i].block = 0 /\ work[d][i].end = 0)'
    BY DEF WorkInv
  <2>1. CASE d = c /\ i = t
    BY <1>3, <1>5, <1>6, <1>8, <1>9, <1>13, <2>1
  <2>2. CASE d # c \/ i # t
    BY <1>1, <1>3, <1>5, <1>12, <2>2 DEF WorkInv
  <2> QED
    BY <2>1, <2>2
<1>20. JoinInv'
  <2>1. \A d \in CipherCalls, i \in Team : ~Runs(d, i) => ~Runs(d, i)'
    BY <1>2, <1>4, <1>12 DEF Runs
  <2> QED
    BY <1>1, <1>2, <1>3, <1>4, <2>1 DEF JoinInv, CipherCalls
<1>21. \A k \in 0 .. size - 2 : k # b /\ k + 1 # b => Follows(k)' = Follows(k)
  <2> SUFFICES ASSUME NEW k \in 0 .. size - 2, k # b, k + 1 # b
               PROVE  Follows(k)' = Follows(k)
    OBVIOUS
  <2>1. text'[k] = text[k] /\ text'[k + 1] = text[k + 1]
    BY <1>2, <1>14
  <2> QED
    BY <2>1 DEF Follows
<1> HIDE DEF b, x
<1>22. CASE c = "encrypt"
  <2>1. DecryptInv'
    BY <1>4, <1>7, <1>22 DEF DecryptInv
  <2>2. EncryptInv'
    <3> SUFFICES ASSUME NEW i \in Team
                 PROVE  (LET k == At("encrypt", i) IN
                         /\ k > StartOf(i) => text[StartOf(i)] = {FirstCtr(i)}
                         /\ \A m \in StartOf(i) .. k - 2 : Follows(m)
                         /\ IF k = StartOf(i)
                            THEN Ctr("encrypt", i) = FirstCtr(i)
                            ELSE \E y \in text[k - 1] : text[k - 1] = {y} /\ Ctr("encrypt", i) = Succ(y)
                         /\ \A m \in k .. EndOf(i) - 1 : text[m] = {})'
      BY <1>3 DEF EncryptInv
    <3>1. CASE i # t
      <4> DEFINE k == At("encrypt", i)
      <4>1. k \in StartOf(i) .. EndOf(i) /\ At("encrypt", i)' = k /\ Ctr("encrypt", i)' = Ctr("encrypt", i)
        BY <1>1, <1>2, <1>9, <1>16, <1>22, <3>1 DEF At, WorkInv
      <4>2. \A m \in StartOf(i) .. EndOf(i) - 1 : text'[m] = text[m]
        BY <1>2, <1>9, <1>10, <1>14, <3>1
      <4>3. \A m \in StartOf(i) .. EndOf(i) - 2 : Follows(m)' = Follows(m)
        <5> SUFFICES ASSUME NEW m \in StartOf(i) .. EndOf(i) - 2 PROVE Follows(m)' = Follows(m)
          OBVIOUS
        <5>1. /\ StartOf(i) \in Nat /\ EndOf(i) \in Nat /\ EndOf(i) <= size /\ b \in Nat
              /\ b \notin StartOf(i) .. EndOf(i) - 1
          BY <1>9, <1>10, <3>1
        <5>2. m \in 0 .. size - 2 /\ m # b /\ m + 1 # b
          BY <1>2, <5>1
        <5> QED
          BY <1>21, <5>2
      <4>4. /\ k > StartOf(i) => text[StartOf(i)] = {FirstCtr(i)}
            /\ \A m \in StartOf(i) .. k - 2 : Follows(m)
            /\ IF k = StartOf(i)
               THEN Ctr("encrypt", i) = FirstCtr(i)
               ELSE \E y \in text[k - 1] : text[k - 1] = {y} /\ Ctr("encrypt", i) = Succ(y)
            /\ \A m \in k .. EndOf(i) - 1 : text[m] = {}
        BY <1>1, <1>7, <1>22 DEF EncryptInv
      <4> HIDE DEF k
      <4>5. k > StartOf(i) => text'[StartOf(i)] = {FirstCtr(i)}
        BY <1>9, <4>2, <4>4
      <4>6. \A m \in StartOf(i) .. k - 2 : Follows(m)'
        BY <1>9, <4>1, <4>3, <4>4
      <4>7. k # StartOf(i) => text'[k - 1] = text[k - 1]
        BY <1>9, <4>1, <4>2
      <4>8. \A m \in k .. EndOf(i) - 1 : text'[m] = {}
        BY <1>9, <4>1, <4>2, <4>4
      <4> QED
        BY <1>3, <4>1, <4>4, <4>5, <4>6, <4>7, <4>8
    <3>2. CASE i = t
      <4>1. /\ b > StartOf(t) => text[StartOf(t)] = {FirstCtr(t)}
            /\ \A m \in StartOf(t) .. b - 2 : Follows(m)
            /\ IF b = StartOf(t)
               THEN x = FirstCtr(t)
               ELSE \E y \in text[b - 1] : text[b - 1] = {y} /\ x = Succ(y)
            /\ \A m \in b .. EndOf(t) - 1 : text[m] = {}
        BY <1>1, <1>6, <1>7, <1>15, <1>22 DEF EncryptInv
      <4>2. text'[b] = {x}
        BY <1>8, <1>14, <4>1
      <4>3. \A m \in StartOf(t) .. EndOf(t) - 1 : m # b => text'[m] = text[m]
        <5> SUFFICES ASSUME NEW m \in StartOf(t) .. EndOf(t) - 1, m # b PROVE text'[m] = text[m]
          OBVIOUS
        <5>1. StartOf(t) \in Nat /\ EndOf(t) \in Nat /\ EndOf(t) <= size
          BY <1>6, <1>9
        <5>2. m \in 0 .. size - 1
          BY <1>2, <5>1
        <5> QED
          BY <1>14, <5>2
      <4>4. text'[StartOf(t)] = {FirstCtr(t)}
        BY <1>6, <1>8, <1>9, <4>1, <4>2, <4>3
      <4>5. \A m \in StartOf(t) .. b - 1 : Follows(m)'
        <5> SUFFICES ASSUME NEW m \in StartOf(t) .. b - 1 PROVE Follows(m)'
          OBVIOUS
        <5>1. CASE m = b - 1
          <6>1. text'[m] = text[m] /\ text'[m + 1] = {x}
            BY <1>6, <1>8, <1>9, <4>2, <4>3, <5>1
          <6> QED
            BY <1>9, <4>1, <5>1, <6>1 DEF Follows
        <5>2. CASE m # b - 1
          <6>1. StartOf(t) \in Nat /\ b \in 0 .. size - 1
            BY <1>6, <1>9
          <6>2. m \in StartOf(t) .. b - 2 /\ m \in 0 .. size - 2 /\ m # b /\ m + 1 # b
            BY <1>2, <5>2, <6>1
          <6> QED
            BY <1>21, <4>1, <6>2
        <5> QED
          BY <5>1, <5>2
      <4>6. \A m \in b + 1 .. EndOf(t) - 1 : text'[m] = {}
        BY <1>6, <1>8, <1>9, <4>1, <4>3
      <4>7. At("encrypt", t)' = b + 1 /\ Ctr("encrypt", t)' = Succ(x)
        BY <1>15, <1>22
      <4>8. (b + 1) - 1 = b /\ (b + 1) - 2 = b - 1 /\ b + 1 # StartOf(t)
        BY <1>8
      <4>9. At("encrypt", t)' - 1 = b /\ At("encrypt", t)' - 2 = b - 1 /\ At("encrypt", t)' # StartOf(t)
        BY <4>7, <4>8
      <4>10. (\E y \in text[At("encrypt", t) - 1] :
                  text[At("encrypt", t) - 1] = {y} /\ Ctr("encrypt", t) = Succ(y))'
        BY <4>2, <4>7, <4>9
      <4> QED
        BY <1>3, <3>2, <4>4, <4>5, <4>6, <4>7, <4>9, <4>10
    <3> QED
      BY <3>1, <3>2
  <2> QED
    BY <1>17, <1>18, <1>19, <1>20, <2>1, <2>2 DEF CipherInv
<1>23. CASE c = "decrypt"
  <2>1. EncryptInv'
    BY <1>4, <1>7, <1>23 DEF EncryptInv
  <2>2. DecryptInv'
    <3> SUFFICES ASSUME NEW i \in Team
                 PROVE  (LET k == At("decrypt", i) IN
                         /\ k < EndOf(i) => text[k] = {Ctr("decrypt", i)}
                         /\ \A m \in k .. EndOf(i) - 2 : Follows(m)
                         /\ \A m \in StartOf(i) .. k - 1 : text[m] = {})'
      BY <1>3 DEF DecryptInv
    <3>1. CASE i # t
      <4> DEFINE k == At("decrypt", i)
      <4>1. k \in StartOf(i) .. EndOf(i) /\ At("decrypt", i)' = k /\ Ctr("decrypt", i)' = Ctr("decrypt", i)
        BY <1>1, <1>2, <1>9, <1>16, <1>23, <3>1 DEF At, WorkInv
      <4>2. \A m \in StartOf(i) .. EndOf(i) - 1 : text'[m] = text[m]
        BY <1>2, <1>9, <1>10, <1>14, <3>1
      <4>3. \A m \in StartOf(i) .. EndOf(i) - 2 : Follows(m)' = Follows(m)
        <5> SUFFICES ASSUME NEW m \in StartOf(i) .. EndOf(i) - 2 PROVE Follows(m)' = Follows(m)
          OBVIOUS
        <5>1. /\ StartOf(i) \in Nat /\ EndOf(i) \in Nat /\ EndOf(i) <= size /\ b \in Nat
              /\ b \notin StartOf(i) .. EndOf(i) - 1
          BY <1>9, <1>10, <3>1
        <5>2. m \in 0 .. size - 2 /\ m # b /\ m + 1 # b
          BY <1>2, <5>1
        <5> QED
          BY <1>21, <5>2
      <4>4. /\ k < EndOf(i) => text[k] = {Ctr("decrypt", i)}
            /\ \A m \in k .. EndOf(i) - 2 : Follows(m)
            /\ \A m \in StartOf(i) .. k - 1 : text[m] = {}
        BY <1>1, <1>7, <1>23 DEF DecryptInv
      <4> HIDE DEF k
      <4>5. k < EndOf(i) => text'[k] = {Ctr("decrypt", i)}
        BY <1>9, <4>1, <4>2, <4>4
      <4>6. \A m \in k .. EndOf(i) - 2 : Follows(m)'
        BY <1>9, <4>1, <4>3, <4>4
      <4>7. \A m \in StartOf(i) .. k - 1 : text'[m] = {}
        BY <1>9, <4>1, <4>2, <4>4
      <4> QED
        BY <1>3, <4>1, <4>5, <4>6, <4>7
    <3>2. CASE i = t
      <4>1. /\ text[b] = {x}
            /\ \A m \in b .. EndOf(t) - 2 : Follows(m)
            /\ \A m \in StartOf(t) .. b - 1 : text[m] = {}
        BY <1>1, <1>6, <1>7, <1>8, <1>9, <1>15, <1>23 DEF DecryptInv
      <4>2. text'[b] = {}
        BY <1>14, <4>1
      <4>3. \A m \in StartOf(t) .. EndOf(t) - 1 : m # b => text'[m] = text[m]
        <5> SUFFICES ASSUME NEW m \in StartOf(t) .. EndOf(t) - 1, m # b PROVE text'[m] = text[m]
          OBVIOUS
        <5>1. StartOf(t) \in Nat /\ EndOf(t) \in Nat /\ EndOf(t) <= size
          BY <1>6, <1>9
        <5>2. m \in 0 .. size - 1
          BY <1>2, <5>1
        <5> QED
          BY <1>14, <5>2
      <4>4. b + 1 < EndOf(t) => text'[b + 1] = {Succ(x)}
        <5> SUFFICES ASSUME b + 1 < EndOf(t) PROVE text'[b + 1] = {Succ(x)}
          OBVIOUS
        <5>1. Follows(b) /\ text'[b + 1] = text[b + 1]
          BY <1>6, <1>8, <1>9, <4>1, <4>3
        <5>2. PICK y \in text[b] : text[b] = {y} /\ text[b + 1] = {Succ(y)}
          BY <5>1 DEF Follows
        <5>3. y = x
          BY <4>1
        <5> QED
          BY <5>1, <5>2, <5>3
      <4>5. \A m \in b + 1 .. EndOf(t) - 2 : Follows(m)'
        <5> SUFFICES ASSUME NEW m \in b + 1 .. EndOf(t) - 2 PROVE Follows(m)'
          OBVIOUS
        <5>1. m \in b .. EndOf(t) - 2 /\ m \in 0 .. size - 2 /\ m # b /\ m + 1 # b
          <6>1. EndOf(t) \in Nat /\ EndOf(t) <= size /\ b \in 0 .. size - 1
            BY <1>6, <1>9
          <6> QED
            BY <1>2, <6>1
        <5> QED
          BY <1>21, <4>1, <5>1
      <4>6. \A m \in StartOf(t) .. (b + 1) - 1 : text'[m] = {}
        BY <1>6, <1>8, <1>9, <4>1, <4>2, <4>3
      <4>7. At("decrypt", t)' = b + 1 /\ Ctr("decrypt", t)' = Succ(x)
        BY <1>15, <1>23
      <4> QED
        BY <1>3, <3>2, <4>4, <4>5, <4>6, <4>7
    <3> QED
      BY <3>1, <3>2
  <2> QED
    BY <1>17, <1>18, <1>19, <1>20, <2>1, <2>2 DEF CipherInv
<1> QED
  BY <1>22, <1>23 DEF CipherCalls

\* The invariant of the two calls, until a pthread_create fails.
THEOREM CipherInvariance == CipherSpec => [](~failed => CipherInv)
<1>1. CipherInit => CipherInv
  BY InitInv
<1>2. (~failed => CipherInv) /\ [CipherNext]_cipherVars => (~failed => CipherInv)'
  <2> SUFFICES ASSUME ~failed => CipherInv, [CipherNext]_cipherVars, ~failed' PROVE CipherInv'
    OBVIOUS
  <2>1. CASE CreateThread
    BY <2>1, CreateNext DEF CreateThread
  <2>2. CASE CreateThreadFails
    BY <2>2 DEF CreateThreadFails
  <2>3. CASE JoinThread
    BY <2>3, JoinNext DEF JoinThread
  <2>4. CASE \E c \in CipherCalls, i \in Threads : ProcessBlock(c, i)
    <3>1. PICK c \in CipherCalls, i \in Threads : ProcessBlock(c, i)
      BY <2>4
    <3>2. CipherInv
      BY <3>1 DEF ProcessBlock
    <3> QED
      BY <3>1, <3>2, BlockNext
  <2>5. CASE UNCHANGED cipherVars
    <3>1. UNCHANGED <<caller, call, size, iv, next, work, text>> /\ CipherInv
      BY <2>5 DEF cipherVars
    <3>2. /\ Team' = Team
          /\ \A i : StartOf(i)' = StartOf(i) /\ EndOf(i)' = EndOf(i) /\ FirstCtr(i)' = FirstCtr(i)
      BY <3>1, SameCut
    <3>3. \A c, i : /\ Created(c, i)' = Created(c, i) /\ Runs(c, i)' = Runs(c, i)
                    /\ At(c, i)' = At(c, i) /\ Ctr(c, i)' = Ctr(c, i)
      BY <3>1, <3>2 DEF Created, Runs, At, Ctr
    <3>4. \A b : Follows(b)' = Follows(b)
      BY <3>1 DEF Follows
    <3>5. PlaceInv' /\ ShapeInv'
      BY <3>1, <3>2 DEF CipherInv, PlaceInv, ShapeInv
    <3>6. WorkInv'
      BY <3>1, <3>2, <3>3 DEF CipherInv, WorkInv
    <3>7. JoinInv'
      BY <3>1, <3>2, <3>3 DEF CipherInv, JoinInv
    <3>8. EncryptInv'
      BY <3>1, <3>2, <3>3, <3>4 DEF CipherInv, EncryptInv
    <3>9. DecryptInv'
      BY <3>1, <3>2, <3>3, <3>4 DEF CipherInv, DecryptInv
    <3> QED
      BY <3>5, <3>6, <3>7, <3>8, <3>9 DEF CipherInv
  <2> QED
    BY <2>1, <2>2, <2>3, <2>4, <2>5 DEF CipherNext
<1> QED
  BY <1>1, <1>2, PTL DEF CipherSpec

\* When the encryption returns, every block has been xor'ed with one key stream
\* block and no thread of it runs, for every number of threads and of blocks
\* (the partition and the joins of common.c).
THEOREM EncryptsEachBlockOnce == CipherSpec => []EachBlockOnce
<1>1. (~failed => CipherInv) => EachBlockOnce
  <2> SUFFICES ASSUME CipherInv, Encrypted
               PROVE  /\ \A b \in 0 .. size - 1 : Cardinality(text[b]) = 1
                      /\ \A i \in Threads : ~Runs("encrypt", i)
    BY DEF EachBlockOnce
  <2>1. PlaceInv /\ WorkInv /\ JoinInv /\ DecryptInv /\ size \in Nat \ {0} /\ Team \subseteq Threads
    BY TeamType DEF CipherInv, PlaceInv
  <2>2. ASSUME NEW i \in Team
        PROVE  /\ At("decrypt", i) = StartOf(i)
               /\ StartOf(i) \in Nat /\ EndOf(i) \in Nat /\ StartOf(i) < EndOf(i)
    <3>1. ~Created("decrypt", i)
      BY <2>1, TeamType DEF Created, Encrypted
    <3> QED
      BY <2>1, <3>1, Segments DEF At
  <2>3. ASSUME NEW b \in 0 .. size - 1 PROVE Cardinality(text[b]) = 1
    <3>1. PICK i \in Team : b \in StartOf(i) .. EndOf(i) - 1
      BY <2>1, Cover
    <3>2. /\ text[StartOf(i)] = {Ctr("decrypt", i)}
          /\ \A m \in StartOf(i) .. EndOf(i) - 2 : Follows(m)
      BY <2>1, <2>2 DEF DecryptInv, Encrypted
    <3>3. \E y : text[b] = {y}
      <4>1. CASE b = StartOf(i)
        BY <3>2, <4>1
      <4>2. CASE b # StartOf(i)
        <5>1. b - 1 \in StartOf(i) .. EndOf(i) - 2 /\ (b - 1) + 1 = b
          BY <2>2, <3>1, <4>2
        <5>2. Follows(b - 1)
          BY <3>2, <5>1
        <5> QED
          BY <5>2 DEF Follows
      <4> QED
        BY <4>1, <4>2
    <3> QED
      BY <3>3, FS_Singleton
  <2>4. ASSUME NEW i \in Threads PROVE ~Runs("encrypt", i)
    <3>1. CASE i \in Team
      BY <2>1, <3>1 DEF JoinInv, Encrypted
    <3>2. CASE i \notin Team
      BY <2>1, <3>2 DEF WorkInv, Created, Runs, CipherCalls
    <3> QED
      BY <3>1, <3>2
  <2> QED
    BY <2>3, <2>4
<1> QED
  BY <1>1, CipherInvariance, PTL

\* The decryption with the same arguments gives the plain text back, whatever
\* iv_increment makes of the IV: both passes take the same counters.
THEOREM DecryptionUndoes == CipherSpec => []PlainAgain
<1>1. (~failed => CipherInv) => PlainAgain
  <2> SUFFICES ASSUME CipherInv, caller = "over", NEW b \in 0 .. size - 1 PROVE text[b] = {}
    BY DEF PlainAgain
  <2>1. /\ PlaceInv /\ WorkInv /\ JoinInv /\ DecryptInv /\ size \in Nat \ {0} /\ call = "decrypt"
        /\ Team \subseteq Threads
    BY TeamType DEF CipherInv, PlaceInv
  <2>2. PICK i \in Team : b \in StartOf(i) .. EndOf(i) - 1
    BY <2>1, Cover
  <2>3. Created("decrypt", i)
    BY <2>1 DEF Created
  <2>4. /\ work["decrypt"][i].end = EndOf(i) /\ work["decrypt"][i].block \in StartOf(i) .. EndOf(i)
        /\ ~(work["decrypt"][i].block < work["decrypt"][i].end)
    BY <2>1, <2>3 DEF WorkInv, JoinInv, Runs, CipherCalls
  <2>5. At("decrypt", i) = EndOf(i)
    BY <2>1, <2>3, <2>4, Segments DEF At
  <2> QED
    BY <2>1, <2>2, <2>5 DEF DecryptInv
<1> QED
  BY <1>1, CipherInvariance, PTL

\* The counters of successive blocks.
LEMMA NextCounter ==
    ASSUME NEW x \in Nat
    PROVE  Succ(x % Weight[IV_BYTES]) = (x + 1) % Weight[IV_BYTES]
<1> DEFINE W == Weight[IV_BYTES]
           q == x \div W
           y == (x % W) + 1
           p == y \div W
           r == y % W
<1>1. W \in Nat \ {0}
  BY Weights, BytesAssumption
<1> HIDE DEF W
<1>2. x = W * q + (y - 1) /\ q \in Nat /\ y \in Nat
  <2>1. x = W * q + (x % W) /\ q \in Nat /\ x % W \in 0 .. W - 1
    BY <1>1, NatDivision
  <2> QED
    BY <2>1
<1> HIDE DEF q, y
<1>3. y = W * p + r /\ p \in Nat /\ r \in 0 .. W - 1
  BY <1>1, <1>2, NatDivision
<1> HIDE DEF p, r
<1>4. x + 1 = W * (q + p) + r /\ q + p \in Int
  <2>1. W * (q + p) = W * q + W * p /\ W * q \in Int /\ W * p \in Int
    BY <1>1, <1>2, <1>3
  <2> QED
    BY <1>2, <1>3, <2>1
<1>5. (W * (q + p) + r) % W = r
  BY <1>1, <1>3, <1>4, Remainder
<1>6. (x + 1) % W = r
  BY <1>4, <1>5
<1> QED
  BY <1>6 DEF Succ, W, y, r

\* When the encryption returns, block b has been encrypted with the counter
\* that is b after the IV, as by one thread, unless iv_increment lost a carry
\* in the first counter of some thread: for every width of the IV, number of
\* threads and size of the buffer (common.c's partition and iv_increment).
THEOREM CountersAreSequential == CipherSpec => []SequentialUnlessCarryLost
<1>1. (~failed => CipherInv) => SequentialUnlessCarryLost
  <2> SUFFICES ASSUME CipherInv, Encrypted, NEW b \in 0 .. size - 1,
                      \A i \in 0 .. NumThreads - 1 : ~CarryLost(iv, i * BlocksPerThread)
               PROVE  text[b] = {(iv + b) % Weight[IV_BYTES]}
    BY DEF SequentialUnlessCarryLost, Sequential
  <2>1. PlaceInv /\ DecryptInv /\ size \in Nat \ {0} /\ iv \in Counters /\ iv \in Nat
    BY DEF CipherInv, PlaceInv, Counters
  <2>2. PICK i \in Team : b \in StartOf(i) .. EndOf(i) - 1
    BY <2>1, Cover
  <2> DEFINE B == StartOf(i)
             E == EndOf(i)
             W == Weight[IV_BYTES]
             S == {d \in Nat : B + d <= E - 1 => text[B + d] = {(iv + (B + d)) % W}}
  <2>3. B \in Nat /\ E \in Nat /\ B < E
    BY <2>1, Segments
  <2>4. At("decrypt", i) = B /\ Ctr("decrypt", i) = FirstCtr(i)
    BY <2>1, TeamType DEF Encrypted, Created, At, Ctr
  <2>5. text[B] = {FirstCtr(i)} /\ \A m \in B .. E - 2 : Follows(m)
    BY <2>1, <2>3, <2>4 DEF DecryptInv, Encrypted
  <2>6. FirstCtr(i) = (iv + B) % W
    <3>1. i \in 0 .. NumThreads - 1 /\ ~CarryLost(iv, B)
      BY DEF Team, StartOf
    <3>2. FirstCtr(i) = IvIncrement(iv, B)
      BY DEF FirstCtr, ThreadData, StartOf
    <3> HIDE DEF B
    <3> QED
      BY <2>1, <2>3, <3>1, <3>2, IvIncrementAdds
  <2> HIDE DEF B, E
  <2>7. 0 \in S
    <3>1. B + 0 = B
      BY <2>3
    <3> QED
      BY <2>5, <2>6, <3>1
  <2>8. ASSUME NEW d \in Nat, d \in S PROVE d + 1 \in S
    <3> SUFFICES ASSUME B + (d + 1) <= E - 1
                 PROVE  text[B + (d + 1)] = {(iv + (B + (d + 1))) % W}
      OBVIOUS
    <3> DEFINE m == B + d
    <3>1. m \in B .. E - 2 /\ m <= E - 1 /\ m + 1 = B + (d + 1) /\ iv + m \in Nat
      BY <2>1, <2>3
    <3>2. text[m] = {(iv + m) % W}
      BY <2>8, <3>1
    <3>3. text[m + 1] = {Succ((iv + m) % W)}
      BY <2>5, <3>1, <3>2 DEF Follows
    <3>4. Succ((iv + m) % W) = ((iv + m) + 1) % W
      BY <3>1, NextCounter
    <3>5. (iv + m) + 1 = iv + (m + 1)
      BY <2>1, <3>1
    <3> HIDE DEF m
    <3> QED
      BY <3>1, <3>3, <3>4, <3>5
  <2>9. Nat \subseteq S
    <3> HIDE DEF S
    <3> QED
      BY <2>7, <2>8, Induction
  <2>10. b - B \in Nat /\ B + (b - B) = b /\ b <= E - 1
    BY <2>2, <2>3 DEF B, E
  <2> QED
    BY <2>9, <2>10
<1> QED
  BY <1>1, CipherInvariance, PTL
=============================================================================
