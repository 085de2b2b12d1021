------------------------- MODULE CoyoteBenchProofs --------------------------
(***************************************************************************)
(* Proofs about the RDMA benchmark: for every number of runs, of benches   *)
(* and of transfers, for READs and WRITEs and for both clients, the two    *)
(* sides clear and wait for the right completions.                         *)
(*                                                                         *)
(* The inductive invariant says where the two sides are to each other: in  *)
(* the same run, or one of them in the next one, where it can only wait    *)
(* in connSync; and, by that, how many transfers of which side make up     *)
(* the counters.                                                           *)
(***************************************************************************)
EXTENDS CoyoteBench, TLAPS

\* p has not yet called connSync in its run, or after it has.
Before(p) == pc[p] \in {"fill", "clear", "sync"}

\* Both sides are in the same run, or p is in the one after q's.
Same == bench[client] = bench[server] /\ run[client] = run[server]
Ahead(p, q) ==
    /\ run[q] + 1 < N_RUNS => bench[p] = bench[q] /\ run[p] = run[q] + 1
    /\ run[q] + 1 >= N_RUNS => bench[p] = bench[q] + 1 /\ run[p] = 0
    /\ ~Over(q)

\* Where a side can be, and what it has posted there.
PlaceOf(p) ==
    /\ Over(p) => pc[p] \in {"sync", "meet", "done"} /\ run[p] = 0
    /\ pc[p] = "done" => Over(p)
    /\ pc[p] = "fill" => run[p] = 0
    /\ pc[p] \notin {"invoke", "poll"} => posted[p] = 0
    /\ pc[p] = "invoke" => posted[p] < Transfers[bench[p]]

PlaceInv ==
    /\ PlaceOf(client) /\ PlaceOf(server)
    /\ pc[client] # "await" /\ pc[server] # "poll"
    /\ pc[client] # "poll" \/ direct => seen = 0
    /\ pc[client] = "poll" => seen < Transfers[bench[client]]

\* The two loops and the calls of connSync.
LoopInv ==
    \/ /\ Same
       /\ Before(client) /\ Before(server) => syncs[server] = syncs[client]
       /\ Before(client) /\ ~Before(server) => /\ syncs[server] = syncs[client] + 1
                                               /\ pc[server] = "meet"
       /\ ~Before(client) /\ Before(server) => /\ syncs[client] = syncs[server] + 1
                                               /\ pc[client] = "meet"
       /\ ~Before(client) /\ ~Before(server) => syncs[server] = syncs[client]
    \/ /\ Ahead(server, client)
       /\ pc[client] \in {"meet", "invoke", "poll"}
       /\ Before(server) => syncs[server] = syncs[client]
       /\ ~Before(server) => pc[server] = "meet" /\ syncs[server] = syncs[client] + 1
       /\ operation => pc[client] = "poll"
    \/ /\ Ahead(client, server)
       /\ ~operation /\ pc[server] = "meet"
       /\ Before(client) => syncs[client] = syncs[server]
       /\ ~Before(client) => pc[client] = "meet" /\ syncs[client] = syncs[server] + 1

\* When the client is not in a run's transfers there are none under way, and it
\* starts each with its counter at zero.
ClearInv ==
    /\ pc[client] \notin {"invoke", "poll"} => wire[client] = 0 /\ wire[server] = 0
    /\ pc[client] \in {"sync", "meet"} /\ ~Over(client) => count[client] = 0

\* READs: the client counts its own transfers, the server does nothing.
ReadInv ==
    ~operation =>
        /\ pc[server] \notin {"await", "invoke"} /\ wire[server] = 0
        /\ pc[client] = "invoke" => count[client] + wire[client] = posted[client]
        /\ pc[client] = "poll" => count[client] + wire[client] = Transfers[bench[client]]

\* WRITEs: the server counts the client's, then the client the server's.
WriteInv ==
    operation =>
        /\ pc[server] \in {"sync", "meet"} /\ ~Over(server)
              /\ (pc[client] \notin {"invoke", "poll"} \/ ~Same) => count[server] = 0
        /\ pc[server] = "await" =>
              /\ Same
              /\ pc[client] \in {"meet", "invoke", "poll"}
              /\ pc[client] = "meet" => count[server] = 0
        /\ pc[server] = "invoke" =>
              /\ Same /\ pc[client] = "poll" /\ wire[client] = 0
              /\ count[client] + wire[server] = posted[server]
        /\ pc[client] = "invoke" =>
              /\ count[server] + wire[client] = posted[client]
              /\ pc[server] \in {"meet", "await"} /\ count[client] = 0 /\ wire[server] = 0
        /\ pc[client] = "poll" /\ Same =>
              /\ count[server] + wire[client] = Transfers[bench[client]]
              /\ pc[server] \in {"meet", "await", "invoke"}
              /\ pc[server] # "invoke" => count[client] = 0 /\ wire[server] = 0
        /\ pc[client] = "poll" /\ ~Same =>
              /\ wire[client] = 0
              /\ count[client] + wire[server] = Transfers[bench[client]]

\* READs bring what the server has set.
ReadData ==
    ~operation =>
        /\ Len(Transfers) > 0 /\ (pc[server] # "fill" \/ bench[server] > 1)
               => mem[server] = "data"
        /\ pc[client] \in {"invoke", "poll"} /\ count[client] > 0 => mem[client] = "data"
        /\ seen > 0 /\ ~direct => gpu = "data"
        /\ ContentArrives

\* The inductive invariant, with TypeOK.
BenchInv == PlaceInv /\ LoopInv /\ ClearInv /\ ReadInv /\ WriteInv /\ ReadData

-----------------------------------------------------------------------------
\* There are two sides, each the peer of the other.
LEMMA Peers ==
    /\ client \in Procs /\ server \in Procs /\ Procs = {client, server}
    /\ Peer(client) = server /\ Peer(server) = client
  BY DEF Procs, Peer

\* What the provers must know of p's state to reckon with it.
NumbersOf(p) ==
    /\ bench[p] \in 1 .. Len(Transfers) + 1 /\ run[p] \in 0 .. N_RUNS - 1
    /\ posted[p] \in Nat /\ count[p] \in Nat /\ wire[p] \in Nat /\ syncs[p] \in Nat
    /\ pc[p] \in Steps
    /\ ~Over(p) => Transfers[bench[p]] \in Nat \ {0}

\* The benches and their numbers of transfers.
LEMMA Constants ==
    /\ Len(Transfers) \in Nat /\ N_RUNS \in Nat \ {0}
    /\ \A b \in 1 .. Len(Transfers) : Transfers[b] \in Nat \ {0}
  BY BenchAssumption

\* Counts, positions and steps of both sides have their types.
LEMMA Numbers ==
    ASSUME TypeOK
    PROVE  NumbersOf(client) /\ NumbersOf(server) /\ seen \in Nat
<1>1. ASSUME NEW p \in Procs PROVE NumbersOf(p)
  BY Constants DEF TypeOK, NumbersOf, Over
<1>. QED
  BY <1>1, Peers DEF TypeOK

\* The same after a step.
LEMMA NumbersPrime ==
    ASSUME TypeOK'
    PROVE  NumbersOf(client)' /\ NumbersOf(server)' /\ seen' \in Nat
<1>1. ASSUME NEW p \in Procs PROVE NumbersOf(p)'
  BY Constants DEF TypeOK, NumbersOf, Over
<1>. QED
  BY <1>1, Peers DEF TypeOK

\* What the two loops do to the position of the side that goes on, and to no other.
LEMMA NextRunEffect ==
    ASSUME TypeOK, NEW p \in Procs, NextRun(p)
    PROVE  /\ run[p] + 1 < N_RUNS =>
                 run'[p] = run[p] + 1 /\ bench'[p] = bench[p] /\ pc'[p] = "clear"
           /\ run[p] + 1 >= N_RUNS =>
                 /\ run'[p] = 0 /\ bench'[p] = bench[p] + 1
                 /\ bench[p] = Len(Transfers) => pc'[p] = "sync"
                 /\ bench[p] # Len(Transfers) => pc'[p] = "fill"
           /\ posted'[p] = 0
           /\ \A q \in Procs \ {p} : /\ run'[q] = run[q] /\ bench'[q] = bench[q]
                                     /\ pc'[q] = pc[q] /\ posted'[q] = posted[q]
<1>1. run[p] \in Nat /\ N_RUNS \in Nat
  BY BenchAssumption DEF TypeOK
<1>2. run[p] + 1 < N_RUNS =>
          run'[p] = run[p] + 1 /\ bench'[p] = bench[p] /\ pc'[p] = "clear"
  BY DEF NextRun, TypeOK, Goto
<1>3. run[p] + 1 >= N_RUNS =>
          /\ run'[p] = 0 /\ bench'[p] = bench[p] + 1
          /\ bench[p] = Len(Transfers) => pc'[p] = "sync"
          /\ bench[p] # Len(Transfers) => pc'[p] = "fill"
  BY <1>1 DEF NextRun, TypeOK, Goto
<1>4. posted'[p] = 0
  BY DEF NextRun, TypeOK
<1>5. \A q \in Procs \ {p} : /\ run'[q] = run[q] /\ bench'[q] = bench[q]
                             /\ pc'[q] = pc[q] /\ posted'[q] = posted[q]
  BY DEF NextRun, Goto
<1>. QED
  BY <1>2, <1>3, <1>4, <1>5

\* The positions of the two sides exclude each other.
LEMMA Positions ==
    ASSUME TypeOK
    PROVE  /\ ~(Same /\ Ahead(client, server)) /\ ~(Same /\ Ahead(server, client))
           /\ ~(Ahead(client, server) /\ Ahead(server, client))
           /\ Same => (Over(client) <=> Over(server))
           /\ Same => Transfers[bench[client]] = Transfers[bench[server]]
           /\ Ahead(client, server) => ~Over(server)
           /\ Ahead(server, client) => ~Over(client)
           /\ Ahead(server, client) /\ bench[server] = 1 => run[server] > 0
<1>1. /\ bench[client] \in Nat \ {0} /\ bench[server] \in Nat \ {0}
      /\ run[client] \in Nat /\ run[server] \in Nat /\ N_RUNS \in Nat
  BY Numbers, Constants DEF NumbersOf
<1>2. ~(Same /\ Ahead(client, server)) /\ ~(Same /\ Ahead(server, client))
  BY <1>1 DEF Same, Ahead
<1>3. ~(Ahead(client, server) /\ Ahead(server, client))
  BY <1>1 DEF Ahead
<1>4. /\ Same => (Over(client) <=> Over(server))
      /\ Same => Transfers[bench[client]] = Transfers[bench[server]]
  BY DEF Same, Over
<1>5. /\ Ahead(client, server) => ~Over(server)
      /\ Ahead(server, client) => ~Over(client)
  BY DEF Ahead
<1>6. Ahead(server, client) /\ bench[server] = 1 => run[server] > 0
  BY <1>1 DEF Ahead
<1>. QED
  BY <1>2, <1>3, <1>4, <1>5, <1>6

\* The same after a step.
LEMMA PositionsPrime ==
    ASSUME TypeOK'
    PROVE  /\ ~(Same' /\ Ahead(client, server)') /\ ~(Same' /\ Ahead(server, client)')
           /\ Same' => (Over(client)' <=> Over(server)')
           /\ Same' => Transfers[bench'[client]] = Transfers[bench'[server]]
           /\ Ahead(client, server)' => ~Over(server)'
           /\ Ahead(server, client)' => ~Over(client)'
<1>1. /\ bench'[client] \in Nat /\ bench'[server] \in Nat
      /\ run'[client] \in Nat /\ run'[server] \in Nat /\ N_RUNS \in Nat
  BY NumbersPrime, Constants DEF NumbersOf
<1>2. ~(Same' /\ Ahead(client, server)') /\ ~(Same' /\ Ahead(server, client)')
  BY <1>1 DEF Same, Ahead
<1>3. /\ Same' => (Over(client)' <=> Over(server)')
      /\ Same' => Transfers[bench'[client]] = Transfers[bench'[server]]
  BY DEF Same, Over
<1>4. /\ Ahead(client, server)' => ~Over(server)'
      /\ Ahead(server, client)' => ~Over(client)'
  BY DEF Ahead
<1>. QED
  BY <1>2, <1>3, <1>4

\* A step of neither loop.
LEMMA StaysInRun ==
    ASSUME bench' = bench, run' = run
    PROVE  /\ (Same' <=> Same) /\ (Over(client)' <=> Over(client))
           /\ Ahead(client, server)' <=> Ahead(client, server)
           /\ Ahead(server, client)' <=> Ahead(server, client)
           /\ Over(server)' <=> Over(server)
  BY DEF Same, Ahead, Over

\* A step of the client's loop, and of the server's.
LEMMA ClientMoves ==
    ASSUME TypeOK, NextRun(client), ~Over(client)
    PROVE  /\ Same => Ahead(client, server)'
           /\ Ahead(server, client) => Same'
           /\ Over(server)' <=> Over(server)
           /\ pc'[client] \in {"clear", "sync", "fill"} /\ pc'[server] = pc[server]
           /\ Over(client)' <=> pc'[client] = "sync"
           /\ pc'[client] \in {"fill", "sync"} => run'[client] = 0
           /\ posted'[client] = 0 /\ posted'[server] = posted[server]
           /\ bench'[server] = bench[server] /\ run'[server] = run[server]
<1>1. /\ run[client] + 1 < N_RUNS =>
            run'[client] = run[client] + 1 /\ bench'[client] = bench[client] /\ pc'[client] = "clear"
      /\ run[client] + 1 >= N_RUNS =>
            /\ run'[client] = 0 /\ bench'[client] = bench[client] + 1
            /\ bench[client] = Len(Transfers) => pc'[client] = "sync"
            /\ bench[client] # Len(Transfers) => pc'[client] = "fill"
  BY NextRunEffect, Peers
<1>2. /\ posted'[client] = 0 /\ posted'[server] = posted[server]
      /\ pc'[server] = pc[server] /\ bench'[server] = bench[server] /\ run'[server] = run[server]
  <2>1. server \in Procs \ {client} /\ client \in Procs
    BY Peers, ProcsAssumption
  <2>. QED
    BY <2>1, NextRunEffect
<1>3. /\ run[client] \in Nat /\ run[server] \in Nat /\ N_RUNS \in Nat /\ Len(Transfers) \in Nat
      /\ bench[client] \in Nat /\ bench[server] \in Nat
      /\ bench[client] <= Len(Transfers)
  <2>1. NumbersOf(client) /\ NumbersOf(server)
    BY Numbers
  <2>. QED
    BY <2>1, Constants DEF NumbersOf, Over
<1>4. run[client] + 1 < N_RUNS \/ run[client] + 1 >= N_RUNS
  BY <1>3
<1>5. /\ pc'[client] \in {"clear", "sync", "fill"}
      /\ pc'[client] \in {"fill", "sync"} => run'[client] = 0
  BY <1>1, <1>4
<1>6. Over(client)' <=> pc'[client] = "sync"
  BY <1>1, <1>3 DEF Over
<1>7. Over(server)' <=> Over(server)
  BY <1>2 DEF Over
<1>8. ASSUME Same PROVE Ahead(client, server)'
  BY <1>1, <1>2, <1>8 DEF Same, Ahead, Over
<1>9. ASSUME Ahead(server, client) PROVE Same'
  BY <1>1, <1>2, <1>3, <1>9 DEF Same, Ahead
<1>. QED
  BY <1>2, <1>5, <1>6, <1>7, <1>8, <1>9

\* A step of the server's loops takes it a run ahead, or up to the client.
LEMMA ServerMoves ==
    ASSUME TypeOK, NextRun(server), ~Over(server)
    PROVE  /\ Same => Ahead(server, client)'
           /\ Ahead(client, server) => Same'
           /\ Over(client)' <=> Over(client)
           /\ pc'[server] \in {"clear", "sync", "fill"} /\ pc'[client] = pc[client]
           /\ Over(server)' <=> pc'[server] = "sync"
           /\ pc'[server] \in {"fill", "sync"} => run'[server] = 0
           /\ posted'[server] = 0 /\ posted'[client] = posted[client]
           /\ bench'[client] = bench[client] /\ run'[client] = run[client]
<1>1. /\ run[server] + 1 < N_RUNS =>
            run'[server] = run[server] + 1 /\ bench'[server] = bench[server] /\ pc'[server] = "clear"
      /\ run[server] + 1 >= N_RUNS =>
            /\ run'[server] = 0 /\ bench'[server] = bench[server] + 1
            /\ bench[server] = Len(Transfers) => pc'[server] = "sync"
            /\ bench[server] # Len(Transfers) => pc'[server] = "fill"
  BY NextRunEffect, Peers
<1>2. /\ posted'[server] = 0 /\ posted'[client] = posted[client]
      /\ pc'[client] = pc[client] /\ bench'[client] = bench[client] /\ run'[client] = run[client]
  <2>1. client \in Procs \ {server} /\ server \in Procs
    BY Peers, ProcsAssumption
  <2>. QED
    BY <2>1, NextRunEffect
<1>3. /\ run[server] \in Nat /\ run[client] \in Nat /\ N_RUNS \in Nat /\ Len(Transfers) \in Nat
      /\ bench[server] \in Nat /\ bench[client] \in Nat
      /\ bench[server] <= Len(Transfers)
  <2>1. NumbersOf(server) /\ NumbersOf(client)
    BY Numbers
  <2>. QED
    BY <2>1, Constants DEF NumbersOf, Over
<1>4. run[server] + 1 < N_RUNS \/ run[server] + 1 >= N_RUNS
  BY <1>3
<1>5. /\ pc'[server] \in {"clear", "sync", "fill"}
      /\ pc'[server] \in {"fill", "sync"} => run'[server] = 0
  BY <1>1, <1>4
<1>6. Over(server)' <=> pc'[server] = "sync"
  BY <1>1, <1>3 DEF Over
<1>7. Over(client)' <=> Over(client)
  BY <1>2 DEF Over
<1>8. ASSUME Same PROVE Ahead(server, client)'
  BY <1>1, <1>2, <1>8 DEF Same, Ahead, Over
<1>9. ASSUME Ahead(client, server) PROVE Same'
  BY <1>1, <1>2, <1>3, <1>9 DEF Same, Ahead
<1>. QED
  BY <1>2, <1>5, <1>6, <1>7, <1>8, <1>9

\* The loops keep positions in their ranges.
LEMMA NextRunType ==
    ASSUME TypeOK, NEW p \in Procs, NextRun(p), ~Over(p)
    PROVE  /\ run' \in [Procs -> 0 .. N_RUNS - 1] /\ posted' \in [Procs -> Nat]
           /\ bench' \in [Procs -> 1 .. Len(Transfers) + 1] /\ pc' \in [Procs -> Steps]
<1>1. run[p] \in 0 .. N_RUNS - 1 /\ bench[p] \in 1 .. Len(Transfers)
  BY DEF TypeOK, Over
<1>2. run' \in [Procs -> 0 .. N_RUNS - 1]
  BY Constants DEF TypeOK, NextRun
<1>3. bench' \in [Procs -> 1 .. Len(Transfers) + 1]
  BY <1>1 DEF TypeOK, NextRun
<1>4. posted' \in [Procs -> Nat] /\ pc' \in [Procs -> Steps]
  BY DEF TypeOK, NextRun, Goto, Steps
<1>. QED
  BY <1>2, <1>3, <1>4

\* Every step keeps the types, if a side that loops is not over.
LEMMA NextType ==
    ASSUME TypeOK, PlaceInv, [Next]_vars
    PROVE  TypeOK'
<1> USE DEF common, position
<1>1. ASSUME NEW p \in Procs, Fill(p) PROVE TypeOK'
  BY <1>1 DEF TypeOK, Fill, Goto, Steps, Contents
<1>2. ASSUME NEW p \in Procs, ClearCompleted(p) PROVE TypeOK'
  BY <1>2 DEF TypeOK, ClearCompleted, Goto, Steps
<1>3. ASSUME NEW p \in Procs, ConnSync(p) PROVE TypeOK'
  BY <1>3 DEF TypeOK, ConnSync, Goto, Steps
<1>4. ASSUME NEW p \in Procs, SyncReturns(p) PROVE TypeOK'
  <2>1. CASE ~Over(p) /\ NextRun(p)
    BY <1>4, <2>1, NextRunType DEF TypeOK, SyncReturns
  <2>2. CASE ~NextRun(p) \/ Over(p)
    BY <1>4, <2>2 DEF TypeOK, SyncReturns, Goto, Steps
  <2>. QED
    BY <2>1, <2>2
<1>5. ASSUME AwaitWrites PROVE TypeOK'
  BY <1>5, Peers DEF TypeOK, AwaitWrites, Goto, Steps
<1>6. ASSUME Invoke PROVE TypeOK'
  <2>1. wire' \in [Procs -> Nat]
    BY <1>6, Peers DEF TypeOK, Invoke
  <2>2. CASE Goto(client, "poll") /\ UNCHANGED position
    BY <1>6, <2>1, <2>2 DEF TypeOK, Invoke, Goto, Steps
  <2>3. CASE posted' = [posted EXCEPT ![client] = @ + 1] /\ UNCHANGED <<pc, bench, run>>
    BY <1>6, <2>1, <2>3, Peers DEF TypeOK, Invoke
  <2>. QED
    BY <1>6, <2>2, <2>3 DEF Invoke
<1>7. ASSUME InvokeBack PROVE TypeOK'
  <2>1. wire' \in [Procs -> Nat]
    BY <1>7, Peers DEF TypeOK, InvokeBack
  <2>2. CASE NextRun(server)
    <3>1. ~Over(server)
      BY <1>7 DEF InvokeBack, PlaceInv, PlaceOf
    <3>. QED
      BY <1>7, <2>1, <2>2, <3>1, NextRunType, Peers DEF TypeOK, InvokeBack
  <2>3. CASE posted' = [posted EXCEPT ![server] = @ + 1] /\ UNCHANGED <<pc, bench, run>>
    BY <1>7, <2>1, <2>3, Peers DEF TypeOK, InvokeBack
  <2>. QED
    BY <1>7, <2>2, <2>3 DEF InvokeBack
<1>8. ASSUME PollCompleted PROVE TypeOK'
  <2>1. gpu' \in Contents /\ seen' \in Nat
    BY <1>8, Peers DEF TypeOK, PollCompleted
  <2>2. CASE NextRun(client)
    <3>1. ~Over(client)
      BY <1>8 DEF PollCompleted, PlaceInv, PlaceOf
    <3>. QED
      BY <1>8, <2>1, <2>2, <3>1, NextRunType, Peers DEF TypeOK, PollCompleted
  <2>3. CASE UNCHANGED <<pc, position>>
    BY <1>8, <2>1, <2>3 DEF TypeOK, PollCompleted
  <2>. QED
    BY <1>8, <2>2, <2>3 DEF PollCompleted
<1>9. ASSUME AwaitTransfers PROVE TypeOK'
  <2>1. ~Over(client)
    BY <1>9 DEF AwaitTransfers, PlaceInv, PlaceOf
  <2>. QED
    BY <1>9, <2>1, NextRunType, Peers DEF TypeOK, AwaitTransfers
<1>10. ASSUME NEW p \in Procs, Transfer(p) PROVE TypeOK'
  <2>1. Peer(p) \in Procs
    BY DEF Peer, Procs
  <2>2. wire' \in [Procs -> Nat]
    BY <1>10 DEF TypeOK, Transfer
  <2>3. PICK to \in Procs, from \in Procs :
            mem' = [mem EXCEPT ![to] = mem[from]] /\ count' = [count EXCEPT ![to] = @ + 1]
    BY <1>10, <2>1 DEF Transfer
  <2>4. mem' \in [Procs -> Contents]
    BY <2>3 DEF TypeOK
  <2>5. count' \in [Procs -> Nat]
    <3>1. \A q \in Procs : count[q] \in Nat /\ count[q] + 1 \in Nat
      <4>1. count \in [Procs -> Nat]
        BY DEF TypeOK
      <4>. QED
        BY <4>1
    <3>. QED
      BY <2>3, <3>1 DEF TypeOK
  <2>. QED
    BY <1>10, <2>2, <2>4, <2>5 DEF TypeOK, Transfer
<1>11. CASE UNCHANGED vars
  BY <1>11 DEF vars, TypeOK
<1>12. ASSUME CopyFails PROVE TypeOK'
  BY <1>12 DEF TypeOK, CopyFails
<1>. QED
  BY <1>1, <1>2, <1>3, <1>4, <1>5, <1>6, <1>7, <1>8, <1>9, <1>10, <1>11, <1>12
     DEF Next, Program

-----------------------------------------------------------------------------
\* The client fills its buffer.
LEMMA FillClient ==
    ASSUME TypeOK, TypeOK', BenchInv, Fill(client)
    PROVE  BenchInv'
<1> USE DEF BenchInv, PlaceOf, Before, Steps
<1>1. pc[client] = "fill"
  BY DEF Fill
<1>2. /\ pc'[client] = "clear" /\ pc'[server] = pc[server]
      /\ mem'[server] = mem[server]
  BY Peers, ProcsAssumption DEF TypeOK, Fill, Goto
<1>3. /\ operation' = operation /\ direct' = direct /\ bench' = bench /\ run' = run /\ posted' = posted
      /\ seen' = seen /\ count' = count /\ gpu' = gpu /\ wire' = wire /\ syncs' = syncs
  BY DEF Fill, common, position
<1>10. /\ (Same' <=> Same) /\ (Over(client)' <=> Over(client)) /\ (Over(server)' <=> Over(server))
       /\ Ahead(client, server)' <=> Ahead(client, server)
       /\ Ahead(server, client)' <=> Ahead(server, client)
  BY <1>3, StaysInRun
<1>11. /\ ~(Same /\ Ahead(client, server)) /\ ~(Same /\ Ahead(server, client))
       /\ ~(Ahead(client, server) /\ Ahead(server, client))
       /\ Same => (Over(client) <=> Over(server))
       /\ Same => Transfers[bench[client]] = Transfers[bench[server]]
       /\ Ahead(client, server) => ~Over(server)
       /\ Ahead(server, client) => ~Over(client)
  BY Positions
<1>13. PlaceInv'
  BY <1>1, <1>2, <1>3, <1>10 DEF PlaceInv
<1>14. LoopInv'
  BY <1>1, <1>2, <1>3, <1>10 DEF LoopInv
<1>15. ClearInv'
  BY <1>1, <1>2, <1>3 DEF LoopInv, ClearInv
<1>16. ReadInv'
  BY <1>1, <1>2, <1>3 DEF ReadInv
<1>17. WriteInv'
  BY <1>1, <1>2, <1>3, <1>11 DEF PlaceInv, LoopInv, WriteInv
<1>18. ReadData'
  BY <1>1, <1>2, <1>3 DEF PlaceInv, ReadData, ContentArrives, RunEnded
<1>. QED
  BY <1>13, <1>14, <1>15, <1>16, <1>17, <1>18

\* The client clears its completions: nothing is under way to it.
LEMMA ClearCompletedClient ==
    ASSUME TypeOK, TypeOK', BenchInv, ClearCompleted(client)
    PROVE  BenchInv'
<1> USE DEF BenchInv, PlaceOf, Before, Steps
<1>1. pc[client] = "clear"
  BY DEF ClearCompleted
<1>2. /\ pc'[client] = "sync" /\ pc'[server] = pc[server]
      /\ count'[client] = 0 /\ count'[server] = count[server]
  BY Peers, ProcsAssumption DEF TypeOK, ClearCompleted, Goto
<1>3. /\ operation' = operation /\ direct' = direct /\ bench' = bench /\ run' = run /\ posted' = posted
      /\ seen' = seen /\ mem' = mem /\ gpu' = gpu /\ wire' = wire /\ syncs' = syncs
  BY DEF ClearCompleted, common, position
<1>10. /\ (Same' <=> Same) /\ (Over(client)' <=> Over(client)) /\ (Over(server)' <=> Over(server))
       /\ Ahead(client, server)' <=> Ahead(client, server)
       /\ Ahead(server, client)' <=> Ahead(server, client)
  BY <1>3, StaysInRun
<1>11. /\ ~(Same /\ Ahead(client, server)) /\ ~(Same /\ Ahead(server, client))
       /\ ~(Ahead(client, server) /\ Ahead(server, client))
       /\ Same => (Over(client) <=> Over(server))
       /\ Same => Transfers[bench[client]] = Transfers[bench[server]]
       /\ Ahead(client, server) => ~Over(server)
       /\ Ahead(server, client) => ~Over(client)
  BY Positions
<1>13. PlaceInv'
  BY <1>1, <1>2, <1>3, <1>10 DEF PlaceInv
<1>14. LoopInv'
  BY <1>1, <1>2, <1>3, <1>10 DEF LoopInv
<1>15. ClearInv'
  BY <1>1, <1>2, <1>3 DEF LoopInv, ClearInv
<1>16. ReadInv'
  BY <1>1, <1>2, <1>3 DEF ReadInv
<1>17. WriteInv'
  BY <1>1, <1>2, <1>3, <1>11 DEF PlaceInv, LoopInv, WriteInv
<1>18. ReadData'
  BY <1>1, <1>2, <1>3, <1>10 DEF PlaceInv, ReadData, ContentArrives, RunEnded
<1>. QED
  BY <1>13, <1>14, <1>15, <1>16, <1>17, <1>18

\* The client calls connSync.
LEMMA ConnSyncClient ==
    ASSUME TypeOK, TypeOK', BenchInv, ConnSync(client)
    PROVE  BenchInv'
<1> USE DEF BenchInv, PlaceOf, Before, Steps
<1>1. pc[client] = "sync"
  BY DEF ConnSync
<1>2. /\ pc'[client] = "meet" /\ pc'[server] = pc[server]
      /\ syncs'[client] = syncs[client] + 1 /\ syncs'[server] = syncs[server]
  BY Peers, ProcsAssumption DEF TypeOK, ConnSync, Goto
<1>3. /\ operation' = operation /\ direct' = direct /\ bench' = bench /\ run' = run /\ posted' = posted
      /\ seen' = seen /\ count' = count /\ mem' = mem /\ gpu' = gpu /\ wire' = wire
  BY DEF ConnSync, common, position
<1>10. /\ (Same' <=> Same) /\ (Over(client)' <=> Over(client)) /\ (Over(server)' <=> Over(server))
       /\ Ahead(client, server)' <=> Ahead(client, server)
       /\ Ahead(server, client)' <=> Ahead(server, client)
  BY <1>3, StaysInRun
<1>13. PlaceInv'
  BY <1>1, <1>2, <1>3, <1>10 DEF PlaceInv
<1>14. LoopInv'
  BY <1>1, <1>2, <1>3, <1>10 DEF LoopInv
<1>15. ClearInv'
  BY <1>1, <1>3, <1>10 DEF ClearInv
<1>16. ReadInv'
  BY <1>1, <1>2, <1>3 DEF ReadInv
<1>17. WriteInv'
  BY <1>1, <1>2, <1>3, <1>10 DEF WriteInv
<1>18. ReadData'
  BY <1>2, <1>3 DEF ReadData, ContentArrives, RunEnded
<1>. QED
  BY <1>13, <1>14, <1>15, <1>16, <1>17, <1>18

\* The final connSync returns to the client.
LEMMA SyncReturnsOverClient ==
    ASSUME TypeOK, TypeOK', BenchInv, SyncReturns(client), Over(client)
    PROVE  BenchInv'
<1> USE DEF BenchInv, PlaceOf, Before, Steps
<1>1. pc[client] = "meet" /\ syncs[server] >= syncs[client]
  BY Peers DEF SyncReturns
<1>2. pc'[client] = "done" /\ pc'[server] = pc[server]
      /\ bench' = bench /\ run' = run /\ posted' = posted
  BY Peers, ProcsAssumption DEF TypeOK, SyncReturns, Goto, position
<1>3. /\ operation' = operation /\ direct' = direct /\ seen' = seen /\ count' = count /\ mem' = mem
      /\ gpu' = gpu /\ wire' = wire /\ syncs' = syncs
  BY DEF SyncReturns, common
<1>9. /\ pc'[client] \in Steps /\ syncs'[client] \in Nat
      /\ pc'[server] \in Steps /\ syncs'[server] \in Nat
  BY NumbersPrime DEF NumbersOf
<1>10. /\ (Same' <=> Same) /\ (Over(client)' <=> Over(client)) /\ (Over(server)' <=> Over(server))
       /\ Ahead(client, server)' <=> Ahead(client, server)
       /\ Ahead(server, client)' <=> Ahead(server, client)
  BY <1>2, StaysInRun
<1>12. /\ ~(Same' /\ Ahead(client, server)') /\ ~(Same' /\ Ahead(server, client)')
       /\ Same' => (Over(client)' <=> Over(server)')
       /\ Same' => Transfers[bench'[client]] = Transfers[bench'[server]]
       /\ Ahead(client, server)' => ~Over(server)'
       /\ Ahead(server, client)' => ~Over(client)'
  BY PositionsPrime
<1>13. PlaceInv'
  BY <1>2, <1>3, <1>10 DEF PlaceInv
<1>14. LoopInv'
  BY <1>1, <1>2, <1>3, <1>9, <1>10, <1>12 DEF LoopInv
<1>15. ClearInv'
  BY <1>1, <1>2, <1>3 DEF LoopInv, ClearInv
<1>16. ReadInv'
  BY <1>1, <1>2, <1>3 DEF ReadInv
<1>17. WriteInv'
  BY <1>2, <1>3, <1>10, <1>12 DEF PlaceInv, WriteInv
<1>18. ReadData'
  BY <1>2, <1>3 DEF ReadData, ContentArrives, RunEnded
<1>. QED
  BY <1>13, <1>14, <1>15, <1>16, <1>17, <1>18

\* connSync returns to the client, which then invokes.
LEMMA SyncReturnsClient ==
    ASSUME TypeOK, TypeOK', BenchInv, SyncReturns(client), ~Over(client)
    PROVE  BenchInv'
<1> USE DEF BenchInv, PlaceOf, Before, Steps
<1>1. pc[client] = "meet" /\ syncs[server] >= syncs[client]
  BY Peers DEF SyncReturns
<1>2. pc'[client] = "invoke" /\ pc'[server] = pc[server]
      /\ bench' = bench /\ run' = run /\ posted' = posted
  BY Peers, ProcsAssumption DEF TypeOK, SyncReturns, Goto, position
<1>3. /\ operation' = operation /\ direct' = direct /\ seen' = seen /\ count' = count /\ mem' = mem
      /\ gpu' = gpu /\ wire' = wire /\ syncs' = syncs
  BY DEF SyncReturns, common
<1>7. /\ ~Over(client)' => Transfers[bench'[client]] \in Nat \ {0}
      /\ ~Over(server)' => Transfers[bench'[server]] \in Nat \ {0}
  BY NumbersPrime DEF NumbersOf
<1>9. /\ pc'[client] \in Steps /\ syncs'[client] \in Nat
      /\ pc'[server] \in Steps /\ syncs'[server] \in Nat
  BY NumbersPrime DEF NumbersOf
<1>10. /\ (Same' <=> Same) /\ (Over(client)' <=> Over(client)) /\ (Over(server)' <=> Over(server))
       /\ Ahead(client, server)' <=> Ahead(client, server)
       /\ Ahead(server, client)' <=> Ahead(server, client)
  BY <1>2, StaysInRun
<1>12. /\ ~(Same' /\ Ahead(client, server)') /\ ~(Same' /\ Ahead(server, client)')
       /\ Same' => (Over(client)' <=> Over(server)')
       /\ Same' => Transfers[bench'[client]] = Transfers[bench'[server]]
       /\ Ahead(client, server)' => ~Over(server)'
       /\ Ahead(server, client)' => ~Over(client)'
  BY PositionsPrime
<1>13. PlaceInv'
  BY <1>1, <1>2, <1>3, <1>7, <1>10 DEF PlaceInv
<1>14. LoopInv'
  BY <1>1, <1>2, <1>3, <1>9, <1>10 DEF LoopInv
<1>15. ClearInv'
  BY <1>1, <1>2 DEF ClearInv
<1>16. ReadInv'
  BY <1>1, <1>2, <1>3 DEF PlaceInv, ClearInv, ReadInv
<1>17. WriteInv'
  BY <1>1, <1>2, <1>3, <1>9, <1>10, <1>12 DEF PlaceInv, LoopInv, ClearInv, WriteInv
<1>18. ReadData'
  BY <1>1, <1>2, <1>3 DEF ClearInv, ReadData, ContentArrives, RunEnded
<1>. QED
  BY <1>13, <1>14, <1>15, <1>16, <1>17, <1>18

\* The server fills its buffer.
LEMMA FillServer ==
    ASSUME TypeOK, TypeOK', BenchInv, Fill(server)
    PROVE  BenchInv'
<1> USE DEF BenchInv, PlaceOf, Before, Steps
<1>1. pc[server] = "fill"
  BY DEF Fill
<1>2. /\ pc'[server] = "clear" /\ pc'[client] = pc[client]
      /\ mem'[client] = mem[client]
  BY ProcsAssumption DEF TypeOK, Fill, Goto
<1>3. /\ operation' = operation /\ direct' = direct /\ bench' = bench /\ run' = run /\ posted' = posted
      /\ seen' = seen /\ count' = count /\ gpu' = gpu /\ wire' = wire /\ syncs' = syncs
  BY DEF Fill, common, position
<1>10. /\ (Same' <=> Same) /\ (Over(client)' <=> Over(client)) /\ (Over(server)' <=> Over(server))
       /\ Ahead(client, server)' <=> Ahead(client, server)
       /\ Ahead(server, client)' <=> Ahead(server, client)
  BY <1>3, StaysInRun
<1>11. /\ ~(Same /\ Ahead(client, server)) /\ ~(Same /\ Ahead(server, client))
       /\ ~(Ahead(client, server) /\ Ahead(server, client))
       /\ Same => (Over(client) <=> Over(server))
       /\ Same => Transfers[bench[client]] = Transfers[bench[server]]
       /\ Ahead(client, server) => ~Over(server)
       /\ Ahead(server, client) => ~Over(client)
  BY Positions
<1>13. operation \in BOOLEAN /\ mem \in [Procs -> Contents]
  BY BenchAssumption DEF TypeOK
<1>14. mem'[server] = IF operation = (server = client) THEN "data" ELSE "zero"
  BY <1>13, Peers DEF Fill
<1>15. ~operation => mem'[server] = "data"
  BY <1>13, <1>14, ProcsAssumption
<1>16. PlaceInv'
  BY <1>1, <1>2, <1>3, <1>10 DEF PlaceInv
<1>17. LoopInv'
  BY <1>1, <1>2, <1>3, <1>10 DEF LoopInv
<1>18. ClearInv'
  BY <1>1, <1>2, <1>3, <1>11 DEF PlaceInv, LoopInv, ClearInv
<1>19. ReadInv'
  BY <1>1, <1>2, <1>3 DEF ReadInv
<1>20. WriteInv'
  BY <1>1, <1>2, <1>3, <1>10 DEF WriteInv
<1>21. ReadData'
  BY <1>2, <1>3, <1>10, <1>15 DEF ReadData, ContentArrives, RunEnded
<1>. QED
  BY <1>16, <1>17, <1>18, <1>19, <1>20, <1>21

\* The server clears its completions: nothing is under way to it.
LEMMA ClearCompletedServer ==
    ASSUME TypeOK, TypeOK', BenchInv, ClearCompleted(server)
    PROVE  BenchInv'
<1> USE DEF BenchInv, PlaceOf, Before, Steps
<1>1. pc[server] = "clear"
  BY DEF ClearCompleted
<1>2. /\ pc'[server] = "sync" /\ pc'[client] = pc[client]
      /\ count'[server] = 0 /\ count'[client] = count[client]
  BY ProcsAssumption DEF TypeOK, ClearCompleted, Goto
<1>3. /\ operation' = operation /\ direct' = direct /\ bench' = bench /\ run' = run /\ posted' = posted
      /\ seen' = seen /\ mem' = mem /\ gpu' = gpu /\ wire' = wire /\ syncs' = syncs
  BY DEF ClearCompleted, common, position
<1>10. /\ (Same' <=> Same) /\ (Over(client)' <=> Over(client)) /\ (Over(server)' <=> Over(server))
       /\ Ahead(client, server)' <=> Ahead(client, server)
       /\ Ahead(server, client)' <=> Ahead(server, client)
  BY <1>3, StaysInRun
<1>13. PlaceInv'
  BY <1>1, <1>2, <1>3, <1>10 DEF PlaceInv
<1>14. LoopInv'
  BY <1>1, <1>2, <1>3, <1>10 DEF LoopInv
<1>15. ClearInv'
  BY <1>2, <1>3, <1>10 DEF ClearInv
<1>16. ReadInv'
  BY <1>1, <1>2, <1>3 DEF ReadInv
<1>17. WriteInv'
  BY <1>1, <1>2, <1>3, <1>10 DEF WriteInv
<1>18. ReadData'
  BY <1>1, <1>2, <1>3, <1>10 DEF ReadData, ContentArrives, RunEnded
<1>. QED
  BY <1>13, <1>14, <1>15, <1>16, <1>17, <1>18

\* The server calls connSync.
LEMMA ConnSyncServer ==
    ASSUME TypeOK, TypeOK', BenchInv, ConnSync(server)
    PROVE  BenchInv'
<1> USE DEF BenchInv, PlaceOf, Before, Steps
<1>1. pc[server] = "sync"
  BY DEF ConnSync
<1>2. /\ pc'[server] = "meet" /\ pc'[client] = pc[client]
      /\ syncs'[server] = syncs[server] + 1 /\ syncs'[client] = syncs[client]
  BY ProcsAssumption DEF TypeOK, ConnSync, Goto
<1>3. /\ operation' = operation /\ direct' = direct /\ bench' = bench /\ run' = run /\ posted' = posted
      /\ seen' = seen /\ count' = count /\ mem' = mem /\ gpu' = gpu /\ wire' = wire
  BY DEF ConnSync, common, position
<1>10. /\ (Same' <=> Same) /\ (Over(client)' <=> Over(client)) /\ (Over(server)' <=> Over(server))
       /\ Ahead(client, server)' <=> Ahead(client, server)
       /\ Ahead(server, client)' <=> Ahead(server, client)
  BY <1>3, StaysInRun
<1>13. PlaceInv'
  BY <1>1, <1>2, <1>3, <1>10 DEF PlaceInv
<1>14. LoopInv'
  BY <1>1, <1>2, <1>3, <1>10 DEF LoopInv
<1>15. ClearInv'
  BY <1>2, <1>3, <1>10 DEF ClearInv
<1>16. ReadInv'
  BY <1>1, <1>2, <1>3 DEF ReadInv
<1>17. WriteInv'
  BY <1>1, <1>2, <1>3, <1>10 DEF WriteInv
<1>18. ReadData'
  BY <1>1, <1>2, <1>3, <1>10 DEF ReadData, ContentArrives, RunEnded
<1>. QED
  BY <1>13, <1>14, <1>15, <1>16, <1>17, <1>18

\* The final connSync returns to the server.
LEMMA SyncReturnsOverServer ==
    ASSUME TypeOK, TypeOK', BenchInv, SyncReturns(server), Over(server)
    PROVE  BenchInv'
<1> USE DEF BenchInv, PlaceOf, Before, Steps
<1>1. pc[server] = "meet" /\ syncs[client] >= syncs[server]
  BY Peers DEF SyncReturns
<1>2. pc'[server] = "done" /\ pc'[client] = pc[client]
      /\ bench' = bench /\ run' = run /\ posted' = posted
  BY Peers, ProcsAssumption DEF TypeOK, SyncReturns, Goto, position
<1>3. /\ operation' = operation /\ direct' = direct /\ seen' = seen /\ count' = count /\ mem' = mem
      /\ gpu' = gpu /\ wire' = wire /\ syncs' = syncs
  BY DEF SyncReturns, common
<1>8. /\ pc[client] \in Steps /\ syncs[client] \in Nat
      /\ pc[server] \in Steps /\ syncs[server] \in Nat
  BY Numbers DEF NumbersOf
<1>9. /\ pc'[client] \in Steps /\ syncs'[client] \in Nat
      /\ pc'[server] \in Steps /\ syncs'[server] \in Nat
  BY NumbersPrime DEF NumbersOf
<1>10. /\ (Same' <=> Same) /\ (Over(client)' <=> Over(client)) /\ (Over(server)' <=> Over(server))
       /\ Ahead(client, server)' <=> Ahead(client, server)
       /\ Ahead(server, client)' <=> Ahead(server, client)
  BY <1>2, StaysInRun
<1>11. /\ ~(Same /\ Ahead(client, server)) /\ ~(Same /\ Ahead(server, client))
       /\ ~(Ahead(client, server) /\ Ahead(server, client))
       /\ Same => (Over(client) <=> Over(server))
       /\ Same => Transfers[bench[client]] = Transfers[bench[server]]
       /\ Ahead(client, server) => ~Over(server)
       /\ Ahead(server, client) => ~Over(client)
  BY Positions
<1>12. /\ ~(Same' /\ Ahead(client, server)') /\ ~(Same' /\ Ahead(server, client)')
       /\ Same' => (Over(client)' <=> Over(server)')
       /\ Same' => Transfers[bench'[client]] = Transfers[bench'[server]]
       /\ Ahead(client, server)' => ~Over(server)'
       /\ Ahead(server, client)' => ~Over(client)'
  BY PositionsPrime
<1>13. PlaceInv'
  BY <1>2, <1>3, <1>10 DEF PlaceInv
<1>14. LoopInv'
  BY <1>1, <1>2, <1>3, <1>9, <1>10, <1>12 DEF LoopInv
<1>15. ClearInv'
  BY <1>2, <1>3, <1>10 DEF ClearInv
<1>16. ReadInv'
  BY <1>1, <1>2, <1>3 DEF ReadInv
<1>17. WriteInv'
  BY <1>1, <1>2, <1>8, <1>11 DEF PlaceInv, LoopInv, WriteInv
<1>18. ReadData'
  BY <1>2, <1>3, <1>11 DEF PlaceInv, LoopInv, ReadData, ContentArrives, RunEnded
<1>. QED
  BY <1>13, <1>14, <1>15, <1>16, <1>17, <1>18

\* connSync returns to the server, which then awaits WRITEs.
LEMMA SyncReturnsWriteServer ==
    ASSUME TypeOK, TypeOK', BenchInv, SyncReturns(server), ~Over(server), operation
    PROVE  BenchInv'
<1> USE DEF BenchInv, PlaceOf, Before, Steps
<1>1. pc[server] = "meet" /\ syncs[client] >= syncs[server]
  BY Peers DEF SyncReturns
<1>2. pc'[server] = "await" /\ pc'[client] = pc[client]
      /\ bench' = bench /\ run' = run /\ posted' = posted
  BY Peers, ProcsAssumption DEF TypeOK, SyncReturns, Goto, position
<1>3. /\ operation' = operation /\ direct' = direct /\ seen' = seen /\ count' = count /\ mem' = mem
      /\ gpu' = gpu /\ wire' = wire /\ syncs' = syncs
  BY DEF SyncReturns, common
<1>9. /\ pc'[client] \in Steps /\ syncs'[client] \in Nat
      /\ pc'[server] \in Steps /\ syncs'[server] \in Nat
  BY NumbersPrime DEF NumbersOf
<1>10. /\ (Same' <=> Same) /\ (Over(client)' <=> Over(client)) /\ (Over(server)' <=> Over(server))
       /\ Ahead(client, server)' <=> Ahead(client, server)
       /\ Ahead(server, client)' <=> Ahead(server, client)
  BY <1>2, StaysInRun
<1>12. /\ ~(Same' /\ Ahead(client, server)') /\ ~(Same' /\ Ahead(server, client)')
       /\ Same' => (Over(client)' <=> Over(server)')
       /\ Same' => Transfers[bench'[client]] = Transfers[bench'[server]]
       /\ Ahead(client, server)' => ~Over(server)'
       /\ Ahead(server, client)' => ~Over(client)'
  BY PositionsPrime
<1>13. PlaceInv'
  BY <1>1, <1>2, <1>3, <1>10 DEF PlaceInv
<1>14. LoopInv'
  BY <1>1, <1>2, <1>3, <1>9, <1>10 DEF LoopInv
<1>15. ClearInv'
  BY <1>2, <1>3, <1>10 DEF ClearInv
<1>16. ReadInv'
  BY <1>1, <1>2, <1>3 DEF ReadInv
<1>17. WriteInv'
  BY <1>1, <1>2, <1>3, <1>9, <1>10, <1>12 DEF PlaceInv, LoopInv, WriteInv
<1>18. ReadData'
  BY <1>1, <1>2, <1>3 DEF ReadInv, ReadData
<1>. QED
  BY <1>13, <1>14, <1>15, <1>16, <1>17, <1>18

\* connSync returns to the server of READs, which has no more to do in this run.
LEMMA SyncReturnsReadServer ==
    ASSUME TypeOK, TypeOK', BenchInv, SyncReturns(server), ~Over(server), ~operation
    PROVE  BenchInv'
<1> USE DEF BenchInv, PlaceOf, Before, Steps
<1>1. pc[server] = "meet" /\ syncs[client] >= syncs[server]
  BY Peers DEF SyncReturns
<1>2. NextRun(server)
  BY ProcsAssumption DEF SyncReturns
<1>3. /\ Same => Ahead(server, client)'
      /\ Ahead(client, server) => Same'
      /\ Over(client)' <=> Over(client)
      /\ pc'[server] \in {"clear", "sync", "fill"} /\ pc'[client] = pc[client]
      /\ Over(server)' <=> pc'[server] = "sync"
      /\ pc'[server] \in {"fill", "sync"} => run'[server] = 0
      /\ posted'[server] = 0 /\ posted'[client] = posted[client]
      /\ bench'[client] = bench[client] /\ run'[client] = run[client]
  BY <1>2, ServerMoves
<1>4. /\ operation' = operation /\ direct' = direct /\ seen' = seen /\ count' = count /\ mem' = mem
      /\ gpu' = gpu /\ wire' = wire /\ syncs' = syncs
  BY DEF SyncReturns, common
<1>10. /\ pc'[client] \in Steps /\ syncs'[client] \in Nat
       /\ pc'[server] \in Steps /\ syncs'[server] \in Nat
  BY NumbersPrime DEF NumbersOf
<1>12. /\ ~(Same' /\ Ahead(client, server)') /\ ~(Same' /\ Ahead(server, client)')
       /\ Same' => (Over(client)' <=> Over(server)')
       /\ Same' => Transfers[bench'[client]] = Transfers[bench'[server]]
       /\ Ahead(client, server)' => ~Over(server)'
       /\ Ahead(server, client)' => ~Over(client)'
  BY PositionsPrime
<1>13. PlaceInv'
  BY <1>3, <1>4 DEF PlaceInv
<1>14. LoopInv'
  BY <1>1, <1>3, <1>4, <1>10, <1>12 DEF PlaceInv, LoopInv
<1>15. ClearInv'
  BY <1>3, <1>4 DEF ClearInv
<1>16. ReadInv'
  BY <1>3, <1>4 DEF ReadInv
<1>17. WriteInv'
  BY <1>4 DEF WriteInv
<1>18. ReadData'
  BY <1>1, <1>3, <1>4 DEF ReadData, ContentArrives, RunEnded
<1>. QED
  BY <1>13, <1>14, <1>15, <1>16, <1>17, <1>18

\* The server has all WRITEs of the run.
LEMMA AwaitWritesServer ==
    ASSUME TypeOK, TypeOK', BenchInv, AwaitWrites
    PROVE  BenchInv'
<1> USE DEF BenchInv, PlaceOf, Before, Steps
<1>1. /\ pc[server] = "await" /\ ~Over(server)
      /\ count[server] = Transfers[bench[server]]
  BY DEF AwaitWrites, PlaceInv
<1>2. pc'[server] = "invoke" /\ pc'[client] = pc[client]
  BY ProcsAssumption DEF TypeOK, AwaitWrites, Goto
<1>3. /\ operation' = operation /\ direct' = direct /\ bench' = bench /\ run' = run /\ posted' = posted
      /\ seen' = seen /\ count' = count /\ mem' = mem /\ gpu' = gpu /\ wire' = wire
      /\ syncs' = syncs
  BY DEF AwaitWrites, common, position
<1>5. /\ count'[client] \in Nat /\ wire'[client] \in Nat /\ posted'[client] \in Nat
      /\ count'[server] \in Nat /\ wire'[server] \in Nat /\ posted'[server] \in Nat
      /\ seen' \in Nat
  BY NumbersPrime DEF NumbersOf
<1>6. /\ ~Over(client) => Transfers[bench[client]] \in Nat \ {0}
      /\ ~Over(server) => Transfers[bench[server]] \in Nat \ {0}
  BY Numbers DEF NumbersOf
<1>7. /\ ~Over(client)' => Transfers[bench'[client]] \in Nat \ {0}
      /\ ~Over(server)' => Transfers[bench'[server]] \in Nat \ {0}
  BY NumbersPrime DEF NumbersOf
<1>10. /\ (Same' <=> Same) /\ (Over(client)' <=> Over(client)) /\ (Over(server)' <=> Over(server))
       /\ Ahead(client, server)' <=> Ahead(client, server)
       /\ Ahead(server, client)' <=> Ahead(server, client)
  BY <1>3, StaysInRun
<1>12. /\ ~(Same' /\ Ahead(client, server)') /\ ~(Same' /\ Ahead(server, client)')
       /\ Same' => (Over(client)' <=> Over(server)')
       /\ Same' => Transfers[bench'[client]] = Transfers[bench'[server]]
       /\ Ahead(client, server)' => ~Over(server)'
       /\ Ahead(server, client)' => ~Over(client)'
  BY PositionsPrime
<1>13. PlaceInv'
  BY <1>1, <1>2, <1>3, <1>7, <1>10 DEF PlaceInv
<1>14. LoopInv'
  BY <1>1, <1>2, <1>3, <1>10 DEF LoopInv
<1>15. ClearInv'
  BY <1>2, <1>3, <1>10 DEF ClearInv
<1>16. ReadInv'
  BY <1>1, <1>2, <1>3 DEF ReadInv
<1>17. WriteInv'
  BY <1>1, <1>2, <1>3, <1>5, <1>6, <1>10, <1>12 DEF PlaceInv, WriteInv
<1>18. ReadData'
  BY <1>1, <1>2, <1>3 DEF ReadInv, ReadData
<1>. QED
  BY <1>13, <1>14, <1>15, <1>16, <1>17, <1>18

\* The client invokes a transfer that is not its last.
LEMMA InvokeMoreClient ==
    ASSUME TypeOK, TypeOK', BenchInv, Invoke,
           posted[client] + 1 < Transfers[bench[client]]
    PROVE  BenchInv'
<1> USE DEF BenchInv, PlaceOf, Before, Steps
<1>1. pc[client] = "invoke" /\ ~Over(client)
  BY DEF Invoke, PlaceInv
<1>2. /\ wire'[client] = wire[client] + 1 /\ wire'[server] = wire[server]
      /\ posted'[client] = posted[client] + 1 /\ posted'[server] = posted[server]
      /\ pc' = pc /\ bench' = bench /\ run' = run
  BY Peers, ProcsAssumption DEF TypeOK, Invoke
<1>3. /\ operation' = operation /\ direct' = direct /\ seen' = seen /\ count' = count /\ mem' = mem
      /\ gpu' = gpu /\ syncs' = syncs
  BY DEF Invoke, common
<1>4. /\ count[client] \in Nat /\ wire[client] \in Nat /\ posted[client] \in Nat
      /\ count[server] \in Nat /\ wire[server] \in Nat /\ posted[server] \in Nat
      /\ seen \in Nat
  BY Numbers DEF NumbersOf
<1>10. /\ (Same' <=> Same) /\ (Over(client)' <=> Over(client)) /\ (Over(server)' <=> Over(server))
       /\ Ahead(client, server)' <=> Ahead(client, server)
       /\ Ahead(server, client)' <=> Ahead(server, client)
  BY <1>2, StaysInRun
<1>13. /\ ~operation => count[client] + wire[client] = posted[client]
       /\ operation => count[server] + wire[client] = posted[client]
  BY <1>1 DEF ReadInv, WriteInv
<1>14. /\ ~operation => count'[client] + wire'[client] = posted'[client]
       /\ operation => count'[server] + wire'[client] = posted'[client]
  BY <1>2, <1>3, <1>4, <1>13
<1>15. PlaceInv'
  BY <1>1, <1>2, <1>3, <1>10 DEF PlaceInv
<1>16. LoopInv'
  BY <1>2, <1>3, <1>10 DEF LoopInv
<1>17. ClearInv'
  BY <1>1, <1>2 DEF ClearInv
<1>18. ReadInv'
  BY <1>1, <1>2, <1>3, <1>14 DEF ReadInv
<1>19. WriteInv'
  BY <1>1, <1>2, <1>3, <1>10, <1>14 DEF WriteInv
<1>20. ReadData'
  BY <1>1, <1>2, <1>3 DEF ReadData, ContentArrives, RunEnded
<1>. QED
  BY <1>15, <1>16, <1>17, <1>18, <1>19, <1>20

\* The client invokes the last transfer of the run and then polls.
LEMMA InvokeLastClient ==
    ASSUME TypeOK, TypeOK', BenchInv, Invoke,
           ~(posted[client] + 1 < Transfers[bench[client]])
    PROVE  BenchInv'
<1> USE DEF BenchInv, PlaceOf, Before, Steps
<1>1. pc[client] = "invoke" /\ ~Over(client)
  BY DEF Invoke, PlaceInv
<1>2. /\ wire'[client] = wire[client] + 1 /\ wire'[server] = wire[server]
      /\ pc'[client] = "poll" /\ pc'[server] = pc[server]
      /\ posted' = posted /\ bench' = bench /\ run' = run
  BY Peers, ProcsAssumption DEF TypeOK, Invoke, Goto, position
<1>3. /\ operation' = operation /\ direct' = direct /\ seen' = seen /\ count' = count /\ mem' = mem
      /\ gpu' = gpu /\ syncs' = syncs
  BY DEF Invoke, common
<1>4. /\ count[client] \in Nat /\ wire[client] \in Nat /\ posted[client] \in Nat
      /\ count[server] \in Nat /\ wire[server] \in Nat /\ posted[server] \in Nat
      /\ seen \in Nat
  BY Numbers DEF NumbersOf
<1>6. /\ ~Over(client) => Transfers[bench[client]] \in Nat \ {0}
      /\ ~Over(server) => Transfers[bench[server]] \in Nat \ {0}
  BY Numbers DEF NumbersOf
<1>7. /\ ~Over(client)' => Transfers[bench'[client]] \in Nat \ {0}
      /\ ~Over(server)' => Transfers[bench'[server]] \in Nat \ {0}
  BY NumbersPrime DEF NumbersOf
<1>10. /\ (Same' <=> Same) /\ (Over(client)' <=> Over(client)) /\ (Over(server)' <=> Over(server))
       /\ Ahead(client, server)' <=> Ahead(client, server)
       /\ Ahead(server, client)' <=> Ahead(server, client)
  BY <1>2, StaysInRun
<1>13. posted[client] < Transfers[bench[client]]
  BY <1>1 DEF PlaceInv
<1>14. posted[client] + 1 = Transfers[bench[client]]
  BY <1>1, <1>4, <1>6, <1>13
<1>15. /\ ~operation => count[client] + wire[client] = posted[client]
       /\ operation => count[server] + wire[client] = posted[client]
  BY <1>1 DEF ReadInv, WriteInv
<1>16. /\ ~operation => count'[client] + wire'[client] = Transfers[bench[client]]
       /\ operation => count'[server] + wire'[client] = Transfers[bench[client]]
  BY <1>2, <1>3, <1>4, <1>14, <1>15
<1>17. operation => /\ Same /\ pc[server] \in {"meet", "await"}
                   /\ count[client] = 0 /\ wire[server] = 0
  BY <1>1 DEF WriteInv, LoopInv
<1>18. PlaceInv'
  BY <1>1, <1>2, <1>3, <1>7, <1>10 DEF PlaceInv
<1>19. LoopInv'
  BY <1>1, <1>2, <1>3, <1>10 DEF LoopInv
<1>20. ClearInv'
  BY <1>1, <1>2 DEF ClearInv
<1>21. ReadInv'
  BY <1>2, <1>3, <1>16 DEF ReadInv
<1>22. WriteInv'
  BY <1>2, <1>3, <1>10, <1>16, <1>17 DEF WriteInv
<1>23. ReadData'
  BY <1>1, <1>2, <1>3 DEF ReadData, ContentArrives, RunEnded
<1>. QED
  BY <1>18, <1>19, <1>20, <1>21, <1>22, <1>23

\* The server writes back, not for the last time.
LEMMA InvokeBackMoreServer ==
    ASSUME TypeOK, TypeOK', BenchInv, InvokeBack,
           posted[server] + 1 < Transfers[bench[server]]
    PROVE  BenchInv'
<1> USE DEF BenchInv, PlaceOf, Before, Steps
<1>1. pc[server] = "invoke" /\ ~Over(server)
  BY DEF InvokeBack, PlaceInv
<1>2. /\ wire'[server] = wire[server] + 1 /\ wire'[client] = wire[client]
      /\ posted'[server] = posted[server] + 1 /\ posted'[client] = posted[client]
      /\ pc' = pc /\ bench' = bench /\ run' = run
  BY Peers, ProcsAssumption DEF TypeOK, InvokeBack
<1>3. /\ operation' = operation /\ direct' = direct /\ seen' = seen /\ count' = count /\ mem' = mem
      /\ gpu' = gpu /\ syncs' = syncs
  BY DEF InvokeBack, common
<1>4. /\ count[client] \in Nat /\ wire[client] \in Nat /\ posted[client] \in Nat
      /\ count[server] \in Nat /\ wire[server] \in Nat /\ posted[server] \in Nat
      /\ seen \in Nat
  BY Numbers DEF NumbersOf
<1>10. /\ (Same' <=> Same) /\ (Over(client)' <=> Over(client)) /\ (Over(server)' <=> Over(server))
       /\ Ahead(client, server)' <=> Ahead(client, server)
       /\ Ahead(server, client)' <=> Ahead(server, client)
  BY <1>2, StaysInRun
<1>13. operation /\ Same /\ pc[client] = "poll" /\ wire[client] = 0
       /\ count[client] + wire[server] = posted[server]
  BY <1>1 DEF ReadInv, WriteInv
<1>14. count'[client] + wire'[server] = posted'[server]
  BY <1>2, <1>3, <1>4, <1>13
<1>15. PlaceInv'
  BY <1>1, <1>2, <1>3, <1>10 DEF PlaceInv
<1>16. LoopInv'
  BY <1>2, <1>3, <1>10 DEF LoopInv
<1>17. ClearInv'
  BY <1>1, <1>2 DEF ClearInv, ReadInv, WriteInv
<1>18. ReadInv'
  BY <1>1, <1>2, <1>3 DEF ReadInv
<1>19. WriteInv'
  BY <1>1, <1>2, <1>3, <1>10, <1>14 DEF WriteInv
<1>20. ReadData'
  BY <1>1, <1>2, <1>3 DEF ReadInv, ReadData
<1>. QED
  BY <1>15, <1>16, <1>17, <1>18, <1>19, <1>20

\* The server's last WRITE of the run takes it to the next, where it waits in connSync.
LEMMA InvokeBackLastServer ==
    ASSUME TypeOK, TypeOK', BenchInv, InvokeBack,
           ~(posted[server] + 1 < Transfers[bench[server]])
    PROVE  BenchInv'
<1> USE DEF BenchInv, PlaceOf, Before, Steps
<1>1. pc[server] = "invoke" /\ ~Over(server)
  BY DEF InvokeBack, PlaceInv
<1>2. NextRun(server) /\ wire'[server] = wire[server] + 1 /\ wire'[client] = wire[client]
  BY ProcsAssumption DEF TypeOK, InvokeBack
<1>3. /\ Same => Ahead(server, client)'
      /\ Ahead(client, server) => Same'
      /\ Over(client)' <=> Over(client)
      /\ pc'[server] \in {"clear", "sync", "fill"} /\ pc'[client] = pc[client]
      /\ Over(server)' <=> pc'[server] = "sync"
      /\ pc'[server] \in {"fill", "sync"} => run'[server] = 0
      /\ posted'[server] = 0 /\ posted'[client] = posted[client]
      /\ bench'[client] = bench[client] /\ run'[client] = run[client]
  BY <1>1, <1>2, ServerMoves
<1>4. /\ operation' = operation /\ direct' = direct /\ seen' = seen /\ count' = count /\ mem' = mem
      /\ gpu' = gpu /\ syncs' = syncs
  BY DEF InvokeBack, common
<1>5. /\ count[client] \in Nat /\ wire[client] \in Nat /\ posted[client] \in Nat
      /\ count[server] \in Nat /\ wire[server] \in Nat /\ posted[server] \in Nat
      /\ seen \in Nat
  BY Numbers DEF NumbersOf
<1>7. /\ ~Over(client) => Transfers[bench[client]] \in Nat \ {0}
      /\ ~Over(server) => Transfers[bench[server]] \in Nat \ {0}
  BY Numbers DEF NumbersOf
<1>11. /\ ~(Same /\ Ahead(client, server)) /\ ~(Same /\ Ahead(server, client))
       /\ ~(Ahead(client, server) /\ Ahead(server, client))
       /\ Same => (Over(client) <=> Over(server))
       /\ Same => Transfers[bench[client]] = Transfers[bench[server]]
       /\ Ahead(client, server) => ~Over(server)
       /\ Ahead(server, client) => ~Over(client)
  BY Positions
<1>12. /\ ~(Same' /\ Ahead(client, server)') /\ ~(Same' /\ Ahead(server, client)')
       /\ Same' => (Over(client)' <=> Over(server)')
       /\ Same' => Transfers[bench'[client]] = Transfers[bench'[server]]
       /\ Ahead(client, server)' => ~Over(server)'
       /\ Ahead(server, client)' => ~Over(client)'
  BY PositionsPrime
<1>13. operation /\ Same /\ pc[client] = "poll" /\ wire[client] = 0
       /\ count[client] + wire[server] = posted[server]
  BY <1>1 DEF ReadInv, WriteInv
<1>14. posted[server] < Transfers[bench[client]]
  BY <1>1, <1>11, <1>13 DEF PlaceInv
<1>15. posted[server] + 1 = Transfers[bench[client]]
  BY <1>1, <1>5, <1>7, <1>11, <1>13, <1>14
<1>16. count'[client] + wire'[server] = Transfers[bench[client]]
  BY <1>2, <1>4, <1>5, <1>13, <1>15
<1>17. PlaceInv'
  BY <1>3, <1>4 DEF PlaceInv
<1>18. LoopInv'
  BY <1>1, <1>3, <1>4 DEF LoopInv, ReadInv, WriteInv
<1>19. ClearInv'
  BY <1>1, <1>3 DEF ClearInv, ReadInv, WriteInv
<1>20. ReadInv'
  BY <1>4, <1>13 DEF ReadInv
<1>21. WriteInv'
  BY <1>2, <1>3, <1>12, <1>13, <1>16 DEF WriteInv
<1>22. ReadData'
  BY <1>1, <1>4 DEF ReadInv, ReadData
<1>. QED
  BY <1>17, <1>18, <1>19, <1>20, <1>21, <1>22

\* The client copies for a completion that is not the last.
LEMMA PollMoreClient ==
    ASSUME TypeOK, TypeOK', BenchInv, PollCompleted,
           seen + 1 < Transfers[bench[client]]
    PROVE  BenchInv'
<1> USE DEF BenchInv, PlaceOf, Before, Steps
<1>1. pc[client] = "poll" /\ ~direct /\ count[client] > seen /\ ~Over(client)
  BY DEF PollCompleted, PlaceInv
<1>2. /\ gpu' = mem[client] /\ seen' = seen + 1
      /\ pc' = pc /\ bench' = bench /\ run' = run /\ posted' = posted
  BY DEF PollCompleted, position
<1>3. /\ operation' = operation /\ direct' = direct /\ count' = count /\ mem' = mem /\ wire' = wire
      /\ syncs' = syncs
  BY DEF PollCompleted, common
<1>4. /\ count[client] \in Nat /\ wire[client] \in Nat /\ posted[client] \in Nat
      /\ count[server] \in Nat /\ wire[server] \in Nat /\ posted[server] \in Nat
      /\ seen \in Nat
  BY Numbers DEF NumbersOf
<1>10. /\ (Same' <=> Same) /\ (Over(client)' <=> Over(client)) /\ (Over(server)' <=> Over(server))
       /\ Ahead(client, server)' <=> Ahead(client, server)
       /\ Ahead(server, client)' <=> Ahead(server, client)
  BY <1>2, StaysInRun
<1>13. PlaceInv'
  BY <1>1, <1>2, <1>3, <1>10 DEF PlaceInv
<1>14. LoopInv'
  BY <1>2, <1>3, <1>10 DEF LoopInv
<1>15. ClearInv'
  BY <1>1, <1>2 DEF ClearInv
<1>16. ReadInv'
  BY <1>1, <1>2, <1>3 DEF ReadInv
<1>17. WriteInv'
  BY <1>2, <1>3, <1>10 DEF WriteInv
<1>18. ReadData'
  BY <1>1, <1>2, <1>3, <1>4 DEF ReadData, ContentArrives
<1>. QED
  BY <1>13, <1>14, <1>15, <1>16, <1>17, <1>18

\* The client copies for the last completion of the run and goes on: nothing is
\* under way then.
LEMMA PollLastClient ==
    ASSUME TypeOK, TypeOK', BenchInv, PollCompleted,
           ~(seen + 1 < Transfers[bench[client]])
    PROVE  BenchInv'
<1> USE DEF BenchInv, PlaceOf, Before, Steps
<1>1. pc[client] = "poll" /\ ~direct /\ count[client] > seen /\ ~Over(client)
  BY DEF PollCompleted, PlaceInv
<1>2. NextRun(client) /\ gpu' = mem[client] /\ seen' = 0
  BY DEF PollCompleted
<1>3. /\ Same => Ahead(client, server)'
      /\ Ahead(server, client) => Same'
      /\ Over(server)' <=> Over(server)
      /\ pc'[client] \in {"clear", "sync", "fill"} /\ pc'[server] = pc[server]
      /\ Over(client)' <=> pc'[client] = "sync"
      /\ pc'[client] \in {"fill", "sync"} => run'[client] = 0
      /\ posted'[client] = 0 /\ posted'[server] = posted[server]
      /\ bench'[server] = bench[server] /\ run'[server] = run[server]
  BY <1>1, <1>2, ClientMoves
<1>4. /\ operation' = operation /\ direct' = direct /\ count' = count /\ mem' = mem /\ wire' = wire
      /\ syncs' = syncs
  BY DEF PollCompleted, common
<1>5. /\ count[client] \in Nat /\ wire[client] \in Nat /\ posted[client] \in Nat
      /\ count[server] \in Nat /\ wire[server] \in Nat /\ posted[server] \in Nat
      /\ seen \in Nat
  BY Numbers DEF NumbersOf
<1>7. /\ ~Over(client) => Transfers[bench[client]] \in Nat \ {0}
      /\ ~Over(server) => Transfers[bench[server]] \in Nat \ {0}
  BY Numbers DEF NumbersOf
<1>9. /\ pc[client] \in Steps /\ syncs[client] \in Nat
      /\ pc[server] \in Steps /\ syncs[server] \in Nat
  BY Numbers DEF NumbersOf
<1>11. /\ ~(Same /\ Ahead(client, server)) /\ ~(Same /\ Ahead(server, client))
       /\ ~(Ahead(client, server) /\ Ahead(server, client))
       /\ Same => (Over(client) <=> Over(server))
       /\ Same => Transfers[bench[client]] = Transfers[bench[server]]
       /\ Ahead(client, server) => ~Over(server)
       /\ Ahead(server, client) => ~Over(client)
  BY Positions
<1>13. count[client] >= Transfers[bench[client]]
  BY <1>1, <1>5, <1>7
<1>14. ~operation => count[client] + wire[client] = Transfers[bench[client]] /\ wire[server] = 0
  BY <1>1 DEF ReadInv
<1>15. ~operation => wire[client] = 0 /\ wire[server] = 0
  BY <1>5, <1>13, <1>14
<1>16. /\ count[client] > 0
       /\ Same => posted[server] < count[client] \/ pc[server] # "invoke"
  BY <1>1, <1>5, <1>7, <1>11 DEF PlaceInv
<1>17. operation => ~Same
  BY <1>1, <1>5, <1>16 DEF WriteInv
<1>18. operation => wire[client] = 0 /\ count[client] + wire[server] = Transfers[bench[client]]
  BY <1>1, <1>17 DEF WriteInv
<1>19. operation => wire[client] = 0 /\ wire[server] = 0
  BY <1>5, <1>13, <1>18
<1>20. ~Ahead(client, server)
  BY <1>1, <1>11 DEF LoopInv
<1>21. Same => pc[server] = "meet" /\ syncs[server] = syncs[client]
  BY <1>1, <1>9, <1>11, <1>17 DEF LoopInv, PlaceInv, ReadInv
<1>22. operation => pc[server] \notin {"await", "invoke"}
  BY <1>17 DEF WriteInv
<1>23. operation /\ pc[server] \in {"sync", "meet"} /\ ~Over(server) => count[server] = 0
  BY <1>17 DEF WriteInv
<1>24. PlaceInv'
  BY <1>2, <1>3 DEF PlaceInv
<1>25. LoopInv'
  BY <1>3, <1>4, <1>17, <1>20, <1>21 DEF LoopInv
<1>26. ClearInv'
  BY <1>3, <1>4, <1>15, <1>19 DEF ClearInv
<1>27. ReadInv'
  BY <1>3, <1>4 DEF ReadInv
<1>28. WriteInv'
  BY <1>3, <1>4, <1>22, <1>23 DEF WriteInv
<1>29. ReadData'
  BY <1>1, <1>2, <1>3, <1>4, <1>16 DEF ReadData, ContentArrives
<1>. QED
  BY <1>24, <1>25, <1>26, <1>27, <1>28, <1>29

\* The GPU-direct client has all completions and goes on: nothing is under way.
LEMMA AwaitTransfersClient ==
    ASSUME TypeOK, TypeOK', BenchInv, AwaitTransfers
    PROVE  BenchInv'
<1> USE DEF BenchInv, PlaceOf, Before, Steps
<1>1. /\ pc[client] = "poll" /\ direct /\ ~Over(client)
      /\ count[client] = Transfers[bench[client]]
  BY DEF AwaitTransfers, PlaceInv
<1>2. NextRun(client)
  BY DEF AwaitTransfers
<1>3. /\ Same => Ahead(client, server)'
      /\ Ahead(server, client) => Same'
      /\ Over(server)' <=> Over(server)
      /\ pc'[client] \in {"clear", "sync", "fill"} /\ pc'[server] = pc[server]
      /\ Over(client)' <=> pc'[client] = "sync"
      /\ pc'[client] \in {"fill", "sync"} => run'[client] = 0
      /\ posted'[client] = 0 /\ posted'[server] = posted[server]
      /\ bench'[server] = bench[server] /\ run'[server] = run[server]
  BY <1>1, <1>2, ClientMoves
<1>4. /\ operation' = operation /\ direct' = direct /\ seen' = seen /\ count' = count /\ mem' = mem
      /\ gpu' = gpu /\ wire' = wire /\ syncs' = syncs
  BY DEF AwaitTransfers, common
<1>5. /\ count[client] \in Nat /\ wire[client] \in Nat /\ posted[client] \in Nat
      /\ count[server] \in Nat /\ wire[server] \in Nat /\ posted[server] \in Nat
      /\ seen \in Nat
  BY Numbers DEF NumbersOf
<1>7. /\ ~Over(client) => Transfers[bench[client]] \in Nat \ {0}
      /\ ~Over(server) => Transfers[bench[server]] \in Nat \ {0}
  BY Numbers DEF NumbersOf
<1>9. /\ pc[client] \in Steps /\ syncs[client] \in Nat
      /\ pc[server] \in Steps /\ syncs[server] \in Nat
  BY Numbers DEF NumbersOf
<1>11. /\ ~(Same /\ Ahead(client, server)) /\ ~(Same /\ Ahead(server, client))
       /\ ~(Ahead(client, server) /\ Ahead(server, client))
       /\ Same => (Over(client) <=> Over(server))
       /\ Same => Transfers[bench[client]] = Transfers[bench[server]]
       /\ Ahead(client, server) => ~Over(server)
       /\ Ahead(server, client) => ~Over(client)
  BY Positions
<1>13. count[client] >= Transfers[bench[client]]
  BY <1>1, <1>7
<1>14. ~operation => count[client] + wire[client] = Transfers[bench[client]] /\ wire[server] = 0
  BY <1>1 DEF ReadInv
<1>15. ~operation => wire[client] = 0 /\ wire[server] = 0
  BY <1>5, <1>13, <1>14
<1>16. /\ count[client] > 0
       /\ Same => posted[server] < count[client] \/ pc[server] # "invoke"
  BY <1>1, <1>11 DEF PlaceInv
<1>17. operation => ~Same
  BY <1>1, <1>5, <1>16 DEF WriteInv
<1>18. operation => wire[client] = 0 /\ count[client] + wire[server] = Transfers[bench[client]]
  BY <1>1, <1>17 DEF WriteInv
<1>19. operation => wire[client] = 0 /\ wire[server] = 0
  BY <1>5, <1>13, <1>18
<1>20. ~Ahead(client, server)
  BY <1>1, <1>11 DEF LoopInv
<1>21. Same => pc[server] = "meet" /\ syncs[server] = syncs[client]
  BY <1>1, <1>9, <1>11, <1>17 DEF LoopInv, PlaceInv, ReadInv
<1>22. operation => pc[server] \notin {"await", "invoke"}
  BY <1>17 DEF WriteInv
<1>23. operation /\ pc[server] \in {"sync", "meet"} /\ ~Over(server) => count[server] = 0
  BY <1>17 DEF WriteInv
<1>24. PlaceInv'
  BY <1>1, <1>3, <1>4 DEF PlaceInv
<1>25. LoopInv'
  BY <1>3, <1>4, <1>17, <1>20, <1>21 DEF LoopInv
<1>26. ClearInv'
  BY <1>3, <1>4, <1>15, <1>19 DEF ClearInv
<1>27. ReadInv'
  BY <1>3, <1>4 DEF ReadInv
<1>28. WriteInv'
  BY <1>3, <1>4, <1>22, <1>23 DEF WriteInv
<1>29. ReadData'
  BY <1>1, <1>3, <1>4, <1>16 DEF ReadData, ContentArrives
<1>. QED
  BY <1>24, <1>25, <1>26, <1>27, <1>28, <1>29

\* A READ of the client is executed.
LEMMA TransferReadClient ==
    ASSUME TypeOK, TypeOK', BenchInv, Transfer(client), ~operation
    PROVE  BenchInv'
<1> USE DEF BenchInv, PlaceOf, Before, Steps
<1>1. wire[client] > 0
  BY DEF Transfer
<1>2. /\ wire'[client] = wire[client] - 1 /\ wire'[server] = wire[server]
      /\ mem'[client] = mem[server] /\ mem'[server] = mem[server]
      /\ count'[client] = count[client] + 1 /\ count'[server] = count[server]
  BY Peers, ProcsAssumption DEF TypeOK, Transfer
<1>3. /\ operation' = operation /\ direct' = direct /\ pc' = pc /\ bench' = bench /\ run' = run
      /\ posted' = posted /\ seen' = seen /\ gpu' = gpu /\ syncs' = syncs
  BY DEF Transfer, common, position
<1>4. /\ count[client] \in Nat /\ wire[client] \in Nat /\ posted[client] \in Nat
      /\ count[server] \in Nat /\ wire[server] \in Nat /\ posted[server] \in Nat
      /\ seen \in Nat
  BY Numbers DEF NumbersOf
<1>5. /\ count'[client] \in Nat /\ wire'[client] \in Nat /\ posted'[client] \in Nat
      /\ count'[server] \in Nat /\ wire'[server] \in Nat /\ posted'[server] \in Nat
      /\ seen' \in Nat
  BY NumbersPrime DEF NumbersOf
<1>6. /\ ~Over(client) => Transfers[bench[client]] \in Nat \ {0}
      /\ ~Over(server) => Transfers[bench[server]] \in Nat \ {0}
  BY Numbers DEF NumbersOf
<1>7. /\ ~Over(client)' => Transfers[bench'[client]] \in Nat \ {0}
      /\ ~Over(server)' => Transfers[bench'[server]] \in Nat \ {0}
  BY NumbersPrime DEF NumbersOf
<1>8. /\ pc[client] \in Steps /\ syncs[client] \in Nat
      /\ pc[server] \in Steps /\ syncs[server] \in Nat
  BY Numbers DEF NumbersOf
<1>9. /\ pc'[client] \in Steps /\ syncs'[client] \in Nat
      /\ pc'[server] \in Steps /\ syncs'[server] \in Nat
  BY NumbersPrime DEF NumbersOf
<1>10. /\ (Same' <=> Same) /\ (Over(client)' <=> Over(client)) /\ (Over(server)' <=> Over(server))
       /\ Ahead(client, server)' <=> Ahead(client, server)
       /\ Ahead(server, client)' <=> Ahead(server, client)
  BY <1>3, StaysInRun
<1>11. /\ ~(Same /\ Ahead(client, server)) /\ ~(Same /\ Ahead(server, client))
       /\ ~(Ahead(client, server) /\ Ahead(server, client))
       /\ Same => (Over(client) <=> Over(server))
       /\ Same => Transfers[bench[client]] = Transfers[bench[server]]
       /\ Ahead(client, server) => ~Over(server)
       /\ Ahead(server, client) => ~Over(client)
  BY Positions
<1>12. /\ ~(Same' /\ Ahead(client, server)') /\ ~(Same' /\ Ahead(server, client)')
       /\ Same' => (Over(client)' <=> Over(server)')
       /\ Same' => Transfers[bench'[client]] = Transfers[bench'[server]]
       /\ Ahead(client, server)' => ~Over(server)'
       /\ Ahead(server, client)' => ~Over(client)'
  BY PositionsPrime
<1>13. pc[client] \in {"invoke", "poll"}
  BY <1>1 DEF ClearInv
<1>14. count'[client] + wire'[client] = count[client] + wire[client]
  BY <1>2, <1>4
<1>15. ~Ahead(client, server) /\ (Same => ~Before(server))
  BY <1>11, <1>13 DEF LoopInv
<1>16. Same => pc[server] # "fill"
  BY <1>15
<1>17. Ahead(server, client) /\ pc[server] = "fill" => bench[server] > 1
  BY Positions, Numbers DEF PlaceInv, NumbersOf
<1>18. pc[server] # "fill" \/ bench[server] > 1
  BY <1>16, <1>17 DEF LoopInv
<1>19. Len(Transfers) > 0
  BY <1>13, Numbers DEF PlaceInv, NumbersOf, Over
<1>20. mem[server] = "data"
  BY <1>18, <1>19 DEF ReadData
<1>21. ~RunEnded'
  BY <1>3, <1>13 DEF RunEnded
<1>22. PlaceInv'
  BY <1>3, <1>10 DEF PlaceInv
<1>23. LoopInv'
  BY <1>3, <1>10 DEF LoopInv
<1>24. ClearInv'
  BY <1>1, <1>2, <1>3, <1>4, <1>5, <1>6, <1>7, <1>8, <1>9, <1>10, <1>11, <1>12, <1>13,
     <1>14, <1>15, <1>16, <1>17, <1>18, <1>19, <1>20, <1>21
     DEF PlaceInv, LoopInv, ClearInv, ReadInv, WriteInv
<1>25. ReadInv'
  BY <1>2, <1>3, <1>14 DEF ReadInv
<1>26. WriteInv'
  BY <1>1, <1>2, <1>3 DEF WriteInv
<1>27. ReadData'
  BY <1>2, <1>3, <1>20, <1>21 DEF ReadData, ContentArrives
<1>. QED
  BY <1>22, <1>23, <1>24, <1>25, <1>26, <1>27

\* A WRITE of the client is executed.
LEMMA TransferWriteClient ==
    ASSUME TypeOK, TypeOK', BenchInv, Transfer(client), operation
    PROVE  BenchInv'
<1> USE DEF BenchInv, PlaceOf, Before, Steps
<1>1. wire[client] > 0
  BY DEF Transfer
<1>2. /\ wire'[client] = wire[client] - 1 /\ wire'[server] = wire[server]
      /\ count'[server] = count[server] + 1 /\ count'[client] = count[client]
  BY Peers, ProcsAssumption DEF TypeOK, Transfer
<1>3. /\ operation' = operation /\ direct' = direct /\ pc' = pc /\ bench' = bench /\ run' = run
      /\ posted' = posted /\ seen' = seen /\ gpu' = gpu /\ syncs' = syncs
  BY DEF Transfer, common, position
<1>4. /\ count[client] \in Nat /\ wire[client] \in Nat /\ posted[client] \in Nat
      /\ count[server] \in Nat /\ wire[server] \in Nat /\ posted[server] \in Nat
      /\ seen \in Nat
  BY Numbers DEF NumbersOf
<1>10. /\ (Same' <=> Same) /\ (Over(client)' <=> Over(client)) /\ (Over(server)' <=> Over(server))
       /\ Ahead(client, server)' <=> Ahead(client, server)
       /\ Ahead(server, client)' <=> Ahead(server, client)
  BY <1>3, StaysInRun
<1>13. pc[client] \in {"invoke", "poll"}
  BY <1>1 DEF ClearInv
<1>14. Same /\ pc[server] # "invoke"
  BY <1>1 DEF WriteInv, LoopInv
<1>15. count'[server] + wire'[client] = count[server] + wire[client]
  BY <1>2, <1>4
<1>16. PlaceInv'
  BY <1>3, <1>10 DEF PlaceInv
<1>17. LoopInv'
  BY <1>3, <1>10 DEF LoopInv
<1>18. ClearInv'
  BY <1>1, <1>2, <1>3 DEF LoopInv, ClearInv
<1>19. ReadInv'
  BY <1>1, <1>2, <1>3 DEF ReadInv
<1>20. WriteInv'
  BY <1>2, <1>3, <1>10, <1>13, <1>14, <1>15 DEF WriteInv
<1>21. ReadData'
  BY <1>1, <1>2, <1>3 DEF ReadInv, ReadData
<1>. QED
  BY <1>16, <1>17, <1>18, <1>19, <1>20, <1>21

\* A READ of the server is executed.
LEMMA TransferReadServer ==
    ASSUME TypeOK, TypeOK', BenchInv, Transfer(server), ~operation
    PROVE  BenchInv'
<1> USE DEF BenchInv, PlaceOf, Before, Steps
<1>1. wire[server] > 0
  BY DEF Transfer
<1>2. /\ wire'[server] = wire[server] - 1 /\ wire'[client] = wire[client]
      /\ mem'[server] = mem[client] /\ mem'[client] = mem[client]
      /\ count'[server] = count[server] + 1 /\ count'[client] = count[client]
  BY Peers, ProcsAssumption DEF TypeOK, Transfer
<1>3. /\ operation' = operation /\ direct' = direct /\ pc' = pc /\ bench' = bench /\ run' = run
      /\ posted' = posted /\ seen' = seen /\ gpu' = gpu /\ syncs' = syncs
  BY DEF Transfer, common, position
<1>10. /\ (Same' <=> Same) /\ (Over(client)' <=> Over(client)) /\ (Over(server)' <=> Over(server))
       /\ Ahead(client, server)' <=> Ahead(client, server)
       /\ Ahead(server, client)' <=> Ahead(server, client)
  BY <1>3, StaysInRun
<1>13. PlaceInv'
  BY <1>3, <1>10 DEF PlaceInv
<1>14. LoopInv'
  BY <1>1 DEF ReadInv
<1>15. ClearInv'
  BY <1>1 DEF ReadInv
<1>16. ReadInv'
  BY <1>1 DEF ReadInv
<1>17. WriteInv'
  BY <1>1, <1>2, <1>3 DEF WriteInv
<1>18. ReadData'
  BY <1>1 DEF ReadInv
<1>. QED
  BY <1>13, <1>14, <1>15, <1>16, <1>17, <1>18

\* A WRITE of the server is executed.
LEMMA TransferWriteServer ==
    ASSUME TypeOK, TypeOK', BenchInv, Transfer(server), operation
    PROVE  BenchInv'
<1> USE DEF BenchInv, PlaceOf, Before, Steps
<1>1. wire[server] > 0
  BY DEF Transfer
<1>2. /\ wire'[server] = wire[server] - 1 /\ wire'[client] = wire[client]
      /\ count'[client] = count[client] + 1 /\ count'[server] = count[server]
  BY Peers, ProcsAssumption DEF TypeOK, Transfer
<1>3. /\ operation' = operation /\ direct' = direct /\ pc' = pc /\ bench' = bench /\ run' = run
      /\ posted' = posted /\ seen' = seen /\ gpu' = gpu /\ syncs' = syncs
  BY DEF Transfer, common, position
<1>4. /\ count[client] \in Nat /\ wire[client] \in Nat /\ posted[client] \in Nat
      /\ count[server] \in Nat /\ wire[server] \in Nat /\ posted[server] \in Nat
      /\ seen \in Nat
  BY Numbers DEF NumbersOf
<1>10. /\ (Same' <=> Same) /\ (Over(client)' <=> Over(client)) /\ (Over(server)' <=> Over(server))
       /\ Ahead(client, server)' <=> Ahead(client, server)
       /\ Ahead(server, client)' <=> Ahead(server, client)
  BY <1>3, StaysInRun
<1>13. pc[client] \in {"invoke", "poll"}
  BY <1>1 DEF ClearInv
<1>14. pc[client] = "poll" /\ (Same => pc[server] = "invoke")
  BY <1>1, <1>13 DEF WriteInv
<1>15. count'[client] + wire'[server] = count[client] + wire[server]
  BY <1>2, <1>4
<1>16. PlaceInv'
  BY <1>3, <1>10 DEF PlaceInv
<1>17. LoopInv'
  BY <1>3, <1>10 DEF LoopInv
<1>18. ClearInv'
  BY <1>1, <1>2, <1>3 DEF LoopInv, ClearInv
<1>19. ReadInv'
  BY <1>1, <1>2, <1>3 DEF ReadInv
<1>20. WriteInv'
  BY <1>2, <1>3, <1>10, <1>14, <1>15 DEF WriteInv
<1>21. ReadData'
  BY <1>1, <1>2, <1>3 DEF ReadInv, ReadData
<1>. QED
  BY <1>16, <1>17, <1>18, <1>19, <1>20, <1>21

-----------------------------------------------------------------------------
\* The invariant holds at the start, where there may be no bench at all.
LEMMA Starts ==
    ASSUME Init
    PROVE  TypeOK /\ BenchInv
<1>1. TypeOK
  <2>1. 1 \in 1 .. Len(Transfers) + 1 /\ 0 \in 0 .. N_RUNS - 1
    BY Constants
  <2>. QED
    BY <2>1 DEF Init, TypeOK, Steps
<1>2. /\ bench[client] = 1 /\ bench[server] = 1 /\ run[client] = 0 /\ run[server] = 0
      /\ posted[client] = 0 /\ posted[server] = 0 /\ seen = 0
      /\ count[client] = 0 /\ count[server] = 0 /\ wire[client] = 0 /\ wire[server] = 0
      /\ syncs[client] = 0 /\ syncs[server] = 0
  BY Peers DEF Init
<1>3. /\ Over(client) => pc[client] = "sync" /\ pc[server] = "sync"
      /\ ~Over(client) => pc[client] = "fill" /\ pc[server] = "fill"
  <2>1. Over(client) <=> Len(Transfers) = 0
    BY <1>2 DEF Over
  <2>. QED
    BY <2>1, Peers DEF Init
<1>4. Over(server) <=> Over(client)
  BY <1>2 DEF Over
<1>5. PlaceInv
  BY <1>2, <1>3, <1>4 DEF PlaceInv, PlaceOf
<1>6. LoopInv
  BY <1>2, <1>3 DEF LoopInv, Same, Before
<1>7. ClearInv
  BY <1>2 DEF ClearInv
<1>8. ReadInv
  BY <1>2, <1>3 DEF ReadInv
<1>9. WriteInv
  BY <1>3, <1>4 DEF WriteInv
<1>10. ReadData
  <2>1. /\ pc[server] = "fill" \/ ~(Len(Transfers) > 0)
        /\ bench[server] = 1
        /\ pc[client] \in {"fill", "sync"} /\ bench[client] = 1 /\ seen = 0
    BY <1>2, <1>3 DEF Over
  <2>2. ~RunEnded
    BY <1>2 DEF RunEnded
  <2>. QED
    BY <2>1, <2>2 DEF ReadData, ContentArrives
<1>. QED
  BY <1>1, <1>5, <1>6, <1>7, <1>8, <1>9, <1>10 DEF BenchInv

\* A step that changes none but thrown keeps it.
LEMMA Stutters ==
    ASSUME BenchInv,
           UNCHANGED <<operation, direct, pc, bench, run, posted, seen, count, mem, gpu, wire, syncs>>
    PROVE  BenchInv'
<1>1. /\ operation' = operation /\ direct' = direct /\ pc' = pc /\ bench' = bench /\ run' = run
      /\ posted' = posted /\ seen' = seen /\ count' = count /\ mem' = mem /\ gpu' = gpu
      /\ wire' = wire /\ syncs' = syncs
  OBVIOUS
<1>2. PlaceInv'
  BY <1>1 DEF BenchInv, PlaceInv, PlaceOf, Over
<1>3. LoopInv'
  BY <1>1 DEF BenchInv, LoopInv, Same, Ahead, Before, Over
<1>4. ClearInv' /\ ReadInv'
  BY <1>1 DEF BenchInv, ClearInv, ReadInv, Over
<1>5. WriteInv'
  BY <1>1 DEF BenchInv, WriteInv, Same, Over
<1>6. ReadData'
  BY <1>1 DEF BenchInv, ReadData, ContentArrives, RunEnded, Over
<1>. QED
  BY <1>2, <1>3, <1>4, <1>5, <1>6 DEF BenchInv

\* Every step keeps it.
LEMMA Preserved ==
    ASSUME TypeOK, BenchInv, [Next]_vars
    PROVE  TypeOK' /\ BenchInv'
<1>1. TypeOK'
  BY NextType DEF BenchInv
<1>2. ASSUME NEW p \in Procs, Fill(p) PROVE BenchInv'
  BY <1>1, <1>2, Peers, FillClient, FillServer
<1>3. ASSUME NEW p \in Procs, ClearCompleted(p) PROVE BenchInv'
  BY <1>1, <1>3, Peers, ClearCompletedClient, ClearCompletedServer
<1>4. ASSUME NEW p \in Procs, ConnSync(p) PROVE BenchInv'
  BY <1>1, <1>4, Peers, ConnSyncClient, ConnSyncServer
<1>5. ASSUME NEW p \in Procs, SyncReturns(p) PROVE BenchInv'
  BY <1>1, <1>5, Peers, SyncReturnsOverClient, SyncReturnsClient, SyncReturnsOverServer,
     SyncReturnsWriteServer, SyncReturnsReadServer
<1>6. ASSUME AwaitWrites PROVE BenchInv'
  BY <1>1, <1>6, AwaitWritesServer
<1>7. ASSUME Invoke PROVE BenchInv'
  BY <1>1, <1>7, InvokeMoreClient, InvokeLastClient
<1>8. ASSUME InvokeBack PROVE BenchInv'
  BY <1>1, <1>8, InvokeBackMoreServer, InvokeBackLastServer
<1>9. ASSUME PollCompleted PROVE BenchInv'
  BY <1>1, <1>9, PollMoreClient, PollLastClient
<1>10. ASSUME AwaitTransfers PROVE BenchInv'
  BY <1>1, <1>10, AwaitTransfersClient
<1>11. ASSUME NEW p \in Procs, Transfer(p) PROVE BenchInv'
  BY <1>1, <1>11, Peers, TransferReadClient, TransferWriteClient, TransferReadServer,
     TransferWriteServer
<1>12. ASSUME UNCHANGED vars PROVE BenchInv'
  <2>1. UNCHANGED <<operation, direct, pc, bench, run, posted, seen, count, mem, gpu, wire, syncs>>
    BY <1>12 DEF vars, common, position
  <2>. QED
    BY <2>1, Stutters
<1>13. ASSUME CopyFails PROVE BenchInv'
  <2>1. UNCHANGED <<operation, direct, pc, bench, run, posted, seen, count, mem, gpu, wire, syncs>>
    BY <1>13 DEF CopyFails, position
  <2>. QED
    BY <2>1, Stutters
<1>. QED
  BY <1>1, <1>2, <1>3, <1>4, <1>5, <1>6, <1>7, <1>8, <1>9, <1>10, <1>11, <1>12, <1>13
     DEF Next, Program

\* Where a side may clear its counter nothing is under way to it.
LEMMA NothingClearedHolds ==
    ASSUME TypeOK, BenchInv
    PROVE  NothingCleared
<1>1. pc[client] \in {"clear", "sync"} => wire[client] = 0 /\ wire[server] = 0
  BY DEF BenchInv, ClearInv
<1>2. pc[server] \in {"clear", "sync"} /\ operation => wire[client] = 0
  BY DEF BenchInv, ClearInv, WriteInv
<1>3. pc[client] \in {"clear", "sync"} => Incoming(client) = 0
  BY <1>1, Peers DEF Incoming
<1>4. pc[server] \in {"clear", "sync"} /\ operation => Incoming(server) = 0
  BY <1>2, Peers DEF Incoming
<1>. QED
  BY <1>3, <1>4, Peers DEF NothingCleared

\* A polled counter and what is under way to it make no more than the run has.
LEMMA NeverTooManyHolds ==
    ASSUME TypeOK, BenchInv
    PROVE  NeverTooMany
<1>1. /\ count[client] \in Nat /\ wire[client] \in Nat /\ posted[client] \in Nat
      /\ count[server] \in Nat /\ wire[server] \in Nat /\ posted[server] \in Nat
      /\ ~Over(client) => Transfers[bench[client]] \in Nat
      /\ ~Over(server) => Transfers[bench[server]] \in Nat
  BY Numbers DEF NumbersOf
<1>2. ASSUME pc[client] = "poll", ~operation
      PROVE  count[client] + Incoming(client) <= Transfers[bench[client]]
  <2>1. ~Over(client) /\ count[client] + wire[client] = Transfers[bench[client]]
    BY <1>2 DEF BenchInv, PlaceInv, PlaceOf, ReadInv
  <2>. QED
    BY <1>1, <1>2, <2>1 DEF Incoming
<1>3. ASSUME pc[client] = "poll", operation
      PROVE  count[client] + Incoming(client) <= Transfers[bench[client]]
  <2>1. Incoming(client) = wire[server]
    BY <1>3, Peers DEF Incoming
  <2>2. ~Over(client)
    BY <1>3 DEF BenchInv, PlaceInv, PlaceOf
  <2>3. CASE ~Same
    <3>1. count[client] + wire[server] = Transfers[bench[client]]
      BY <1>3, <2>3 DEF BenchInv, WriteInv
    <3>. QED
      BY <1>1, <2>1, <3>1
  <2>4. CASE Same /\ pc[server] = "invoke"
    <3>1. count[client] + wire[server] = posted[server]
      BY <1>3, <2>4 DEF BenchInv, WriteInv
    <3>2. posted[server] < Transfers[bench[client]]
      BY <2>4, Positions DEF BenchInv, PlaceInv, PlaceOf
    <3>. QED
      BY <1>1, <2>1, <2>2, <3>1, <3>2
  <2>5. CASE Same /\ pc[server] # "invoke"
    <3>1. count[client] = 0 /\ wire[server] = 0
      BY <1>3, <2>5 DEF BenchInv, WriteInv
    <3>. QED
      BY <1>1, <2>1, <2>2, <3>1
  <2>. QED
    BY <2>3, <2>4, <2>5
<1>4. ASSUME pc[server] = "await"
      PROVE  count[server] + Incoming(server) <= Transfers[bench[server]]
  <2>1. operation
    BY <1>4 DEF BenchInv, ReadInv
  <2>2. Same /\ pc[client] \in {"meet", "invoke", "poll"} /\ ~Over(client) /\ ~Over(server)
    BY <1>4, <2>1 DEF BenchInv, PlaceInv, PlaceOf, WriteInv, Same, Over
  <2>3. Transfers[bench[server]] = Transfers[bench[client]]
    BY <2>2, Positions
  <2>4. Incoming(server) = wire[client]
    BY <2>1, Peers DEF Incoming
  <2>5. CASE pc[client] = "meet"
    <3>1. count[server] = 0 /\ wire[client] = 0
      BY <1>4, <2>1, <2>5 DEF BenchInv, WriteInv, ClearInv
    <3>. QED
      BY <1>1, <2>2, <2>4, <3>1
  <2>6. CASE pc[client] = "invoke"
    <3>1. /\ count[server] + wire[client] = posted[client]
          /\ posted[client] < Transfers[bench[client]]
      BY <2>1, <2>6 DEF BenchInv, WriteInv, PlaceInv, PlaceOf
    <3>. QED
      BY <1>1, <2>2, <2>3, <2>4, <3>1
  <2>7. CASE pc[client] = "poll"
    <3>1. count[server] + wire[client] = Transfers[bench[client]]
      BY <2>1, <2>2, <2>7 DEF BenchInv, WriteInv
    <3>. QED
      BY <1>1, <2>3, <2>4, <3>1
  <2>. QED
    BY <2>2, <2>5, <2>6, <2>7
<1>5. pc[client] # "await" /\ pc[server] # "poll"
  BY DEF BenchInv, PlaceInv
<1>. QED
  BY <1>2, <1>3, <1>4, <1>5, Peers DEF NeverTooMany

\* The two sides are as far apart as their calls of connSync.
LEMMA InStepHolds ==
    ASSUME TypeOK, BenchInv
    PROVE  InStep
<1>1. syncs[client] \in Nat /\ syncs[server] \in Nat
  BY Numbers DEF NumbersOf
<1>2. \/ syncs[server] = syncs[client] \/ syncs[server] = syncs[client] + 1
      \/ syncs[client] = syncs[server] + 1
  BY DEF BenchInv, LoopInv
<1>3. syncs[server] \in {syncs[client] - 1, syncs[client], syncs[client] + 1}
  BY <1>1, <1>2
<1>4. pc[client] \in {"invoke", "poll"} /\ syncs[server] > syncs[client] => pc[server] = "meet"
  BY <1>1 DEF BenchInv, LoopInv
<1>5. pc[server] \in {"await", "invoke"} =>
          /\ pc[client] \in {"meet", "invoke", "poll"}
          /\ bench[client] = bench[server] /\ run[client] = run[server]
  BY DEF BenchInv, ReadInv, WriteInv, Same
<1>. QED
  BY <1>3, <1>4, <1>5 DEF InStep

\* The inductive invariant of the two sides holds in every state.
THEOREM Invariance == Spec => [](TypeOK /\ BenchInv)
<1>1. Init => TypeOK /\ BenchInv
  BY Starts
<1>2. TypeOK /\ BenchInv /\ [Next]_vars => TypeOK' /\ BenchInv'
  BY Preserved
<1>. QED
  BY <1>1, <1>2, PTL DEF Spec

\* Every variable of the benchmark has its type, in every state.
THEOREM TypeCorrect == Spec => []TypeOK
  BY Invariance, PTL

\* No side clears a completion of a run that is not over, however many runs and
\* transfers there are (clearCompleted at the head of each run).
THEOREM ClearsNothing == Spec => []NothingCleared
<1>1. TypeOK /\ BenchInv => NothingCleared
  BY NothingClearedHolds
<1>. QED
  BY <1>1, Invariance, PTL

\* The counters that the loops compare by != never pass the number they wait for.
THEOREM CountsMeet == Spec => []NeverTooMany
<1>1. TypeOK /\ BenchInv => NeverTooMany
  BY NeverTooManyHolds
<1>. QED
  BY <1>1, Invariance, PTL

\* The server is a call of connSync ahead at most, and is then in it.
THEOREM SidesInStep == Spec => []InStep
<1>1. TypeOK /\ BenchInv => InStep
  BY InStepHolds
<1>. QED
  BY <1>1, Invariance, PTL

\* After each run of READs the client's buffer, and its copy on the GPU, hold what
\* the server has set.
THEOREM ReadsArrive == Spec => []ReadContentArrives
<1>1. BenchInv => ReadContentArrives
  BY DEF BenchInv, ReadData, ReadContentArrives
<1>. QED
  BY <1>1, Invariance, PTL
=============================================================================
