------------------------ MODULE CoyoteClientsProofs -------------------------
(***************************************************************************)
(* Proofs about the two other programs that poll the completion counters   *)
(* of Coyote's threads, besides the benchmark: the Python client, whose    *)
(* calls are complete when they return, for every script, every number of  *)
(* transfers and either server; and, in the last part, the client of the   *)
(* bandwidth distribution, whose sweep hangs, for every number of queue    *)
(* pairs, READs and runs.                                                  *)
(***************************************************************************)
EXTENDS RdmaModule, QpScaling, TLAPS

\* Everything is of its type.
TypeInv ==
    /\ pc \in Steps /\ kind \in AllKinds /\ is_write \in BOOLEAN
    /\ n \in Nat /\ calls \in Nat /\ posted \in Nat /\ completed \in Nat /\ count \in Nat
    /\ stream \in Seq({"truncated"})
    /\ server \in [writes : BOOLEAN, transfers : Seq(Nat \ {0})]
    /\ srv \in {"clear", "meet", "await", "over"}
    /\ served \in Nat /\ received \in Nat /\ back \in Nat
    /\ wire \in Seq([call : Nat, write : BOOLEAN])
    /\ raised \in BOOLEAN /\ agreed \in BOOLEAN

\* Where the two programs are.
PlaceInv ==
    /\ pc \in {"clear", "sync", "invoke", "wait"} => kind \in RdmaKinds
    /\ pc \in {"clear", "sync", "invoke"} => completed = 0 /\ posted < n
    /\ pc \in {"clear", "sync"} => posted = 0
    /\ pc = "wait" => posted = n /\ completed < n
    /\ pc = "local" => kind \in {"local", "read_gpu"}
    /\ pc = "drain" => kind = "async"
    /\ outcome = "returned" => pc \in {"idle", "leave", "done"}
    /\ srv # "over" => served <= Runs
    /\ srv = "await" => server.writes /\ served > 0

\* The buffers of the two: what has been stored is remote, until the script reads
\* the GPU's, and an asynchronous call has copied something.
GpuInv ==
    /\ pc \in {"sync", "invoke", "wait"} /\ count > 0 => cpu = "remote"
    /\ pc = "drain" /\ stream = <<>> => gpu = "truncated"
    /\ GpuSettled

\* The calls so far were what the server was started for, and none has raised.
Regular == agreed /\ ~raised

\* The call of the client is the run of the server.
SameRun ==
    Regular /\ pc \in {"clear", "sync", "invoke", "wait"} =>
        /\ is_write = server.writes
        /\ pc \in {"clear", "sync"} =>
              served < Runs /\ (is_write => n = server.transfers[served + 1])
        /\ pc \in {"invoke", "wait"} /\ is_write =>
              served \in 1 .. Runs /\ n = server.transfers[served]

\* Where the transfers of a call are.
FlowInv ==
    Regular =>
        /\ \A i \in 1 .. Len(wire) : wire[i].write = server.writes
        /\ pc \notin {"invoke", "wait"} =>
              /\ wire = <<>> /\ back = 0
              /\ srv = "await" => pc = "done" /\ received = 0
        /\ pc = "sync" => count = 0
        /\ srv = "meet" /\ served < Runs => received = 0
        /\ pc \in {"invoke", "wait"} /\ ~server.writes =>
              back = 0 /\ count + Len(wire) = posted
        /\ pc \in {"invoke", "wait"} /\ server.writes =>
              IF srv = "await"
              THEN back = 0 /\ count = 0 /\ received + Len(wire) = posted
              ELSE pc = "wait" /\ wire = <<>> /\ count + back = n

\* The inductive invariant, with TypeInv.
CallInv == PlaceInv /\ GpuInv /\ SameRun /\ FlowInv

-----------------------------------------------------------------------------
\* A queue of copies or of transfers, and its tail.
LEMMA Tails ==
    ASSUME NEW S, NEW q \in Seq(S), q # <<>>
    PROVE  /\ Tail(q) \in Seq(S) /\ Head(q) \in S /\ Head(q) = q[1]
           /\ Len(q) \in Nat \ {0} /\ Len(Tail(q)) = Len(q) - 1
           /\ \A i \in 1 .. Len(Tail(q)) : Tail(q)[i] = q[i + 1]
  OBVIOUS

\* A queue with another transfer.
LEMMA Longer ==
    ASSUME NEW S, NEW q \in Seq(S), NEW e \in S
    PROVE  /\ Append(q, e) \in Seq(S) /\ Len(q) \in Nat
           /\ Len(Append(q, e)) = Len(q) + 1 /\ Append(q, e)[Len(q) + 1] = e
           /\ \A i \in 1 .. Len(q) : Append(q, e)[i] = q[i]
  OBVIOUS

\* The numbers of the server.
LEMMA ServerType ==
    ASSUME TypeInv
    PROVE  /\ server.writes \in BOOLEAN /\ Runs \in Nat
           /\ \A r \in 1 .. Runs : server.transfers[r] \in Nat \ {0}
  BY DEF TypeInv, Runs

\* The first state.
LEMMA CallInit == Init => TypeInv /\ CallInv
<1> SUFFICES ASSUME Init PROVE TypeInv /\ CallInv
  OBVIOUS
<1>1. TypeInv
  <2>1. <<>> \in Seq({"truncated"}) /\ <<>> \in Seq([call : Nat, write : BOOLEAN])
    OBVIOUS
  <2>2. kind \in AllKinds /\ server \in [writes : BOOLEAN, transfers : Seq(Nat \ {0})]
    BY KindsAssumption, ServersAssumption DEF Init
  <2>. QED
    BY <2>1, <2>2 DEF Init, TypeInv, Steps
<1>2. PlaceInv /\ GpuInv /\ SameRun
  BY <1>1, ServerType DEF Init, PlaceInv, GpuInv, GpuSettled, SameRun
<1>3. FlowInv
  BY DEF Init, FlowInv
<1>. QED
  BY <1>1, <1>2, <1>3 DEF CallInv

\* Each step keeps the types.
LEMMA TypesNext == TypeInv /\ PlaceInv /\ [Next]_vars => TypeInv'
<1> SUFFICES ASSUME TypeInv, PlaceInv, [Next]_vars PROVE TypeInv'
  OBVIOUS
<1> USE DEF call, gpuSide, srvSide
<1>1. CASE \E what \in Kinds, write \in BOOLEAN, transfers \in 1 .. MaxTransfers :
           Call(what, write, transfers)
  BY <1>1, KindsAssumption DEF Call, TypeInv, Steps
<1>2. CASE Refuse
  BY <1>2 DEF Refuse, TypeInv
<1>3. CASE ClearCompleted
  BY <1>3 DEF ClearCompleted, TypeInv, Steps
<1>4. CASE ConnSync
  BY <1>4 DEF ConnSync, ServerMeets, TypeInv, Steps
<1>5. CASE Invoke
  BY <1>5 DEF Invoke, TypeInv, Steps
<1>6. CASE WaitAll
  BY <1>6 DEF WaitAll, End, TypeInv, Steps
<1>7. CASE AnswerCompletion
  <2>1. stream' \in Seq({"truncated"})
    <3>1. Append(stream, "truncated") \in Seq({"truncated"}) /\ <<>> \in Seq({"truncated"})
      BY DEF TypeInv
    <3>2. stream' = Append(stream, "truncated") \/ stream' = <<>>
      BY <1>7 DEF AnswerCompletion, Copy
    <3>. QED
      BY <3>1, <3>2
  <2>. QED
    BY <1>7, <2>1 DEF AnswerCompletion, Answer, End, TypeInv, Steps
<1>8. CASE Drain
  BY <1>8 DEF Drain, End, TypeInv, Steps
<1>9. CASE LocalProcess
  BY <1>9 DEF LocalProcess, Copy, End, TypeInv, Steps
<1>10. CASE ReadGpuMemory
  BY <1>10 DEF ReadGpuMemory, End, TypeInv, Steps
<1>11. CASE Leave
  BY <1>11 DEF Leave, ServerMeets, TypeInv, Steps
<1>12. CASE Raise
  BY <1>12 DEF Raise, End, TypeInv, Steps
<1>13. CASE Destroy
  BY <1>13 DEF Destroy, TypeInv, Steps
<1>14. CASE ServerClears
  BY <1>14 DEF ServerClears, TypeInv
<1>15. CASE ServerAnswers
  <2>1. server.transfers[served] \in Nat
    BY <1>15, ServerType DEF ServerAnswers, TypeInv, PlaceInv
  <2>2. back' \in Nat /\ srv' \in {"meet", "clear"}
    BY <1>15, <2>1 DEF ServerAnswers, TypeInv
  <2>3. UNCHANGED <<pc, kind, is_write, n, calls, posted, completed, count, stream, server,
                    served, received, wire, raised, agreed>>
    BY <1>15 DEF ServerAnswers, call, gpuSide
  <2>. QED
    BY <2>2, <2>3 DEF TypeInv
<1>16. CASE TransferArrives
  <2>1. wire' \in Seq([call : Nat, write : BOOLEAN])
    BY <1>16 DEF TransferArrives, TypeInv
  <2>2. received' \in Nat /\ count' \in Nat
    BY <1>16 DEF TransferArrives, TypeInv
  <2>3. UNCHANGED <<pc, kind, is_write, n, calls, posted, completed, stream, server, srv,
                    served, back, raised, agreed>>
    BY <1>16 DEF TransferArrives, call
  <2>. QED
    BY <2>1, <2>2, <2>3 DEF TypeInv
<1>17. CASE BackArrives
  BY <1>17 DEF BackArrives, TypeInv
<1>18. CASE CopyDone
  BY <1>18 DEF CopyDone, TypeInv
<1>19. CASE UNCHANGED vars
  BY <1>19 DEF vars, TypeInv
<1>20. QED
  BY <1>1, <1>2, <1>3, <1>4, <1>5, <1>6, <1>7, <1>8, <1>9, <1>10, <1>11, <1>12, <1>13,
     <1>14, <1>15, <1>16, <1>17, <1>18, <1>19
     DEF Next, Client, Server

\* Each step keeps the places of the two programs.
LEMMA PlaceNext == TypeInv /\ PlaceInv /\ [Next]_vars => PlaceInv'
<1> SUFFICES ASSUME TypeInv, PlaceInv, [Next]_vars PROVE PlaceInv'
  OBVIOUS
<1> USE DEF call, gpuSide, srvSide
<1>1. CASE \E what \in Kinds, write \in BOOLEAN, transfers \in 1 .. MaxTransfers :
           Call(what, write, transfers)
  BY <1>1, KindsAssumption DEF Call, PlaceInv, AllKinds, Runs
<1>2. CASE Refuse
  BY <1>2 DEF Refuse, PlaceInv, Runs
<1>3. CASE ClearCompleted
  BY <1>3 DEF ClearCompleted, PlaceInv, Runs
<1>4. CASE ConnSync
  BY <1>4 DEF ConnSync, ServerMeets, TypeInv, PlaceInv, Runs
<1>5. CASE Invoke
  BY <1>5 DEF Invoke, TypeInv, PlaceInv, Runs
<1>6. CASE WaitAll
  BY <1>6 DEF WaitAll, End, PlaceInv, Runs
<1>7. CASE AnswerCompletion
  BY <1>7 DEF AnswerCompletion, Answer, End, TypeInv, PlaceInv, Runs
<1>8. CASE Drain
  BY <1>8 DEF Drain, End, PlaceInv, Runs
<1>9. CASE LocalProcess
  BY <1>9 DEF LocalProcess, End, PlaceInv, Runs
<1>10. CASE ReadGpuMemory
  BY <1>10 DEF ReadGpuMemory, End, PlaceInv, Runs
<1>11. CASE Leave
  BY <1>11 DEF Leave, ServerMeets, TypeInv, PlaceInv, Runs
<1>12. CASE Raise
  BY <1>12 DEF Raise, End, PlaceInv, Runs
<1>13. CASE Destroy
  BY <1>13 DEF Destroy, PlaceInv, Runs
<1>14. CASE ServerClears
  BY <1>14 DEF ServerClears, PlaceInv, Runs
<1>15. CASE ServerAnswers
  BY <1>15 DEF ServerAnswers, PlaceInv, Runs
<1>16. CASE TransferArrives
  BY <1>16 DEF TransferArrives, PlaceInv, Runs
<1>17. CASE BackArrives
  BY <1>17 DEF BackArrives, PlaceInv, Runs
<1>18. CASE CopyDone
  BY <1>18 DEF CopyDone, PlaceInv, Runs
<1>19. CASE UNCHANGED vars
  BY <1>19 DEF vars, PlaceInv, Runs
<1>20. QED
  BY <1>1, <1>2, <1>3, <1>4, <1>5, <1>6, <1>7, <1>8, <1>9, <1>10, <1>11, <1>12, <1>13,
     <1>14, <1>15, <1>16, <1>17, <1>18, <1>19
     DEF Next, Client, Server

\* A copy that a call returns from was of this call, and the last one.
LEMMA GpuNext == TypeInv /\ PlaceInv /\ GpuInv /\ [Next]_vars => GpuInv'
<1> SUFFICES ASSUME TypeInv, PlaceInv, GpuInv, [Next]_vars PROVE GpuInv'
  OBVIOUS
<1> USE DEF call, gpuSide, srvSide
<1>1. CASE \E what \in Kinds, write \in BOOLEAN, transfers \in 1 .. MaxTransfers :
           Call(what, write, transfers)
  BY <1>1 DEF Call, GpuInv, GpuSettled
<1>2. CASE Refuse
  BY <1>2 DEF Refuse, GpuInv, GpuSettled
<1>3. CASE ClearCompleted
  BY <1>3 DEF ClearCompleted, PlaceInv, GpuInv, GpuSettled
<1>4. CASE ConnSync
  BY <1>4 DEF ConnSync, GpuInv, GpuSettled
<1>5. CASE Invoke
  BY <1>5 DEF Invoke, PlaceInv, GpuInv, GpuSettled
<1>6. CASE WaitAll
  BY <1>6 DEF WaitAll, End, GpuInv, GpuSettled
<1>7. CASE AnswerCompletion
  BY <1>7
     DEF AnswerCompletion, Answer, Copy, End, TypeInv, PlaceInv, GpuInv, GpuSettled,
         ResultOf, RdmaKinds
<1>8. CASE Drain
  BY <1>8 DEF Drain, End, PlaceInv, GpuInv, GpuSettled, ResultOf
<1>9. CASE LocalProcess
  BY <1>9 DEF LocalProcess, Copy, End, GpuInv, GpuSettled, ResultOf
<1>10. CASE ReadGpuMemory
  BY <1>10 DEF ReadGpuMemory, End, GpuInv, GpuSettled
<1>11. CASE Leave
  BY <1>11 DEF Leave, GpuInv, GpuSettled
<1>12. CASE Raise
  BY <1>12 DEF Raise, End, GpuInv, GpuSettled
<1>13. CASE Destroy
  BY <1>13 DEF Destroy, TypeInv, GpuInv, GpuSettled
<1>14. CASE ServerClears
  BY <1>14 DEF ServerClears, TypeInv, GpuInv, GpuSettled
<1>15. CASE ServerAnswers
  BY <1>15 DEF ServerAnswers, TypeInv, GpuInv, GpuSettled
<1>16. CASE TransferArrives
  BY <1>16, KindsAssumption
     DEF TransferArrives, TypeInv, PlaceInv, GpuInv, GpuSettled, ResultOf, RdmaKinds,
         AllKinds
<1>17. CASE BackArrives
  BY <1>17 DEF BackArrives, TypeInv, GpuInv, GpuSettled
<1>18. CASE CopyDone
  BY <1>18 DEF CopyDone, TypeInv, GpuInv, GpuSettled
<1>19. CASE UNCHANGED vars
  BY <1>19 DEF vars, TypeInv, GpuInv, GpuSettled
<1>20. QED
  BY <1>1, <1>2, <1>3, <1>4, <1>5, <1>6, <1>7, <1>8, <1>9, <1>10, <1>11, <1>12, <1>13,
     <1>14, <1>15, <1>16, <1>17, <1>18, <1>19
     DEF Next, Client, Server

\* The calls and the runs stay together as long as they are regular.
LEMMA RunNext == TypeInv /\ PlaceInv /\ SameRun /\ FlowInv /\ [Next]_vars => SameRun'
<1> SUFFICES ASSUME TypeInv, PlaceInv, SameRun, FlowInv, [Next]_vars PROVE SameRun'
  OBVIOUS
<1> USE DEF call, gpuSide, srvSide
<1>1. CASE \E what \in Kinds, write \in BOOLEAN, transfers \in 1 .. MaxTransfers :
           Call(what, write, transfers)
  BY <1>1 DEF Call, TypeInv, SameRun, Regular, Runs
<1>2. CASE Refuse
  BY <1>2 DEF Refuse, SameRun
<1>3. CASE ClearCompleted
  BY <1>3 DEF ClearCompleted, SameRun, Regular, Runs
<1>4. CASE ConnSync
  BY <1>4 DEF ConnSync, ServerMeets, TypeInv, SameRun, Regular, Runs
<1>5. CASE Invoke
  BY <1>5 DEF Invoke, SameRun, Regular, Runs
<1>6. CASE WaitAll
  BY <1>6 DEF WaitAll, End, SameRun
<1>7. CASE AnswerCompletion
  BY <1>7 DEF AnswerCompletion, Answer, End, SameRun, Regular, Runs
<1>8. CASE Drain
  BY <1>8 DEF Drain, End, SameRun
<1>9. CASE LocalProcess
  BY <1>9 DEF LocalProcess, End, SameRun
<1>10. CASE ReadGpuMemory
  BY <1>10 DEF ReadGpuMemory, End, SameRun
<1>11. CASE Leave
  BY <1>11 DEF Leave, SameRun
<1>12. CASE Raise
  BY <1>12 DEF Raise, End, SameRun
<1>13. CASE Destroy
  BY <1>13 DEF Destroy, SameRun
<1>14. CASE ServerClears
  BY <1>14 DEF ServerClears, SameRun, Regular, Runs
<1>15. CASE ServerAnswers
  BY <1>15 DEF ServerAnswers, SameRun, Regular, Runs
<1>16. CASE TransferArrives
  BY <1>16 DEF TransferArrives, SameRun, Regular, Runs
<1>17. CASE BackArrives
  BY <1>17 DEF BackArrives, SameRun, Regular, Runs
<1>18. CASE CopyDone
  BY <1>18 DEF CopyDone, SameRun, Regular, Runs
<1>19. CASE UNCHANGED vars
  BY <1>19 DEF vars, SameRun, Regular, Runs
<1>20. QED
  BY <1>1, <1>2, <1>3, <1>4, <1>5, <1>6, <1>7, <1>8, <1>9, <1>10, <1>11, <1>12, <1>13,
     <1>14, <1>15, <1>16, <1>17, <1>18, <1>19
     DEF Next, Client, Server

\* Transfers are where they belong: those of a call are answered before it returns.
LEMMA FlowNext == TypeInv /\ PlaceInv /\ SameRun /\ FlowInv /\ [Next]_vars => FlowInv'
<1> SUFFICES ASSUME TypeInv, PlaceInv, SameRun, FlowInv, [Next]_vars PROVE FlowInv'
  OBVIOUS
<1> USE DEF call, gpuSide, srvSide
<1>1. CASE \E what \in Kinds, write \in BOOLEAN, transfers \in 1 .. MaxTransfers :
           Call(what, write, transfers)
  BY <1>1 DEF Call, TypeInv, FlowInv, Regular, Runs
<1>2. CASE Refuse
  BY <1>2 DEF Refuse, FlowInv, Regular, Runs
<1>3. CASE ClearCompleted
  BY <1>3 DEF ClearCompleted, FlowInv, Regular, Runs
<1>4. CASE ConnSync
  BY <1>4 DEF ConnSync, ServerMeets, PlaceInv, SameRun, FlowInv, Regular, Runs
<1>5. CASE Invoke
  <2> DEFINE e == [call |-> calls, write |-> is_write]
  <2>1. e \in [call : Nat, write : BOOLEAN] /\ wire' = Append(wire, e) /\ e.write = is_write
    BY <1>5 DEF Invoke, TypeInv
  <2> HIDE DEF e
  <2>2. /\ Len(wire) \in Nat /\ Len(wire') = Len(wire) + 1 /\ wire'[Len(wire) + 1] = e
        /\ \A i \in 1 .. Len(wire) : wire'[i] = wire[i]
    BY <2>1
  <2>3. Regular => is_write = server.writes
    BY <1>5 DEF Invoke, SameRun
  <2>4. Regular => \A i \in 1 .. Len(wire') : wire'[i].write = server.writes
    BY <2>1, <2>3 DEF FlowInv
  <2>5. /\ pc' \in {"invoke", "wait"}
        /\ UNCHANGED <<back, count, received, srv, served, server, agreed, raised>>
    BY <1>5 DEF Invoke
  <2>6. Regular' => Regular
    BY <2>5 DEF Regular
  <2>7. posted' = posted + 1 /\ posted \in Nat /\ count \in Nat /\ received \in Nat /\ pc = "invoke"
    BY <1>5 DEF Invoke, TypeInv
  <2>8. Regular /\ ~server.writes => back' = 0 /\ count' + Len(wire') = posted'
    BY <2>2, <2>5, <2>7 DEF FlowInv
  <2>9. Regular /\ server.writes =>
            srv' = "await" /\ back' = 0 /\ count' = 0 /\ received' + Len(wire') = posted'
    BY <2>2, <2>5, <2>7 DEF FlowInv
  <2>10. Regular /\ srv' = "meet" /\ served' < Runs' => received' = 0
    BY <2>5 DEF FlowInv, Runs
  <2>. QED
    BY <2>4, <2>5, <2>6, <2>8, <2>9, <2>10 DEF FlowInv
<1>6. CASE WaitAll
  BY <1>6 DEF WaitAll, End, TypeInv, PlaceInv, FlowInv, Regular, Runs
<1>7. CASE AnswerCompletion
  BY <1>7 DEF AnswerCompletion, Answer, End, TypeInv, PlaceInv, FlowInv, Regular, Runs
<1>8. CASE Drain
  BY <1>8 DEF Drain, End, TypeInv, FlowInv, Regular, Runs
<1>9. CASE LocalProcess
  BY <1>9 DEF LocalProcess, End, TypeInv, FlowInv, Regular, Runs
<1>10. CASE ReadGpuMemory
  BY <1>10 DEF ReadGpuMemory, End, TypeInv, FlowInv, Regular, Runs
<1>11. CASE Leave
  BY <1>11 DEF Leave, ServerMeets, TypeInv, PlaceInv, FlowInv, Regular, Runs
<1>12. CASE Raise
  BY <1>12 DEF Raise, End, TypeInv, PlaceInv, SameRun, FlowInv, Regular, Runs
<1>13. CASE Destroy
  BY <1>13 DEF Destroy, FlowInv, Regular, Runs
<1>14. CASE ServerClears
  BY <1>14 DEF ServerClears, FlowInv, Regular
<1>15. CASE ServerAnswers
  <2>1. served \in 1 .. Runs /\ srv = "await" /\ server.writes
    BY <1>15 DEF ServerAnswers, TypeInv, PlaceInv
  <2>2. server.transfers[served] \in Nat \ {0} /\ received = server.transfers[served]
    BY <1>15, <2>1, ServerType DEF ServerAnswers
  <2>3. /\ UNCHANGED <<pc, n, count, wire, received, served, server, agreed, raised>>
        /\ back' = back + server.transfers[served]
        /\ srv' = IF served = Runs THEN "meet" ELSE "clear"
    BY <1>15 DEF ServerAnswers
  <2> SUFFICES ASSUME Regular PROVE FlowInv'
    BY <2>3 DEF FlowInv, Regular
  <2>4. pc \in {"invoke", "wait"}
    BY <2>1, <2>2 DEF FlowInv
  <2>5. n = server.transfers[served]
    BY <2>1, <2>4 DEF SameRun
  <2>6. back = 0 /\ count = 0 /\ received + Len(wire) = posted
    BY <2>1, <2>4 DEF FlowInv
  <2>7. posted \in Nat /\ n \in Nat /\ Len(wire) \in Nat /\ (Len(wire) = 0 => wire = <<>>)
    BY DEF TypeInv
  <2>8. pc = "wait" /\ wire = <<>>
    BY <2>2, <2>4, <2>5, <2>6 DEF PlaceInv
  <2>9. count' + back' = n'
    BY <2>3, <2>5, <2>6, <2>7
  <2>. QED
    BY <2>1, <2>3, <2>8, <2>9 DEF FlowInv, Runs
<1>16. CASE TransferArrives
  <2>1. /\ wire # <<>> /\ wire' = Tail(wire)
        /\ UNCHANGED <<pc, n, posted, back, srv, served, server, agreed, raised>>
    BY <1>16 DEF TransferArrives
  <2>2. /\ Head(wire) = wire[1] /\ Len(wire) \in Nat \ {0} /\ Len(wire') = Len(wire) - 1
        /\ \A i \in 1 .. Len(wire') : wire'[i] = wire[i + 1]
    BY <2>1
  <2> SUFFICES ASSUME Regular PROVE FlowInv'
    BY <2>1 DEF FlowInv, Regular
  <2>3. pc \in {"invoke", "wait"}
    BY <2>1 DEF FlowInv
  <2>4. \A i \in 1 .. Len(wire') : wire'[i].write = server.writes
    <3> SUFFICES ASSUME NEW i \in 1 .. Len(wire') PROVE wire'[i].write = server.writes
      OBVIOUS
    <3>. QED
      BY <2>2 DEF FlowInv
  <2>5. Head(wire).write = server.writes
    BY <2>2 DEF FlowInv
  <2>6. count \in Nat /\ received \in Nat /\ posted \in Nat
    BY DEF TypeInv
  <2>7. CASE server.writes
    <3>1. count' = count /\ received' = received + 1
      BY <1>16, <2>5, <2>7 DEF TransferArrives
    <3>2. srv = "await" /\ back = 0 /\ count = 0 /\ received + Len(wire) = posted
      BY <2>1, <2>7 DEF FlowInv
    <3>3. received' + Len(wire') = posted'
      BY <2>1, <2>6, <3>1, <3>2
    <3>. QED
      BY <2>1, <2>3, <2>4, <2>7, <3>1, <3>2, <3>3 DEF FlowInv
  <2>8. CASE ~server.writes
    <3>1. count' = count + 1 /\ received' = received
      BY <1>16, <2>5, <2>8 DEF TransferArrives
    <3>2. back = 0 /\ count + Len(wire) = posted
      BY <2>3, <2>8 DEF FlowInv
    <3>3. count' + Len(wire') = posted'
      BY <2>1, <2>6, <3>1, <3>2
    <3>4. srv' = "meet" /\ served' < Runs' => received' = 0
      BY <2>1, <3>1 DEF FlowInv, Runs
    <3>. QED
      BY <2>1, <2>8, <3>3, <3>4 DEF FlowInv
  <2>. QED
    BY <2>7, <2>8
<1>17. CASE BackArrives
  BY <1>17 DEF BackArrives, TypeInv, FlowInv, Regular, Runs
<1>18. CASE CopyDone
  BY <1>18 DEF CopyDone, FlowInv, Regular, Runs
<1>19. CASE UNCHANGED vars
  BY <1>19 DEF vars, FlowInv, Regular, Runs
<1>20. QED
  BY <1>1, <1>2, <1>3, <1>4, <1>5, <1>6, <1>7, <1>8, <1>9, <1>10, <1>11, <1>12, <1>13,
     <1>14, <1>15, <1>16, <1>17, <1>18, <1>19
     DEF Next, Client, Server

\* The inductive invariant of script, server and transfers holds in every state.
THEOREM CallInvariance == Spec => [](TypeInv /\ CallInv)
<1>1. TypeInv /\ CallInv /\ [Next]_vars => (TypeInv /\ CallInv)'
  BY TypesNext, PlaceNext, GpuNext, RunNext, FlowNext DEF CallInv
<1>. QED
  BY CallInit, <1>1, PTL DEF Spec

\* When a call returns the GPU has its result and no queued copy can change it,
\* whatever calls raised before, and whatever is still under way (the loops over
\* completions and hipStreamSynchronize).
THEOREM GpuHasResult == Spec => []GpuSettled
<1>1. CallInv => GpuSettled
  BY DEF CallInv, GpuInv
<1>. QED
  BY <1>1, CallInvariance, PTL

\* A call that returns has all its transfers, if the script makes the calls the
\* server was started for and none has raised: one clearCompleted and one connSync
\* at its head keep it apart from the others.
THEOREM CallsComplete == Spec => []CompleteUnlessRaised
<1>1. TypeInv /\ CallInv => CompleteUnlessRaised
  BY DEF CallInv, PlaceInv, FlowInv, Regular, CompleteUnlessRaised, Outstanding
<1>. QED
  BY <1>1, CallInvariance, PTL

-----------------------------------------------------------------------------
\* The client of the bandwidth distribution (QpScaling).

\* A queue pair has a completion and is not yet reported done.
Stuck == loop = "poll" /\ \E q \in QPs : counts[q] > 0 /\ ~transfer_done[q]

\* What the argument needs of the types of the variables.
SweepTypes ==
    /\ j \in QPs
    /\ counts \in [QPs -> Nat]
    /\ transfer_done \in [QPs -> BOOLEAN]

\* The loops stay among the queue pairs.
LEMMA NextInQPs == SomeOfEach /\ j \in QPs => (j + 1) % n_parallel_qps \in QPs
<1> SUFFICES ASSUME SomeOfEach, j \in QPs PROVE (j + 1) % n_parallel_qps \in QPs
  OBVIOUS
<1>1. n_parallel_qps \in Nat \ {0}
  BY DEF SomeOfEach
<1> QED
  BY <1>1 DEF QPs

\* The client begins with its first queue pair.
LEMMA SweepTypesInit == SomeOfEach /\ SweepInit => SweepTypes
<1> SUFFICES ASSUME SomeOfEach, SweepInit PROVE SweepTypes
  OBVIOUS
<1>1. 0 \in QPs
  BY DEF SomeOfEach, QPs
<1> QED
  BY <1>1 DEF SweepInit, SweepTypes

\* The loops keep their types.
LEMMA SweepTypesNext == SomeOfEach /\ SweepTypes /\ [SweepNext]_sweepVars => SweepTypes'
<1> SUFFICES ASSUME SomeOfEach, SweepTypes, [SweepNext]_sweepVars PROVE SweepTypes'
  OBVIOUS
<1>1. CASE Clear
  <2>1. j' \in QPs
    BY <1>1, NextInQPs DEF Clear, NextQp, SweepTypes
  <2> QED
    BY <1>1, <2>1 DEF Clear, SweepTypes
<1>2. CASE InvokeRead
  <2>1. j' \in QPs
    BY <1>2, NextInQPs DEF InvokeRead, NextQp, SweepTypes
  <2> QED
    BY <1>2, <2>1 DEF InvokeRead, SweepTypes
<1>3. CASE Poll
  <2>1. j' \in QPs
    BY <1>3, NextInQPs DEF Poll, SweepTypes
  <2> QED
    BY <1>3, <2>1 DEF Poll, SweepTypes
<1>4. CASE Free
  BY <1>4 DEF Free, SweepTypes
<1>5. CASE \E q \in QPs : Arrive(q)
  BY <1>5 DEF Arrive, SweepTypes
<1>6. CASE UNCHANGED sweepVars
  BY <1>6 DEF sweepVars, SweepTypes
<1> QED
  BY <1>1, <1>2, <1>3, <1>4, <1>5, <1>6 DEF SweepNext, ClientStep

\* A run with a queue pair that has a completion and is not reported done does
\* not end: only more completions come, and the sweep that would report it done
\* wants to see none (the sweep of client_scaling/main.cpp).
LEMMA StuckStays == SweepTypes /\ [SweepNext]_sweepVars => (Stuck => Stuck')
<1> SUFFICES ASSUME SweepTypes, [SweepNext]_sweepVars, Stuck PROVE Stuck'
  OBVIOUS
<1>1. PICK q \in QPs : counts[q] > 0 /\ ~transfer_done[q]
  BY DEF Stuck
<1>2. loop = "poll"
  BY DEF Stuck
<1>3. CASE Poll
  <2>1. ~ReportsDone(q)
    BY <1>1 DEF ReportsDone
  <2>2. ~transfer_done'[q]
    <3>1. CASE q = j
      BY <1>1, <1>3, <2>1 DEF Poll, SweepTypes
    <3>2. CASE q # j
      BY <1>1, <1>3, <3>2 DEF Poll
    <3> QED
      BY <3>1, <3>2
  <2>3. loop' = "poll"
    BY <1>3, <2>2 DEF Poll
  <2>4. counts' = counts
    BY <1>3 DEF Poll
  <2> QED
    BY <1>1, <2>2, <2>3, <2>4 DEF Stuck
<1>4. CASE \E r \in QPs : Arrive(r)
  <2>1. PICK r \in QPs : Arrive(r)
    BY <1>4
  <2>2. counts'[q] > 0
    BY <1>1, <2>1 DEF Arrive, SweepTypes
  <2>3. transfer_done' = transfer_done /\ loop' = loop
    BY <2>1 DEF Arrive
  <2> QED
    BY <1>1, <2>2, <2>3 DEF Stuck
<1>5. CASE UNCHANGED sweepVars
  BY <1>5 DEF sweepVars, Stuck
<1>6. ~Clear /\ ~InvokeRead /\ ~Free
  BY <1>2 DEF Clear, InvokeRead, Free
<1> QED
  BY <1>3, <1>4, <1>5, <1>6 DEF SweepNext, ClientStep

\* Once stuck, for ever stuck, whatever the network does, for any numbers of
\* queue pairs, READs and runs: a READ that completes before the client first
\* looks at its queue pair leaves the run without end, a consequence of the same
\* comparison that DoneWhenArrived is about (completed[j], never set).
THEOREM RunHangs ==
    ASSUME SomeOfEach
    PROVE  SweepSpec => [][Stuck => Stuck']_sweepVars
<1>1. SweepInit => SweepTypes
  BY SweepTypesInit
<1>2. SweepTypes /\ [SweepNext]_sweepVars => SweepTypes'
  BY SweepTypesNext
<1>3. SweepTypes /\ [SweepNext]_sweepVars
          => [Stuck => Stuck']_sweepVars
  BY StuckStays
<1> QED
  BY <1>1, <1>2, <1>3, PTL DEF SweepSpec
=============================================================================
