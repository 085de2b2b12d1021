--------------------------- MODULE RnicPollProofs ---------------------------
(***************************************************************************)
(* Proofs about the throughput tester for commercial NICs: for every       *)
(* number of transactions, runs and sizes, and for queues of any size, a   *)
(* run takes all of its own completions and none of another, and what it   *)
(* samples has succeeded.                                                  *)
(*                                                                         *)
(* None of the claims is inductive: that a run ends with empty queues      *)
(* follows from the count over its posts and polls, and that its last      *)
(* completion tells of all the others from the order of the queue.         *)
(***************************************************************************)
EXTENDS RnicPoll, TLAPS

\* Everything is of its type.
Places == SetUp \cup {"start", "post", "poll", "check", "stats", "done", "failed"}
Types ==
    /\ pc \in Places
    /\ n_transactions \in Nat /\ n_reps_lat \in Nat /\ num_sizes \in Nat
    /\ size \in Nat /\ run \in Nat \ {0} /\ measured \in Nat
    /\ posted \in Nat /\ num_comp \in Nat /\ status \in Status
    /\ sq \in Nat /\ cq \in Seq(Status)
    /\ qp \in {"reset", "init", "rtr", "rts", "error"}
    /\ overrun \in BOOLEAN /\ rejected \in BOOLEAN
    /\ heard \in Parts /\ sent \in Parts
    /\ peer \in {"away", "connected", "ready", "closed"}

\* What is under way and what has been polled make no more than was posted in
\* this run, and less once a completion is lost.
CountInv ==
    /\ pc \notin {"post", "poll", "failed"} => sq = 0 /\ cq = <<>> /\ ~overrun
    /\ pc = "post" => posted < n_transactions
    /\ pc = "post" /\ posted = 0 => sq = 0 /\ cq = <<>> /\ ~overrun
    /\ pc = "post" /\ posted > 0 => num_comp = 0
    /\ pc = "poll" => /\ posted = n_transactions
                      /\ num_comp < n_transactions \/ (n_transactions = 0 /\ num_comp = 0)
    /\ pc = "poll" \/ (pc = "post" /\ posted > 0) =>
          /\ sq + Len(cq) + num_comp <= posted
          /\ overrun => sq + Len(cq) + num_comp < posted
    /\ pc = "check" => num_comp = n_transactions

\* After an error every completion is one: the last in the queue, or the one that
\* was polled last.
ErrorInv ==
    /\ pc \in {"start", "stats", "done"} => qp = "rts"
    /\ pc = "post" /\ posted = 0 => qp = "rts"
    /\ pc \in {"poll", "check"} /\ n_transactions = 0 => qp = "rts"
    /\ pc \in {"post", "poll", "check"} /\ ~overrun /\ qp # "rts" =>
          IF cq = <<>> THEN status = "error" ELSE cq[Len(cq)] = "error"

\* The peer answers READs.
Served == heard >= Used /\ peer = "ready"

\* A success comes from a peer that answers.
SuccessInv ==
    /\ pc \in SetUp => measured = 0
    /\ \A i \in 1 .. Len(cq) : cq[i] = "success" => Served
    /\ pc \in {"poll", "check"} /\ num_comp > 0 /\ status = "success" => Served
    /\ measured > 0 /\ n_transactions > 0 => Served

\* The loop over the runs of a size.
SampleInv ==
    /\ pc \in SetUp => run = 1 /\ measured = 0
    /\ pc \in {"start", "post", "poll", "check"} => run <= n_reps_lat /\ measured = run - 1
    /\ pc = "stats" => measured = n_reps_lat

\* The inductive invariant, with Types.
PollInv == CountInv /\ ErrorInv /\ SuccessInv /\ SampleInv

-----------------------------------------------------------------------------
\* The completion queue after another completion.
LEMMA Appended ==
    ASSUME NEW q \in Seq(Status), NEW s \in Status
    PROVE  /\ Append(q, s) \in Seq(Status) /\ Append(q, s) # <<>>
           /\ Len(q) \in Nat /\ Len(Append(q, s)) = Len(q) + 1
           /\ Append(q, s)[Len(q) + 1] = s
           /\ \A i \in 1 .. Len(q) : Append(q, s)[i] = q[i]
  OBVIOUS

\* The completion queue after a poll.
LEMMA Polled ==
    ASSUME NEW q \in Seq(Status), q # <<>>
    PROVE  /\ Tail(q) \in Seq(Status) /\ Len(q) \in Nat \ {0}
           /\ Head(q) = q[1] /\ Head(q) \in Status
           /\ Len(Tail(q)) = Len(q) - 1
           /\ \A i \in 1 .. Len(Tail(q)) : Tail(q)[i] = q[i + 1]
           /\ Tail(q) = <<>> => Len(q) = 1
<1>1. /\ Tail(q) \in Seq(Status) /\ Len(q) \in Nat \ {0} /\ Len(Tail(q)) = Len(q) - 1
  OBVIOUS
<1>2. Head(q) = q[1] /\ Head(q) \in Status
  OBVIOUS
<1>3. \A i \in 1 .. Len(Tail(q)) : Tail(q)[i] = q[i + 1]
  OBVIOUS
<1>4. ASSUME Tail(q) = <<>> PROVE Len(q) = 1
  <2>1. Len(Tail(q)) = Len(<<>>)
    BY <1>4
  <2>2. Len(Tail(q)) = 0
    BY <2>1
  <2>. QED
    BY <1>1, <2>2
<1>. QED
  BY <1>1, <1>2, <1>3, <1>4

\* Every step keeps the types.
LEMMA TypesNext ==
    ASSUME Types, CountInv, [Next]_vars
    PROVE  Types'
<1> USE DEF Types, Places, SetUp, Parts, AtSize, args, loop, nic, setup
<1>1. CASE Create
  BY <1>1 DEF Create
<1>2. CASE Accept
  BY <1>2 DEF Accept
<1>3. CASE ReadQueue
  BY <1>3 DEF ReadQueue
<1>4. CASE WriteQueue
  BY <1>4 DEF WriteQueue
<1>5. CASE ModifyQp
  BY <1>5 DEF ModifyQp, AtSize
<1>6. CASE SetUpFails
  BY <1>6 DEF SetUpFails
<1>7. CASE StartRun
  BY <1>7 DEF StartRun
<1>8. CASE PostSend
  <2>1. /\ sq' \in Nat /\ rejected' \in BOOLEAN
        /\ posted' \in Nat /\ num_comp' = 0 /\ pc' \in {"poll", "post"}
    <3>1. sq' \in {sq, sq + 1} /\ rejected' \in {TRUE, rejected}
      BY <1>8 DEF PostSend
    <3>2. posted' = posted + 1 /\ num_comp' = 0 /\ pc' \in {"poll", "post"}
      BY <1>8 DEF PostSend
    <3>3. sq + 1 \in Nat /\ posted + 1 \in Nat
      OBVIOUS
    <3>. QED
      BY <3>1, <3>2, <3>3
  <2>2. /\ args' = args /\ size' = size /\ run' = run /\ status' = status
        /\ measured' = measured /\ cq' = cq /\ qp' = qp /\ overrun' = overrun
        /\ heard' = heard /\ peer' = peer /\ sent' = sent
    BY <1>8 DEF PostSend
  <2>. QED
    BY <2>1, <2>2
<1>9. CASE PollCq
  BY <1>9, Polled DEF PollCq
<1>10. CASE PollCqFails
  BY <1>10 DEF PollCqFails
<1>11. CASE CheckStatus
  BY <1>11 DEF CheckStatus
<1>12. CASE Statistics
  BY <1>12 DEF Statistics, AtSize
<1>13. CASE Complete
  <2>1. PICK s \in Status : /\ qp' = IF s = "success" THEN qp ELSE "error"
                            /\ IF Len(cq) < CqSize
                               THEN cq' = Append(cq, s) /\ UNCHANGED overrun
                               ELSE overrun' = TRUE /\ UNCHANGED cq
    BY <1>13 DEF Complete
  <2>2. cq' \in Seq(Status) /\ overrun' \in BOOLEAN
    BY <2>1, Appended
  <2>3. sq' \in Nat /\ qp' \in {"reset", "init", "rtr", "rts", "error"}
    BY <1>13, <2>1 DEF Complete
  <2>. QED
    BY <1>13, <2>2, <2>3 DEF Complete
<1>14. CASE Peer
  BY <1>14 DEF Peer
<1>15. CASE PollCqForNone
  BY <1>15 DEF PollCqForNone
<1>16. CASE ReadFails
  BY <1>16 DEF ReadFails
<1>17. CASE UNCHANGED vars
  BY <1>17 DEF vars
<1>. QED
  BY <1>1, <1>2, <1>3, <1>4, <1>5, <1>6, <1>7, <1>8, <1>9, <1>10, <1>11, <1>12, <1>13, <1>14,
     <1>15, <1>16, <1>17 DEF Next, Tester

\* Every step keeps the count: a poll takes from the queue what it counts, and a
\* poll that fails only takes from the count.
LEMMA CountNext ==
    ASSUME Types, CountInv, [Next]_vars
    PROVE  CountInv'
<1> USE DEF CountInv, args
<1>1. CASE Create
  BY <1>1 DEF Create, loop, setup
<1>2. CASE Accept
  BY <1>2 DEF Accept, loop, nic, setup
<1>3. CASE ReadQueue
  BY <1>3 DEF ReadQueue, loop, nic
<1>4. CASE WriteQueue
  BY <1>4 DEF WriteQueue, loop, nic, setup
<1>5. CASE ModifyQp
  BY <1>5 DEF ModifyQp, AtSize, loop, setup
<1>6. CASE SetUpFails
  BY <1>6 DEF SetUpFails
<1>7. CASE StartRun
  BY <1>7 DEF StartRun, nic, Types
<1>8. CASE PostSend
  <2>1. /\ sq \in Nat /\ posted \in Nat /\ n_transactions \in Nat /\ Len(cq) \in Nat
    BY DEF Types
  <2>2. /\ pc = "post" /\ num_comp' = 0 /\ posted' = posted + 1 /\ sq' \in {sq, sq + 1}
        /\ pc' = IF posted + 1 = n_transactions THEN "poll" ELSE "post"
        /\ cq' = cq /\ overrun' = overrun /\ n_transactions' = n_transactions
    BY <1>8 DEF PostSend
  <2>3. sq + Len(cq) <= posted /\ (overrun => sq + Len(cq) < posted)
    <3>1. CASE posted = 0
      BY <2>2, <3>1
    <3>2. CASE posted > 0
      BY <2>1, <2>2, <3>2
    <3>. QED
      BY <2>1, <3>1, <3>2
  <2>4. posted < n_transactions
    BY <2>2
  <2>. QED
    BY <2>1, <2>2, <2>3, <2>4
<1>9. CASE PollCq
  <2>1. /\ sq \in Nat /\ num_comp \in Nat /\ posted \in Nat /\ n_transactions \in Nat
        /\ cq # <<>> /\ cq' = Tail(cq) /\ Len(cq) \in Nat \ {0} /\ Len(cq') = Len(cq) - 1
        /\ cq' \in Seq(Status) /\ overrun \in BOOLEAN
    BY <1>9, Polled DEF PollCq, Types
  <2>2. /\ pc = "poll" /\ num_comp' = num_comp + 1 /\ posted' = posted /\ sq' = sq
        /\ pc' = IF num_comp + 1 >= n_transactions THEN "check" ELSE "poll"
        /\ overrun' = overrun /\ n_transactions' = n_transactions
    BY <1>9 DEF PollCq
  <2>3. /\ posted = n_transactions /\ num_comp < n_transactions
        /\ sq + Len(cq) + num_comp <= posted
        /\ overrun => sq + Len(cq) + num_comp < posted
    BY <2>1, <2>2
  <2>4. CASE num_comp + 1 >= n_transactions
    <3>1. num_comp + 1 = n_transactions /\ sq = 0 /\ Len(cq') = 0 /\ ~overrun
      BY <2>1, <2>3, <2>4
    <3>2. cq' = <<>>
      BY <2>1, <3>1
    <3>. QED
      BY <2>2, <2>4, <3>1, <3>2
  <2>5. CASE ~(num_comp + 1 >= n_transactions)
    BY <2>1, <2>2, <2>3, <2>5
  <2>. QED
    BY <2>4, <2>5
<1>10. CASE PollCqFails
  <2>1. /\ sq \in Nat /\ num_comp \in Nat /\ posted \in Nat /\ n_transactions \in Nat
        /\ Len(cq) \in Nat
    BY DEF Types
  <2>2. /\ pc = "poll" /\ posted' = posted /\ sq' = sq /\ cq' = cq /\ overrun' = overrun
        /\ n_transactions' = n_transactions
        /\ pc' = "failed" \/ (pc' = "poll" /\ num_comp' = num_comp - 1)
    BY <1>10 DEF PollCqFails, nic
  <2>. QED
    BY <2>1, <2>2
<1>11. CASE CheckStatus
  BY <1>11 DEF CheckStatus, nic
<1>12. CASE Statistics
  BY <1>12 DEF Statistics, AtSize, nic
<1>13. CASE Complete
  <2>1. /\ sq \in Nat \ {0} /\ num_comp \in Nat /\ posted \in Nat /\ cq \in Seq(Status)
        /\ sq' = sq - 1 /\ num_comp' = num_comp /\ posted' = posted
        /\ pc' = pc /\ n_transactions' = n_transactions /\ Len(cq) \in Nat
    BY <1>13 DEF Complete, Types, loop
  <2>2. PICK s \in Status : \/ cq' = Append(cq, s) /\ overrun' = overrun
                            \/ cq' = cq /\ overrun' = TRUE
    BY <1>13 DEF Complete
  <2>3. \/ Len(cq') = Len(cq) + 1 /\ overrun' = overrun
        \/ Len(cq') = Len(cq) /\ overrun' = TRUE
    BY <2>1, <2>2, Appended
  <2>4. pc \in {"post", "poll", "failed"}
    BY <2>1
  <2>5. ~(pc = "post" /\ posted = 0)
    BY <2>1
  <2>. QED
    BY <2>1, <2>3, <2>4, <2>5
<1>14. CASE Peer
  BY <1>14 DEF Peer, loop, nic
<1>15. CASE PollCqForNone
  BY <1>15 DEF PollCqForNone, loop, nic, Types
<1>16. CASE ReadFails
  BY <1>16 DEF ReadFails, loop, nic, setup
<1>17. CASE UNCHANGED vars
  BY <1>17 DEF vars, loop, nic
<1>. QED
  BY <1>1, <1>2, <1>3, <1>4, <1>5, <1>6, <1>7, <1>8, <1>9, <1>10, <1>11, <1>12, <1>13, <1>14,
     <1>15, <1>16, <1>17 DEF Next, Tester

\* Every step keeps the error in sight.
LEMMA ErrorNext ==
    ASSUME Types, CountInv, ErrorInv, [Next]_vars
    PROVE  ErrorInv'
<1> USE DEF ErrorInv, args
<1>1. CASE Create
  BY <1>1 DEF Create
<1>2. CASE Accept
  BY <1>2 DEF Accept
<1>3. CASE ReadQueue
  BY <1>3 DEF ReadQueue
<1>4. CASE WriteQueue
  BY <1>4 DEF WriteQueue
<1>5. CASE ModifyQp
  BY <1>5 DEF ModifyQp, AtSize
<1>6. CASE SetUpFails
  BY <1>6 DEF SetUpFails
<1>7. CASE StartRun
  BY <1>7 DEF StartRun, nic
<1>8. CASE PostSend
  <2>1. /\ pc = "post" /\ pc' \in {"post", "poll"} /\ posted' = posted + 1
        /\ posted \in Nat /\ n_transactions' = n_transactions /\ n_transactions \in Nat
        /\ cq' = cq /\ overrun' = overrun /\ qp' = qp /\ status' = status
    BY <1>8 DEF PostSend, Types
  <2>2. n_transactions > 0
    BY <2>1 DEF CountInv
  <2>. QED
    BY <2>1, <2>2
<1>9. CASE PollCq
  <2>1. /\ pc = "poll" /\ pc' \in {"check", "poll"} /\ status' = Head(cq)
        /\ overrun' = overrun /\ qp' = qp /\ n_transactions' = n_transactions
    BY <1>9 DEF PollCq
  <2>2. /\ cq # <<>> /\ cq' = Tail(cq) /\ Len(cq) \in Nat \ {0} /\ Len(cq') = Len(cq) - 1
        /\ Head(cq) = cq[1] /\ cq' = <<>> => Len(cq) = 1
        /\ \A i \in 1 .. Len(cq') : cq'[i] = cq[i + 1]
    BY <1>9, Polled DEF PollCq, Types
  <2>3. ASSUME ~overrun, qp # "rts"
        PROVE  IF cq' = <<>> THEN status' = "error" ELSE cq'[Len(cq')] = "error"
    <3>1. cq[Len(cq)] = "error"
      BY <2>1, <2>2, <2>3
    <3>2. CASE cq' = <<>>
      BY <2>1, <2>2, <3>1, <3>2
    <3>3. CASE cq' # <<>>
      <4>1. cq' \in Seq(Status)
        BY <2>2, Polled DEF Types
      <4>2. Len(cq') \in 1 .. Len(cq') /\ Len(cq') + 1 = Len(cq)
        BY <2>2, <3>3, <4>1
      <4>. QED
        BY <2>2, <3>1, <3>3, <4>2
    <3>. QED
      BY <3>2, <3>3
  <2>. QED
    BY <2>1, <2>3
<1>10. CASE PollCqFails
  BY <1>10 DEF PollCqFails, nic
<1>11. CASE CheckStatus
  <2>1. /\ pc = "check" /\ pc' \in {"failed", "start", "stats"} /\ qp' = qp
        /\ pc' # "failed" => status = "success" \/ n_transactions = 0
        /\ n_transactions \in Nat
    BY <1>11 DEF CheckStatus, nic, Types
  <2>2. cq = <<>> /\ ~overrun
    BY <2>1 DEF CountInv
  <2>. QED
    BY <2>1, <2>2
<1>12. CASE Statistics
  BY <1>12 DEF Statistics, AtSize, nic
<1>13. CASE Complete
  <2>1. PICK s \in Status : /\ s = "success" => qp = "rts"
                            /\ qp' = IF s = "success" THEN qp ELSE "error"
                            /\ \/ cq' = Append(cq, s) /\ overrun' = overrun
                               \/ overrun' = TRUE
    BY <1>13 DEF Complete
  <2>2. /\ pc' = pc /\ posted' = posted /\ status' = status /\ sq \in Nat \ {0}
        /\ n_transactions' = n_transactions /\ Len(cq) \in Nat
    BY <1>13 DEF Complete, loop, Types
  <2>3. /\ ~(pc \in {"start", "stats", "done"}) /\ ~(pc = "post" /\ posted = 0)
        /\ ~(pc \in {"poll", "check"} /\ n_transactions = 0)
    BY <2>2 DEF CountInv, Types
  <2>4. ASSUME ~overrun', qp' # "rts" PROVE cq' # <<>> /\ cq'[Len(cq')] = "error"
    <3>1. s = "error" /\ cq' = Append(cq, s)
      BY <2>1, <2>4 DEF Status
    <3>. QED
      BY <3>1, Appended DEF Types
  <2>. QED
    BY <2>2, <2>3, <2>4
<1>14. CASE Peer
  BY <1>14 DEF Peer, loop, nic
<1>15. CASE PollCqForNone
  BY <1>15 DEF PollCqForNone, loop, nic
<1>16. CASE ReadFails
  BY <1>16 DEF ReadFails
<1>17. CASE UNCHANGED vars
  BY <1>17 DEF vars, loop, nic
<1>. QED
  BY <1>1, <1>2, <1>3, <1>4, <1>5, <1>6, <1>7, <1>8, <1>9, <1>10, <1>11, <1>12, <1>13, <1>14,
     <1>15, <1>16, <1>17 DEF Next, Tester

\* Every step keeps that successes come from a peer that answers.
LEMMA SuccessNext ==
    ASSUME Types, CountInv, SuccessInv, [Next]_vars
    PROVE  SuccessInv'
<1> USE DEF SuccessInv, args
<1>1. CASE Create
  BY <1>1 DEF Create, loop, setup, Served, SetUp
<1>2. CASE Accept
  BY <1>2 DEF Accept, loop, nic, setup, Served, SetUp
<1>3. CASE ReadQueue
  <2>1. cq' = <<>> /\ pc' = "answer" /\ measured' = measured /\ pc = "exchange"
    BY <1>3 DEF ReadQueue, loop, nic, CountInv
  <2>. QED
    BY <2>1 DEF Served, SetUp
<1>4. CASE WriteQueue
  BY <1>4 DEF WriteQueue, loop, nic, setup, Served, SetUp
<1>5. CASE ModifyQp
  BY <1>5 DEF ModifyQp, AtSize, loop, setup, Served, SetUp
<1>6. CASE SetUpFails
  BY <1>6 DEF SetUpFails, loop, nic, setup, Served, SetUp
<1>7. CASE StartRun
  BY <1>7 DEF StartRun, nic, setup, Served, SetUp
<1>8. CASE PostSend
  BY <1>8 DEF PostSend, setup, Served, SetUp
<1>9. CASE PollCq
  <2>1. /\ pc = "poll" /\ pc' \in {"check", "poll"} /\ status' = Head(cq)
        /\ measured' = measured /\ (Served' <=> Served) /\ n_transactions' = n_transactions
    BY <1>9 DEF PollCq, setup, Served
  <2>2. /\ Len(cq) \in Nat \ {0} /\ Len(cq') = Len(cq) - 1 /\ Head(cq) = cq[1]
        /\ \A i \in 1 .. Len(cq') : cq'[i] = cq[i + 1]
    BY <1>9, Polled DEF PollCq, Types
  <2>3. \A i \in 1 .. Len(cq') : cq'[i] = "success" => Served
    <3>1. TAKE i \in 1 .. Len(cq')
    <3>2. i + 1 \in 1 .. Len(cq) /\ cq'[i] = cq[i + 1]
      BY <2>2
    <3>. QED
      BY <3>2
  <2>4. status' = "success" => Served
    BY <2>1, <2>2
  <2>. QED
    BY <2>1, <2>3, <2>4 DEF SetUp
<1>10. CASE PollCqFails
  <2>1. /\ pc = "poll" /\ num_comp \in Nat /\ status' = status /\ measured' = measured
        /\ pc' = "failed" \/ (pc' = "poll" /\ num_comp' = num_comp - 1)
        /\ cq' = cq /\ (Served' <=> Served) /\ n_transactions' = n_transactions
    BY <1>10 DEF PollCqFails, nic, setup, Served, Types
  <2>. QED
    BY <2>1 DEF SetUp
<1>11. CASE CheckStatus
  <2>1. /\ pc = "check" /\ pc' \in {"failed", "start", "stats"}
        /\ measured' = measured \/ status = "success" \/ n_transactions = 0
        /\ cq' = cq /\ (Served' <=> Served) /\ n_transactions' = n_transactions
    BY <1>11 DEF CheckStatus, nic, setup, Served
  <2>2. n_transactions \in Nat /\ num_comp = n_transactions
    BY <2>1 DEF CountInv, Types
  <2>. QED
    BY <2>1, <2>2 DEF SetUp
<1>12. CASE Statistics
  BY <1>12 DEF Statistics, AtSize, nic, setup, Served, SetUp
<1>13. CASE Complete
  <2>1. PICK s \in Status : /\ s = "success" => heard >= Used /\ peer = "ready"
                            /\ cq' = Append(cq, s) \/ cq' = cq
    BY <1>13 DEF Complete
  <2>2. /\ pc' = pc /\ num_comp' = num_comp /\ status' = status /\ measured' = measured
        /\ (Served' <=> Served) /\ n_transactions' = n_transactions
    BY <1>13 DEF Complete, loop, setup, Served
  <2>3. \A i \in 1 .. Len(cq') : cq'[i] = "success" => Served
    <3>1. CASE cq' = cq
      BY <3>1
    <3>2. CASE cq' = Append(cq, s)
      <4>1. TAKE i \in 1 .. Len(cq')
      <4>2. /\ Len(cq) \in Nat /\ Len(cq') = Len(cq) + 1 /\ cq'[Len(cq) + 1] = s
            /\ \A k \in 1 .. Len(cq) : cq'[k] = cq[k]
        BY <3>2, Appended DEF Types
      <4>3. i \in 1 .. Len(cq) \/ i = Len(cq) + 1
        BY <4>2
      <4>. QED
        BY <2>1, <4>2, <4>3 DEF Served
    <3>. QED
      BY <2>1, <3>1, <3>2
  <2>. QED
    BY <2>2, <2>3
<1>14. CASE Peer
  <2>1. /\ pc' = pc /\ cq' = cq /\ num_comp' = num_comp /\ status' = status
        /\ measured' = measured /\ heard' = heard /\ (peer = "ready" => peer' = "ready")
        /\ n_transactions' = n_transactions
    BY <1>14 DEF Peer, loop, nic
  <2>. QED
    BY <2>1 DEF Served
<1>15. CASE PollCqForNone
  BY <1>15 DEF PollCqForNone, loop, nic, setup, Served, SetUp
<1>16. CASE ReadFails
  BY <1>16 DEF ReadFails, loop, nic, setup, Served, SetUp
<1>17. CASE UNCHANGED vars
  BY <1>17 DEF vars, loop, nic, setup, Served
<1>. QED
  BY <1>1, <1>2, <1>3, <1>4, <1>5, <1>6, <1>7, <1>8, <1>9, <1>10, <1>11, <1>12, <1>13, <1>14,
     <1>15, <1>16, <1>17 DEF Next, Tester

\* Every step keeps the number of samples.
LEMMA SampleNext ==
    ASSUME Types, SampleInv, [Next]_vars
    PROVE  SampleInv'
<1> USE DEF SampleInv, args
<1>1. CASE Create
  BY <1>1 DEF Create, loop, SetUp
<1>2. CASE Accept
  BY <1>2 DEF Accept, loop, SetUp
<1>3. CASE ReadQueue
  BY <1>3 DEF ReadQueue, loop, SetUp
<1>4. CASE WriteQueue
  BY <1>4 DEF WriteQueue, loop, SetUp
<1>5. CASE ModifyQp
  BY <1>5 DEF ModifyQp, AtSize, loop, SetUp, Types
<1>6. CASE SetUpFails
  BY <1>6 DEF SetUpFails, loop, SetUp
<1>7. CASE StartRun
  BY <1>7 DEF StartRun, SetUp
<1>8. CASE PostSend
  BY <1>8 DEF PostSend, SetUp
<1>9. CASE PollCq
  BY <1>9 DEF PollCq, SetUp
<1>10. CASE PollCqFails
  BY <1>10 DEF PollCqFails, SetUp
<1>11. CASE CheckStatus
  BY <1>11 DEF CheckStatus, SetUp, Types
<1>12. CASE Statistics
  BY <1>12 DEF Statistics, AtSize, SetUp, Types
<1>13. CASE Complete
  BY <1>13 DEF Complete, loop, SetUp
<1>14. CASE Peer
  BY <1>14 DEF Peer, loop, SetUp
<1>15. CASE PollCqForNone
  BY <1>15 DEF PollCqForNone, loop, SetUp
<1>16. CASE ReadFails
  BY <1>16 DEF ReadFails, loop, SetUp
<1>17. CASE UNCHANGED vars
  BY <1>17 DEF vars, loop, SetUp
<1>. QED
  BY <1>1, <1>2, <1>3, <1>4, <1>5, <1>6, <1>7, <1>8, <1>9, <1>10, <1>11, <1>12, <1>13, <1>14,
     <1>15, <1>16, <1>17 DEF Next, Tester

\* The inductive invariant of the tester holds in every state.
THEOREM Invariance == Spec => [](Types /\ PollInv)
<1> USE DEF PollInv
<1>1. Init => Types /\ PollInv
  <2> SUFFICES ASSUME Init PROVE Types /\ PollInv
    OBVIOUS
  <2>1. Types
    <3>1. n_transactions \in Nat /\ n_reps_lat \in Nat /\ num_sizes \in Nat
      BY TesterAssumption DEF Init
    <3>2. cq \in Seq(Status) /\ status \in Status
      BY DEF Init, Status
    <3>3. pc \in Places
      BY DEF Init, Places, SetUp
    <3>4. /\ size \in Nat /\ run \in Nat \ {0} /\ measured \in Nat /\ posted \in Nat
          /\ num_comp \in Nat /\ sq \in Nat /\ heard \in Parts /\ sent \in Parts
      BY DEF Init, Parts
    <3>5. /\ qp = "reset" /\ peer = "away"
          /\ overrun \in BOOLEAN /\ rejected \in BOOLEAN
      BY DEF Init
    <3>. QED
      BY <3>1, <3>2, <3>3, <3>4, <3>5 DEF Types
  <2>2. CountInv /\ ErrorInv
    BY DEF Init, CountInv, ErrorInv
  <2>3. SuccessInv /\ SampleInv
    BY TesterAssumption DEF Init, SuccessInv, SampleInv
  <2>. QED
    BY <2>1, <2>2, <2>3
<1>2. Types /\ PollInv /\ [Next]_vars => Types' /\ PollInv'
  BY TypesNext, CountNext, ErrorNext, SuccessNext, SampleNext
<1>. QED
  BY <1>1, <1>2, PTL DEF Spec

\* No run begins with a READ of an earlier one under way or its completion in the
\* queue, for any number of transactions and any sizes of the two queues, those
\* that are too small included (the loop over num_comp).
THEOREM RunsShareNothing == Spec => []RunsApart
<1>1. PollInv => RunsApart
  BY DEF PollInv, CountInv, RunsApart
<1>. QED
  BY <1>1, Invariance, PTL

\* No sample is taken of a run in which a READ failed, although only wc_batch[0] is
\* ever written (the check of wc_batch).
THEOREM FailuresEndTheProgram == Spec => []FailuresSeen
<1>1. PollInv => FailuresSeen
  BY DEF PollInv, ErrorInv, FailuresSeen
<1>. QED
  BY <1>1, Invariance, PTL

\* What is measured are READs of the peer's buffer, for any peer and however much of
\* its description was read.
THEOREM SamplesMeasureReads == Spec => []SamplesAreReads
<1>1. PollInv => SamplesAreReads
  BY DEF PollInv, SuccessInv, Served, SamplesAreReads
<1>. QED
  BY <1>1, Invariance, PTL

\* A fraction below one, and of at least a hundredth, of 100 samples or more is one
\* of them.
LEMMA Percentile ==
    ASSUME NEW n \in Nat, n >= 100, NEW a \in Nat, NEW b \in Nat \ {0},
           a < b, b <= 100 * a
    PROVE  (a * n) \div b - 1 \in 0 .. n - 1
  OBVIOUS

\* Every percentile of a size is one of its samples.
PercentilesDefined ==
    PercentileIndices(Cleaned(measured)) \subseteq 0 .. Cleaned(measured) - 1

\* The percentiles exist ("Get percentiles", L680) if and only if 102 runs of a size
\* are asked for or more.  With fewer, the default of 100 among them (defNRepsLat),
\* the first one is read before the first sample, whenever statistics are made.
THEOREM PercentilesNeed102Runs ==
    Spec => [](pc = "stats" => (PercentilesDefined <=> n_reps_lat >= 102))
<1>1. ASSUME Types, PollInv, pc = "stats" PROVE PercentilesDefined <=> n_reps_lat >= 102
  <2>1. measured = n_reps_lat /\ n_reps_lat \in Nat
    BY <1>1 DEF Types, PollInv, SampleInv
  <2>2. ASSUME n_reps_lat >= 102 PROVE PercentilesDefined
    <3>1. Cleaned(measured) \in Nat /\ Cleaned(measured) >= 100
      BY <2>1, <2>2 DEF Cleaned
    <3>. QED
      BY <3>1, Percentile DEF PercentileIndices, PercentilesDefined
  <2>3. ASSUME ~(n_reps_lat >= 102) PROVE ~PercentilesDefined
    <3>1. Cleaned(measured) \in 0 .. 99
      BY <2>1, <2>3 DEF Cleaned
    <3>2. (1 * Cleaned(measured)) \div 100 = 0
      BY <3>1
    <3>3. (1 * Cleaned(measured)) \div 100 - 1 \in PercentileIndices(Cleaned(measured))
      BY DEF PercentileIndices
    <3>4. (1 * Cleaned(measured)) \div 100 - 1 \notin 0 .. Cleaned(measured) - 1
      BY <3>1, <3>2
    <3>. QED
      BY <3>3, <3>4 DEF PercentilesDefined
  <2>. QED
    BY <2>2, <2>3
<1>. QED
  BY <1>1, Invariance, PTL
=============================================================================
