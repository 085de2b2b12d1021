# BALBOA_AE: specifications, model checking and proofs

This directory holds TLA+ specifications of the programs and designs of this
repository (the artefacts of the BALBOA experiments), the TLC configurations
that check them on small instances, and theorems about them that TLAPS proves
for every value of the constants. `PROJECT.json` lists the components, the runs,
the mutants (one plausible bug per checked property, which TLC must find), the
source lines behind every definition, the findings and the hazards.

Check a module from this directory with `tlc -config MCAesPipeline.cfg
MCAesPipeline`, prove one with `tlapm AesPipelineProofs.tla`.

## Inventory

All paths are below `src/experiments/`.

| Part | State | Operations | Interacts with |
|---|---|---|---|
| A. AES-CTR crypto cores (`aes_ctr/balboa_offload/hw/src/vfpga_top.svh`, `hdl/aes_top.vhd`, `aes_pipeline.vhd`, `aes_pipe_stage.vhd`, `data_pipeline.vhd`, `pipe_reg.vhd`) | the stages of four AES lanes and of one payload pipeline; a 32-bit block counter per direction | a clock edge, with or without stall; reset | AXI streams of the host (Coyote) and of the RoCE stack; the peer node's core, through the network |
| B. AES rounds and keys (`hdl/aes_round*.vhd`, `mix_columns.vhd`, `shift_rows.vhd`, `gf_mult.vhd`, `key_*.vhd`, s-boxes and inverses) | none but the key pipeline's registers | one round, one key expansion step | A |
| C. Request routing in `vfpga_top.svh` (L35-48) | none | a send request of the RDMA stack becomes a local read or write request | Coyote's queues |
| D. Intel top level (`hdl/aes_user_intel.sv`, `key_user_intel.sv`, `aes_ctrl_intel.sv`) | element counter and state of the control machine | one clock edge | nothing in this tree instantiates it |
| E. Software baseline, protocol (`aes_ctr/software_baseline/client.c`, `server.c`) | per process: program counter, message size, trial, flag, buffer; per queue pair: completion queue, channel, posted receives | setting up the connection; the verbs calls; WRITE, SEND and acknowledgements of the network | each other over one reliable connection; F |
| F. Software baseline, cipher (`aes_ctr/software_baseline/common.c`) | the buffer, one record per thread | partition, create, process a block, join | called by E |
| G. Bandwidth distribution (`bandwidth_distribution/sw/src/client_scaling`, `server_scaling`) | completion counters and done flags per queue pair | clear, invoke, poll | Coyote's threads; each other |
| H. ML preprocessing software (`ml_preprocessing/sw`: a server, a copying and a GPU-direct client; `client_py`: a Python class and its script) | completion counters, run index, buffers of host and GPU, a HIP stream | clear, synchronise, invoke, poll, copy | Coyote's threads, each other |
| I. ML preprocessing hardware (`ml_preprocessing/hw/src/hls`, `vfpga_top.svh`) | four FIFOs and the pipelines of five functions | load, clamp, logarithm (twice), store | AXI streams: the network's READ responses in, host memory out |
| J. Throughput evaluation, commercial NIC (`throughput_evaluation/commercial_rnic_sw/RNIC_Comp_Poll_Tester.cpp`) | state of the queue pair, the peer's description, outstanding requests, completions, samples | set up, exchange descriptions over TCP; post a run, poll it, check it | verbs; a peer program |
| K. Throughput evaluation, inactive client (`throughput_evaluation/coyote_extension`) | none | connects, then spins | Coyote |
| L. Coyote, the RoCE stack CREED, the DPI submodules | | | external: not in this tree |

What is hard in them, and what makes each correct:

* **A** concurrency of five pipelines under one stall. Nothing in the design
  tags a beat: payload, counter block, byte enables and `last` travel in
  separate registers and belong together only because all pipelines have one
  depth and one stall. Correct: every accepted beat leaves once, whole, in
  order, at the counter of its packet. Between nodes: the counters, which are
  never exchanged, are in step exactly as long as both ends have seen equally
  many packet ends; a reset of one node, another sender or another receiver
  puts them out of step.
* **E** two processes that wait for events with a re-armed completion queue and
  never look at what completed; an RC connection whose receives are posted just
  in time. Correct: no wait is left without an event, no entry is lost, the
  buffers are not touched while a WRITE is under way, the data make the round
  trip.
* **F** threads over one buffer. Correct: the runs of blocks are disjoint and
  complete, each block gets the counter one thread would have given it, the
  call ends with its threads.
* **G, H** polling on counters that earlier transfers also move, and barriers
  that both sides must call equally often. Correct: a call has its own
  transfers, and all of them, when it returns; every run ends; both programs
  end.
* **I** five functions that run at once and block on full FIFOs. Correct: every
  beat leaves once, in order, through all functions; larger features stay
  larger.
* **J** queues with bounds, a peer of unknown progress. Correct: every posted
  request is counted once and in its own run, a sample is of READs that
  succeeded, the program ends.

## Modules

| Module | Models | Role |
|---|---|---|
| `CtrBeats` | the beats of an AXI stream and the counter arithmetic of `vfpga_top` | shared definitions |
| `CtrStream` | what a crypto core promises | abstract specification |
| `AesPipeline`, `MCAesPipeline` | part A, one core, register by register | implements `CtrStream` |
| `AesLink`, `MCAesLink` | part A, two nodes among others | composes two `CtrStream` |
| `CtrBeatsProofs`, `AesPipelineProofs`, `AesLinkProofs` | | lemmas shared by the other two; theorems |
| `Trials` | what the software baseline promises | abstract specification |
| `SwBaseline` | part E | implements `Trials`; run directly by its two configurations |
| `SwCipher` | part F | run directly by its two configurations |
| `SwBaselineProofs` | | theorems about `SwBaseline` and `SwCipher` |
| `CoyoteBench`, `MCCoyoteBench` | part H, C++ clients and server | two processes with a barrier |
| `CoyoteBenchProofs` | | theorems |
| `RdmaModule`, `MCRdmaModule` | part H, Python client and script with the C++ server | two processes with a barrier |
| `FeatureBeats` | the beats and word functions of part I | shared definitions |
| `FeatureStream` | what the preprocessing kernel promises | abstract specification |
| `MlPreprocessing`, `MCMlPreprocessing` | part I | implements `FeatureStream` |
| `MlPreprocessingProofs` | | theorems |
| `QpScaling` | part G | run directly |
| `CoyoteClientsProofs` | | theorems about `RdmaModule` and `QpScaling` |
| `RnicPoll` | part J | run directly |
| `RnicPollProofs` | | theorems |

### AesPipeline

A step is a rising clock edge (`Clock`, with the sink's `tready` of that edge),
a clock edge with `aresetn` low (`Reset`), or the source driving its wires
between two edges (`Drive`). `PipeReg` is `pipe_reg.vhd`: stalled it keeps
everything, fed a bubble it keeps its contents and drops only `dVal`.
`ShiftLane` and `ShiftData` are the stage chains of `aes_pipeline.vhd` and
`data_pipeline.vhd`, the latter with `dVal_in` tied to '1' as in the code, so
that payload wires are captured in idle cycles too. `OutValid` and `OutItem` are
the output logic of `aes_top.vhd`, `CounterAfter` the `always_ff` block of
`vfpga_top.svh`. The AES rounds are abstracted: a lane's register holds the
counter whose block is under way, and a lane of an encrypted beat is the pair of
its input and of that counter. `accepted`, `delivered` and `entered` are history
variables for the properties.

The counter is advanced on the last beat of a packet only
(`vfpga_top.svh` L84), so all beats of one packet share their four counter
blocks. The model follows the code; `CountersFollowPackets` states what the
decrypting side relies on, and `BlocksApart` the distinctness that does hold,
which is that between packets.

### AesLink

Both cores are instances of `CtrStream`, which `AesPipeline` implements, so the
composition speaks of streams only. The network keeps the order of the beats and
loses none (reliable connection); whether it keeps packet ends is the constant
`EndsKept`. The run sets it to FALSE, the more general case. `PeerSend` is
another node that writes to this receiver, with a core and a counter of its own,
and `Send` may let a beat go to another receiver: both advance a counter that
the other end of the pair does not see. `ResetSender` and `ResetReceiver` are
`aresetn` of one node, which the other is not told. A beat on the wire carries
the number of packet ends its sender had seen, as a history of what its counter
was made from; `RestoredOnlyInStep` says that this number and the receiver's
decide whether it is restored.

### SwBaseline

One action per verbs call that changes state or can block. `cm` is the last
message of the connection managers: with the reply both ends can carry data, so
the client may WRITE and SEND before the server has its own event
(`Established`); what makes that safe is that `CreateQp` arms the queue and posts
the receive before the connection. `wire` and `acks` are
the requests and answers of a connection; `cq`, `armed` and `events` a completion
queue with its channel. The libibverbs behaviour is that of its documentation:
an event is raised only for an entry *added* while the queue is armed, and
raising it disarms the queue. (Some adapters also raise an event when a queue
with unpolled entries is armed; the API does not promise it.) The contents of a
buffer are its size and the set of the two IVs it is encrypted under. Any call may
return an error, upon which both programs return -1: `CallFails` puts the program
into `exited`, at the call. A polled entry that is not there or not a success ends
it too (`failed`). What a program had posted is carried out after its end, and
what its peer has posted as well; that the NIC of an ended process refuses
requests is not modelled.

`Trials` is one loop where the code has two: the client asks (`Ask`, its
encrypted buffer), the server answers (`Serve`), the client takes the answer
(`Take`) and goes to its next trial. `SwBaseline` maps to it by the client's size
and trial and by two expressions. `Phase` is where the trial is: the place of the
client, and between its encryption and its decryption `Served`, which compares the
server's loop with the client's. `Data` is the buffer of the end that worked on it
last. A WRITE, a SEND, an event or the server's loop is a stutter. So `TrialsSpec`
says that no trial is served twice, skipped, or taken before it is served, although
no message names the trial it belongs to.

### SwCipher

Two calls over one buffer, an encryption and a decryption, with up to
`MAX_THREADS` threads and the failures of `pthread_create`. A block's contents
are the set of counters it has been xor'ed with. An IV is a number; `ByteOf` is
one of its bytes and `Weight` what a one in that byte counts. `IvIncrement` is
the loop of the code, byte by byte from the least significant one, as a recursive
function; `AddByte` or's the carry into the rest of the offset as the code does.
`CarryLost` says from the arguments alone when that is wrong: bytes that carry
into one whose part of the offset is odd.

### CoyoteBench

`run_bench` of client and server, called by both for the same sequence of
benches, for READ and for WRITE (`operation`), with the client that copies to
the GPU at each completion or with the one whose RDMA buffer is on the GPU
(`direct`): the first answers completions one by one (`PollCompleted`), the
second spins until the counter equals the number of transfers
(`AwaitTransfers`). A thread's counter of LOCAL_WRITE
completions (`count`) is cleared by its owner and increased by the transfers
that are stored at it. `invoke` only queues a transfer (`wire`), and the
sender's memory is read when the transfer is executed: that is what lets a
buffer change under a posted WRITE. `connSync` is split into the call and its
return, which waits for the other side to have called as often. `mem` and `gpu`
hold zeros or data. A copy to the GPU that fails throws (`CopyFails`,
`client/main.cpp` L85-88): `thrown`, after which the client does nothing more. If the
smallest size is above the largest there is no bench, and both sides begin with
the `connSync` at the end.

### RdmaModule

The methods of the Python class `RDMAClient` (the four RDMA calls in both
directions, `local_process_to_gpu`, `read_gpu_memory`, the destructor) and a
script that makes calls one after another and goes on after an exception, as
`example.py` does (L202-210). The other side is the standard server
(`sw/src/server/main.cpp`, which `ml_preprocessing/README.md` L32 names for this
client), started for READs or for WRITEs with a fixed sequence of runs. `wire`
remembers which call invoked a transfer,
`stream` what is queued on the HIP stream. `Raise` is an exception of the Python
function or of the copy, possible at every completion, or of the wait for the
stream (L285), which may find copies still queued; `Refuse` is the check of
the size, before anything is done. `connSync` is one step of both sides. `agreed`
is the history of whether the calls so far were the runs the server was started
for. Copies are given their contents when they are queued, since HIP copies
pageable memory before `hipMemcpyAsync` returns.

### MlPreprocessing

HLS dataflow: five functions (`LoadData`, `Dense_NegsToZero`, `Dense_Log` twice,
`StoreData`), each with a pipeline, and a FIFO between each two. A beat moves
through nine places, a pipeline or a FIFO each, and blocks while the next one is
full. `ReadBy` is what becomes of a beat that is read into the pipeline of a
function. Words are 32-bit integers in the code, whatever they are read as next;
`Log` takes the pattern of the word for a signed integer, adds one as an `int`
does, and leaves the pattern of the float. logf itself is a table of which the
module assumes only that it does not decrease. `Sparse_HexToIntMod` is defined but
its call is commented out, and a second `Dense_Log` stands in its place (see
Findings). `FeatureStream` is a stream with any function of a beat (`Result`), so
that the refinement is about losing, doubling and overtaking beats and says
nothing of which functions the kernel should have; `Preprocessed` is what the
functions of this dataflow make together.

### QpScaling

The client, loop by loop: clear all queue pairs, invoke all READs, sweep until
all are reported done. `completed[]` in the code is zero throughout
(`client_scaling/main.cpp` L156-162), so a queue pair is reported done when its
counter is zero (`ReportsDone`); the model follows the code. `DoneWhenArrived`
states what its comments and its output say, and is violated. The server spins in
its first run and takes no step.

### RnicPoll

The set-up (`Create` to `ModifyQp`) with its exchange of descriptions over TCP:
one `read` returns some of the parts that there are, or fails (`ReadFails`), and
what it returns is printed only (L376). The numbers of sizes, runs and
transactions are arguments, and may be zero: a run of no READ polls once and takes
a sample of nothing (`PollCqForNone`), and statistics of no sample read outside
the vector, which may end the program (`Statistics`). The peer connects, sends its
description in pieces, gets ready some time after it has the tester's, or goes
away; the tester sleeps (L546) and does not wait for it. A READ succeeds only with
the peer's address and key and from a peer that is ready. Then the loops over
sizes and runs; a run posts all its READs and then polls one entry at a time. `sq`
and `cq` are the queues of the NIC, `overrun` and `rejected` what is lost when
they are full. The code looks at no result of `ibv_post_send`, and at the status
of the last completion of a run only, since each poll stores its entry in
`wc_batch[0]`; the model does as it does. The comparison of the signed counter
with the unsigned number of transactions is `PollCqFails`.

## Runs

| Run | Question | Result |
|---|---|---|
| `pipeline` | Is a core a stream, under all stalls, bubbles and resets? | holds, 30,714 states |
| `link` | Which beats does the receiver restore after resets, other senders and moved packet ends? Does any get stuck? | holds, 969,984 states |
| `sw_protocol` | Are queues, buffers and data safe under every schedule and every failing call, and what can keep the programs from their ends? Do the two loops make one sequence of trials? | holds, 5,396 states |
| `sw_wakeup` | Do the trials end under every fair schedule? | violated: lost wakeup |
| `sw_cipher` | Is the threaded cipher correct under every interleaving? | holds, 13,356 states |
| `sw_carry` | Are IV increments right? | violated |
| `bench` | Do barrier and counters keep the runs of both sides apart, for both clients, and do both sides end? | holds, 3,071 states |
| `bench_content` | Does a WRITE benchmark bring the content back? | violated |
| `rdma_calls` | Are the calls of a script complete, with exceptions in between, and when do script and server end? | holds, 56,276 states |
| `qp_sweep` | Is a queue pair reported done only after all its READs? | violated |
| `ml` | Is the kernel a stream of beats, none lost, doubled or overtaken, at every fill of its FIFOs, and does it keep the order of features? | holds, 9,097 states |
| `rnic` | Do runs of the NIC tester keep apart, are failures noticed, are its samples READs of the peer, does it end, and what can keep it from its end? | holds, 25,521 states |

Bounds. `pipeline`: three stages (the code has ten) show an entering, a middle
and a leaving stage; two lanes (four) are enough for lanes to disagree; four
beats exceed the stages, so the core is full and refills; counters modulo 6
advance by 2 and wrap within the bound. `link`: two beats of the sender between
its resets, two arrivals before one of another sender (which has seen one packet
end, or the two after which the counter has wrapped), one reset of either node:
counters fall out of step by each cause alone and by two together, and back in
step by the wrap. `sw_protocol`, `sw_wakeup`: two sizes and two trials give every
kind of transition of the loops (trial to trial, size to size, last).
`sw_cipher`: sizes of 2, 5 and 9 blocks for three threads give fewer blocks than
threads, a remainder, and none; bytes of four values and IVs of three bytes make
carries over one and two bytes, a wrap, and the carry that is lost. `bench`: two
sizes with a throughput bench of three transfers (64 in the code) and a latency
bench of one, two runs each: every way from one run to the next, and a bench
with more transfers followed by one with fewer, in which a stale completion
would end it. `rdma_calls`: three calls of up to two transfers against a server
of two runs, so that a call
that raised is followed by one with fewer and by one with more transfers than are
left over, and a script makes fewer, as many and more calls than the server
runs. `ml`: three beats through FIFOs and pipelines of one, so that every place
is full, and empty, behind and before every other, with words of four bits whose
extremes occur. `qp_sweep`: three queue pairs, two READs each and two runs; its
counterexample is in the first run. `rnic`: up to four transactions, so that a run
is empty, or has fewer, as many and more than either queue holds; up to two runs
of up to two sizes, so that a run follows one of the same and one of another
size; a description of three parts of which the tester needs two.

Fairness. `pipeline`: weak fairness of a clock edge with `tready` up; a sink
that waits for `tvalid` before it raises `tready` would block the core, since
`~tready` stalls all stages (`vfpga_top.svh` L140, L162). Coyote's streams raise
it on their own, and this is an assumption of the liveness of `StreamSpec`.
`link`: the two streams and the network progress. `ml`: the functions are
free-running (`ap_ctrl_none`), so each that can move a beat does in the end, and
the host takes what it is given. `sw_protocol`, `sw_wakeup`: every runnable
process and each direction of the network progress (the connection is reliable
and the hosts run); no call is forced to fail. `bench`,
`rdma_calls`, `rnic`: each process runs (all
of them spin, none sleeps for good) and what it has queued is executed in the
end, in `rdma_calls` as long as the server is there; an exception, a copy, a `read`
or a poll that fails, a next call, an end of the script and a step of the tester's
peer are never forced.

`CHECK_DEADLOCK FALSE` is set where the system ends by itself (all trials done,
all beats sent, both calls returned), or where the finding is that it hangs.

## Findings

1. **Lost wakeup** (`client.c` L335 and L353; `server.c` L233): after an event
   the queue is armed and *one* entry is polled. If a second entry was added
   before the arming, it raised no event; it stays in the queue and the next
   wait blocks for ever. (`sw_wakeup`; `FinishOrLeftBehind` shows that nothing
   else stops programs whose calls do not fail.)
2. **Lost carry** (`common.c` L23): `(val >> 8) | (sum >> 8)` or's the carry
   where it has to add it. (`sw_carry`; `PlainAgain` shows that decryption still
   undoes encryption, since both sides err alike, and
   `SequentialUnlessCarryLost` that nothing else is wrong.)
3. **Buffer zeroed under posted WRITEs** (`ml_preprocessing/sw/src/server/main.cpp`
   L46): the server starts its next bench, which zeroes its buffer, right after
   it has posted its write-backs; the client may get zeros for its data.
   (`bench_content`; only the contents are concerned, the counts are right.)
4. **Done before anything has arrived**
   (`bandwidth_distribution/sw/src/client_scaling/main.cpp` L162): the sweep compares
   the completions with a vector of zeros that is never set (L156), so it reports
   "Transfer for QP %d is done" (L168) and stops the timer when no READ of the
   queue pair has completed. (`qp_sweep`.) A READ that completes before the first
   look at its queue pair makes the run endless, which theorem `RunHangs` proves.

One disagreement is in no run, since the models of the kernel say nothing of
which functions it should have: `ml_preprocessing.cpp` L39 and L42 take the
logarithm twice, the second time of the bit pattern of a float, where
`ml_preprocessing.hpp` L26-28 names "clamp negatives, log1p", the comments of
`ml_preprocessing.cpp` L29-33 one `Dense_Log` and then `Sparse_HexToIntMod`,
`ml_preprocessing/README.md` L17 a clamp and a logarithm, and `example.py` L74 one
`log1p`.

More limits of the code are in the conditions of properties that hold:

* `RestoredOnlyInStep`: a node has one counter for all it sends and one for all
  it receives (`vfpga_top.svh` L70-92). After the reset of one node only, or with
  a second sender or receiver, beats are not restored, until the counters
  meet again by their wrap.
* `EndTogether`: the standard server synchronises for two benches per size
  and once at its end; `example.py` makes one call per run and size, skips sizes
  and goes on after exceptions (L195-210). With the same arguments on both sides
  (`ml_preprocessing/README.md` L51) the script makes fewer calls than the server
  runs, its destructor's `connSync` is taken for one more run, and the server
  waits for good.
* `FeaturesKeepOrder`: the largest integer is the exception, since
  `tmp_value+1` wraps there (`ml_preprocessing.hpp` L124).
* `RejectedOnlyBeforeRepost`: the server sends its flag before it posts its next
  receive (`server.c` L313 and L326). A client that answers faster than that
  finds none, and its connection has no RNR retries.
* `CompleteUnlessRaised`, `CallsEnd`: the first excludes the calls after an
  exception, the second names the only call that may spin for good. A call of the
  Python client that raises leaves transfers under way; the next call clears the
  counter before they arrive (`rdma_module.cpp` L208) and takes them for its own,
  and `rdma_cpu`, which compares with `!=` (L106), may step past its number and
  spin for ever.
* `GpuSettled`: the result of the asynchronous call is the truncated one; it casts
  the float array to `int` (L272), where the blocking call casts to `float`
  (L227) and the comment (L242) says "Asynchronous version of rdma_process_to_gpu".
* `PercentilesNeed102Runs` (a theorem): with the default of 100 runs
  (`RNIC_Comp_Poll_Tester.cpp` L115) 98 samples are left and `p1` is read at index
  -1 (L682); 102 runs are needed, and suffice.
* `EndsIfQueuesSuffice`, `SpinsOnlyForLost`: more than 100 transactions per run can
  overrun the completion queue, and more than 2048 are refused unnoticed, after
  which the tester polls for ever or fails; nothing else makes it. A peer
  that connects and stays silent keeps it in `read` (L376).

## Proofs

Assumptions: those named in the modules (`NPARAssumption`, `CtrModAssumption`,
`BeatsAssumption`, `RoundsAssumption`, `ZeroAssumption`, `EndsKeptAssumption`,
`PeerEndsAssumption`, `MaxBeatsAssumption`, `BoundsAssumption`, `ProcsAssumption`,
`TrialsAssumption`, `BenchAssumption`, `TesterAssumption`, `LanesAssumption`,
`WordsAssumption`, `FeatureBeatsAssumption`, `LogAssumption`, `DepthAssumption`,
`KindsAssumption`, `ServersAssumption`, `ThreadsAssumption`, `BytesAssumption`,
`SizesAssumption`, `IvsAssumption`); TLC evaluates them in every run. Each
inductive invariant below was checked by TLC on a small instance first.

`CtrBeatsProofs`. What counters modulo a constant need of arithmetic
(`Remainder`, `ModAdd`, `ModEqual`) and how packet ends are counted
(`EndsOfAppend`, `ChainGrows`).

`AesPipelineProofs`. `InOrder` is not inductive: it says nothing of the stages
that beats are in. `OrderInv` adds `PipesAligned`, which says for each stage
either that it is a bubble in all lanes or which accepted beat it holds, in
every lane and in the payload pipeline. A clock edge moves that statement from
stage to stage; the last stage gives `InOrder`. From it follow `BeatsAligned`,
`BeatsInOrder`, `OutputHeld` (a stall freezes all pipelines) and
`CoreImplementsStream`: every clock edge is an accept, a delivery, both, or a
stutter of `CtrStream`, and a reset is a reset. `CountersDetermined` is
inductive by itself, but it relates neighbours only; `PacketsApart` compares any
two beats, so it rests on `Chain`, which gives each counter from the number of
packet ends since the reset. Less than a turn of the counter apart, two blocks
then differ by a number between 0 and the modulus (`LanesApart`), whether or not
the lanes divide it. All hold for every number of lanes, stages and counter
values.

`AesLinkProofs`. `ReceiverRestores` proves both directions of
`RestoredOnlyInStep`, which speaks of delivered beats and of
counts of packet ends; what makes it inductive is `LinkInv`, in which every beat
of the sender, of the network and of the receiver carries the blocks of the
counter `CounterAt` gives for the packet ends its core had seen, and what each
core delivered is a prefix of what it accepted. A reset empties the
histories of one core and leaves the statements about the other and about the
network alone. That the blocks of two counters agree exactly if the numbers of
packet ends agree modulo the counter is `ModEqual`.

`SwBaselineProofs`. None of the properties is inductive: whether an entry is in
a queue when its event is taken depends on what was posted, which depends on how
far the other process is. `IInv` says it all at once. `StageInv` ties the
completion a process believes it waits for to its program counter, `SetUpInv`
the connection managers to both; `CountInv` gives the number of completions each
process still gets from what it has posted; `RequestInv` says that at most one
request is under way, the one waited for. `TurnInv` is the heart: while it is the
server's turn the client has a receive posted, has nothing under way, and waits
for its SEND or for the flag, so the two never work at the same time although
either may be woken by an entry of the other kind. `TrialInv` puts the two loops
in the same trial or one of them in the next, by the stage of their exchange, and
`DataInv` says which AES layers a buffer has. `StatusInv` says that only the
client's SEND is ever refused. The invariant covers programs that end at any
call or poll: a program that ends by a failed call changes nothing (`StateUnchanged`).
Its proof has one lemma per action and part. From it
follow `EventsMatchEntries`, `QueuesNeverOverrun`, `BufferNeverShared`,
`RefusedOnlyBeforeRepost` and `TripIsRound`, for every number of sizes and
trials. They are safety: the lost wakeup (finding 1) is no contradiction, since a
process that is never woken touches nothing.

`ImplementsTrials` is the step simulation over the same invariant. The mapping
compares two loops that run in different processes; `ServedIff` says from
`TrialInv` that this comparison agrees with the exchange: the client's trial has
been served exactly if its answer is with the client or on its way, or the server
is about to write it back. `TurnInv` then shows that nothing has been served until
the client waits for the flag (`NotYetServed`). `Encrypt`, `Serve`, `Decrypt` and
the client's `PostRecv` are the four steps of `Trials`; what they do to size and
layers comes from `DataInv`. Every other action is a stutter (`HiddenStep`), the
server's move to its next trial included: it happens when the trial has been
answered, so it changes neither side of `ServedIff`; and a WRITE copies the data
before the end it writes to has worked on them (`WriteHidden`).

Its last part is about `SwCipher`. `EachBlockOnce` and `PlainAgain` speak of the
moment a call returns. `CipherInv` describes each thread's segment at any time:
what lies before the block it comes to next is processed, what lies after it is
not, and the counters of neighbouring blocks follow each other from the first one
the thread was given. The segments are apart (`Segments`) and cover the buffer
(`Cover`) for every number of blocks and threads. For
decryption what `iv_increment` makes of an IV does not matter, because both passes
start each segment with the same counter: so `DecryptionUndoes` holds although
carries are lost (finding 2).

`CountersAreSequential` is about what `iv_increment` does make of it, for every
number of bytes and whatever a byte can hold. After `k` bytes the loop has
`acc` with `acc.iv + Weight[k] * acc.val = (n % Weight[k]) + v`, as long as no carry
is lost (`AddByteAdds`), and after the last byte this is the sum modulo the width
of the IV (`IvIncrementAdds`). The loop is a recursive function and its invariant
an induction. The library has both with an operator for a parameter, which the
provers cannot instantiate; here they are stated with sets and functions instead.
`Induction` is about a set that has 0 and with each number the next, and rests on
the well-foundedness of the naturals; `Recursion` shows that a function exists
which satisfies the recursive equations, so that the equations may be used
(`Weights`, `IvIncrementLoop`). Within a segment counters follow each other by
`CipherInv`, from the one `IvIncrementAdds` gives its first block to the last
(`NextCounter`).

`CoyoteBenchProofs`. That a side clears nothing of its run depends on where the
other is, in another run perhaps, and with a different number of transfers.
`BenchInv` has where the sides can be to each other (`LoopInv`: in the same run,
or one of them in the next, where it can only wait in `connSync`), and, by that,
how many transfers of each side make up a counter (`ClearInv`, `ReadInv`,
`WriteInv`). `ReadData` adds that the server's buffer has been set before the
first transfer can read it. From it follow `ClearsNothing`, `CountsMeet`,
`SidesInStep` and `ReadsArrive`, for every sequence of benches, READ and WRITE, and
both clients. For WRITEs the contents do not arrive (finding 3).

`RnicPollProofs`. That a run ends with empty queues follows from its count: what
is under way, in the queue and polled makes up what was posted, and less once a
completion is lost, so that a run in which one was lost does not end (`CountInv`).
That only the last status is looked at suffices because after an error every later
completion is one (`ErrorInv`). `RunsShareNothing`, `FailuresEndTheProgram` and
`SamplesMeasureReads` hold for every number of transactions and every size of the
queues. `PercentilesNeed102Runs` is an equivalence: the percentiles are samples
exactly if there were 102 runs, since measured samples are counted run by run (the
statistics come after all of them) and two of them are removed.

`MlPreprocessingProofs`. `KernelInv` gives each place the number of beats that
have left it; the beats in a place are those accepted between its own number and
the one before, each with the functions it has passed (`Progress`). A
move of a beat changes one of these numbers. From it follow
`KernelImplementsStream`, every step an accept, a delivery or a stutter of
`FeatureStream`, and with `WordsKeepOrder`, which uses the monotonicity of the
logarithm and that clamped words keep its arguments positive, `FeaturesOrdered`.

`CoyoteClientsProofs`. `GpuSettled` and `CompleteUnlessRaised` speak of the
moment a call returns, so neither is inductive. `CallInv` says what holds on the
way there. `PlaceInv` ties the number of operations posted and completed to the
place of the client. `GpuInv` follows the result: the client's buffer has remote
contents from the first completion on, and a copy is queued only until the GPU
has been waited for, whether the call before returned or raised; with that comes
`GpuHasResult`. `SameRun` and `FlowInv` are about scripts that make the calls the
server was started for, none of which has raised: the call of the client is then
the run of the server, and the transfers on the wire, those the counter has and
those the other side still makes add up to those of the call, so that none of an
earlier call is left when the counters are cleared. `CallsComplete` follows, for
every script, every number of transfers and either server. Without that
condition transfers of one call are counted by the next. In the last part,
`RunHangs`, for every number of queue pairs, READs and runs that is not zero
(`SomeOfEach`): `Stuck` says that some queue pair has completions and is not reported
done; counters only grow while the client polls, so it never is.

`SwCipher` and `QpScaling` have names of their own for `Init`, `Next` and `Spec`, so
that one module can extend them together with the program next to them.

Left to TLC: liveness (`AllStored`, `FinishOrLeftBehind`, `BothEnd`, `CallsEnd`,
`EndTogether`, `EndsIfQueuesSuffice`, `SpinsOnlyForLost`) and the fairness part of the two
`StreamSpec`, which are beyond the prover. The findings are counterexamples, and
nothing is proved of the four properties they refute. `TypeOK` of `CoyoteBench` is
proved (`TypeCorrect`) and in no run.

## Not modelled

* The contents of AES (part B): functions of bytes without control. In CTR mode
  both ends compute the same function of the counter block, and no property of
  the cores depends on which.
* `vfpga_top.svh` instantiates `aes_top` with a 2048-bit key constant, while
  `hdl/aes_top.vhd` declares `aes_top_new` with 1408 expanded key bits; which
  entity a build binds is outside this tree.
* Request routing (part C): continuous assignments without state.
* The Intel units (part D): nothing in this tree instantiates them. They ask for
  mode 2, and `aes_pipeline.vhd` generates its cores inside the branch of
  mode 1, so such a wrapper drives no outputs.
* The server of G and the inactive client of K only spin.
* A Python client made without RDMA has the local calls only and is not told
  apart from the other.
* A `min_size` of zero, which the NIC tester's doubling loop never leaves.
* Statistics, the figures printed and the clean-up at the end of the programs.
* Part L, scripts, `*.xml`, `c_model.cl`, `*.tcl`: external, generated or
  declarative.

## State

Every component with control of its own is modelled. Each safety invariant of the
passing runs, and the safety part of each refinement, is a theorem for every value
of the constants. Open are:

1. the liveness properties, for more than the instances of the runs;
2. hazards without a property, each with its reason in `PROJECT.json`: among them the
   reuse of the counter blocks within a packet (`vfpga_top.svh` L84) and the transfers
   that a call takes over from one that raised (`rdma_module.cpp` L208), which are
   what the code does, the buffer after a failed `pthread_create`
   (`common.c` L145), of which the code promises nothing, and the server of the
   bandwidth distribution experiment (`server_scaling/main.cpp` L103), which never
   leaves its first loop.
