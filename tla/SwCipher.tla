------------------------------ MODULE SwCipher ------------------------------
(***************************************************************************)
(* The multi-threaded AES-CTR of the software baseline (common.c): a call  *)
(* cuts the buffer into one run of blocks per thread, gives each thread    *)
(* the IV moved on to its first block, creates the threads and joins them. *)
(* Two calls follow each other here, an encryption and a decryption of the *)
(* same buffer with the same IV, as the client's and the server's are.     *)
(*                                                                         *)
(* A block is the set of counters whose key stream it has been xor'ed with *)
(* an odd number of times: the empty set is plain text.                    *)
(***************************************************************************)
EXTENDS Integers, FiniteSets

CONSTANTS
    MAX_THREADS,  \* 32 in the code
    BYTE,         \* values of a byte (256 in the code)
    IV_BYTES,     \* bytes of an IV (16 in the code)
    BufferSizes,  \* buffer sizes, in blocks
    Ivs           \* the initial vectors, as numbers

ASSUME ThreadsAssumption == MAX_THREADS \in Nat \ {0}
ASSUME BytesAssumption == BYTE \in Nat \ {0, 1} /\ IV_BYTES \in Nat \ {0}
\* An empty buffer divides by zero in the code; START_SIZE excludes it.
ASSUME SizesAssumption == BufferSizes \subseteq Nat \ {0}

\* An IV is a number.  Its bytes are counted from the least significant one,
\* iv[15] in the code, and this is what a one in byte k counts.
Weight[k \in Nat] == IF k = 0 THEN 1 ELSE BYTE * Weight[k - 1]
ByteOf(n, k) == (n \div Weight[k]) % BYTE

Counters == 0 .. Weight[IV_BYTES] - 1

ASSUME IvsAssumption == Ivs \subseteq Counters

Threads == 0 .. MAX_THREADS - 1
CipherCalls == {"encrypt", "decrypt"}

VARIABLES
    caller,    \* where the calling thread is: "create", "join" or "over"
    call,      \* the call it is in
    size, iv,  \* its arguments
    next,      \* index of the next thread to create or to join
    failed,    \* a pthread_create has failed
    work,      \* per call and thread: next block, end of the run, next counter
    text       \* the buffer

cipherVars == <<caller, call, size, iv, next, failed, work, text>>

\* Mutant: no carry at all.
AddByteNoCarry(n, acc, k) ==
    LET sum == ByteOf(n, k) + (acc.val % BYTE)
    IN  [iv |-> acc.iv + (sum % BYTE) * Weight[k], val |-> acc.val \div BYTE]

\* One byte of iv_increment's loop, after k bytes of n that gave acc.iv.
\* sum >> 8 is 0 or 1; or'ed into val >> 8 it is lost if that is odd.  (The
\* loop's early break skips only bytes that would not change.)
AddByte(n, acc, k) ==
    LET sum == ByteOf(n, k) + (acc.val % BYTE)
        rest == acc.val \div BYTE
    IN  [iv  |-> acc.iv + (sum % BYTE) * Weight[k],
         val |-> IF sum >= BYTE /\ rest % 2 = 0 THEN rest + 1 ELSE rest]

IvIncrement(n, val) ==
    LET loop[k \in Nat] == IF k = 0
                           THEN [iv |-> 0, val |-> val]
                           ELSE AddByte(n, loop[k - 1], k - 1)
    IN  loop[IV_BYTES].iv

NumThreads == IF size < MAX_THREADS THEN size ELSE MAX_THREADS
BlocksPerThread == size \div NumThreads
RemainingBlocks == size % NumThreads

\* Mutant: no thread takes the remainder.
ThreadDataNoRemainder(i) ==
    [block |-> i * BlocksPerThread,
     end   |-> (i + 1) * BlocksPerThread,
     ctr   |-> IvIncrement(iv, i * BlocksPerThread)]

\* The thread_data of thread i: the last thread also takes the remainder.
ThreadData(i) ==
    [block |-> i * BlocksPerThread,
     end   |-> (i + 1) * BlocksPerThread
               + (IF i = NumThreads - 1 THEN RemainingBlocks ELSE 0),
     ctr   |-> IvIncrement(iv, i * BlocksPerThread)]

Idle == [block |-> 0, end |-> 0, ctr |-> 0]

CipherInit ==
    /\ caller = "create"
    /\ call = "encrypt"
    /\ size \in BufferSizes
    /\ iv \in Ivs
    /\ next = 0
    /\ failed = FALSE
    /\ work = [c \in CipherCalls |-> [i \in Threads |-> Idle]]
    /\ text = [b \in 0 .. size - 1 |-> {}]

\* The call returns; the caller goes on to the next one, whatever happened.
Return ==
    IF call = "encrypt"
    THEN caller' = "create" /\ call' = "decrypt" /\ next' = 0
    ELSE caller' = "over" /\ UNCHANGED <<call, next>>

CreateThread ==
    /\ caller = "create"
    /\ next < NumThreads
    /\ work' = [work EXCEPT ![call][next] = ThreadData(next)]
    /\ next' = IF next + 1 = NumThreads THEN 0 ELSE next + 1
    /\ caller' = IF next + 1 = NumThreads THEN "join" ELSE "create"
    /\ UNCHANGED <<call, size, iv, failed, text>>

\* A failed pthread_create returns at once: the threads that were created
\* run on, and nobody joins them.  (They may then race with the next call's
\* threads for the buffer; nothing is claimed of its contents from here on.)
CreateThreadFails ==
    /\ caller = "create"
    /\ next < NumThreads
    /\ failed' = TRUE
    /\ Return
    /\ UNCHANGED <<size, iv, work, text>>

Runs(c, i) == work[c][i].block < work[c][i].end

\* The thread's loop: one block, and OpenSSL's counter moves on by one.
ProcessBlock(c, i) ==
    LET w == work[c][i] IN
    /\ Runs(c, i)
    /\ text' = [text EXCEPT ![w.block] = (@ \ {w.ctr}) \cup ({w.ctr} \ @)]
    /\ work' = [work EXCEPT ![c][i] =
           [w EXCEPT !.block = @ + 1, !.ctr = (@ + 1) % Weight[IV_BYTES]]]
    /\ UNCHANGED <<caller, call, size, iv, next, failed>>

\* Mutant: the join does not wait for the thread to end.
JoinThreadUnawaited ==
    /\ caller = "join"
    /\ IF next + 1 = NumThreads
       THEN Return
       ELSE next' = next + 1 /\ UNCHANGED <<caller, call>>
    /\ UNCHANGED <<size, iv, failed, work, text>>

JoinThread ==
    /\ caller = "join"
    /\ ~Runs(call, next)
    /\ IF next + 1 = NumThreads
       THEN Return
       ELSE next' = next + 1 /\ UNCHANGED <<caller, call>>
    /\ UNCHANGED <<size, iv, failed, work, text>>

CipherNext ==
    \/ CreateThread
    \/ CreateThreadFails
    \/ JoinThread
    \/ \E c \in CipherCalls, i \in Threads : ProcessBlock(c, i)

CipherSpec == CipherInit /\ [][CipherNext]_cipherVars
-----------------------------------------------------------------------------
\* Between the two calls.
Encrypted == call = "decrypt" /\ caller = "create" /\ next = 0

\* A call in which every thread was created leaves each block encrypted
\* exactly once, the remainder of the division included, and no thread of it
\* running.
EachBlockOnce ==
    Encrypted /\ ~failed =>
        /\ \A b \in 0 .. size - 1 : Cardinality(text[b]) = 1
        /\ \A i \in Threads : ~Runs("encrypt", i)

\* Decryption undoes encryption: both cut the buffer alike, so even a counter
\* that iv_increment gets wrong is the same one on both sides.
PlainAgain == caller = "over" /\ ~failed => \A b \in 0 .. size - 1 : text[b] = {}

\* The result is that of one thread running through the buffer, provided that
\* no thread's first counter needs a carry next to an odd part of the offset.
CarryLost(n, val) ==
    \E k \in 1 .. IV_BYTES - 1 :
        /\ (n % Weight[k]) + (val % Weight[k]) >= Weight[k]
        /\ (val \div Weight[k]) % 2 = 1

Sequential ==
    \A b \in 0 .. size - 1 : text[b] = {(iv + b) % Weight[IV_BYTES]}

SequentialUnlessCarryLost ==
    /\ Encrypted /\ ~failed
    /\ \A i \in 0 .. NumThreads - 1 : ~CarryLost(iv, i * BlocksPerThread)
    => Sequential

\* Every carry of iv_increment reaches the next byte.
CarriesAreAdded == Encrypted /\ ~failed => Sequential
=============================================================================
