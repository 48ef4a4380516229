------------------------------ MODULE RwQueue ------------------------------
(***************************************************************************)
(* The queue through which the threads of one process hand results to each *)
(* other: client_queue from the ping table to the result thread, and       *)
(* server_queue from the receiving to the sending thread.  It is           *)
(* moodycamel::BlockingReaderWriterQueue of libs/readerwriterqueue:        *)
(*                                                                         *)
(*   inner   a ring of blocks, each a ring of slots.  The producer owns    *)
(*           the tails, the consumer owns the fronts, each reads the       *)
(*           other's and keeps a copy (localFront, localTail);             *)
(*   sema    a count that goes below zero while the consumer sleeps, and a *)
(*           semaphore of the operating system to sleep on.                *)
(*                                                                         *)
(* The project calls try_enqueue (always with a mutex held, or from one    *)
(* thread, so there is one producer at a time) and wait_dequeue_timed.     *)
(* A step reads or writes at most one location that the other thread uses; *)
(* the fences of the code make the steps of a thread visible in order.     *)
(***************************************************************************)
EXTENDS Integers, Sequences, FiniteSets, Functions

CONSTANTS
    MaxBlockSize,    \* MAX_BLOCK_SIZE (512)
    Sizes,           \* sizes the queue is constructed for (MSG_QUEUE_SIZE = 65536)
    MaxItems         \* bound: calls of try_enqueue

ASSUME RwQueueAssumption ==
    /\ MaxBlockSize \in Nat /\ MaxBlockSize >= 2
    /\ Sizes \subseteq Nat \ {0} /\ MaxItems \in Nat

Items == 1 .. MaxItems
None == 0

VARIABLES
    size,                        \* what the constructor was given
    blocks, blockSize,           \* the ring of blocks it built
    frontBlock, tailBlock,
    front, tail,                 \* of each block
    localFront, localTail,       \* of each block: the producer's and consumer's copies
    data,                        \* [block][slot]
    ppc, item, sawFull,          \* producer; sawFull is history
    cpc, result,                 \* consumer
    m_count, m_sema,
    accepted, out                \* history: items taken in, items handed over

shape == <<size, blocks, blockSize>>
inner == <<frontBlock, tailBlock, front, tail, localFront, localTail, data>>
sema == <<m_count, m_sema>>
producer == <<ppc, item, sawFull>>
consumer == <<cpc, result>>
history == <<accepted, out>>
vars == <<shape, inner, producer, consumer, sema, history>>

-----------------------------------------------------------------------------
(* The constructor.                                                        *)

Pow2 == {p \in 1 .. 4 ^ MaxBlockSize : \E k \in 0 .. 2 * MaxBlockSize : p = 2 ^ k}
ceilToPow2(x) == CHOOSE p \in Pow2 : p >= x /\ \A q \in Pow2 : q >= x => q >= p

\* The powers looked through reach past every size.
ASSUME PowersAssumption ==
    \A n \in Sizes : \E p \in Pow2 : p >= n + 1 /\ \A q \in Pow2 : q >= n + 1 => q >= p

\* Mutant: no spare block.
initialBlockCount_NoSpare(n) ==
    IF ceilToPow2(n + 1) <= 2 * MaxBlockSize THEN 1
    ELSE (n + MaxBlockSize - 2) \div (MaxBlockSize - 1)

\* One block if the size fits, otherwise blocks of MAX_BLOCK_SIZE, one of them
\* to spare.
initialBlockCount(n) ==
    IF ceilToPow2(n + 1) <= 2 * MaxBlockSize THEN 1
    ELSE (n + 2 * MaxBlockSize - 3) \div (MaxBlockSize - 1)
largestBlockSize(n) ==
    IF ceilToPow2(n + 1) <= 2 * MaxBlockSize THEN ceilToPow2(n + 1) ELSE MaxBlockSize

Blocks == 0 .. blocks - 1
Slots == 0 .. blockSize - 1
NextBlock(b) == (b + 1) % blocks
NextSlot(i) == (i + 1) % blockSize

Init ==
    /\ size \in Sizes
    /\ blocks = initialBlockCount(size) /\ blockSize = largestBlockSize(size)
    /\ frontBlock = 0 /\ tailBlock = 0
    /\ front = [b \in Blocks |-> 0] /\ tail = [b \in Blocks |-> 0]
    /\ localFront = [b \in Blocks |-> 0] /\ localTail = [b \in Blocks |-> 0]
    /\ data = [b \in Blocks |-> [i \in Slots |-> None]]
    /\ ppc = "idle" /\ item = 0 /\ sawFull = FALSE
    /\ cpc = "idle" /\ result = None
    /\ m_count = 0 /\ m_sema = 0
    /\ accepted = <<>> /\ out = <<>>

\* The slots in use: from the front of a block up to its tail.
Used(b) == {i \in Slots : IF front[b] <= tail[b] THEN front[b] <= i /\ i < tail[b]
                          ELSE front[b] <= i \/ i < tail[b]}
Live == {p \in Blocks \X Slots : p[2] \in Used(p[1])}

-----------------------------------------------------------------------------
(* Producer: try_enqueue of the next item.                                 *)

PGoto(there) == ppc' = there /\ UNCHANGED <<item, sawFull>>

\* Mutant: the last slot of a block is used too, as if it were not needed to
\* tell a full block from an empty one.
try_enqueue_AllSlots ==
    /\ ppc = "idle" /\ item < MaxItems
    /\ item' = item + 1
    /\ ppc' = "write" /\ sawFull' = FALSE
    /\ UNCHANGED <<shape, inner, consumer, sema, history>>

\* Is there room in the tail block?  The copy of its front is asked first.
try_enqueue ==
    /\ ppc = "idle" /\ item < MaxItems
    /\ item' = item + 1
    /\ LET b == tailBlock
           next == NextSlot(tail[b])
       IN  IF next # localFront[b]
           THEN ppc' = "write" /\ sawFull' = FALSE /\ UNCHANGED localFront
           ELSE /\ localFront' = [localFront EXCEPT ![b] = front[b]]
                /\ ppc' = IF next # front[b] THEN "write" ELSE "full"
                /\ sawFull' = (Cardinality(Live) >= size)
    /\ UNCHANGED <<shape, frontBlock, tailBlock, front, tail, localTail, data,
                   consumer, sema, history>>

WriteSlot ==
    /\ ppc = "write"
    /\ data' = [data EXCEPT ![tailBlock][tail[tailBlock]] = item]
    /\ PGoto("publish")
    /\ UNCHANGED <<shape, frontBlock, tailBlock, front, tail, localFront, localTail,
                   consumer, sema, history>>

Publish ==
    /\ ppc = "publish"
    /\ tail' = [tail EXCEPT ![tailBlock] = NextSlot(@)]
    /\ accepted' = Append(accepted, item)
    /\ PGoto("signal")
    /\ UNCHANGED <<shape, frontBlock, tailBlock, front, localFront, localTail, data,
                   consumer, sema, out>>

\* Mutant: the block of the consumer is not spared.
TailBlockFull_TakesFront ==
    /\ ppc = "full"
    /\ PGoto(IF blocks > 1 THEN "advance" ELSE "refused")
    /\ UNCHANGED <<shape, inner, consumer, sema, history>>

\* The tail block is full: the next block is used unless the consumer is there.
TailBlockFull ==
    /\ ppc = "full"
    /\ PGoto(IF NextBlock(tailBlock) # frontBlock THEN "advance" ELSE "refused")
    /\ UNCHANGED <<shape, inner, consumer, sema, history>>

\* The caller gets false, counts nothing and goes on.
Refused ==
    /\ ppc = "refused"
    /\ PGoto("idle")
    /\ UNCHANGED <<shape, inner, consumer, sema, history>>

ReadNextFront ==
    /\ ppc = "advance"
    /\ localFront' = [localFront EXCEPT ![NextBlock(tailBlock)] = front[NextBlock(tailBlock)]]
    /\ PGoto("write_next")
    /\ UNCHANGED <<shape, frontBlock, tailBlock, front, tail, localTail, data,
                   consumer, sema, history>>

WriteNextSlot ==
    /\ ppc = "write_next"
    /\ LET b == NextBlock(tailBlock)
       IN  data' = [data EXCEPT ![b][tail[b]] = item]
    /\ PGoto("publish_next")
    /\ UNCHANGED <<shape, frontBlock, tailBlock, front, tail, localFront, localTail,
                   consumer, sema, history>>

PublishNext ==
    /\ ppc = "publish_next"
    /\ tail' = [tail EXCEPT ![NextBlock(tailBlock)] = NextSlot(@)]
    /\ PGoto("advance_tail")
    /\ UNCHANGED <<shape, frontBlock, tailBlock, front, localFront, localTail, data,
                   consumer, sema, history>>

AdvanceTail ==
    /\ ppc = "advance_tail"
    /\ tailBlock' = NextBlock(tailBlock)
    /\ accepted' = Append(accepted, item)
    /\ PGoto("signal")
    /\ UNCHANGED <<shape, frontBlock, front, tail, localFront, localTail, data,
                   consumer, sema, out>>

\* Mutant: the semaphore is posted only for more than one waiting thread.
signal_Strict ==
    /\ ppc = "signal"
    /\ m_count' = m_count + 1
    /\ PGoto(IF m_count < -1 THEN "post" ELSE "idle")
    /\ UNCHANGED <<shape, inner, consumer, m_sema, history>>

\* signal: the count first, then the semaphore if the consumer sleeps.
signal ==
    /\ ppc = "signal"
    /\ m_count' = m_count + 1
    /\ PGoto(IF m_count < 0 THEN "post" ELSE "idle")
    /\ UNCHANGED <<shape, inner, consumer, m_sema, history>>

Post ==
    /\ ppc = "post"
    /\ m_sema' = m_sema + 1
    /\ PGoto("idle")
    /\ UNCHANGED <<shape, inner, consumer, m_count, history>>

-----------------------------------------------------------------------------
(* Consumer: wait_dequeue_timed, first the semaphore ...                   *)

CGoto(there) == cpc' = there /\ UNCHANGED result

\* tryWait and the spinning of waitWithPartialSpinning: the count is looked at
\* until it is positive, or until the consumer has spun long enough.
Spin ==
    /\ cpc = "idle"
    /\ CGoto(IF m_count > 0 THEN "take" ELSE "wait")
    /\ UNCHANGED <<shape, inner, producer, sema, history>>

TakeOne ==
    /\ cpc = "take"
    /\ m_count' = m_count - 1
    /\ CGoto("dequeue")
    /\ UNCHANGED <<shape, inner, producer, m_sema, history>>

waitWithPartialSpinning ==
    /\ cpc = "wait"
    /\ m_count' = m_count - 1
    /\ CGoto(IF m_count > 0 THEN "dequeue" ELSE "sleep")
    /\ UNCHANGED <<shape, inner, producer, m_sema, history>>

Wake ==
    /\ cpc = "sleep" /\ m_sema > 0
    /\ m_sema' = m_sema - 1
    /\ CGoto("dequeue")
    /\ UNCHANGED <<shape, inner, producer, m_count, history>>

\* WAIT_DEQUEUE_TIME_MS is over.
TimeOut ==
    /\ cpc = "sleep" /\ m_sema = 0
    /\ CGoto("restore")
    /\ UNCHANGED <<shape, inner, producer, sema, history>>

\* Mutant: the count is restored and nobody asks whether it was signalled.
Restore_Blind ==
    /\ cpc = "restore"
    /\ m_count' = m_count + 1
    /\ CGoto("idle")
    /\ UNCHANGED <<shape, inner, producer, m_sema, history>>

\* After a timeout the count is restored, unless it was signalled meanwhile:
\* then the semaphore has been posted, or will be, and must be taken.
Restore ==
    /\ cpc = "restore"
    /\ m_count' = m_count + 1
    /\ CGoto(IF m_count < 0 THEN "idle" ELSE "again")
    /\ UNCHANGED <<shape, inner, producer, m_sema, history>>

Again ==
    /\ cpc = "again"
    /\ m_count' = m_count - 1
    /\ CGoto(IF m_count > 0 THEN "try_wait" ELSE "restore")
    /\ UNCHANGED <<shape, inner, producer, m_sema, history>>

TryWait ==
    /\ cpc = "try_wait"
    /\ m_sema' = IF m_sema > 0 THEN m_sema - 1 ELSE m_sema
    /\ CGoto(IF m_sema > 0 THEN "dequeue" ELSE "restore")
    /\ UNCHANGED <<shape, inner, producer, m_count, history>>

-----------------------------------------------------------------------------
(* ... then try_dequeue.                                                   *)

\* Is there an item in the front block?  The copy of its tail is asked first.
try_dequeue ==
    /\ cpc = "dequeue"
    /\ LET b == frontBlock
       IN  IF front[b] # localTail[b]
           THEN CGoto("read") /\ UNCHANGED localTail
           ELSE /\ localTail' = [localTail EXCEPT ![b] = tail[b]]
                /\ CGoto(IF front[b] # tail[b] THEN "read" ELSE "empty")
    /\ UNCHANGED <<shape, frontBlock, tailBlock, front, tail, localFront, data,
                   producer, sema, history>>

FrontBlockEmpty ==
    /\ cpc = "empty"
    /\ CGoto(IF frontBlock # tailBlock THEN "recheck" ELSE "nothing")
    /\ UNCHANGED <<shape, inner, producer, sema, history>>

\* The producer may have filled the front block before it moved on.
Recheck ==
    /\ cpc = "recheck"
    /\ localTail' = [localTail EXCEPT ![frontBlock] = tail[frontBlock]]
    /\ CGoto(IF front[frontBlock] # tail[frontBlock] THEN "read" ELSE "next")
    /\ UNCHANGED <<shape, frontBlock, tailBlock, front, tail, localFront, data,
                   producer, sema, history>>

ReadNextTail ==
    /\ cpc = "next"
    /\ localTail' = [localTail EXCEPT ![NextBlock(frontBlock)] = tail[NextBlock(frontBlock)]]
    /\ CGoto("advance")
    /\ UNCHANGED <<shape, frontBlock, tailBlock, front, tail, localFront, data,
                   producer, sema, history>>

AdvanceFront ==
    /\ cpc = "advance"
    /\ frontBlock' = NextBlock(frontBlock)
    /\ CGoto("read")
    /\ UNCHANGED <<shape, tailBlock, front, tail, localFront, localTail, data,
                   producer, sema, history>>

ReadSlot ==
    /\ cpc = "read"
    /\ result' = data[frontBlock][front[frontBlock]]
    /\ cpc' = "release"
    /\ UNCHANGED <<shape, inner, producer, sema, history>>

Release ==
    /\ cpc = "release"
    /\ front' = [front EXCEPT ![frontBlock] = NextSlot(@)]
    /\ out' = Append(out, result)
    /\ cpc' = "idle" /\ result' = None
    /\ UNCHANGED <<shape, frontBlock, tailBlock, tail, localFront, localTail, data,
                   producer, sema, accepted>>

-----------------------------------------------------------------------------
EnqueueGoesOn ==
    \/ WriteSlot \/ Publish
    \/ TailBlockFull \/ Refused
    \/ ReadNextFront \/ WriteNextSlot \/ PublishNext \/ AdvanceTail
    \/ signal \/ Post

Consume ==
    \/ Spin \/ TakeOne \/ waitWithPartialSpinning \/ Wake \/ TimeOut
    \/ Restore \/ Again \/ TryWait
    \/ try_dequeue \/ FrontBlockEmpty \/ Recheck \/ ReadNextTail \/ AdvanceFront
    \/ ReadSlot \/ Release

Next == try_enqueue \/ EnqueueGoesOn \/ Consume

Spec == Init /\ [][Next]_vars

\* The result thread and the sending thread loop on wait_dequeue_timed, and a
\* call that has begun goes on; nothing is assumed about new calls.
FairSpec == Spec /\ WF_vars(EnqueueGoesOn) /\ WF_vars(Consume)

-----------------------------------------------------------------------------
(* Properties.                                                             *)

\* The type invariant.
TypeOK ==
    /\ size \in Sizes /\ blocks \in Nat /\ blockSize \in Nat
    /\ frontBlock \in Blocks /\ tailBlock \in Blocks
    /\ {front, tail, localFront, localTail} \subseteq [Blocks -> Slots]
    /\ data \in [Blocks -> [Slots -> Items \cup {None}]]
    /\ item \in 0 .. MaxItems /\ result \in Items \cup {None} /\ sawFull \in BOOLEAN
    /\ ppc \in {"idle", "write", "publish", "full", "refused", "advance", "write_next",
                "publish_next", "advance_tail", "signal", "post"}
    /\ cpc \in {"idle", "take", "wait", "sleep", "restore", "again", "try_wait", "dequeue",
                "empty", "recheck", "next", "advance", "read", "release"}
    /\ m_count \in -1 .. MaxItems + 1 /\ m_sema \in 0 .. 1
    /\ accepted \in Seq(Items) /\ out \in Seq(Items) /\ Len(out) <= Len(accepted)

\* The slots the two threads are at.
PSlot == CASE ppc = "write" -> {<<tailBlock, tail[tailBlock]>>}
           [] ppc = "write_next" -> {<<NextBlock(tailBlock), tail[NextBlock(tailBlock)]>>}
           [] OTHER -> {}
CSlot == IF cpc = "read" THEN {<<frontBlock, front[frontBlock]>>} ELSE {}

\* No slot is written while it is read, although each thread goes by a copy of
\* the other's index.
NoSlotRace == PSlot \cap CSlot = {}

\* The assertions of the library, which the build keeps: a wait that succeeded
\* finds an item ("nothing" is try_dequeue's false), the next block has one when
\* the consumer moves on and is empty when the producer does, and the count
\* never falls below -1.
AssertionsHold ==
    /\ cpc # "nothing"
    /\ cpc = "advance" => front[NextBlock(frontBlock)] # localTail[NextBlock(frontBlock)]
    /\ ppc = "write_next" => localFront[NextBlock(tailBlock)] = tail[NextBlock(tailBlock)]
    /\ m_count >= -1

\* The assertions on states of the right type: indices, count and post of the
\* semaphore stay in range however timeouts and signals meet.
QueueInv == TypeOK /\ AssertionsHold

\* "can hold at least size elements": try_enqueue refuses an item only if the
\* queue held that many when it looked, wherever front and tail block are.
RefusedOnlyWhenFull == ppc = "refused" => sawFull

\* What was taken in and not yet handed over, in its order.
Waiting == SubSeq(accepted, Len(out) + 1, Len(accepted))

Fifo == INSTANCE MsgQueue WITH queue <- Waiting

\* The blocks implement a FIFO: the consumer gets the items that were taken in,
\* in their order and each of them once, wherever the blocks wrap around.
ImplementsFifo == Fifo!QSpec

\* No wake-up is lost, also when a timeout meets a signal: what try_enqueue
\* took in reaches the consumer.
EnqueuedIsDequeued == \A m \in Items : m \in Range(accepted) ~> m \in Range(out)
=============================================================================
