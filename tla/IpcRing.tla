------------------------------- MODULE IpcRing ------------------------------
(***************************************************************************)
(* The single-producer single-consumer ring in POSIX shared memory over    *)
(* which the result thread of a ping client (ProducerQueue, C++) hands its *)
(* reports to a thread of agent_sender.py (ConsumerQueue, Python).         *)
(*                                                                         *)
(* The two sides are different processes with no lock.  A step is at most  *)
(* one access to something the other side also writes; a string copy is    *)
(* two steps, so that a reader and a writer of one slot can meet.  Reports *)
(* are numbered in the order in which writeMessage is called.  A local     *)
(* that is not read again goes back to its initial value.                  *)
(***************************************************************************)
EXTENDS Integers, Sequences, FiniteSets

CONSTANTS
    BufferSize,      \* IPC_BUFFER_SIZE, slots of the ring
    MaxMsg,          \* bound: calls of writeMessage
    MaxStops,        \* bound: ends of the producer (crash, kill, destructor)
    MaxDeaths        \* bound: ends of the consumer thread in the middle of a read

ASSUME RingAssumption ==
    /\ BufferSize \in Nat /\ BufferSize > 1
    /\ MaxMsg \in Nat /\ MaxStops \in Nat /\ MaxDeaths \in Nat

Empty == 0           \* a slot of a fresh, zero-filled mapping
Torn == -1           \* a slot in the middle of strncpy, or a copy of such a slot

Slot == 0 .. BufferSize - 1
Msg == 1 .. MaxMsg

VARIABLES
    slots, head, tail,               \* struct SharedData
    ppc, initLeft, tailVal, cur,     \* producer: where it is, stores to do, locals
    cpc, headSeen, headIndex, copy,  \* consumer: where it is, locals
    batch,                           \* consumer: the list read_messages builds
    called, stops, deaths,           \* counters of calls, producer ends, consumer ends
    accepted,                        \* history: reports writeMessage said true to
    delivered,                       \* history: reports read_messages returned
    lost,                            \* history: reports dropped after acceptance
    orderly                          \* history: no start or end of the producer has
                                     \* cut into a read (see Record)

shared == <<slots, head, tail>>
prod == <<ppc, initLeft, tailVal, cur>>
cons == <<cpc, headSeen, headIndex, copy, batch>>
hist == <<accepted, delivered, lost, orderly>>
vars == <<shared, prod, cons, called, stops, deaths, hist>>

\* Mutant: the index does not wrap.
Next1_NoWrap(i) == i + 1

Next1(i) == (i + 1) % BufferSize

\* The slots from index h up to, not including, index t.
Between(h, t) ==
    IF h <= t THEN h .. t - 1
    ELSE (h .. BufferSize - 1) \cup (0 .. t - 1)

\* What the ring holds.  A constructor that has begun has given it up.
Pending == IF ppc = "init" THEN {} ELSE Between(head, tail)

PendingMsgs == {slots[i] : i \in Pending}
Returned == {delivered[i] : i \in 1 .. Len(delivered)}
InBatch == {batch[i] : i \in 1 .. Len(batch)}

Init ==
    /\ slots = [i \in Slot |-> Empty] /\ head = 0 /\ tail = 0
    /\ ppc = "down" /\ initLeft = {} /\ tailVal = 0 /\ cur = 0
    /\ cpc = "idle" /\ headSeen = 0 /\ headIndex = 0 /\ copy = Empty /\ batch = <<>>
    /\ called = 0 /\ stops = 0 /\ deaths = 0
    /\ accepted = {} /\ delivered = <<>> /\ lost = {} /\ orderly = TRUE

\* What a step adds to the histories.  The constructor and the destructor store
\* head, which belongs to the reader, and look neither at it nor at a start that
\* was cut short.  From such a step on (o = FALSE) nothing is recorded, until a
\* read ends on an empty ring with no constructor at work.
Record(a, d, l, o) ==
    /\ accepted' = IF o THEN a ELSE {}
    /\ delivered' = IF o THEN d ELSE <<>>
    /\ lost' = IF o THEN l ELSE {}
    /\ orderly' = o

-----------------------------------------------------------------------------
(* Producer.                                                               *)

\* shm_open(O_CREAT) finds the segment of the earlier incarnation: the
\* destructor unlinks another name, and a killed process unlinks nothing.
\* Slots keep their contents and an attached consumer stays attached, perhaps
\* in the middle of read_messages.
Construct ==
    /\ ppc = "down"
    /\ ppc' = "init" /\ initLeft' = {"head", "tail"}
    /\ Record(accepted, delivered, lost \cup PendingMsgs, orderly /\ cpc = "idle")
    /\ UNCHANGED <<shared, tailVal, cur, cons, called, stops, deaths>>

\* The two relaxed stores, in either order.
InitIndex(x) ==
    /\ ppc = "init" /\ x \in initLeft
    /\ initLeft' = initLeft \ {x}
    /\ head' = IF x = "head" THEN 0 ELSE head
    /\ tail' = IF x = "tail" THEN 0 ELSE tail
    /\ ppc' = IF initLeft' = {} THEN "idle" ELSE "init"
    /\ UNCHANGED <<slots, tailVal, cur, cons, called, stops, deaths, hist>>

\* writeMessage up to the test: the only store by the other side that it
\* depends on is that of head.  A full ring drops the report.
WriteFull ==
    /\ ppc = "idle" /\ called < MaxMsg
    /\ Next1(tail) = head
    /\ called' = called + 1
    /\ UNCHANGED <<shared, prod, cons, stops, deaths, hist>>

\* Mutant: no test for a full ring.
WriteBegin_NoFullTest ==
    /\ ppc = "idle" /\ called < MaxMsg
    /\ called' = called + 1
    /\ cur' = called + 1 /\ tailVal' = tail
    /\ ppc' = "copy"
    /\ UNCHANGED <<shared, initLeft, cons, stops, deaths, hist>>

WriteBegin ==
    /\ ppc = "idle" /\ called < MaxMsg
    /\ Next1(tail) # head
    /\ called' = called + 1
    /\ cur' = called + 1 /\ tailVal' = tail
    /\ ppc' = "copy"
    /\ UNCHANGED <<shared, initLeft, cons, stops, deaths, hist>>

\* Mutant: tail is stored before the copy.
WriteCopyFirst_TailFirst ==
    /\ ppc = "copy"
    /\ slots' = [slots EXCEPT ![tailVal] = Torn]
    /\ tail' = Next1(tailVal)
    /\ ppc' = "copy2"
    /\ UNCHANGED <<head, initLeft, tailVal, cur, cons, called, stops, deaths, hist>>

\* strncpy into messages[tailVal]: first bytes, last bytes.
WriteCopyFirst ==
    /\ ppc = "copy"
    /\ slots' = [slots EXCEPT ![tailVal] = Torn]
    /\ ppc' = "copy2"
    /\ UNCHANGED <<head, tail, initLeft, tailVal, cur, cons, called, stops, deaths, hist>>

WriteCopyLast ==
    /\ ppc = "copy2"
    /\ slots' = [slots EXCEPT ![tailVal] = cur]
    /\ ppc' = "publish"
    /\ UNCHANGED <<head, tail, initLeft, tailVal, cur, cons, called, stops, deaths, hist>>

WritePublish ==
    /\ ppc = "publish"
    /\ tail' = Next1(tailVal)
    /\ ppc' = "idle"
    /\ Record(accepted \cup {cur}, delivered, lost, orderly)
    /\ tailVal' = 0 /\ cur' = 0
    /\ UNCHANGED <<slots, head, initLeft, cons, called, stops, deaths>>

\* ~ProducerQueue: discardAllPendingMessages, munmap, and shm_unlink of a
\* name that does not exist.  Nothing waits for the consumer.
Destruct ==
    /\ ppc = "idle" /\ stops < MaxStops
    /\ stops' = stops + 1
    /\ head' = tail
    /\ ppc' = "down"
    /\ Record(accepted, delivered, lost \cup PendingMsgs, orderly /\ cpc = "idle")
    /\ UNCHANGED <<slots, tail, initLeft, tailVal, cur, cons, called, deaths>>

\* The process is killed (pingweave.py, systemd) or calls std::terminate, also
\* between the two stores of its constructor.
Crash ==
    /\ ppc # "down" /\ stops < MaxStops
    /\ stops' = stops + 1
    /\ ppc' = "down" /\ initLeft' = {}
    /\ Record(accepted, delivered, lost, orderly /\ ppc # "init")
    /\ tailVal' = 0 /\ cur' = 0
    /\ UNCHANGED <<shared, cons, called, deaths>>

-----------------------------------------------------------------------------
(* Consumer: read_messages, called in a loop by thread_process_messages.   *)

LoadHead ==
    /\ cpc \in {"idle", "loop"}
    /\ headSeen' = head
    /\ cpc' = "test"
    /\ Record(accepted, delivered, lost, orderly /\ ppc # "init")
    /\ UNCHANGED <<shared, prod, headIndex, copy, batch, called, stops, deaths>>

\* head = tail: leave the loop and return the list.
ReadReturn ==
    /\ cpc = "test" /\ headSeen = tail
    /\ batch' = <<>>
    /\ cpc' = "idle"
    /\ Record(accepted, delivered \o (IF orderly THEN batch ELSE <<>>), lost,
              orderly \/ (head = tail /\ ppc # "init"))
    /\ headSeen' = 0
    /\ UNCHANGED <<shared, prod, headIndex, copy, called, stops, deaths>>

\* Mutant: head < tail instead of head != tail.
ReadEnter_Less ==
    /\ cpc = "test" /\ headSeen < tail
    /\ cpc' = "index"
    /\ headSeen' = 0
    /\ UNCHANGED <<shared, prod, headIndex, copy, batch, called, stops, deaths, hist>>

ReadEnter ==
    /\ cpc = "test" /\ headSeen # tail
    /\ cpc' = "index"
    /\ headSeen' = 0
    /\ UNCHANGED <<shared, prod, headIndex, copy, batch, called, stops, deaths, hist>>

\* head_index = self.shared_data.head, the second load.
LoadIndex ==
    /\ cpc = "index"
    /\ headIndex' = head
    /\ cpc' = "copy"
    /\ UNCHANGED <<shared, prod, headSeen, copy, batch, called, stops, deaths, hist>>

\* bytes(c_char_array): first bytes, last bytes.
ReadCopyFirst ==
    /\ cpc = "copy"
    /\ copy' = slots[headIndex]
    /\ cpc' = "copy2"
    /\ UNCHANGED <<shared, prod, headSeen, headIndex, batch, called, stops, deaths, hist>>

\* No step depends on what is in the list; a disturbed one is not followed.
ReadCopyLast ==
    /\ cpc = "copy2"
    /\ batch' = IF ~orderly THEN <<>>
                ELSE Append(batch, IF copy = slots[headIndex] THEN copy ELSE Torn)
    /\ cpc' = "advance"
    /\ UNCHANGED <<shared, prod, headSeen, headIndex, copy, called, stops, deaths, hist>>

\* Mutant: head jumps to tail.
StoreHead_ToTail ==
    /\ cpc = "advance"
    /\ head' = tail
    /\ cpc' = "loop"
    /\ headIndex' = 0 /\ copy' = Empty
    /\ UNCHANGED <<slots, tail, prod, headSeen, batch, called, stops, deaths, hist>>

StoreHead ==
    /\ cpc = "advance"
    /\ head' = Next1(headIndex)
    /\ cpc' = "loop"
    /\ headIndex' = 0 /\ copy' = Empty
    /\ UNCHANGED <<slots, tail, prod, headSeen, batch, called, stops, deaths, hist>>

\* agent_sender's process ends inside read_messages; a later thread maps the
\* segment again and starts from the head it finds there.
ConsumerDies ==
    /\ cpc # "idle" /\ deaths < MaxDeaths
    /\ deaths' = deaths + 1
    /\ batch' = <<>> /\ cpc' = "idle"
    /\ Record(accepted, delivered, lost \cup (InBatch \ PendingMsgs), orderly)
    /\ headSeen' = 0 /\ headIndex' = 0 /\ copy' = Empty
    /\ UNCHANGED <<shared, prod, called, stops>>

-----------------------------------------------------------------------------
Producer ==
    \/ Construct \/ \E x \in {"head", "tail"} : InitIndex(x)
    \/ WriteFull \/ WriteBegin \/ WriteCopyFirst \/ WriteCopyLast \/ WritePublish
    \/ Destruct \/ Crash

ConsumerSteps ==
    \/ LoadHead \/ ReadReturn \/ ReadEnter \/ LoadIndex
    \/ ReadCopyFirst \/ ReadCopyLast \/ StoreHead

Next == Producer \/ ConsumerSteps \/ ConsumerDies

Spec == Init /\ [][Next]_vars

\* agent_sender restarts a dead thread and calls read_messages once a second,
\* so the consumer always takes its next step.  A producer that started is
\* scheduled too.  Nothing forces a writeMessage, a stop or a start.
FairSpec ==
    /\ Spec
    /\ WF_vars(ConsumerSteps)
    /\ WF_vars(\E x \in {"head", "tail"} : InitIndex(x))
    /\ WF_vars(WriteCopyFirst \/ WriteCopyLast \/ WritePublish)

-----------------------------------------------------------------------------
(* Properties.                                                             *)

TypeOK ==
    /\ slots \in [Slot -> Msg \cup {Empty, Torn}] /\ head \in Slot /\ tail \in Slot
    /\ ppc \in {"down", "init", "idle", "copy", "copy2", "publish"}
    /\ initLeft \subseteq {"head", "tail"} /\ tailVal \in Slot /\ cur \in Msg \cup {0}
    /\ cpc \in {"idle", "loop", "test", "index", "copy", "copy2", "advance"}
    /\ headSeen \in Slot /\ headIndex \in Slot /\ copy \in Msg \cup {Empty, Torn}
    /\ batch \in Seq(Msg \cup {Empty, Torn})
    /\ called \in 0 .. MaxMsg /\ stops \in 0 .. MaxStops /\ deaths \in 0 .. MaxDeaths
    /\ accepted \subseteq Msg /\ delivered \in Seq(Msg \cup {Empty, Torn})
    /\ lost \subseteq Msg \cup {Empty, Torn} /\ orderly \in BOOLEAN

Increasing(seq) == \A i, j \in 1 .. Len(seq) : i < j => seq[i] < seq[j]

\* Mutual exclusion without a lock: strncpy and the consumer's copy never
\* work on one slot at the same time (writeMessage stops one slot before
\* head, read_messages stops at tail), as long as no start or end of the
\* producer cuts into a read.
NoSlotRace ==
    orderly =>
        ~ (ppc \in {"copy", "copy2"} /\ cpc \in {"copy", "copy2"} /\ tailVal = headIndex)

\* What read_messages builds and returns is a run of accepted reports in the
\* order of the writeMessage calls: no report twice, none out of order, none
\* half-written, none from an unwritten slot; also when either side ended and
\* came back, but only until a constructor or destructor cuts into a read.
DeliveredInOrder ==
    orderly =>
        /\ Returned \cup InBatch \subseteq accepted
        /\ Increasing(delivered) /\ Increasing(batch)
        /\ \A m \in Returned, n \in InBatch : m < n

\* writeMessage's true is a promise: an accepted report is in the ring, on its
\* way or handed over, unless a process ended (lost); and what was lost with a
\* process is not handed over later, as long as no read was cut into.
NothingVanishes ==
    orderly =>
        /\ accepted = PendingMsgs \cup InBatch \cup Returned \cup lost
        /\ lost \cap Returned = {}

\* The disturbance ends: whatever a start or an end of the producer did to the
\* indices under a running read, and however a constructor was cut short, the
\* consumer's loop works its way to an empty ring and order returns.
OrderReturns == ~orderly ~> orderly

\* The inductive invariant of an orderly ring.
\* Where the producer is:
ProducerInv ==
    /\ ppc = "init" => cpc = "idle" /\ initLeft # {}
    /\ ppc = "init" /\ "head" \notin initLeft => head = 0
    /\ ppc = "init" /\ "tail" \notin initLeft => tail = 0
    /\ ppc \in {"copy", "copy2", "publish"} =>
           /\ tailVal = tail /\ Next1(tail) # head
           /\ cur = called /\ cur > 0 /\ \A m \in accepted : m < cur
    /\ ppc = "publish" => slots[tail] = cur
    /\ \A m \in accepted : m <= called

\* Where the consumer is:
ConsumerInv ==
    /\ cpc = "idle" => batch = <<>>
    /\ cpc = "test" => headSeen = head
    /\ cpc \in {"index", "copy", "copy2", "advance"} => head # tail
    /\ cpc \in {"copy", "copy2", "advance"} => headIndex = head
    /\ cpc = "copy2" => copy = slots[head]
    /\ cpc = "advance" => batch # <<>> /\ batch[Len(batch)] = slots[head]

\* Reports the consumer is done with (the last of the list still waits for
\* the store of head when cpc = "advance").
Done ==
    Returned \cup
    {batch[i] : i \in 1 .. (IF cpc = "advance" THEN Len(batch) - 1 ELSE Len(batch))}

\* How far a slot is from the head h.
Rank(h, i) == IF i >= h THEN i - h ELSE i - h + BufferSize

\* What the ring holds, in which order, and that all of it is still to come:
ContentsInv ==
    /\ \A i \in Pending : slots[i] \in accepted
    /\ \A i, j \in Pending : Rank(head, i) < Rank(head, j) => slots[i] < slots[j]
    /\ \A m \in Done, i \in Pending : m < slots[i]
    /\ lost \cap (PendingMsgs \cup InBatch) = {}

RingInv ==
    /\ orderly
    /\ TypeOK /\ ProducerInv /\ ConsumerInv /\ ContentsInv
    /\ DeliveredInOrder /\ NothingVanishes

\* What stays true of a write in progress when order is lost: tail and the
\* slots are the producer's alone.
WriterInv ==
    /\ ppc \in {"copy", "copy2", "publish"} => tailVal = tail /\ cur = called /\ cur > 0
    /\ ppc = "publish" => slots[tail] = cur

Unrecorded == ~orderly => accepted = {} /\ delivered = <<>> /\ lost = {}

DisturbedInv == TypeOK /\ WriterInv /\ Unrecorded /\ (orderly => RingInv)

\* Every accepted report reaches agent_sender unless a process ended on it or a
\* start or end of the producer cut into a read.
AcceptedIsDelivered ==
    \A m \in Msg : m \in accepted /\ orderly ~> m \in Returned \cup lost \/ ~orderly

\* The ring implements the bounded FIFO of IpcQueue with one slot unused.
\* Between the copy into the list and the store of head a report is in both
\* places; it still counts as queued.  A disturbed ring promises nothing until
\* order returns.
RingAsSeq ==
    [i \in 1 .. Cardinality(Pending) |-> slots[(head + i - 1) % BufferSize]]

TakenSeq ==
    IF cpc = "advance" THEN SubSeq(batch, 1, Len(batch) - 1) ELSE batch

Queue == INSTANCE IpcQueue WITH
    Capacity <- BufferSize - 1,
    Reports <- Msg,
    sound <- orderly,
    up <- ppc \notin {"down", "init"},
    queue <- RingAsSeq,
    taken <- TakenSeq,
    out <- delivered

\* Every step of the two processes is a step of the bounded FIFO or invisible,
\* with the ends and starts of either one, up to the one that cuts into a read;
\* when order returns it is an empty FIFO again.
ImplementsQueue == Queue!QSpec
=============================================================================
