----------------------------- MODULE RdmaServer -----------------------------
(***************************************************************************)
(* The RDMA ping server: rx thread, tx thread, tx_cqe thread, the queue    *)
(* between the first two, the table PingMsgMap that the last two share,    *)
(* and the send buffers, which both of them copy into without a lock and   *)
(* which the NIC reads after post_send has returned.                       *)
(*                                                                         *)
(* A PING is answered with a PONG; when the NIC reports that the PONG has  *)
(* left, an ACK follows with the time between the arrival of the PING and  *)
(* the departure of the PONG.  rx and tx_cqe sleep until the NIC has an    *)
(* event for them (module CqNotify).                                       *)
(***************************************************************************)
EXTENDS Integers, FiniteSets, SequencesExt

CONSTANTS
    Pings,           \* ids of the PINGs that arrive, each once; an id also stands
                     \* for the address of its client
    HwTs,            \* rnic_hw_ts: the NIC stamps completions
    Inline,          \* IBV_SEND_INLINE: post_send copies the message for the NIC
    NumBuf,          \* NUM_BUFFER: send buffers, send and receive work requests
    BatchCqe,        \* BATCH_CQE: completions of one ibv_poll_cq
    QueueSize,       \* MSG_QUEUE_SIZE
    Threshold,       \* PINGWEAVE_TABLE_EXPIRY_TIME_RDMA_MS
    Modulo,          \* PINGWEAVE_TIME_CALC_MODULO
    ClockStart,      \* what the clocks show at the start
    MaxTicks,        \* bound: clock ticks
    MaxErr           \* bound: sends that complete with an error

ASSUME ServerAssumption ==
    /\ Pings \subseteq Nat /\ IsFiniteSet(Pings)
    /\ HwTs \in BOOLEAN /\ Inline \in BOOLEAN
    /\ NumBuf \in Nat \ {0} /\ BatchCqe \in Nat \ {0} /\ QueueSize \in Nat \ {0}
    /\ Threshold \in Nat \ {0} /\ Modulo \in Nat \ {0}
    /\ ClockStart \in Nat /\ MaxTicks \in Nat /\ MaxErr \in Nat

NoMsg == [kind |-> "none", id |-> 0, delay |-> 0]
NoPing == [id |-> 0, time |-> 0]

VARIABLES
    now,                    \* steady clock and NIC clock
    arrivals,               \* receive completions: [id, time]
    rxEvent, rxTodo,        \* rx thread: its notification, completions of its batch to do
    server_queue,
    txpc, ping_msg,         \* tx thread: where it is, its PING
    map, keyList,           \* PingMsgMap: id -> [time, ts], ids by age
    buf,                    \* send buffers
    sq,                     \* posted sends: [wr, idx, msg, to]
    cqes,                   \* send completions: [wr, to, at, ok]
    cqEvent, cqTodo,        \* tx_cqe thread: the same
    cqpc, wr_id, entry, cqe_time,   \* tx_cqe thread: where it is, its locals
    alive,                  \* FALSE: an exception has ended the process
    ahFailed,               \* history: it was thrown for want of an address handle
    overlapped,             \* history: pings answered while another with the same buffer was
    arrivedAt, leftAt,      \* history: when a PING came, when its PONG left
    out,                    \* history: what was sent to whom
    gone,                   \* history: pings dropped, expired, or whose PONG failed
    errs

table == <<map, keyList>>
rx == <<arrivals, arrivedAt>>
rxThread == <<rxEvent, rxTodo>>
txThread == <<txpc, ping_msg>>
cqWait == <<cqEvent, cqTodo>>
cqThread == <<cqpc, wr_id, entry, cqe_time>>
events == <<rxThread, cqWait>>
nic == <<sq, cqes, leftAt, out, errs>>
fate == <<alive, ahFailed, overlapped>>
vars == <<now, rx, events, server_queue, txThread, table, buf, nic, cqThread, fate, gone>>

Init ==
    /\ now = ClockStart
    /\ arrivals = <<>> /\ server_queue = <<>> /\ arrivedAt = <<>>
    /\ txpc = "wait" /\ ping_msg = NoPing
    /\ map = <<>> /\ keyList = <<>>
    /\ buf = [i \in 0 .. NumBuf - 1 |-> NoMsg]
    /\ sq = <<>> /\ cqes = <<>> /\ leftAt = <<>> /\ out = {} /\ errs = 0
    /\ cqpc = "wait" /\ wr_id = 0 /\ entry = 0 /\ cqe_time = 0
    /\ rxEvent = "armed" /\ rxTodo = 0 /\ cqEvent = "armed" /\ cqTodo = 0
    /\ alive = TRUE /\ ahFailed = FALSE /\ overlapped = {} /\ gone = {}

With(f, k, v) == [x \in DOMAIN f \cup {k} |-> IF x = k THEN v ELSE f[x]]

\* A ping that is being answered: from its entry in the table to the completion
\* of its last send.
Sending(wr, id) ==
    \/ \E k \in 1 .. Len(sq) : sq[k].wr = wr /\ sq[k].to = id
    \/ \E k \in 1 .. Len(cqes) : cqes[k].wr = wr /\ cqes[k].to = id

InFlight(id) ==
    \/ txpc \in {"copy", "copy2", "post"} /\ ping_msg.id = id
    \/ Sending("pong", id)
    \/ cqpc # "wait" /\ wr_id = id

Busy(id) == InFlight(id) \/ Sending("ack", id)

-----------------------------------------------------------------------------
(* NIC and clock, while the process and its queue pair live.               *)

Tick ==
    /\ alive /\ now < ClockStart + MaxTicks
    /\ now' = now + 1
    /\ UNCHANGED <<rx, events, server_queue, txThread, table, buf, nic, cqThread, fate, gone>>

\* The notification is one-shot: a completion that is added raises an event if
\* the queue is armed, and only then.
Notify(event) == IF event = "armed" THEN "event" ELSE event

\* A PING finds a posted receive.
Arrive ==
    /\ alive /\ Len(arrivals) < NumBuf
    /\ \E i \in Pings \ DOMAIN arrivedAt :
          /\ arrivals' = Append(arrivals, [id |-> i, time |-> now])
          /\ arrivedAt' = With(arrivedAt, i, now)
    /\ rxEvent' = Notify(rxEvent)
    /\ UNCHANGED <<now, rxTodo, cqWait, server_queue, txThread, table, buf, nic, cqThread,
                   fate, gone>>

\* The NIC sends the oldest posted message, which it reads from the buffer
\* now unless it was posted inline, and completes the work request.
NicSend(ok) ==
    /\ alive /\ sq # <<>>
    /\ ok \/ errs < MaxErr
    /\ LET w == Head(sq)
           msg == IF Inline THEN w.msg ELSE buf[w.idx]
       IN  /\ cqes' = Append(cqes, [wr |-> w.wr, to |-> w.to, at |-> now, ok |-> ok])
           /\ out' = IF ok THEN out \cup {[to |-> w.to, msg |-> msg]} ELSE out
           /\ leftAt' = IF w.wr = "ack" THEN leftAt ELSE With(leftAt, w.to, now)
           /\ gone' = IF ok THEN gone ELSE gone \cup {w.to}
    /\ sq' = Tail(sq)
    /\ errs' = IF ok THEN errs ELSE errs + 1
    /\ cqEvent' = Notify(cqEvent)
    /\ UNCHANGED <<now, rx, rxThread, cqTodo, server_queue, txThread, table, buf, cqThread, fate>>

\* How many completions a thread takes: all there are and will be while it
\* works, with ibv_start_poll .. ibv_next_poll (HwTs, not counted), or one batch.
Batch(q) == IF HwTs THEN 0 ELSE IF Len(q) < BatchCqe THEN Len(q) ELSE BatchCqe
MoreToDo(q, todo) == q # <<>> /\ (HwTs \/ todo > 0)

-----------------------------------------------------------------------------
(* rx thread.                                                              *)

\* wait_for_cq_event returns, and the completion queue is polled.
RxWake ==
    /\ alive /\ rxEvent = "event"
    /\ rxEvent' = "polling"
    /\ rxTodo' = Batch(arrivals)
    /\ UNCHANGED <<now, rx, cqWait, server_queue, txThread, table, buf, nic, cqThread, fate, gone>>

\* server_process_rx_cqe for one completion: copy, post the receive again,
\* and enqueue; a full queue drops the PING.
RxHandle ==
    /\ alive /\ rxEvent = "polling" /\ MoreToDo(arrivals, rxTodo)
    /\ LET i == Head(arrivals).id
           msg == [id |-> i, time |-> IF HwTs THEN Head(arrivals).time ELSE now]
       IN  IF Len(server_queue) < QueueSize
           THEN server_queue' = Append(server_queue, msg) /\ UNCHANGED gone
           ELSE gone' = gone \cup {i} /\ UNCHANGED server_queue
    /\ arrivals' = Tail(arrivals)
    /\ rxTodo' = IF HwTs THEN 0 ELSE rxTodo - 1
    /\ UNCHANGED <<now, arrivedAt, rxEvent, cqWait, txThread, table, buf, nic, cqThread, fate>>

\* The last completion was handled ...
RxPollEnd ==
    /\ alive /\ rxEvent = "polling" /\ ~MoreToDo(arrivals, rxTodo)
    /\ rxEvent' = "off" /\ rxTodo' = 0
    /\ UNCHANGED <<now, rx, cqWait, server_queue, txThread, table, buf, nic, cqThread, fate, gone>>

\* ... and ibv_req_notify_cq arms the queue, whatever came in between.
RxArm ==
    /\ alive /\ rxEvent = "off"
    /\ rxEvent' = "armed"
    /\ UNCHANGED <<now, rx, rxTodo, cqWait, server_queue, txThread, table, buf, nic, cqThread,
                   fate, gone>>

-----------------------------------------------------------------------------
(* tx thread.                                                              *)

\* wait_dequeue_timed.
TxTake ==
    /\ alive /\ txpc = "wait" /\ server_queue # <<>>
    /\ ping_msg' = Head(server_queue)
    /\ server_queue' = Tail(server_queue)
    /\ txpc' = "insert"
    /\ UNCHANGED <<now, rx, events, table, buf, nic, cqThread, fate, gone>>

Fresh(id) == now - map[id].ts < Threshold

\* expireEntries: the n keys in front of the first fresh one leave.
expireEntries(n) ==
    /\ \A k \in 1 .. n : ~Fresh(keyList[k])
    /\ n < Len(keyList) => Fresh(keyList[n + 1])

\* PingMsgMap::insert, under the lock.  From here on the ping is being answered.
TxInsert ==
    /\ alive /\ txpc = "insert"
    /\ \E n \in 0 .. Len(keyList) :
          LET id == ping_msg.id
              unexpired == SubSeq(keyList, n + 1, Len(keyList))
              kept == Restrict(map, ToSet(unexpired))
          IN  /\ expireEntries(n)
              /\ IF id \in DOMAIN kept THEN map' = kept /\ keyList' = unexpired
                 ELSE /\ map' = With(kept, id, [time |-> ping_msg.time, ts |-> now])
                      /\ keyList' = Append(unexpired, id)
              /\ gone' = gone \cup (DOMAIN map \ DOMAIN kept)
    /\ LET others == {j \in Pings \ {ping_msg.id} :
                          Busy(j) /\ j % NumBuf = ping_msg.id % NumBuf}
       IN  overlapped' = IF others = {} THEN overlapped
                         ELSE overlapped \cup others \cup {ping_msg.id}
    /\ txpc' = "copy"
    /\ UNCHANGED <<now, rx, events, server_queue, ping_msg, buf, nic, cqThread, alive, ahFailed>>

(* post_send, called by tx and by tx_cqe without a lock: get_or_create_ah,  *)
(* memcpy into the buffer of the ping, in two halves (two such copies may   *)
(* mix), and ibv_post_send, which reads the buffer if it posts inline.      *)

CopyFirst(id, msg) == buf' = [buf EXCEPT ![id % NumBuf].kind = msg.kind, ![id % NumBuf].id = msg.id]
CopyLast(id, msg) == buf' = [buf EXCEPT ![id % NumBuf].delay = msg.delay]

\* Mutant: the message is not taken from the buffer of the ping.
ibv_post_send_FirstBuffer(id, wr) ==
    sq' = Append(sq, [wr |-> wr, idx |-> id % NumBuf, msg |-> buf[0], to |-> id])

ibv_post_send(id, wr) ==
    sq' = Append(sq, [wr |-> wr, idx |-> id % NumBuf, msg |-> buf[id % NumBuf], to |-> id])

\* Mutant: room for one work request less.
SendQueueFull_OneLess == Len(sq) + Len(cqes) >= NumBuf - 1

\* A send queue of NumBuf work requests; one is free again when its completion
\* has been polled.
SendQueueFull == Len(sq) + Len(cqes) >= NumBuf

Pong == [kind |-> "pong", id |-> ping_msg.id, delay |-> 0]

TxCopyFirst ==
    /\ alive /\ txpc = "copy"
    /\ CopyFirst(ping_msg.id, Pong)
    /\ txpc' = "copy2"
    /\ UNCHANGED <<now, rx, events, server_queue, ping_msg, table, nic, cqThread, fate, gone>>

TxCopyLast ==
    /\ alive /\ txpc = "copy2"
    /\ CopyLast(ping_msg.id, Pong)
    /\ txpc' = "post"
    /\ UNCHANGED <<now, rx, events, server_queue, ping_msg, table, nic, cqThread, fate, gone>>

TxPost ==
    /\ alive /\ txpc = "post" /\ ~SendQueueFull
    /\ ibv_post_send(ping_msg.id, "pong")
    /\ txpc' = "wait" /\ ping_msg' = NoPing
    /\ UNCHANGED <<now, rx, events, server_queue, table, buf, cqes, leftAt, out, errs,
                   cqThread, fate, gone>>

-----------------------------------------------------------------------------
(* tx_cqe thread.                                                          *)

CqWake ==
    /\ alive /\ cqEvent = "event"
    /\ cqEvent' = "polling"
    /\ cqTodo' = Batch(cqes)
    /\ UNCHANGED <<now, rx, rxThread, server_queue, txThread, table, buf, nic, cqThread, fate, gone>>

\* The thread goes on to the next completion.
CqNext ==
    /\ alive /\ cqEvent = "polling" /\ cqpc = "wait" /\ MoreToDo(cqes, cqTodo)
    /\ cqes' = Tail(cqes)
    /\ cqTodo' = IF HwTs THEN 0 ELSE cqTodo - 1
    /\ UNCHANGED <<now, rx, rxThread, cqEvent, server_queue, txThread, table, buf, sq, leftAt, out,
                   errs, fate, gone>>

\* Mutant: the loop goes on after an error without ibv_next_poll, and finds the
\* same completion again.
CqeIgnore_NoNextPoll ==
    /\ CqNext
    /\ Head(cqes).wr = "ack" /\ Head(cqes).ok
    /\ UNCHANGED cqThread

\* A completion of an ACK, or one with an error, is only logged.
CqeIgnore ==
    /\ CqNext
    /\ Head(cqes).wr = "ack" \/ ~Head(cqes).ok
    /\ UNCHANGED cqThread

\* Mutant: the clock instead of the stamp of the completion.
CqeGet_ReadsClock ==
    /\ CqNext
    /\ Head(cqes).wr # "ack" /\ Head(cqes).ok
    /\ LET id == Head(cqes).to
       IN  /\ wr_id' = id /\ cqe_time' = now
           /\ IF id \in DOMAIN map THEN entry' = map[id].time /\ cqpc' = "copy"
              ELSE cqpc' = "remove" /\ UNCHANGED entry

\* server_process_pong_cqe: look the PING up, under the shared lock.
CqeGet ==
    /\ CqNext
    /\ Head(cqes).wr # "ack" /\ Head(cqes).ok
    /\ LET id == Head(cqes).to
       IN  /\ wr_id' = id
           /\ cqe_time' = IF HwTs THEN Head(cqes).at ELSE now
           /\ IF id \in DOMAIN map THEN entry' = map[id].time /\ cqpc' = "copy"
              ELSE cqpc' = "remove" /\ UNCHANGED entry

calc_time_delta_with_modulo(t1, t2) == ((t2 % Modulo) + Modulo - (t1 % Modulo)) % Modulo

Ack ==
    [kind |-> "ack", id |-> wr_id, delay |-> calc_time_delta_with_modulo(entry, cqe_time)]

CqeCopyFirst ==
    /\ alive /\ cqpc = "copy"
    /\ CopyFirst(wr_id, Ack)
    /\ cqpc' = "copy2"
    /\ UNCHANGED <<now, rx, events, server_queue, txThread, table, nic, wr_id, entry, cqe_time,
                   fate, gone>>

CqeCopyLast ==
    /\ alive /\ cqpc = "copy2"
    /\ CopyLast(wr_id, Ack)
    /\ cqpc' = "post"
    /\ UNCHANGED <<now, rx, events, server_queue, txThread, table, nic, wr_id, entry, cqe_time,
                   fate, gone>>

\* Post the ACK.
CqePost ==
    /\ alive /\ cqpc = "post" /\ ~SendQueueFull
    /\ ibv_post_send(wr_id, "ack")
    /\ cqpc' = "remove"
    /\ UNCHANGED <<now, rx, events, server_queue, txThread, table, buf, cqes, leftAt, out, errs,
                   wr_id, entry, cqe_time, fate, gone>>

\* Mutant: the entry stays.
CqeRemove_Not ==
    /\ alive /\ cqpc = "remove"
    /\ cqpc' = "wait" /\ wr_id' = 0 /\ entry' = 0 /\ cqe_time' = 0
    /\ UNCHANGED <<now, rx, events, server_queue, txThread, table, buf, nic, fate, gone>>

\* listIter: where insert() put the key.
listIter(id) == CHOOSE k \in 1 .. Len(keyList) : keyList[k] = id

\* PingMsgMap::remove.
remove(id) ==
    IF id \in DOMAIN map
    THEN /\ keyList' = RemoveAt(keyList, listIter(id))
         /\ map' = Restrict(map, DOMAIN map \ {id})
    ELSE UNCHANGED table

\* Remove the entry, under the lock again.
CqeRemove ==
    /\ alive /\ cqpc = "remove"
    /\ remove(wr_id)
    /\ cqpc' = "wait" /\ wr_id' = 0 /\ entry' = 0 /\ cqe_time' = 0
    /\ UNCHANGED <<now, rx, events, server_queue, txThread, buf, nic, fate, gone>>

CqPollEnd ==
    /\ alive /\ cqEvent = "polling" /\ cqpc = "wait" /\ ~MoreToDo(cqes, cqTodo)
    /\ cqEvent' = "off" /\ cqTodo' = 0
    /\ UNCHANGED <<now, rx, rxThread, server_queue, txThread, table, buf, nic, cqThread, fate, gone>>

CqArm ==
    /\ alive /\ cqEvent = "off"
    /\ cqEvent' = "armed"
    /\ UNCHANGED <<now, rx, rxThread, cqTodo, server_queue, txThread, table, buf, nic, cqThread,
                   fate, gone>>

-----------------------------------------------------------------------------
(* The end: post_send fails, the thread throws, nothing catches the         *)
(* exception, and the process ends.                                         *)

\* ibv_post_send fails on a full send queue.
SendFails ==
    /\ alive /\ SendQueueFull
    /\ txpc = "post" \/ cqpc = "post"
    /\ alive' = FALSE
    /\ UNCHANGED <<now, rx, events, server_queue, txThread, table, buf, nic, cqThread,
                   ahFailed, overlapped, gone>>

\* get_or_create_ah returns no handle: ibv_create_ah failed.  It also stands for
\* a crash of two threads in ah_map, which has no lock.
AhFails ==
    /\ alive /\ (txpc = "copy" \/ cqpc = "copy")
    /\ alive' = FALSE /\ ahFailed' = TRUE
    /\ UNCHANGED <<now, rx, events, server_queue, txThread, table, buf, nic, cqThread,
                   overlapped, gone>>

-----------------------------------------------------------------------------
RxSteps == RxWake \/ RxHandle \/ RxPollEnd \/ RxArm
TxSteps == TxTake \/ TxInsert \/ TxCopyFirst \/ TxCopyLast \/ TxPost
CqSteps ==
    \/ CqWake \/ CqeIgnore \/ CqeGet \/ CqeCopyFirst \/ CqeCopyLast \/ CqePost \/ CqeRemove
    \/ CqPollEnd \/ CqArm
Terminate == SendFails \/ AhFails

Next ==
    \/ Tick \/ Arrive \/ (\E ok \in BOOLEAN : NicSend(ok))
    \/ RxSteps \/ TxSteps \/ CqSteps \/ Terminate

Spec == Init /\ [][Next]_vars

-----------------------------------------------------------------------------
(* Properties.                                                             *)

\* The type invariant; the queue and the send queue keep to their sizes.
TypeOK ==
    /\ Len(arrivals) <= NumBuf /\ Len(server_queue) <= QueueSize
    /\ Len(sq) + Len(cqes) <= NumBuf
    /\ DOMAIN map \subseteq DOMAIN arrivedAt /\ DOMAIN arrivedAt \subseteq Pings
    /\ \A id \in DOMAIN map : map[id].time <= map[id].ts /\ map[id].ts <= now
    /\ {rxEvent, cqEvent} \subseteq {"armed", "event", "polling", "off"}
    /\ rxTodo \in 0 .. NumBuf /\ cqTodo \in 0 .. NumBuf
    /\ txpc \in {"wait", "insert", "copy", "copy2", "post"}
    /\ cqpc \in {"wait", "copy", "copy2", "post", "remove"}
    /\ alive \in BOOLEAN /\ ahFailed \in BOOLEAN
    /\ gone \subseteq Pings /\ DOMAIN leftAt \subseteq Pings /\ overlapped \subseteq Pings
    /\ \A i \in DOMAIN buf : buf[i].kind \in {"none", "pong", "ack"}

\* A message that leaves for a client is the answer to that client's own ping:
\* no later message was copied over it before the NIC read it ("to avoid buffer
\* corruption for CQE").
AnswerIsOwn == \A o \in out : o.msg.id = o.to

\* What is left of it without a lock around post_send: an answer carries another
\* ping's id only if the two had the same buffer and were being answered at the
\* same time, by tx and tx_cqe or one behind the other in the send queue.
SoleAnswerIsOwn == \A o \in out : o.to \notin overlapped => o.msg.id = o.to

\* The delay in an ACK is the time between arrival of the PING and departure
\* of the PONG, although the clock wraps around and the entry may expire
\* between its lookup and its removal; unless the ping stayed for longer than
\* the modulus, or two copies met in its buffer.
DelayIsServerTime ==
    \A o \in out : o.msg.kind = "ack" /\ o.to \notin overlapped =>
        LET stay == leftAt[o.to] - arrivedAt[o.to]
        IN  stay < Modulo => o.msg.delay = stay

\* An entry of the table is on its way to an ACK, unless its PONG failed:
\* nothing is left behind by the unlocked gap between get and remove.
NoLeakedEntry ==
    /\ ToSet(keyList) = DOMAIN map /\ Cardinality(DOMAIN map) = Len(keyList)
    /\ \A id \in DOMAIN map : InFlight(id) \/ id \in gone

\* What the table, its queues and buffers hold while three threads work on them.
ServerInv == TypeOK /\ NoLeakedEntry

\* A ping never holds two places of the send queue, so post_send ends the
\* process only for want of an address handle, or when more pings are being
\* answered than there are buffers.
StaysAlive ==
    alive \/ ahFailed \/ Cardinality({id \in Pings : Busy(id)}) > NumBuf

\* Nothing goes on by itself: no thread can take a step (one asleep in
\* ibv_get_cq_event wakes on an event and on nothing else), and the NIC has
\* nothing to send.
AtRest ==
    ~ENABLED (RxSteps \/ TxSteps \/ CqSteps \/ SendFails \/ \E ok \in BOOLEAN : NicSend(ok))

Acked(i) == \E o \in out : o.msg.kind = "ack" /\ o.msg.id = i

\* No PING is forgotten: when the server has come to rest, every PING that
\* arrived has its ACK, unless the queue was full, its entry expired, the NIC
\* reported an error, its answers were overwritten or the process has ended; or
\* its completion came after the last poll and before ibv_req_notify_cq, raised no
\* event, and waits for the next one (module CqNotify).
NoPingForgotten ==
    AtRest /\ alive =>
        \A i \in DOMAIN arrivedAt :
            \/ Acked(i) \/ i \in gone \cup overlapped
            \/ rxEvent = "armed" /\ \E k \in 1 .. Len(arrivals) : arrivals[k].id = i
            \/ cqEvent = "armed" /\ \E k \in 1 .. Len(cqes) : cqes[k].to = i
=============================================================================
