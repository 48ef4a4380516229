----------------------------- MODULE RdmaClient -----------------------------
(***************************************************************************)
(* The RDMA ping client: the ping table (RdmaPinginfoMap) and the four     *)
(* threads that share it.                                                  *)
(*                                                                         *)
(*   tx_sched  inserts a ping, posts it, and without NIC timestamps also   *)
(*             records when it left;                                       *)
(*   tx_cqe    with NIC timestamps, records when the ping left;            *)
(*   rx        records the PONG and the ACK of the server;                 *)
(*   result    drains client_queue (see module ReportPath).                *)
(*                                                                         *)
(* A ping is complete when its own send completion, the PONG and the ACK   *)
(* have been recorded, in any order.  Entries older than the threshold are *)
(* removed only when the next ping is inserted.  The network loses, delays *)
(* and reorders; the server may send one message twice (its send buffers   *)
(* are shared by pings whose ids agree modulo the number of buffers).      *)
(***************************************************************************)
EXTENDS Integers, FiniteSets, SequencesExt

CONSTANTS
    Stampers,        \* who stamps completions in a client: "nic" (rnic_hw_ts) or "host"
    HwOffset,        \* NIC clock minus steady clock
    Threshold,       \* PINGWEAVE_TABLE_EXPIRY_TIME_RDMA_MS
    Modulo,          \* PINGWEAVE_TIME_CALC_MODULO
    Word,            \* 2^64, the modulus of unsigned subtraction
    QueueSize,       \* MSG_QUEUE_SIZE
    ClockStart,      \* what the clocks show at the start
    MaxTicks,        \* bound: clock ticks
    MaxPing,         \* bound: pings sent
    MaxDup           \* bound: messages the server sends twice

ASSUME ClientAssumption ==
    /\ Stampers \subseteq {"nic", "host"}
    /\ Threshold \in Nat \ {0} /\ Modulo \in Nat \ {0} /\ Word \in Nat \ {0}
    /\ HwOffset \in Nat /\ ClockStart \in Nat \ {0}
    /\ QueueSize \in Nat /\ MaxTicks \in Nat /\ MaxPing \in Nat /\ MaxDup \in Nat

Ids == 0 .. MaxPing - 1
Clock == ClockStart .. ClockStart + MaxTicks
Parts == {"cqe", "pong", "ack"}
Counted == {"success", "failure", "weird"}
Verdicts == Counted \cup {"none", "full", "overlaid", "corrupted"}

VARIABLES
    stamper,         \* who stamps completions in this client
    now,             \* the steady clock
    map, keyList,    \* RdmaPinginfoMap
    queue,           \* client_queue
    uid,             \* ping_uid
    txpc, txId, txTime,     \* tx_sched: where it is, its ping, a clock reading
    wire,            \* PINGs, PONGs and ACKs under way; one that stays here is lost
    serving,         \* pings at the server: id -> arrival time
    acked,           \* history: pings whose ACK the server has sent
    sendCqes,        \* completions of sends that the tx_cqe thread has not seen
    verdict,         \* history: what became of each ping
    dups

\* rnic_hw_ts
HwTs == stamper = "nic"

table == <<map, keyList>>
tx == <<uid, txpc, txId, txTime>>
net == <<wire, serving, acked, dups>>
vars == <<stamper, now, table, queue, tx, net, sendCqes, verdict>>

\* Mutant: the two times are swapped.
calc_time_delta_Swapped(t1, t2) == ((t1 % Modulo) + Modulo - (t2 % Modulo)) % Modulo

calc_time_delta_with_modulo(t1, t2) == ((t2 % Modulo) + Modulo - (t1 % Modulo)) % Modulo

Init ==
    /\ stamper \in Stampers
    /\ now = ClockStart
    /\ map = <<>> /\ keyList = <<>> /\ queue = <<>>
    /\ uid = 0 /\ txpc = "next" /\ txId = 0 /\ txTime = 0
    /\ wire = {} /\ serving = <<>> /\ acked = {} /\ dups = 0
    /\ sendCqes = {}
    /\ verdict = [i \in Ids |-> "none"]

-----------------------------------------------------------------------------
(* RdmaPinginfoMap.  A function with a finite domain is the unordered_map. *)

Without(f, x) == Restrict(f, DOMAIN f \ {x})

\* tx_sched is inside insert() and holds mutex_; every other access to the
\* table is one step.
Locked == txpc = "expire"

NewEntry == [ts |-> now, client |-> now, network |-> 0, server |-> 0, cnt |-> 0, seen |-> {}]

\* try_enqueue: a full queue loses the result.
Enqueue(id, kind, client, network, server) ==
    IF Len(queue) < QueueSize
    THEN /\ queue' = Append(queue, [id |-> id, kind |-> kind, sent |-> map[id].ts,
                                    client |-> client, network |-> network, server |-> server])
         /\ verdict' = [verdict EXCEPT ![id] = kind]
    ELSE /\ verdict' = [verdict EXCEPT ![id] = "full"]
         /\ UNCHANGED queue

\* listIter: where insert() put the key.
listIter(id) == CHOOSE i \in 1 .. Len(keyList) : keyList[i] = id

\* Mutants: the key stays in the list; nothing is erased.
Erase_MapOnly(id) == map' = Without(map, id) /\ UNCHANGED keyList
Erase_Nothing(id) == UNCHANGED table

Erase(id) ==
    /\ map' = Without(map, id)
    /\ keyList' = RemoveAt(keyList, listIter(id))

\* Mutant: three updates complete an entry, whatever they were.
Record_CountOnly(id, e) ==
    \/ /\ e.cnt # 3
       /\ map' = [map EXCEPT ![id] = e]
       /\ UNCHANGED <<keyList, queue, verdict>>
    \/ /\ e.cnt = 3
       /\ Enqueue(id, "success", (e.client - e.network) % Word, e.network, e.server)
       /\ Erase(id)

\* Store entry e, then logging(): a complete entry leaves the table.
Record(id, e) ==
    LET network_rtt == IF e.network > e.server THEN e.network - e.server ELSE e.network
        client_process_time == (e.client - e.network) % Word
    IN  \/ /\ e.seen # Parts
           /\ map' = [map EXCEPT ![id] = e]
           /\ UNCHANGED <<keyList, queue, verdict>>
        \/ /\ e.seen = Parts /\ e.cnt # 3
           /\ Erase(id)
           /\ verdict' = [verdict EXCEPT ![id] = "corrupted"]
           /\ UNCHANGED queue
        \/ /\ e.seen = Parts /\ e.cnt = 3
           /\ Enqueue(id, IF e.network <= e.server THEN "weird" ELSE "success",
                      client_process_time, network_rtt, e.server)
           /\ Erase(id)

\* The three update functions return FAILURE, and do nothing, without an entry.
NoEntry(id) == id \notin DOMAIN map /\ UNCHANGED <<table, queue, verdict>>

\* recv_cnt and recv_bitmap.
Marked(e, part) == [e EXCEPT !.cnt = @ + 1, !.seen = @ \cup {part}]

update_ping_cqe_time(id, x) ==
    \/ NoEntry(id)
    \/ /\ id \in DOMAIN map
       /\ Record(id, Marked([map[id] EXCEPT
              !.network = IF @ = 0 THEN x ELSE calc_time_delta_with_modulo(x, @)], "cqe"))

update_pong_info(id, recv_time, cqe_time) ==
    \/ NoEntry(id)
    \/ /\ id \in DOMAIN map
       /\ Record(id, Marked([map[id] EXCEPT
              !.client = calc_time_delta_with_modulo(@, recv_time),
              !.network = IF @ # 0 THEN calc_time_delta_with_modulo(@, cqe_time)
                          ELSE cqe_time], "pong"))

update_ack_info(id, server_delay) ==
    \/ NoEntry(id)
    \/ /\ id \in DOMAIN map
       /\ Record(id, Marked([map[id] EXCEPT !.server = server_delay], "ack"))

-----------------------------------------------------------------------------
(* tx_sched thread.                                                        *)

\* scheduler.next succeeds; insert() takes the lock and reads the clock for
\* expireEntries.
TxNext ==
    /\ txpc = "next" /\ uid < MaxPing
    /\ txId' = uid /\ uid' = uid + 1
    /\ txTime' = now
    /\ txpc' = "expire"
    /\ UNCHANGED <<now, table, queue, net, sendCqes, verdict>>

Stale(id) == txTime - map[id].ts >= Threshold

\* Mutant: the entry stays in the map.
TxExpire_KeepsEntry ==
    /\ txpc = "expire" /\ keyList # <<>>
    /\ LET id == Head(keyList)
       IN  /\ id \in DOMAIN map => Stale(id)
           /\ keyList' = Tail(keyList)
           /\ IF id \notin DOMAIN map THEN UNCHANGED <<queue, verdict>>
              ELSE Enqueue(id, "failure", 0, 0, 0)
    /\ UNCHANGED <<now, map, tx, net, sendCqes>>

\* One turn of the loop of expireEntries.  The result thread takes no lock and
\* may empty client_queue between two turns.
TxExpire ==
    /\ txpc = "expire" /\ keyList # <<>>
    /\ LET id == Head(keyList)
       IN  /\ id \in DOMAIN map => Stale(id)
           /\ keyList' = Tail(keyList)
           /\ map' = Without(map, id)
           /\ IF id \notin DOMAIN map THEN UNCHANGED <<queue, verdict>>
              ELSE IF map[id].cnt >= 3
                   THEN /\ verdict' = [verdict EXCEPT ![id] = "overlaid"]
                        /\ UNCHANGED queue
                   ELSE Enqueue(id, "failure", 0, 0, 0)
    /\ UNCHANGED <<now, tx, net, sendCqes>>

\* The rest of insert(), with its own clock reading.
TxInsert ==
    /\ txpc = "expire"
    /\ keyList # <<>> => Head(keyList) \in DOMAIN map /\ ~Stale(Head(keyList))
    /\ IF txId \in DOMAIN map THEN UNCHANGED table
       ELSE /\ keyList' = Append(keyList, txId)
            /\ map' = [id \in DOMAIN map \cup {txId} |->
                          IF id = txId THEN NewEntry ELSE map[id]]
    /\ txpc' = "post"
    /\ UNCHANGED <<now, queue, uid, txId, txTime, net, sendCqes, verdict>>

\* post_send.  The NIC stamps the completion when the ping leaves.
TxPost ==
    /\ txpc = "post"
    /\ wire' = wire \cup {[kind |-> "ping", id |-> txId, delay |-> 0, at |-> now]}
    /\ sendCqes' = IF HwTs THEN sendCqes \cup {<<txId, now + HwOffset>>} ELSE sendCqes
    /\ txpc' = IF HwTs THEN "next" ELSE "stamp"
    /\ UNCHANGED <<now, table, queue, uid, txId, txTime, serving, acked, dups, verdict>>

\* post_send fails: an error message; the entry stays and will expire.
TxPostFail ==
    /\ txpc = "post"
    /\ txpc' = "next"
    /\ UNCHANGED <<now, table, queue, uid, txId, txTime, net, sendCqes, verdict>>

\* Without NIC timestamps: read the clock after post_send has returned ...
TxStamp ==
    /\ txpc = "stamp"
    /\ txTime' = now
    /\ txpc' = "update"
    /\ UNCHANGED <<now, table, queue, uid, txId, net, sendCqes, verdict>>

\* ... then take the lock.
TxUpdate ==
    /\ txpc = "update"
    /\ update_ping_cqe_time(txId, txTime)
    /\ txpc' = "next"
    /\ UNCHANGED <<now, uid, txId, txTime, net, sendCqes>>

-----------------------------------------------------------------------------
(* tx_cqe, rx and result threads.                                          *)

TxCqe ==
    /\ ~Locked
    /\ \E c \in sendCqes :
          /\ update_ping_cqe_time(c[1], c[2])
          /\ sendCqes' = sendCqes \ {c}
    /\ UNCHANGED <<now, tx, net>>

\* handle_received_message for a PONG or an ACK.  The NIC stamps it on arrival,
\* rx reads the steady clock when it gets to it (also as completion time when
\* the NIC does not stamp), and then waits for the lock: three instants, in
\* this order, between the sending of the message and now.  A message that is
\* one of two copies stays under way.
RxHandle(again) ==
    /\ ~Locked
    /\ again => dups < MaxDup
    /\ \E m \in wire :
          /\ \/ /\ m.kind = "pong"
                /\ \E arrival, recv_time \in m.at .. now :
                      /\ arrival <= recv_time
                      /\ update_pong_info(m.id, recv_time,
                                          IF HwTs THEN arrival + HwOffset ELSE recv_time)
             \/ /\ m.kind = "ack"
                /\ update_ack_info(m.id, m.delay)
          /\ wire' = IF again THEN wire ELSE wire \ {m}
    /\ dups' = IF again THEN dups + 1 ELSE dups
    /\ UNCHANGED <<now, tx, serving, acked, sendCqes>>

\* wait_dequeue_timed of the result thread (module ReportPath has the rest).
ResultTake ==
    /\ queue # <<>>
    /\ queue' = Tail(queue)
    /\ UNCHANGED <<now, table, tx, net, sendCqes, verdict>>

-----------------------------------------------------------------------------
(* Network, server and clock.                                              *)

Tick ==
    /\ now < ClockStart + MaxTicks
    /\ now' = now + 1
    /\ UNCHANGED <<table, queue, tx, net, sendCqes, verdict>>

\* The server receives the PING, stamps it and answers with a PONG.
ServerPong ==
    /\ \E m \in wire :
          /\ m.kind = "ping"
          /\ wire' = (wire \ {m}) \cup {[m EXCEPT !.kind = "pong", !.at = now]}
          /\ serving' = [i \in DOMAIN serving \cup {m.id} |->
                            IF i = m.id THEN now ELSE serving[i]]
    /\ UNCHANGED <<now, table, queue, tx, acked, dups, sendCqes, verdict>>

\* The PONG has left the server: an ACK carries how long that took.
ServerAck ==
    /\ \E i \in DOMAIN serving :
          /\ wire' = wire \cup
                {[kind |-> "ack", id |-> i, at |-> now,
                  delay |-> calc_time_delta_with_modulo(serving[i], now)]}
          /\ serving' = Without(serving, i)
          /\ acked' = acked \cup {i}
    /\ UNCHANGED <<now, table, queue, tx, dups, sendCqes, verdict>>

Threads ==
    \/ TxNext \/ TxExpire \/ TxInsert \/ TxPost \/ TxPostFail \/ TxStamp \/ TxUpdate
    \/ TxCqe \/ (\E again \in BOOLEAN : RxHandle(again))
    \/ ResultTake

Environment ==
    Tick \/ ServerPong \/ ServerAck

Next == (Threads \/ Environment) /\ UNCHANGED stamper

Spec == Init /\ [][Next]_vars

-----------------------------------------------------------------------------
(* Properties.                                                             *)

Entry == [ts : Clock, client : Nat, network : Nat, server : Nat, cnt : Nat, seen : SUBSET Parts]
Message == [kind : {"ping", "pong", "ack"}, id : Ids, delay : Nat, at : Clock]
Result == [id : Ids, kind : Counted, sent : Clock, client : Nat, network : Nat, server : Nat]

TableType ==
    /\ DOMAIN map \subseteq Ids /\ \A i \in DOMAIN map : map[i] \in Entry
    /\ keyList \in Seq(Ids) /\ queue \in Seq(Result) /\ Len(queue) <= QueueSize
    /\ verdict \in [Ids -> Verdicts]

ThreadType ==
    /\ now \in Clock
    /\ uid \in 0 .. MaxPing /\ txId \in 0 .. MaxPing /\ txTime \in Nat
    /\ txpc \in {"next", "expire", "post", "stamp", "update"}
    /\ wire \subseteq Message
    /\ DOMAIN serving \subseteq Ids /\ \A i \in DOMAIN serving : serving[i] \in Clock
    /\ acked \subseteq Ids /\ dups \in 0 .. MaxDup
    /\ sendCqes \subseteq Ids \X Nat

TypeOK == TableType /\ ThreadType /\ stamper \in Stampers

\* Table and list describe the same pings, each once, oldest first: both are
\* updated by three threads, from the middle (remove) and from the front
\* (expireEntries).
OldestFirst(list, m) ==
    /\ ToSet(list) = DOMAIN m
    /\ \A i, j \in 1 .. Len(list) :
          i < j => list[i] # list[j] /\ m[list[i]].ts <= m[list[j]].ts

ListMatchesMap == OldestFirst(keyList, map)

\* expireEntries stops at the first fresh entry; none of the entries behind it
\* is stale, so a dead ping is reported at the next insert and not later.
ExpiryIsComplete ==
    [][txpc = "expire" /\ txpc' = "post" => \A id \in DOMAIN map : ~Stale(id)]_vars

\* Every ping that was inserted is either in the table or has one fate; the
\* table forgets no ping and no ping is in two places, whatever is lost,
\* repeated or late.
Inserted(id) == id < uid /\ ~(txpc = "expire" /\ txId = id)

Known(id) == id \in DOMAIN map \/ verdict[id] # "none"

EachPingOnePlace ==
    \A id \in Ids : /\ Inserted(id) <=> Known(id)
                    /\ id \in DOMAIN map => verdict[id] = "none"

\* A fate is final: an answer that comes after expiry does not turn a failure
\* into a success, nor is a ping counted twice.
FateIsFinal ==
    [][\A id \in Ids : verdict[id] # "none" => verdict'[id] = verdict[id]]_vars

\* A success (or a weird result) is never made of two copies of one message:
\* the server has answered this ping with its ACK.
SuccessIsAnswered ==
    \A id \in Ids : verdict[id] \in {"success", "weird"} => id \in acked

\* The inductive invariant behind the properties above.
\* The table, and what an entry claims to have seen of the server:
TableInv ==
    /\ ListMatchesMap /\ SuccessIsAnswered
    /\ \A id \in DOMAIN map :
          /\ map[id].ts <= now /\ verdict[id] = "none"
          /\ "ack" \in map[id].seen => id \in acked

\* Where tx_sched is, and what is under way:
ThreadInv ==
    /\ txpc # "next" => uid > 0 /\ txId = uid - 1
    /\ \A m \in wire : m.at <= now /\ (m.kind = "ack" => m.id \in acked)

ClientInv == TypeOK /\ TableInv /\ ThreadInv /\ EachPingOnePlace

\* Only pings that were inserted are under way or at the server.
SentInv ==
    /\ \A m \in wire : Inserted(m.id)
    /\ \A id \in DOMAIN serving : Inserted(id)

\* The three delays of a success fit into the time since the ping was inserted
\* ("Here, we handle the timestamp accordingly", said of a PONG whose
\* completion precedes that of its PING).
DelaysFit ==
    \A i \in 1 .. Len(queue) :
        queue[i].kind = "success" =>
            queue[i].client + queue[i].network + queue[i].server <= now - queue[i].sent

\* With NIC timestamps they do, whatever the order in which the threads get to
\* the completions, and with clocks that wrap around.
NicDelaysFit == HwTs => DelaysFit

\* The client implements the promise of a ping table, as the TCP and UDP clients
\* do: a ping in the table ends once, and well only with an ACK of its server,
\* whichever of the threads records the last part, or expires it first.
Fate(id) == IF id \in DOMAIN map THEN "pending" ELSE verdict[id]

Ledger == INSTANCE PingLedger WITH
    Good <- {"success", "weird"},
    Bad <- {"failure", "full", "overlaid", "corrupted"},
    fate <- [id \in Ids |-> Fate(id)],
    answered <- acked

ImplementsLedger == Ledger!Spec
=============================================================================
