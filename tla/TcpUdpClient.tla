---------------------------- MODULE TcpUdpClient ----------------------------
(***************************************************************************)
(* The TCP and UDP ping clients: the ping table they share                 *)
(* (TcpUdpPinginfoMap), the threads that send and receive, and the result  *)
(* thread.                                                                 *)
(*                                                                         *)
(*   UDP   one tx thread inserts and sends pings one after the other; an   *)
(*         rx thread waits for the answers;                                *)
(*   TCP   the tx thread starts one detached thread per ping, which        *)
(*         inserts, connects, and takes the end of the handshake for the   *)
(*         answer.  Any number of them is under way at once.               *)
(*                                                                         *)
(* A table access holds mutex_ and is one step, except insert(): between   *)
(* two turns of its expireEntries the result thread, which takes no lock,  *)
(* may empty the queue.                                                    *)
(***************************************************************************)
EXTENDS Integers, FiniteSets, SequencesExt

CONSTANTS
    Protocols,       \* which clients: "tcp", "udp"
    Dsts,            \* destinations
    Threshold,       \* PINGWEAVE_TABLE_EXPIRY_TIME_TCP_MS, .._UDP_MS
    Mask,            \* UINT64_MAX
    QueueSize,       \* MSG_QUEUE_SIZE
    ClockStart,      \* what the steady clock shows at the start
    MaxTicks,        \* bound: clock ticks
    MaxPing,         \* bound: pings
    MaxDup           \* bound: datagrams the network delivers twice

ASSUME TcpUdpAssumption ==
    /\ Protocols \subseteq {"tcp", "udp"}
    /\ Threshold \in Nat \ {0} /\ Mask \in Nat /\ QueueSize \in Nat /\ ClockStart \in Nat
    /\ MaxTicks \in Nat /\ MaxPing \in Nat /\ MaxDup \in Nat

Ids == 0 .. MaxPing - 1
Clock == ClockStart .. ClockStart + MaxTicks
Counted == {"success", "failure"}
NoCounts == [d \in Dsts |-> [k \in Counted |-> 0]]

VARIABLES
    proto,           \* which client this is
    now,             \* the steady clock
    map, keyList,    \* TcpUdpPinginfoMap
    queue,           \* client_queue
    uid,             \* ping_uid
    stage,           \* how far the sending of each ping is
    dst,             \* the destination of each ping that was made
    expireTime,      \* the clock reading of expireEntries, a local of insert()
    wire,            \* pings and answers under way; one that stays here is lost
    dups,
    window,          \* dstip2result
    reported,        \* history: what was handed to writeMessage, in total
    answered,        \* history: pings their destination has answered
    verdict          \* history: what became of each ping

table == <<map, keyList>>
sending == <<uid, stage, dst, expireTime>>
net == <<wire, dups, answered>>
report == <<window, reported>>
vars == <<proto, now, table, queue, sending, net, report, verdict>>

Init ==
    /\ proto \in Protocols
    /\ now = ClockStart
    /\ map = <<>> /\ keyList = <<>> /\ queue = <<>>
    /\ uid = 0 /\ expireTime = 0
    /\ stage = [i \in Ids |-> "none"] /\ dst = <<>>
    /\ wire = {} /\ dups = 0 /\ answered = {}
    /\ window = NoCounts /\ reported = NoCounts
    /\ verdict = [i \in Ids |-> "none"]

-----------------------------------------------------------------------------
(* TcpUdpPinginfoMap.                                                      *)

\* The steady clock in 64 bits.
Nanos(t) == t % (Mask + 1)

\* Mutant: no correction when the clock has wrapped around.
calc_time_delta_NoWrap(t1, t2) == IF t2 >= t1 THEN t2 - t1 ELSE t1 - t2

calc_time_delta_with_bitwrap(t1, t2) == IF t2 >= t1 THEN t2 - t1 ELSE (Mask - t1 + 1) + t2

Without(f, x) == Restrict(f, DOMAIN f \ {x})

\* Some thread is inside insert() and holds mutex_.
Locked == \E i \in Ids : stage[i] = "insert"

\* try_enqueue: a full queue loses the result.
Enqueue(id, kind, delay) ==
    IF Len(queue) < QueueSize
    THEN /\ queue' = Append(queue, [id |-> id, dst |-> map[id].dst, sent |-> map[id].ts,
                                    delay |-> delay, kind |-> kind])
         /\ verdict' = [verdict EXCEPT ![id] = kind]
    ELSE /\ verdict' = [verdict EXCEPT ![id] = "full"]
         /\ UNCHANGED queue

\* listIter: where insert() put the key.
listIter(id) == CHOOSE k \in 1 .. Len(keyList) : keyList[k] = id

\* Mutant: the key stays in the list.
Erase_MapOnly(id) == map' = Without(map, id) /\ UNCHANGED keyList

Erase(id) ==
    /\ map' = Without(map, id)
    /\ keyList' = RemoveAt(keyList, listIter(id))

\* An answer without an entry (expired, or answered before) changes nothing.
update_pong_info(id, recv_time) ==
    \/ /\ id \notin DOMAIN map
       /\ UNCHANGED <<table, queue, verdict>>
    \/ /\ id \in DOMAIN map
       /\ Enqueue(id, "success", calc_time_delta_with_bitwrap(map[id].network_delay, recv_time))
       /\ Erase(id)

\* insert() has the lock and reads the clock for expireEntries.
InsertBegin(id) ==
    /\ stage[id] = "made" /\ ~Locked
    /\ stage' = [stage EXCEPT ![id] = "insert"]
    /\ expireTime' = now
    /\ UNCHANGED <<proto, now, table, queue, uid, dst, net, report, verdict>>

Stale(id) == expireTime - map[id].ts >= Threshold

\* Mutant: an expired entry is dropped without a result.
Expire_NoResult ==
    /\ Locked /\ keyList # <<>>
    /\ LET id == Head(keyList)
       IN  /\ id \in DOMAIN map => Stale(id)
           /\ keyList' = Tail(keyList)
           /\ map' = Without(map, id)
    /\ UNCHANGED <<proto, now, queue, verdict, sending, net, report>>

\* One turn of the loop of expireEntries.
Expire ==
    /\ Locked /\ keyList # <<>>
    /\ LET id == Head(keyList)
       IN  /\ id \in DOMAIN map => Stale(id)
           /\ keyList' = Tail(keyList)
           /\ map' = Without(map, id)
           /\ IF id \notin DOMAIN map THEN UNCHANGED <<queue, verdict>>
              ELSE Enqueue(id, "failure", 0)
    /\ UNCHANGED <<proto, now, sending, net, report>>

NewEntry(id) == [dst |-> dst[id], ts |-> now, network_delay |-> Nanos(now)]

\* Mutant: the new entry goes to the front of the list.
InsertEnd_AtFront(id) ==
    /\ stage[id] = "insert"
    /\ keyList # <<>> => Head(keyList) \in DOMAIN map /\ ~Stale(Head(keyList))
    /\ IF id \in DOMAIN map THEN UNCHANGED table
       ELSE /\ keyList' = <<id>> \o keyList
            /\ map' = [i \in DOMAIN map \cup {id} |-> IF i = id THEN NewEntry(id) ELSE map[i]]
    /\ stage' = [stage EXCEPT ![id] = "send"]
    /\ expireTime' = 0
    /\ UNCHANGED <<proto, now, queue, uid, dst, net, report, verdict>>

\* The rest of insert(), with its own clock reading.
InsertEnd(id) ==
    /\ stage[id] = "insert"
    /\ keyList # <<>> => Head(keyList) \in DOMAIN map /\ ~Stale(Head(keyList))
    /\ IF id \in DOMAIN map THEN UNCHANGED table
       ELSE /\ keyList' = Append(keyList, id)
            /\ map' = [i \in DOMAIN map \cup {id} |-> IF i = id THEN NewEntry(id) ELSE map[i]]
    /\ stage' = [stage EXCEPT ![id] = "send"]
    /\ expireTime' = 0
    /\ UNCHANGED <<proto, now, queue, uid, dst, net, report, verdict>>

-----------------------------------------------------------------------------
(* Sending and receiving.                                                  *)

\* The UDP tx thread is between scheduler.next and the end of the send.
Sending == \E i \in Ids : stage[i] \in {"made", "insert", "send"}

\* scheduler.next succeeds.  The TCP tx thread hands the ping to a new thread
\* and goes on.
TxNext ==
    /\ uid < MaxPing
    /\ proto = "udp" => ~Sending
    /\ \E d \in Dsts : dst' = [i \in DOMAIN dst \cup {uid} |-> IF i = uid THEN d ELSE dst[i]]
    /\ stage' = [stage EXCEPT ![uid] = "made"]
    /\ uid' = uid + 1
    /\ UNCHANGED <<proto, now, table, queue, expireTime, net, report, verdict>>

\* TCP: no socket, no bind: the ping is given up before it is in the table.
MakeCtxFail(id) ==
    /\ proto = "tcp" /\ stage[id] = "made"
    /\ stage' = [stage EXCEPT ![id] = "done"]
    /\ UNCHANGED <<proto, now, table, queue, uid, dst, expireTime, net, report, verdict>>

\* send_udp_message, or the SYN of connect().
Send(id) ==
    /\ stage[id] = "send"
    /\ wire' = wire \cup {[kind |-> "ping", id |-> id, at |-> now]}
    /\ stage' = [stage EXCEPT ![id] = IF proto = "tcp" THEN "connect" ELSE "done"]
    /\ UNCHANGED <<proto, now, table, queue, uid, dst, expireTime, dups, answered, report, verdict>>

\* The send fails, or connect() fails at once or after PINGWEAVE_TCP_SOCK_TIMEOUT_SEC:
\* the entry stays and will expire.
SendFail(id) ==
    /\ stage[id] \in {"send", "connect"}
    /\ stage' = [stage EXCEPT ![id] = "done"]
    /\ UNCHANGED <<proto, now, table, queue, uid, dst, expireTime, net, report, verdict>>

\* The thread has the message and has read the clock, at some instant before now.
receive_udp_message(m, recv_time) == m.kind = "pong" /\ recv_time \in m.at .. now

\* UDP: the rx thread takes an answer, reads the clock and waits for the lock.  A
\* datagram that was duplicated stays under way.
UdpReceive(again) ==
    /\ proto = "udp" /\ ~Locked
    /\ again => dups < MaxDup
    /\ \E m \in wire :
          /\ \E recv_time \in Clock :
                /\ receive_udp_message(m, recv_time)
                /\ update_pong_info(m.id, Nanos(recv_time))
          /\ wire' = IF again THEN wire ELSE wire \ {m}
    /\ dups' = IF again THEN dups + 1 ELSE dups
    /\ UNCHANGED <<proto, now, sending, answered, report>>

\* TCP: connect() has returned in the thread of this ping, which reads the clock
\* and waits for the lock.
TcpConnected ==
    /\ proto = "tcp" /\ ~Locked
    /\ \E m \in wire :
          /\ m.kind = "pong" /\ stage[m.id] = "connect"
          /\ \E recv_time \in m.at .. now : update_pong_info(m.id, Nanos(recv_time))
          /\ wire' = wire \ {m}
          /\ stage' = [stage EXCEPT ![m.id] = "done"]
    /\ UNCHANGED <<proto, now, uid, dst, expireTime, dups, answered, report>>

\* The loop of the UDP server; for TCP the handshake, which needs no accept().
ServerAnswer ==
    /\ \E m \in wire :
          /\ m.kind = "ping"
          /\ wire' = (wire \ {m}) \cup {[m EXCEPT !.kind = "pong", !.at = now]}
          /\ answered' = answered \cup {m.id}
    /\ UNCHANGED <<proto, now, table, queue, sending, dups, report, verdict>>

Tick ==
    /\ now < ClockStart + MaxTicks
    /\ now' = now + 1
    /\ UNCHANGED <<proto, table, queue, sending, net, report, verdict>>

-----------------------------------------------------------------------------
(* Result thread.                                                          *)

Plus(c1, c2) == [d \in Dsts |-> [k \in Counted |-> c1[d][k] + c2[d][k]]]

ResultTake ==
    /\ queue # <<>>
    /\ window' = [window EXCEPT ![Head(queue).dst][Head(queue).kind] = @ + 1]
    /\ queue' = Tail(queue)
    /\ UNCHANGED <<proto, now, table, sending, net, reported, verdict>>

\* Mutant: the history is not cleared.
Report_NoClear ==
    /\ reported' = Plus(reported, window)
    /\ UNCHANGED <<proto, now, table, queue, sending, net, window, verdict>>

\* The report interval has passed (a report of nothing changes nothing).  What writeMessage returns is ignored: when the
\* ring is full the results are gone.
Report ==
    /\ reported' = Plus(reported, window)
    /\ window' = NoCounts
    /\ UNCHANGED <<proto, now, table, queue, sending, net, verdict>>

-----------------------------------------------------------------------------

Next ==
    \/ TxNext \/ Expire
    \/ \E id \in Ids : \/ InsertBegin(id) \/ InsertEnd(id)
                       \/ MakeCtxFail(id) \/ Send(id) \/ SendFail(id)
    \/ (\E again \in BOOLEAN : UdpReceive(again))
    \/ TcpConnected
    \/ ResultTake \/ Report
    \/ ServerAnswer \/ Tick

Spec == Init /\ [][Next]_vars

-----------------------------------------------------------------------------
(* Properties.                                                             *)

Entry == [dst : Dsts, ts : Clock, network_delay : 0 .. Mask]
Message == [kind : {"ping", "pong"}, id : Ids, at : Clock]
Result == [id : Ids, dst : Dsts, sent : Clock, delay : 0 .. Mask, kind : Counted]
Counts == [Dsts -> [Counted -> Nat]]

TypeOK ==
    /\ proto \in Protocols /\ now \in Clock
    /\ DOMAIN map \subseteq Ids /\ \A i \in DOMAIN map : map[i] \in Entry
    /\ keyList \in Seq(Ids) /\ queue \in Seq(Result) /\ Len(queue) <= QueueSize
    /\ uid \in 0 .. MaxPing /\ expireTime \in Nat
    /\ stage \in [Ids -> {"none", "made", "insert", "send", "connect", "done"}]
    /\ DOMAIN dst = 0 .. uid - 1 /\ \A i \in DOMAIN dst : dst[i] \in Dsts
    /\ wire \subseteq Message /\ dups \in 0 .. MaxDup /\ answered \subseteq Ids
    /\ window \in Counts /\ reported \in Counts
    /\ verdict \in [Ids -> Counted \cup {"none", "full"}]

\* Table and list describe the same pings, each once, oldest first, although TCP
\* threads insert in an order that is not the order of the ids, and answers
\* remove entries from the middle.
OldestFirst(list, m) ==
    /\ ToSet(list) = DOMAIN m
    /\ \A i, j \in 1 .. Len(list) :
          i < j => list[i] # list[j] /\ m[list[i]].ts <= m[list[j]].ts

ListMatchesMap == OldestFirst(keyList, map)

\* Table and list on states of the right type, which includes a queue that
\* keeps to its size.
TableInv == TypeOK /\ ListMatchesMap

\* expireEntries stops at the first fresh entry; no entry behind it is stale, so
\* a dead ping is reported at the next insert, by whichever thread, and not later.
ExpiryIsComplete ==
    [][\A id \in Ids : stage[id] = "insert" /\ stage'[id] = "send" =>
          \A i \in DOMAIN map : ~Stale(i)]_vars

\* The delay of a success lies between nothing and the time since the insert, also
\* when the clock wraps around in between.
DelayFits ==
    \A i \in 1 .. Len(queue) :
        queue[i].kind = "success" => queue[i].delay <= now - queue[i].sent

\* For every destination, what was reported, what is in the window and what waits in
\* the queue add up to the pings that ended this way: the threads that produce
\* results and the one that reports them lose none and count none twice.
CountsAreTrue ==
    \A d \in Dsts : \A k \in Counted :
        reported[d][k] + window[d][k]
            + Cardinality({i \in 1 .. Len(queue) : queue[i].dst = d /\ queue[i].kind = k})
        = Cardinality({id \in DOMAIN dst : dst[id] = d /\ verdict[id] = k})

\* The clients implement the promise of a ping table: a ping in the table ends
\* once, and as a success only when its destination has answered; a late or
\* repeated answer changes nothing.
Fate(id) ==
    IF id \in DOMAIN map /\ verdict[id] = "none" THEN "pending" ELSE verdict[id]

Ledger == INSTANCE PingLedger WITH
    Good <- {"success"},
    Bad <- {"failure", "full"},
    fate <- [id \in Ids |-> Fate(id)]

ImplementsLedger == Ledger!Spec
=============================================================================
