-------------------------- MODULE RdmaServerProofs --------------------------
(***************************************************************************)
(* Proofs about the RDMA ping server, for every set of pings, number of    *)
(* buffers, queue size, threshold, modulus and clock bound.                *)
(***************************************************************************)
EXTENDS RdmaServer, FiniteSetTheorems, SequenceTheorems, TLAPS

-----------------------------------------------------------------------------
(* The inductive invariant.                                                *)

Msg == [kind : {"none", "pong", "ack"}, id : Nat, delay : Nat]
Request == [id : Pings, time : Nat]
Work == [wr : {"pong", "ack"}, idx : 0 .. NumBuf - 1, msg : Msg, to : Pings]
Cqe == [wr : {"pong", "ack"}, to : Pings, at : Nat, ok : BOOLEAN]

\* What every variable may hold.
ServerTypes ==
    /\ now \in Nat
    /\ arrivals \in Seq(Request) /\ server_queue \in Seq(Request)
    /\ txpc \in {"wait", "insert", "copy", "copy2", "post"} /\ ping_msg \in [id : Nat, time : Nat]
    /\ map \in [DOMAIN map -> [time : Nat, ts : Nat]] /\ DOMAIN map \subseteq Pings
    /\ keyList \in Seq(Pings)
    /\ buf \in [0 .. NumBuf - 1 -> Msg]
    /\ sq \in Seq(Work) /\ cqes \in Seq(Cqe)
    /\ cqpc \in {"wait", "copy", "copy2", "post", "remove"}
    /\ txpc # "wait" => ping_msg.id \in Pings
    /\ cqpc # "wait" => wr_id \in Pings
    /\ wr_id \in Nat /\ entry \in Nat /\ cqe_time \in Nat
    /\ gone \subseteq Pings /\ overlapped \subseteq Pings
    /\ arrivedAt \in [DOMAIN arrivedAt -> Nat] /\ DOMAIN arrivedAt \subseteq Pings
    /\ leftAt \in [DOMAIN leftAt -> Nat] /\ DOMAIN leftAt \subseteq DOMAIN arrivedAt
    /\ out \subseteq [to : Pings, msg : Msg]

\* The two sleepers and the end of the process.
EventTypes ==
    /\ rxEvent \in {"armed", "event", "polling", "off"}
    /\ cqEvent \in {"armed", "event", "polling", "off"}
    /\ rxTodo \in 0 .. NumBuf /\ cqTodo \in 0 .. NumBuf
    /\ alive \in BOOLEAN /\ ahFailed \in BOOLEAN

\* A thread is inside post_send.
TxSends == txpc \in {"copy", "copy2", "post"}
CqSends == cqpc \in {"copy", "copy2", "post"}

\* The queues keep to their sizes.
Sizes ==
    /\ Len(arrivals) <= NumBuf /\ Len(server_queue) <= QueueSize
    /\ Len(sq) + Len(cqes) <= NumBuf

\* The keys in the list, each once, are the keys of the map.
ListInv(s, m) ==
    /\ ToSet(s) = DOMAIN m
    /\ \A j, k \in 1 .. Len(s) : s[j] = s[k] => j = k

\* An entry is on its way to an ACK or its ping is gone; so is the ping of a
\* send that failed.
OnTheWay == \A id \in DOMAIN map : InFlight(id) \/ id \in gone
FailedIsGone == \A k \in 1 .. Len(cqes) : ~cqes[k].ok => cqes[k].to \in gone
EntryInv == OnTheWay /\ FailedIsGone

\* The places a ping can be at on its way through the threads and the NIC.
DistinctIds(s) == \A j, k \in 1 .. Len(s) : s[j].id = s[k].id => j = k
DistinctTos(s) == \A j, k \in 1 .. Len(s) : s[j].to = s[k].to => j = k
HasId(s, i) == \E k \in 1 .. Len(s) : s[k].id = i
HasTo(s, i) == \E k \in 1 .. Len(s) : s[k].to = i

Arriving(i) == HasId(arrivals, i)
Queued(i) == HasId(server_queue, i)
Handled(i) == txpc # "wait" /\ ping_msg.id = i
Posted(i) == HasTo(sq, i)
Completed(i) == HasTo(cqes, i)
Acking(i) == CqSends /\ wr_id = i

\* A ping is at no two places: it arrives once, and every step moves it.  The
\* first four places are before its PONG leaves, if the work request is a PONG.
Before(i) == Arriving(i) \/ Queued(i) \/ Handled(i)
Exclusive(i) ==
    /\ Arriving(i) => ~Queued(i) /\ ~Handled(i)
    /\ Queued(i) => ~Handled(i)
    /\ Before(i) => ~Posted(i) /\ ~Completed(i) /\ ~Acking(i)
    /\ Posted(i) => ~Completed(i) /\ ~Acking(i)
    /\ Completed(i) => ~Acking(i)
    /\ Before(i) \/ Posted(i) => i \in DOMAIN arrivedAt
    /\ Before(i) => i \notin DOMAIN leftAt
    /\ Completed(i) \/ Acking(i) => i \in DOMAIN leftAt

OnePlace ==
    /\ DistinctIds(arrivals) /\ DistinctIds(server_queue)
    /\ DistinctTos(sq) /\ DistinctTos(cqes)
    /\ \A i \in Pings : Exclusive(i)

LeftInv == \A k \in 1 .. Len(sq) : sq[k].wr = "ack" <=> sq[k].to \in DOMAIN leftAt

\* What the clocks have shown.
ClockInv ==
    /\ ClockStart <= now /\ now <= ClockStart + MaxTicks
    /\ \A i \in DOMAIN arrivedAt : ClockStart <= arrivedAt[i] /\ arrivedAt[i] <= now
    /\ \A i \in DOMAIN leftAt : arrivedAt[i] <= leftAt[i] /\ leftAt[i] <= now
    /\ \A k \in 1 .. Len(arrivals) : arrivals[k].time = arrivedAt[arrivals[k].id]
    /\ \A k \in 1 .. Len(server_queue) : server_queue[k].time <= now
    /\ txpc # "wait" => ping_msg.time <= now
    /\ DOMAIN map \subseteq DOMAIN arrivedAt
    /\ \A id \in DOMAIN map : map[id].time <= map[id].ts /\ map[id].ts <= now

\* With stamps of the NIC, the times on the way are those of arrival and
\* departure.
StampInv ==
    /\ \A k \in 1 .. Len(server_queue) : server_queue[k].time = arrivedAt[server_queue[k].id]
    /\ txpc # "wait" => ping_msg.time = arrivedAt[ping_msg.id]
    /\ \A id \in DOMAIN map : map[id].time = arrivedAt[id]
    /\ \A k \in 1 .. Len(cqes) : cqes[k].wr = "pong" => cqes[k].at = leftAt[cqes[k].to]
    /\ CqSends => entry = arrivedAt[wr_id] /\ cqe_time = leftAt[wr_id]

\* Two pings that are being answered share a buffer only if that was noted.
PairInv ==
    \A i, j \in Pings :
        Busy(i) /\ Busy(j) /\ i # j /\ i % NumBuf = j % NumBuf => i \in overlapped

\* What the NIC sends, or will send if nothing is copied over it.
Slot(i) == buf[i % NumBuf]
Content(w) == IF Inline THEN w.msg ELSE buf[w.idx]
IndexInv == \A k \in 1 .. Len(sq) : sq[k].idx = sq[k].to % NumBuf

\* While a ping has its buffer for itself, the buffer and the work request hold
\* the message for its client, as far as it has been copied.
OwnInv ==
    /\ txpc \in {"copy2", "post"} /\ ping_msg.id \notin overlapped =>
          Slot(ping_msg.id).kind = "pong" /\ Slot(ping_msg.id).id = ping_msg.id
    /\ cqpc \in {"copy2", "post"} /\ wr_id \notin overlapped =>
          Slot(wr_id).kind = "ack" /\ Slot(wr_id).id = wr_id
    /\ \A k \in 1 .. Len(sq) : sq[k].to \notin overlapped =>
          Content(sq[k]).kind = sq[k].wr /\ Content(sq[k]).id = sq[k].to
    /\ \A o \in out : o.to \notin overlapped => o.msg.id = o.to

\* The delay of its ACK, whatever the clocks have shown.
Delay(i) == (leftAt[i] - arrivedAt[i]) % Modulo
DelayInv ==
    /\ cqpc = "post" /\ wr_id \notin overlapped => Slot(wr_id).delay = Delay(wr_id)
    /\ \A k \in 1 .. Len(sq) : sq[k].wr = "ack" /\ sq[k].to \notin overlapped =>
          Content(sq[k]).delay = Delay(sq[k].to)
    /\ \A o \in out : o.msg.kind = "ack" /\ o.to \notin overlapped =>
          o.to \in DOMAIN leftAt /\ o.msg.delay = Delay(o.to)

PathInv ==
    /\ ServerTypes /\ EventTypes /\ Sizes /\ ListInv(keyList, map) /\ EntryInv
    /\ OnePlace /\ LeftInv /\ ClockInv /\ StaysAlive
AnswerInv == PairInv /\ IndexInv /\ OwnInv /\ (HwTs => StampInv /\ DelayInv)

-----------------------------------------------------------------------------
(* Sequences of work, by the ping they are for.                            *)

\* Everything in the tail of a sequence, or in a sequence with one more
\* element, was there before or is that element.
LEMMA TailElements ==
    ASSUME NEW S, NEW s \in Seq(S), s # <<>>
    PROVE  /\ Tail(s) \in Seq(S) /\ Len(Tail(s)) = Len(s) - 1 /\ Len(s) \in Nat \ {0}
           /\ Head(s) = s[1] /\ Head(s) \in S
           /\ \A k \in 1 .. Len(Tail(s)) : k + 1 \in 1 .. Len(s) /\ Tail(s)[k] = s[k + 1]
<1>1. /\ Head(s) \in S /\ Tail(s) \in Seq(S) /\ Len(Tail(s)) = Len(s) - 1
      /\ \A k \in 1 .. Len(Tail(s)) : Tail(s)[k] = s[k + 1]
  BY HeadTailProperties
<1>2. Len(s) \in Nat \ {0} /\ Head(s) = s[1]
  BY EmptySeq, LenProperties
<1> QED
  BY <1>1, <1>2

LEMMA AppendElements ==
    ASSUME NEW S, NEW s \in Seq(S), NEW e \in S
    PROVE  /\ Append(s, e) \in Seq(S) /\ Len(Append(s, e)) = Len(s) + 1 /\ Len(s) \in Nat
           /\ Append(s, e)[Len(s) + 1] = e
           /\ \A k \in 1 .. Len(s) : Append(s, e)[k] = s[k]
           /\ \A k \in 1 .. Len(s) + 1 : k # Len(s) + 1 => k \in 1 .. Len(s)
<1>1. Len(s) \in Nat
  BY LenProperties
<1>2. \A k \in 1 .. Len(s) + 1 : k # Len(s) + 1 => k \in 1 .. Len(s)
  BY <1>1
<1> QED
  BY <1>1, <1>2, AppendProperties

LEMMA TailIds ==
    ASSUME NEW S, NEW s \in Seq(S), s # <<>>, DistinctIds(s)
    PROVE  /\ DistinctIds(Tail(s)) /\ HasId(s, Head(s).id)
           /\ \A i : HasId(Tail(s), i) <=> HasId(s, i) /\ i # Head(s).id
<1> DEFINE t == Tail(s)
<1>1. /\ t \in Seq(S) /\ Len(t) = Len(s) - 1 /\ Len(s) \in Nat \ {0} /\ Head(s) = s[1]
      /\ \A k \in 1 .. Len(t) : k + 1 \in 1 .. Len(s) /\ t[k] = s[k + 1]
  BY TailElements
<1> HIDE DEF t
<1>2. DistinctIds(t)
  <2> SUFFICES ASSUME NEW j \in 1 .. Len(t), NEW k \in 1 .. Len(t), t[j].id = t[k].id
               PROVE  j = k
    BY DEF DistinctIds
  <2>1. j + 1 \in 1 .. Len(s) /\ k + 1 \in 1 .. Len(s) /\ s[j + 1].id = s[k + 1].id
    BY <1>1
  <2>2. j + 1 = k + 1
    BY <2>1 DEF DistinctIds
  <2> QED
    BY <1>1, <2>2
<1>3. 1 \in 1 .. Len(s)
  BY <1>1
<1>4. ASSUME NEW i PROVE HasId(t, i) <=> HasId(s, i) /\ i # s[1].id
  <2>1. ASSUME NEW k \in 1 .. Len(t), t[k].id = i PROVE HasId(s, i) /\ i # s[1].id
    <3>1. k + 1 \in 1 .. Len(s) /\ s[k + 1].id = i /\ k + 1 # 1
      BY <1>1, <2>1
    <3> QED
      BY <1>3, <3>1 DEF HasId, DistinctIds
  <2>2. ASSUME NEW k \in 1 .. Len(s), s[k].id = i, i # s[1].id PROVE HasId(t, i)
    <3>1. k # 1
      BY <2>2
    <3>2. k - 1 \in 1 .. Len(t) /\ (k - 1) + 1 = k
      BY <1>1, <3>1
    <3>3. t[k - 1] = s[k]
      BY <1>1, <3>2
    <3> QED
      BY <2>2, <3>2, <3>3 DEF HasId
  <2> QED
    BY <2>1, <2>2 DEF HasId
<1> QED
  BY <1>1, <1>2, <1>3, <1>4 DEF t, HasId

LEMMA AppendIds ==
    ASSUME NEW S, NEW s \in Seq(S), NEW e \in S, DistinctIds(s), ~HasId(s, e.id)
    PROVE  /\ DistinctIds(Append(s, e))
           /\ \A i : HasId(Append(s, e), i) <=> HasId(s, i) \/ i = e.id
<1> DEFINE t == Append(s, e)
<1>1. /\ t \in Seq(S) /\ Len(t) = Len(s) + 1 /\ Len(s) \in Nat /\ t[Len(s) + 1] = e
      /\ \A k \in 1 .. Len(s) : t[k] = s[k]
      /\ \A k \in 1 .. Len(t) : k # Len(s) + 1 => k \in 1 .. Len(s)
  BY AppendElements
<1> HIDE DEF t
<1>2. DistinctIds(t)
  <2> SUFFICES ASSUME NEW j \in 1 .. Len(t), NEW k \in 1 .. Len(t), t[j].id = t[k].id
               PROVE  j = k
    BY DEF DistinctIds
  <2>1. CASE j = Len(s) + 1 /\ k = Len(s) + 1
    BY <2>1
  <2>2. CASE j = Len(s) + 1 /\ k # Len(s) + 1
    BY <1>1, <2>2 DEF HasId
  <2>3. CASE j # Len(s) + 1 /\ k = Len(s) + 1
    BY <1>1, <2>3 DEF HasId
  <2>4. CASE j # Len(s) + 1 /\ k # Len(s) + 1
    BY <1>1, <2>4 DEF DistinctIds
  <2> QED
    BY <2>1, <2>2, <2>3, <2>4
<1>3. ASSUME NEW i PROVE HasId(t, i) <=> HasId(s, i) \/ i = e.id
  <2>1. 1 .. Len(s) \subseteq 1 .. Len(t) /\ Len(s) + 1 \in 1 .. Len(t)
    BY <1>1
  <2>2. ASSUME NEW k \in 1 .. Len(s), s[k].id = i PROVE HasId(t, i)
    BY <1>1, <2>1, <2>2 DEF HasId
  <2>3. i = e.id => HasId(t, i)
    BY <1>1, <2>1 DEF HasId
  <2>4. ASSUME NEW k \in 1 .. Len(t), t[k].id = i PROVE HasId(s, i) \/ i = e.id
    BY <1>1, <2>4 DEF HasId
  <2> QED
    BY <2>2, <2>3, <2>4 DEF HasId
<1> QED
  BY <1>2, <1>3 DEF t

LEMMA TailTos ==
    ASSUME NEW S, NEW s \in Seq(S), s # <<>>, DistinctTos(s)
    PROVE  /\ DistinctTos(Tail(s)) /\ HasTo(s, Head(s).to)
           /\ \A i : HasTo(Tail(s), i) <=> HasTo(s, i) /\ i # Head(s).to
<1> DEFINE t == Tail(s)
<1>1. /\ t \in Seq(S) /\ Len(t) = Len(s) - 1 /\ Len(s) \in Nat \ {0} /\ Head(s) = s[1]
      /\ \A k \in 1 .. Len(t) : k + 1 \in 1 .. Len(s) /\ t[k] = s[k + 1]
  BY TailElements
<1> HIDE DEF t
<1>2. DistinctTos(t)
  <2> SUFFICES ASSUME NEW j \in 1 .. Len(t), NEW k \in 1 .. Len(t), t[j].to = t[k].to
               PROVE  j = k
    BY DEF DistinctTos
  <2>1. j + 1 \in 1 .. Len(s) /\ k + 1 \in 1 .. Len(s) /\ s[j + 1].to = s[k + 1].to
    BY <1>1
  <2>2. j + 1 = k + 1
    BY <2>1 DEF DistinctTos
  <2> QED
    BY <1>1, <2>2
<1>3. 1 \in 1 .. Len(s)
  BY <1>1
<1>4. ASSUME NEW i PROVE HasTo(t, i) <=> HasTo(s, i) /\ i # s[1].to
  <2>1. ASSUME NEW k \in 1 .. Len(t), t[k].to = i PROVE HasTo(s, i) /\ i # s[1].to
    <3>1. k + 1 \in 1 .. Len(s) /\ s[k + 1].to = i /\ k + 1 # 1
      BY <1>1, <2>1
    <3> QED
      BY <1>3, <3>1 DEF HasTo, DistinctTos
  <2>2. ASSUME NEW k \in 1 .. Len(s), s[k].to = i, i # s[1].to PROVE HasTo(t, i)
    <3>1. k # 1
      BY <2>2
    <3>2. k - 1 \in 1 .. Len(t) /\ (k - 1) + 1 = k
      BY <1>1, <3>1
    <3>3. t[k - 1] = s[k]
      BY <1>1, <3>2
    <3> QED
      BY <2>2, <3>2, <3>3 DEF HasTo
  <2> QED
    BY <2>1, <2>2 DEF HasTo
<1> QED
  BY <1>1, <1>2, <1>3, <1>4 DEF t, HasTo

LEMMA AppendTos ==
    ASSUME NEW S, NEW s \in Seq(S), NEW e \in S, DistinctTos(s), ~HasTo(s, e.to)
    PROVE  /\ DistinctTos(Append(s, e))
           /\ \A i : HasTo(Append(s, e), i) <=> HasTo(s, i) \/ i = e.to
<1> DEFINE t == Append(s, e)
<1>1. /\ t \in Seq(S) /\ Len(t) = Len(s) + 1 /\ Len(s) \in Nat /\ t[Len(s) + 1] = e
      /\ \A k \in 1 .. Len(s) : t[k] = s[k]
      /\ \A k \in 1 .. Len(t) : k # Len(s) + 1 => k \in 1 .. Len(s)
  BY AppendElements
<1> HIDE DEF t
<1>2. DistinctTos(t)
  <2> SUFFICES ASSUME NEW j \in 1 .. Len(t), NEW k \in 1 .. Len(t), t[j].to = t[k].to
               PROVE  j = k
    BY DEF DistinctTos
  <2>1. CASE j = Len(s) + 1 /\ k = Len(s) + 1
    BY <2>1
  <2>2. CASE j = Len(s) + 1 /\ k # Len(s) + 1
    BY <1>1, <2>2 DEF HasTo
  <2>3. CASE j # Len(s) + 1 /\ k = Len(s) + 1
    BY <1>1, <2>3 DEF HasTo
  <2>4. CASE j # Len(s) + 1 /\ k # Len(s) + 1
    BY <1>1, <2>4 DEF DistinctTos
  <2> QED
    BY <2>1, <2>2, <2>3, <2>4
<1>3. ASSUME NEW i PROVE HasTo(t, i) <=> HasTo(s, i) \/ i = e.to
  <2>1. 1 .. Len(s) \subseteq 1 .. Len(t) /\ Len(s) + 1 \in 1 .. Len(t)
    BY <1>1
  <2>2. ASSUME NEW k \in 1 .. Len(s), s[k].to = i PROVE HasTo(t, i)
    BY <1>1, <2>1, <2>2 DEF HasTo
  <2>3. i = e.to => HasTo(t, i)
    BY <1>1, <2>1 DEF HasTo
  <2>4. ASSUME NEW k \in 1 .. Len(t), t[k].to = i PROVE HasTo(s, i) \/ i = e.to
    BY <1>1, <2>4 DEF HasTo
  <2> QED
    BY <2>2, <2>3, <2>4 DEF HasTo
<1> QED
  BY <1>2, <1>3 DEF t

-----------------------------------------------------------------------------
(* Types and sizes.                                                        *)

LEMMA ModRange ==
    ASSUME NEW a \in Int, NEW m \in Nat \ {0}
    PROVE  /\ a % m \in 0 .. m - 1 /\ a \div m \in Int
           /\ a = m * (a \div m) + (a % m)
OBVIOUS

LEMMA DeltaNat ==
    ASSUME NEW t1 \in Nat, NEW t2 \in Nat
    PROVE  calc_time_delta_with_modulo(t1, t2) \in Nat
<1>1. Modulo \in Nat \ {0}
  BY ServerAssumption
<1>2. t1 % Modulo \in Int /\ t2 % Modulo \in Int
  BY <1>1, ModRange
<1>3. (t2 % Modulo) + Modulo - (t1 % Modulo) \in Int
  BY <1>1, <1>2
<1>4. ((t2 % Modulo) + Modulo - (t1 % Modulo)) % Modulo \in 0 .. Modulo - 1
  BY <1>1, <1>3, ModRange
<1> QED
  BY <1>1, <1>4 DEF calc_time_delta_with_modulo

LEMMA IndexRange ==
    ASSUME NEW id \in Pings
    PROVE  id % NumBuf \in 0 .. NumBuf - 1
<1>1. id \in Nat /\ NumBuf \in Nat \ {0}
  BY ServerAssumption
<1> QED
  BY <1>1, ModRange

\* ibv_post_send appends one well-formed work request.
LEMMA PostTyped ==
    ASSUME ServerTypes, NEW id \in Pings, NEW wr \in {"pong", "ack"}, ibv_post_send(id, wr)
    PROVE  \E w \in Work : /\ w.wr = wr /\ w.to = id /\ w.msg = Slot(id) /\ w.idx = id % NumBuf
                           /\ sq' = Append(sq, w)
<1>1. id % NumBuf \in 0 .. NumBuf - 1
  BY IndexRange
<1>2. Slot(id) \in Msg
  BY <1>1 DEF ServerTypes, Slot
<1> DEFINE w == [wr |-> wr, idx |-> id % NumBuf, msg |-> Slot(id), to |-> id]
<1>3. w \in Work
  BY <1>1, <1>2 DEF Work
<1>4. sq' = Append(sq, w)
  BY DEF ibv_post_send, Slot
<1> QED
  BY <1>3, <1>4

\* The two halves of a memcpy.
LEMMA CopyTyped ==
    ASSUME ServerTypes, NEW id \in Pings, NEW msg \in Msg
    PROVE  /\ CopyFirst(id, msg) =>
                 /\ buf' \in [0 .. NumBuf - 1 -> Msg]
                 /\ buf'[id % NumBuf].kind = msg.kind /\ buf'[id % NumBuf].id = msg.id
                 /\ \A x \in 0 .. NumBuf - 1 : x # id % NumBuf => buf'[x] = buf[x]
           /\ CopyLast(id, msg) =>
                 /\ buf' \in [0 .. NumBuf - 1 -> Msg]
                 /\ buf'[id % NumBuf].delay = msg.delay
                 /\ buf'[id % NumBuf].kind = Slot(id).kind /\ buf'[id % NumBuf].id = Slot(id).id
                 /\ \A x \in 0 .. NumBuf - 1 : x # id % NumBuf => buf'[x] = buf[x]
<1>1. PICK x \in 0 .. NumBuf - 1 : x = id % NumBuf
  BY IndexRange
<1>2. buf \in [0 .. NumBuf - 1 -> Msg] /\ buf[x] \in Msg
  BY <1>1 DEF ServerTypes
<1>3. ASSUME CopyFirst(id, msg)
      PROVE  /\ buf' \in [0 .. NumBuf - 1 -> Msg]
             /\ buf'[x].kind = msg.kind /\ buf'[x].id = msg.id
             /\ \A y \in 0 .. NumBuf - 1 : y # x => buf'[y] = buf[y]
  <2>1. buf' = [buf EXCEPT ![x].kind = msg.kind, ![x].id = msg.id]
    BY <1>1, <1>3 DEF CopyFirst
  <2> DEFINE m == [buf[x] EXCEPT !.kind = msg.kind, !.id = msg.id]
  <2>2. m \in Msg /\ m.kind = msg.kind /\ m.id = msg.id
    BY <1>2 DEF Msg
  <2>3. buf' = [buf EXCEPT ![x] = m]
    BY <1>2, <2>1
  <2> HIDE DEF m
  <2> QED
    BY <1>1, <1>2, <2>2, <2>3
<1>4. ASSUME CopyLast(id, msg)
      PROVE  /\ buf' \in [0 .. NumBuf - 1 -> Msg]
             /\ buf'[x].delay = msg.delay
             /\ buf'[x].kind = buf[x].kind /\ buf'[x].id = buf[x].id
             /\ \A y \in 0 .. NumBuf - 1 : y # x => buf'[y] = buf[y]
  <2>1. buf' = [buf EXCEPT ![x].delay = msg.delay]
    BY <1>1, <1>4 DEF CopyLast
  <2> DEFINE m == [buf[x] EXCEPT !.delay = msg.delay]
  <2>2. m \in Msg /\ m.delay = msg.delay /\ m.kind = buf[x].kind /\ m.id = buf[x].id
    BY <1>2 DEF Msg
  <2>3. buf' = [buf EXCEPT ![x] = m]
    BY <1>2, <2>1
  <2> HIDE DEF m
  <2> QED
    BY <1>1, <1>2, <2>2, <2>3
<1> QED
  BY <1>1, <1>3, <1>4 DEF Slot

\* The two messages.
LEMMA MessagesTyped ==
    ASSUME ServerTypes
    PROVE  /\ Pong \in Msg /\ Pong.kind = "pong" /\ Pong.id = ping_msg.id
           /\ Ack \in Msg /\ Ack.kind = "ack" /\ Ack.id = wr_id
           /\ Ack.delay = calc_time_delta_with_modulo(entry, cqe_time)
<1>1. PICK d \in Nat : d = calc_time_delta_with_modulo(entry, cqe_time)
  BY DeltaNat DEF ServerTypes
<1>2. Ack = [kind |-> "ack", id |-> wr_id, delay |-> d]
  BY <1>1 DEF Ack
<1> QED
  BY <1>1, <1>2 DEF Pong, Msg, ServerTypes

\* One more value of a function.
LEMMA WithValue ==
    ASSUME NEW f, NEW k, NEW v
    PROVE  /\ DOMAIN With(f, k, v) = DOMAIN f \cup {k}
           /\ With(f, k, v)[k] = v
           /\ \A x \in DOMAIN f : x # k => With(f, k, v)[x] = f[x]
           /\ \A S : f \in [DOMAIN f -> S] /\ v \in S =>
                  With(f, k, v) \in [DOMAIN With(f, k, v) -> S]
BY DEF With

LEMMA ToSetOfSeq ==
    ASSUME NEW S, NEW s \in Seq(S)
    PROVE  ToSet(s) = {s[i] : i \in 1 .. Len(s)}
<1>1. DOMAIN s = 1 .. Len(s)
  BY LenProperties
<1> QED
  BY <1>1 DEF ToSet

-----------------------------------------------------------------------------
(* The list of keys.                                                       *)

LEMMA RemoveAtProperties ==
    ASSUME NEW S, NEW s \in Seq(S), NEW p \in 1 .. Len(s)
    PROVE  /\ RemoveAt(s, p) \in Seq(S)
           /\ Len(RemoveAt(s, p)) = Len(s) - 1
           /\ \A i \in 1 .. Len(s) - 1 :
                 RemoveAt(s, p)[i] = IF i < p THEN s[i] ELSE s[i + 1]
<1>1. Len(s) \in Nat /\ \A i \in 1 .. Len(s) : s[i] \in S
  BY LenProperties, ElementOfSeq
<1> DEFINE a == SubSeq(s, 1, p - 1)
<1> DEFINE b == SubSeq(s, p + 1, Len(s))
<1>2. a \in Seq(S) /\ Len(a) = p - 1 /\ \A i \in 1 .. p - 1 : a[i] = s[i]
  <2>1. \A i \in 1 .. p - 1 : s[i] \in S
    BY <1>1
  <2>2. /\ a \in Seq(S) /\ Len(a) = IF 1 <= p - 1 THEN p - 1 - 1 + 1 ELSE 0
        /\ \A i \in 1 .. p - 1 - 1 + 1 : a[i] = s[1 + i - 1]
    BY <1>1, <2>1, SubSeqProperties
  <2> QED
    BY <1>1, <2>2
<1>3. /\ b \in Seq(S) /\ Len(b) = Len(s) - p
      /\ \A i \in 1 .. Len(s) - p : b[i] = s[p + i]
  <2>1. \A i \in p + 1 .. Len(s) : s[i] \in S
    BY <1>1
  <2>2. /\ b \in Seq(S) /\ Len(b) = IF p + 1 <= Len(s) THEN Len(s) - (p + 1) + 1 ELSE 0
        /\ \A i \in 1 .. Len(s) - (p + 1) + 1 : b[i] = s[p + 1 + i - 1]
    BY <1>1, <2>1, SubSeqProperties
  <2> QED
    BY <1>1, <2>2
<1>4. RemoveAt(s, p) = a \o b
  BY DEF RemoveAt
<1>5. /\ a \o b \in Seq(S) /\ Len(a \o b) = Len(a) + Len(b)
      /\ \A i \in 1 .. Len(a) + Len(b) :
            (a \o b)[i] = IF i <= Len(a) THEN a[i] ELSE b[i - Len(a)]
  BY <1>2, <1>3, ConcatProperties
<1> HIDE DEF a, b
<1> QED
  BY <1>1, <1>2, <1>3, <1>4, <1>5

\* The keys behind the first n.
LEMMA DropKeeps ==
    ASSUME NEW S, NEW s \in Seq(S), NEW m, ListInv(s, m), NEW n \in 0 .. Len(s), NEW u,
           u = SubSeq(s, n + 1, Len(s))
    PROVE  u \in Seq(S) /\ ToSet(u) \subseteq DOMAIN m /\ ListInv(u, Restrict(m, ToSet(u)))
<1>1. Len(s) \in Nat /\ \A i \in 1 .. Len(s) : s[i] \in S
  BY LenProperties, ElementOfSeq
<1>2. /\ u \in Seq(S) /\ Len(u) = Len(s) - n
      /\ \A i \in 1 .. Len(s) - n : u[i] = s[n + i]
  <2>1. \A i \in n + 1 .. Len(s) : s[i] \in S
    BY <1>1
  <2>2. /\ u \in Seq(S) /\ Len(u) = IF n + 1 <= Len(s) THEN Len(s) - (n + 1) + 1 ELSE 0
        /\ \A i \in 1 .. Len(s) - (n + 1) + 1 : u[i] = s[n + 1 + i - 1]
    BY <1>1, <2>1, SubSeqProperties
  <2> QED
    BY <1>1, <2>2
<1>3. \A i \in 1 .. Len(u) : n + i \in 1 .. Len(s) /\ u[i] = s[n + i]
  BY <1>1, <1>2
<1>4. ToSet(s) = {s[i] : i \in 1 .. Len(s)} /\ ToSet(u) = {u[i] : i \in 1 .. Len(u)}
  <2>1. ToSet(s) = {s[i] : i \in 1 .. Len(s)}
    BY ToSetOfSeq
  <2>2. DOMAIN u = 1 .. Len(u)
    BY <1>2, LenProperties
  <2> QED
    BY <2>1, <2>2 DEF ToSet
<1>5. ToSet(u) \subseteq DOMAIN m
  BY <1>3, <1>4 DEF ListInv
<1>6. ASSUME NEW j \in 1 .. Len(u), NEW k \in 1 .. Len(u), u[j] = u[k] PROVE j = k
  <2>1. n + j \in 1 .. Len(s) /\ n + k \in 1 .. Len(s) /\ s[n + j] = s[n + k]
    BY <1>3, <1>6
  <2>2. n + j = n + k
    BY <2>1 DEF ListInv
  <2> QED
    BY <1>1, <2>2
<1>7. DOMAIN Restrict(m, ToSet(u)) = ToSet(u)
  BY DEF Restrict
<1> QED
  BY <1>2, <1>5, <1>6, <1>7 DEF ListInv

\* A new key at the end.
LEMMA AddKeeps ==
    ASSUME NEW S, NEW s \in Seq(S), NEW m, ListInv(s, m), NEW k \in S, k \notin DOMAIN m, NEW v
    PROVE  ListInv(Append(s, k), With(m, k, v))
<1> DEFINE t == Append(s, k)
<1>1. /\ t \in Seq(S) /\ Len(t) = Len(s) + 1 /\ Len(s) \in Nat /\ t[Len(s) + 1] = k
      /\ \A i \in 1 .. Len(s) : t[i] = s[i]
      /\ \A i \in 1 .. Len(t) : i # Len(s) + 1 => i \in 1 .. Len(s)
  BY AppendElements
<1> HIDE DEF t
<1>2. ToSet(s) = {s[i] : i \in 1 .. Len(s)} /\ ToSet(t) = {t[i] : i \in 1 .. Len(t)}
  BY <1>1, ToSetOfSeq
<1>3. \A i \in 1 .. Len(s) : s[i] \in DOMAIN m
  BY <1>2 DEF ListInv
<1>4. 1 .. Len(s) \subseteq 1 .. Len(t) /\ Len(s) + 1 \in 1 .. Len(t)
  BY <1>1
<1>5. ASSUME NEW x PROVE x \in ToSet(t) <=> x \in DOMAIN m \cup {k}
  <2>1. ASSUME NEW i \in 1 .. Len(t), x = t[i] PROVE x \in DOMAIN m \cup {k}
    BY <1>1, <1>3, <2>1
  <2>2. ASSUME x \in DOMAIN m PROVE x \in ToSet(t)
    <3>1. PICK i \in 1 .. Len(s) : x = s[i]
      BY <1>2, <2>2 DEF ListInv
    <3> QED
      BY <1>1, <1>2, <1>4, <3>1
  <2>3. k \in ToSet(t)
    BY <1>1, <1>2, <1>4
  <2> QED
    BY <1>2, <2>1, <2>2, <2>3
<1>6. ASSUME NEW i \in 1 .. Len(t), NEW j \in 1 .. Len(t), t[i] = t[j] PROVE i = j
  <2>1. CASE i = Len(s) + 1 /\ j = Len(s) + 1
    BY <2>1
  <2>2. CASE i = Len(s) + 1 /\ j # Len(s) + 1
    BY <1>1, <1>3, <1>6, <2>2
  <2>3. CASE i # Len(s) + 1 /\ j = Len(s) + 1
    BY <1>1, <1>3, <1>6, <2>3
  <2>4. CASE i # Len(s) + 1 /\ j # Len(s) + 1
    BY <1>1, <1>6, <2>4 DEF ListInv
  <2> QED
    BY <2>1, <2>2, <2>3, <2>4
<1>7. DOMAIN With(m, k, v) = DOMAIN m \cup {k}
  BY WithValue
<1>8. ToSet(t) = DOMAIN With(m, k, v)
  BY <1>5, <1>7
<1> QED
  BY <1>6, <1>8 DEF ListInv, t

\* Erasing one position and the key that stood there.
LEMMA EraseKeeps ==
    ASSUME NEW S, NEW s \in Seq(S), NEW m, ListInv(s, m), NEW p \in 1 .. Len(s)
    PROVE  ListInv(RemoveAt(s, p), Restrict(m, DOMAIN m \ {s[p]}))
<1> DEFINE t == RemoveAt(s, p)
<1>1. /\ t \in Seq(S) /\ Len(t) = Len(s) - 1 /\ Len(s) \in Nat
      /\ \A i \in 1 .. Len(s) - 1 : t[i] = IF i < p THEN s[i] ELSE s[i + 1]
  BY RemoveAtProperties, LenProperties
<1> HIDE DEF t
<1> DEFINE at(i) == IF i < p THEN i ELSE i + 1
<1>2. ASSUME NEW i \in 1 .. Len(t) PROVE at(i) \in 1 .. Len(s) /\ at(i) # p /\ t[i] = s[at(i)]
  <2>1. CASE i < p
    BY <1>1, <2>1
  <2>2. CASE ~(i < p)
    BY <1>1, <2>2
  <2> QED
    BY <2>1, <2>2
<1>3. ASSUME NEW k \in 1 .. Len(s), k # p PROVE \E i \in 1 .. Len(t) : t[i] = s[k]
  <2>1. CASE k < p
    BY <1>1, <2>1
  <2>2. CASE k > p
    <3>1. k - 1 \in 1 .. Len(t) /\ ~(k - 1 < p) /\ (k - 1) + 1 = k
      BY <1>1, <2>2
    <3> QED
      BY <1>1, <3>1
  <2> QED
    BY <1>1, <1>3, <2>1, <2>2
<1>4. ToSet(s) = {s[i] : i \in 1 .. Len(s)} /\ ToSet(t) = {t[i] : i \in 1 .. Len(t)}
  BY <1>1, ToSetOfSeq
<1>5. ASSUME NEW x PROVE x \in ToSet(t) <=> x \in DOMAIN m \ {s[p]}
  <2>1. ASSUME NEW i \in 1 .. Len(t), x = t[i] PROVE x \in DOMAIN m \ {s[p]}
    <3>1. at(i) \in 1 .. Len(s) /\ at(i) # p /\ x = s[at(i)]
      BY <1>2, <2>1
    <3> HIDE DEF at
    <3> QED
      BY <1>4, <3>1 DEF ListInv
  <2>2. ASSUME x \in DOMAIN m \ {s[p]} PROVE x \in ToSet(t)
    <3>1. PICK k \in 1 .. Len(s) : x = s[k]
      BY <1>4, <2>2 DEF ListInv
    <3>2. k # p
      BY <2>2, <3>1
    <3>3. PICK i \in 1 .. Len(t) : t[i] = s[k]
      BY <1>3, <3>2
    <3> QED
      BY <1>4, <3>1, <3>3
  <2> QED
    BY <1>4, <2>1, <2>2
<1>6. ASSUME NEW i \in 1 .. Len(t), NEW j \in 1 .. Len(t), t[i] = t[j] PROVE i = j
  <2>1. /\ at(i) \in 1 .. Len(s) /\ t[i] = s[at(i)]
        /\ at(j) \in 1 .. Len(s) /\ t[j] = s[at(j)]
    BY <1>2
  <2>2. at(i) = at(j)
    <3> HIDE DEF at
    <3> QED
      BY <1>6, <2>1 DEF ListInv
  <2> QED
    BY <1>1, <2>2
<1>7. DOMAIN Restrict(m, DOMAIN m \ {s[p]}) = DOMAIN m \ {s[p]}
  BY DEF Restrict
<1>8. ToSet(t) = DOMAIN Restrict(m, DOMAIN m \ {s[p]})
  BY <1>5, <1>7
<1> QED
  BY <1>6, <1>8 DEF ListInv, t

\* The list is as long as the map is large.
LEMMA ListLength ==
    ASSUME NEW S, NEW s \in Seq(S), NEW m, ListInv(s, m)
    PROVE  Cardinality(DOMAIN m) = Len(s)
<1>1. Len(s) \in Nat /\ s \in [1 .. Len(s) -> S]
  BY LenProperties
<1>2. ToSet(s) = {s[i] : i \in 1 .. Len(s)}
  BY ToSetOfSeq
<1>3. s \in Bijection(1 .. Len(s), DOMAIN m)
  BY <1>1, <1>2 DEF ListInv, Bijection, Injection, Surjection, IsInjective
<1>4. ExistsBijection(1 .. Len(s), DOMAIN m)
  BY <1>3 DEF ExistsBijection
<1>5. IsFiniteSet(1 .. Len(s)) /\ Cardinality(1 .. Len(s)) = Len(s)
  BY <1>1, FS_Interval
<1> QED
  BY <1>4, <1>5, FS_Bijection

-----------------------------------------------------------------------------
(* The table.                                                              *)

\* insert() keeps list and map in step; an entry it leaves is an old one or the
\* new one of the tx thread.
LEMMA InsertFacts ==
    ASSUME ServerTypes, ListInv(keyList, map), TxInsert
    PROVE  /\ keyList' \in Seq(Pings) /\ ListInv(keyList', map')
           /\ \A x \in DOMAIN map' :
                 \/ x \in DOMAIN map /\ map'[x] = map[x]
                 \/ x = ping_msg.id /\ map'[x] = [time |-> ping_msg.time, ts |-> now]
           /\ gone \subseteq gone' /\ gone' \subseteq Pings
           /\ map' \in [DOMAIN map' -> [time : Nat, ts : Nat]] /\ DOMAIN map' \subseteq Pings
<1>1. /\ keyList \in Seq(Pings) /\ ping_msg.id \in Pings /\ ping_msg.time \in Nat /\ now \in Nat
      /\ map \in [DOMAIN map -> [time : Nat, ts : Nat]] /\ DOMAIN map \subseteq Pings
      /\ gone \subseteq Pings
  BY DEF ServerTypes, TxInsert
<1> DEFINE id == ping_msg.id
<1> DEFINE v == [time |-> ping_msg.time, ts |-> now]
<1> DEFINE left(n) == SubSeq(keyList, n + 1, Len(keyList))
<1>2. PICK n \in 0 .. Len(keyList) :
        /\ IF id \in DOMAIN Restrict(map, ToSet(left(n)))
           THEN map' = Restrict(map, ToSet(left(n))) /\ keyList' = left(n)
           ELSE /\ map' = With(Restrict(map, ToSet(left(n))), id, v)
                /\ keyList' = Append(left(n), id)
        /\ gone' = gone \cup (DOMAIN map \ DOMAIN Restrict(map, ToSet(left(n))))
  BY Zenon DEF TxInsert
<1>3. v \in [time : Nat, ts : Nat]
  BY <1>1
<1>4. PICK u : u = left(n)
  OBVIOUS
<1>5. PICK kept : kept = Restrict(map, ToSet(u))
  OBVIOUS
<1>6. u \in Seq(Pings) /\ ToSet(u) \subseteq DOMAIN map /\ ListInv(u, Restrict(map, ToSet(u)))
  BY <1>1, <1>2, <1>4, DropKeeps
<1>7. ListInv(u, kept)
  BY <1>5, <1>6
<1>8. DOMAIN kept = ToSet(u) /\ \A x \in DOMAIN kept : x \in DOMAIN map /\ kept[x] = map[x]
  BY <1>5, <1>6 DEF Restrict
<1>9. /\ IF id \in DOMAIN kept THEN map' = kept /\ keyList' = u
         ELSE map' = With(kept, id, v) /\ keyList' = Append(u, id)
      /\ gone' = gone \cup (DOMAIN map \ DOMAIN kept)
  BY <1>2, <1>4, <1>5
<1> HIDE DEF id, v, left
<1>10. CASE id \in DOMAIN kept
  <2>1. map' = kept /\ keyList' = u
    BY <1>9, <1>10
  <2>2. map' \in [DOMAIN map' -> [time : Nat, ts : Nat]]
    <3>1. kept = [x \in DOMAIN kept |-> map[x]]
      BY <1>5, <1>8 DEF Restrict
    <3> QED
      BY <1>1, <1>8, <2>1, <3>1
  <2> QED
    BY <1>1, <1>6, <1>7, <1>8, <1>9, <2>1, <2>2
<1>11. CASE id \notin DOMAIN kept
  <2>1. map' = With(kept, id, v) /\ keyList' = Append(u, id)
    BY <1>9, <1>11
  <2>2. id \in Pings
    BY <1>1 DEF id
  <2>3. ListInv(keyList', map') /\ keyList' \in Seq(Pings)
    BY <1>6, <1>7, <1>11, <2>1, <2>2, AddKeeps, AppendElements
  <2>4. DOMAIN map' = DOMAIN kept \cup {id} /\ map'[id] = v
        /\ \A x \in DOMAIN kept : map'[x] = kept[x]
    BY <1>11, <2>1 DEF With
  <2>5. map' \in [DOMAIN map' -> [time : Nat, ts : Nat]]
    <3>1. map' = [x \in DOMAIN map' |-> map'[x]]
      BY <2>1 DEF With
    <3>2. \A x \in DOMAIN map' : map'[x] \in [time : Nat, ts : Nat]
      BY <1>1, <1>3, <1>8, <2>4
    <3> QED
      BY <3>1, <3>2
  <2> QED
    BY <1>1, <1>8, <1>9, <2>2, <2>3, <2>4, <2>5 DEF id, v
<1> QED
  BY <1>10, <1>11

\* remove() takes out the key and its entry.
LEMMA RemoveFacts ==
    ASSUME ServerTypes, ListInv(keyList, map), NEW id, remove(id)
    PROVE  /\ keyList' \in Seq(Pings) /\ ListInv(keyList', map')
           /\ DOMAIN map' = DOMAIN map \ {id}
           /\ \A x \in DOMAIN map' : map'[x] = map[x]
           /\ map' \in [DOMAIN map' -> [time : Nat, ts : Nat]]
<1>1. /\ keyList \in Seq(Pings)
      /\ map \in [DOMAIN map -> [time : Nat, ts : Nat]]
  BY DEF ServerTypes
<1>2. CASE id \notin DOMAIN map
  BY <1>1, <1>2 DEF remove, table
<1>3. CASE id \in DOMAIN map
  <2>1. /\ keyList' = RemoveAt(keyList, listIter(id))
        /\ map' = Restrict(map, DOMAIN map \ {id})
    BY <1>3 DEF remove
  <2>2. ToSet(keyList) = {keyList[k] : k \in 1 .. Len(keyList)}
    BY <1>1, ToSetOfSeq
  <2>3. \E k \in 1 .. Len(keyList) : keyList[k] = id
    BY <1>3, <2>2 DEF ListInv
  <2>4. listIter(id) \in 1 .. Len(keyList) /\ keyList[listIter(id)] = id
    BY <2>3 DEF listIter
  <2>5. PICK p \in 1 .. Len(keyList) : p = listIter(id)
    BY <2>4
  <2>6. ListInv(RemoveAt(keyList, p), Restrict(map, DOMAIN map \ {keyList[p]}))
        /\ RemoveAt(keyList, p) \in Seq(Pings)
    BY <1>1, EraseKeeps, RemoveAtProperties
  <2>7. ListInv(keyList', map') /\ keyList' \in Seq(Pings)
    BY <2>1, <2>4, <2>5, <2>6
  <2>8. DOMAIN map' = DOMAIN map \ {id} /\ \A x \in DOMAIN map' : map'[x] = map[x]
    BY <2>1 DEF Restrict
  <2>9. map' \in [DOMAIN map' -> [time : Nat, ts : Nat]]
    BY <1>1, <2>1, <2>8 DEF Restrict
  <2> QED
    BY <2>7, <2>8, <2>9
<1> QED
  BY <1>2, <1>3

-----------------------------------------------------------------------------
(* Steps that move nothing.                                                *)

\* What is not part of a ping's way changes: an event, the bytes of a buffer,
\* the end of the process.
Quiet ==
    /\ UNCHANGED <<now, arrivals, arrivedAt, server_queue, ping_msg>>
    /\ UNCHANGED <<map, keyList, gone, overlapped>>
    /\ UNCHANGED <<sq, cqes, leftAt, out>> /\ UNCHANGED <<wr_id, entry, cqe_time>>
    /\ txpc' = txpc \/ (TxSends /\ txpc' \in {"copy2", "post"})
    /\ cqpc' = cqpc \/ (CqSends /\ cqpc' \in {"copy2", "post"})

EventSteps == RxWake \/ RxPollEnd \/ RxArm \/ CqWake \/ CqPollEnd \/ CqArm
CopySteps == TxCopyFirst \/ TxCopyLast \/ CqeCopyFirst \/ CqeCopyLast

LEMMA QuietSteps ==
    ASSUME EventSteps \/ CopySteps \/ Terminate \/ UNCHANGED vars
    PROVE  Quiet
<1> USE DEF table, rx, rxThread, txThread, cqWait, cqThread, events, nic, fate
<1>1. CASE RxWake \/ RxPollEnd \/ RxArm
  BY <1>1 DEF RxWake, RxPollEnd, RxArm, Quiet
<1>2. CASE CqWake \/ CqPollEnd \/ CqArm
  BY <1>2 DEF CqWake, CqPollEnd, CqArm, Quiet
<1>3. CASE TxCopyFirst \/ TxCopyLast
  BY <1>3 DEF TxCopyFirst, TxCopyLast, Quiet, TxSends
<1>4. CASE CqeCopyFirst \/ CqeCopyLast
  BY <1>4 DEF CqeCopyFirst, CqeCopyLast, Quiet, CqSends
<1>5. CASE Terminate \/ UNCHANGED vars
  BY <1>5 DEF Terminate, SendFails, AhFails, vars, Quiet
<1> QED
  BY <1>1, <1>2, <1>3, <1>4, <1>5 DEF EventSteps, CopySteps

LEMMA Steps ==
    ASSUME [Next]_vars
    PROVE  \/ Tick \/ Arrive \/ (\E ok \in BOOLEAN : NicSend(ok)) \/ RxHandle
           \/ TxTake \/ TxInsert \/ TxPost
           \/ CqeIgnore \/ CqeGet \/ CqePost \/ CqeRemove
           \/ EventSteps \/ CopySteps \/ Terminate \/ UNCHANGED vars
BY DEF Next, RxSteps, TxSteps, CqSteps, EventSteps, CopySteps

LEMMA Moves ==
    ASSUME [Next]_vars
    PROVE  \/ Tick \/ Arrive \/ (\E ok \in BOOLEAN : NicSend(ok)) \/ RxHandle
           \/ TxTake \/ TxInsert \/ TxPost
           \/ CqeIgnore \/ CqeGet \/ CqePost \/ CqeRemove
           \/ Quiet
BY Steps, QuietSteps

\* The buffers hold messages.
LEMMA BuffersTyped ==
    ASSUME ServerTypes, [Next]_vars
    PROVE  buf' \in [0 .. NumBuf - 1 -> Msg]
<1> USE DEF table, rx, rxThread, txThread, cqWait, cqThread, events, nic, fate
<1>1. CASE buf' = buf
  BY <1>1 DEF ServerTypes
<1>2. CASE TxCopyFirst \/ TxCopyLast
  <2>1. ping_msg.id \in Pings /\ (CopyFirst(ping_msg.id, Pong) \/ CopyLast(ping_msg.id, Pong))
    BY <1>2 DEF TxCopyFirst, TxCopyLast, ServerTypes
  <2> QED
    BY <2>1, MessagesTyped, CopyTyped
<1>3. CASE CqeCopyFirst \/ CqeCopyLast
  <2>1. wr_id \in Pings /\ (CopyFirst(wr_id, Ack) \/ CopyLast(wr_id, Ack))
    BY <1>3 DEF CqeCopyFirst, CqeCopyLast, ServerTypes
  <2> QED
    BY <2>1, MessagesTyped, CopyTyped
<1>4. CASE Tick \/ Arrive \/ (\E ok \in BOOLEAN : NicSend(ok)) \/ RxHandle
  BY <1>1, <1>4 DEF Tick, Arrive, NicSend, RxHandle
<1>5. CASE TxTake \/ TxInsert \/ TxPost
  BY <1>1, <1>5 DEF TxTake, TxInsert, TxPost
<1>6. CASE CqeIgnore \/ CqeGet \/ CqePost \/ CqeRemove
  BY <1>1, <1>6 DEF CqNext, CqeIgnore, CqeGet, CqePost, CqeRemove
<1>7. CASE EventSteps \/ Terminate \/ UNCHANGED vars
  BY <1>1, <1>7 DEF EventSteps, RxWake, RxPollEnd, RxArm, CqWake, CqPollEnd, CqArm,
                    Terminate, SendFails, AhFails, vars
<1> QED
  BY <1>2, <1>3, <1>4, <1>5, <1>6, <1>7, Steps DEF CopySteps

-----------------------------------------------------------------------------
(* Types.                                                                  *)

LEMMA TypesInit == Init => ServerTypes /\ Sizes /\ ListInv(keyList, map)
<1> SUFFICES ASSUME Init PROVE ServerTypes /\ Sizes /\ ListInv(keyList, map)
  OBVIOUS
<1>1. NumBuf \in Nat /\ QueueSize \in Nat /\ ClockStart \in Nat
  BY ServerAssumption
<1>2. NoMsg \in Msg
  BY DEF NoMsg, Msg
<1>3. ServerTypes
  BY <1>1, <1>2 DEF Init, ServerTypes, NoPing
<1>4. Sizes
  BY <1>1 DEF Init, Sizes
<1>5. ListInv(keyList, map)
  BY DEF Init, ListInv, ToSet
<1> QED
  BY <1>3, <1>4, <1>5

LEMMA TypesStep ==
    ASSUME ServerTypes, Sizes, ListInv(keyList, map), OnePlace, [Next]_vars
    PROVE  ServerTypes' /\ Sizes' /\ ListInv(keyList, map)'
<1> USE DEF table, rx, txThread, cqThread, nic, fate
<1>0. buf' \in [0 .. NumBuf - 1 -> Msg]
  BY BuffersTyped
<1>1. CASE Tick
  BY <1>1 DEF Tick, ServerTypes, Sizes, ListInv
<1>2. CASE Arrive
  <2>1. PICK i \in Pings \ DOMAIN arrivedAt :
          /\ arrivals' = Append(arrivals, [id |-> i, time |-> now])
          /\ arrivedAt' = With(arrivedAt, i, now)
    BY <1>2 DEF Arrive
  <2>2. [id |-> i, time |-> now] \in Request
    BY DEF ServerTypes, Request
  <2>3. arrivals' \in Seq(Request) /\ Len(arrivals') = Len(arrivals) + 1 /\ Len(arrivals) \in Nat
    BY <2>1, <2>2, AppendElements DEF ServerTypes
  <2>4. /\ arrivedAt' \in [DOMAIN arrivedAt' -> Nat] /\ DOMAIN arrivedAt' \subseteq Pings
        /\ DOMAIN arrivedAt \subseteq DOMAIN arrivedAt'
    BY <2>1 DEF ServerTypes, With
  <2>5. ServerTypes'
    BY <1>2, <2>3, <2>4 DEF Arrive, ServerTypes
  <2> QED
    BY <1>2, <2>3, <2>5, ServerAssumption DEF Arrive, Sizes, ListInv
<1>3. ASSUME NEW ok \in BOOLEAN, NicSend(ok) PROVE ServerTypes' /\ Sizes' /\ ListInv(keyList, map)'
  <2> DEFINE w == Head(sq)
  <2> DEFINE c == [wr |-> w.wr, to |-> w.to, at |-> now, ok |-> ok]
  <2>1. /\ sq' \in Seq(Work) /\ Len(sq') = Len(sq) - 1 /\ Len(sq) \in Nat \ {0}
        /\ w = sq[1] /\ w \in Work
    BY <1>3, TailElements DEF NicSend, ServerTypes
  <2>2. c \in Cqe /\ w.to \in Pings /\ w.to \in DOMAIN arrivedAt
    <3>1. 1 \in 1 .. Len(sq)
      BY <2>1
    <3>2. c \in Cqe /\ w.to \in Pings
      BY <2>1 DEF Cqe, Work, ServerTypes
    <3>3. Posted(w.to)
      BY <2>1, <3>1 DEF Posted, HasTo
    <3> QED
      BY <3>2, <3>3 DEF OnePlace, Exclusive
  <2>3. cqes' \in Seq(Cqe) /\ Len(cqes') = Len(cqes) + 1 /\ Len(cqes) \in Nat
    <3>1. cqes' = Append(cqes, c)
      BY <1>3 DEF NicSend
    <3> QED
      BY <2>2, <3>1, AppendElements DEF ServerTypes
  <2>4. (IF Inline THEN w.msg ELSE buf[w.idx]) \in Msg
    BY <2>1 DEF Work, ServerTypes
  <2>5. out' \subseteq [to : Pings, msg : Msg]
    BY <1>3, <2>2, <2>4 DEF NicSend, ServerTypes
  <2>6. leftAt' \in [DOMAIN leftAt' -> Nat] /\ DOMAIN leftAt' \subseteq DOMAIN arrivedAt
    BY <1>3, <2>2 DEF NicSend, ServerTypes, With
  <2>7. gone' \subseteq Pings
    BY <1>3, <2>2 DEF NicSend, ServerTypes
  <2>8. ServerTypes'
    BY <1>3, <2>1, <2>3, <2>5, <2>6, <2>7 DEF NicSend, ServerTypes
  <2> QED
    BY <1>3, <2>1, <2>3, <2>8, ServerAssumption DEF NicSend, Sizes, ListInv
<1>4. CASE RxHandle
  <2> DEFINE m == [id |-> Head(arrivals).id,
                   time |-> IF HwTs THEN Head(arrivals).time ELSE now]
  <2>1. /\ arrivals' \in Seq(Request) /\ Len(arrivals') = Len(arrivals) - 1
        /\ Len(arrivals) \in Nat \ {0} /\ Head(arrivals) \in Request
    BY <1>4, TailElements DEF RxHandle, MoreToDo, ServerTypes
  <2>2. m \in Request
    BY <2>1 DEF Request, ServerTypes
  <2>3. CASE Len(server_queue) < QueueSize
    <3>1. server_queue' = Append(server_queue, m) /\ gone' = gone
      BY <1>4, <2>3 DEF RxHandle
    <3>2. server_queue' \in Seq(Request) /\ Len(server_queue') = Len(server_queue) + 1
          /\ Len(server_queue) \in Nat
      BY <2>2, <3>1, AppendElements DEF ServerTypes
    <3>3. ServerTypes'
      BY <1>4, <2>1, <2>3, <3>1, <3>2 DEF RxHandle, ServerTypes
    <3>4. Sizes'
      BY <1>4, <2>1, <2>3, <3>1, <3>2, ServerAssumption DEF RxHandle, Sizes
    <3>5. ListInv(keyList, map)'
      BY <1>4 DEF RxHandle, ListInv
    <3> QED
      BY <3>3, <3>4, <3>5
  <2>4. CASE ~(Len(server_queue) < QueueSize)
    <3>1. server_queue' = server_queue /\ gone' = gone \cup {Head(arrivals).id}
      BY <1>4, <2>4 DEF RxHandle
    <3>2. gone' \subseteq Pings
      BY <2>1, <3>1 DEF Request, ServerTypes
    <3>3. ServerTypes'
      BY <1>4, <2>1, <3>1, <3>2 DEF RxHandle, ServerTypes
    <3>4. Sizes'
      BY <1>4, <2>1, <3>1, <3>2, ServerAssumption DEF RxHandle, Sizes
    <3>5. ListInv(keyList, map)'
      BY <1>4 DEF RxHandle, ListInv
    <3> QED
      BY <3>3, <3>4, <3>5
  <2> QED
    BY <2>3, <2>4
<1>5. CASE TxTake
  <2>1. /\ server_queue' \in Seq(Request) /\ Len(server_queue') = Len(server_queue) - 1
        /\ Len(server_queue) \in Nat \ {0} /\ ping_msg' \in Request
    BY <1>5, TailElements DEF TxTake, ServerTypes
  <2>2. ping_msg' \in [id : Nat, time : Nat] /\ ping_msg'.id \in Pings
    BY <2>1, ServerAssumption DEF Request
  <2>3. ServerTypes'
    BY <1>5, <2>1, <2>2 DEF TxTake, ServerTypes
  <2>4. Sizes'
    BY <1>5, <2>1, <2>2, ServerAssumption DEF TxTake, Sizes
  <2>5. ListInv(keyList, map)'
    BY <1>5 DEF TxTake, ListInv
  <2> QED
    BY <2>3, <2>4, <2>5
<1>6. CASE TxInsert
  <2>1. /\ keyList' \in Seq(Pings) /\ ListInv(keyList', map')
        /\ gone' \subseteq Pings
        /\ map' \in [DOMAIN map' -> [time : Nat, ts : Nat]] /\ DOMAIN map' \subseteq Pings
    BY <1>6, InsertFacts
  <2>2. overlapped' \subseteq Pings
    BY <1>6 DEF TxInsert, ServerTypes
  <2> QED
    BY <1>6, <2>1, <2>2 DEF TxInsert, ServerTypes, Sizes
<1>7. CASE TxPost
  <2>1. ping_msg.id \in Pings /\ ibv_post_send(ping_msg.id, "pong")
    BY <1>7 DEF TxPost, ServerTypes
  <2>2. PICK e \in Work : sq' = Append(sq, e)
    BY <2>1, PostTyped
  <2>3. sq' \in Seq(Work) /\ Len(sq') = Len(sq) + 1 /\ Len(sq) \in Nat /\ Len(cqes) \in Nat
    BY <2>2, AppendElements, LenProperties DEF ServerTypes
  <2>4. ServerTypes'
    BY <1>0, <1>7, <2>3 DEF TxPost, ServerTypes, NoPing
  <2>5. Sizes'
    BY <1>7, <2>3, ServerAssumption DEF TxPost, Sizes, SendQueueFull
  <2>6. ListInv(keyList, map)'
    BY <1>7 DEF TxPost, ListInv
  <2> QED
    BY <2>4, <2>5, <2>6
<1>8. CASE CqeIgnore
  <2>1. cqes' \in Seq(Cqe) /\ Len(cqes') = Len(cqes) - 1 /\ Len(cqes) \in Nat \ {0} /\ Len(sq) \in Nat
    BY <1>8, TailElements, LenProperties DEF CqNext, MoreToDo, CqeIgnore, ServerTypes
  <2>2. ServerTypes'
    BY <1>8, <2>1 DEF CqNext, MoreToDo, CqeIgnore, ServerTypes
  <2>3. Sizes'
    BY <1>8, <2>1, ServerAssumption DEF CqNext, MoreToDo, CqeIgnore, Sizes
  <2>4. ListInv(keyList, map)'
    BY <1>8 DEF CqNext, MoreToDo, CqeIgnore, ListInv
  <2> QED
    BY <2>2, <2>3, <2>4
<1>9. CASE CqeGet
  <2>1. /\ cqes' \in Seq(Cqe) /\ Len(cqes') = Len(cqes) - 1 /\ Len(cqes) \in Nat \ {0}
        /\ Len(sq) \in Nat /\ Head(cqes) \in Cqe
    BY <1>9, TailElements, LenProperties DEF CqNext, MoreToDo, CqeGet, ServerTypes
  <2>2. /\ wr_id' \in Nat /\ wr_id' \in Pings /\ cqe_time' \in Nat /\ entry' \in Nat
        /\ cqpc' \in {"copy", "remove"}
    BY <1>9, <2>1, ServerAssumption DEF CqNext, MoreToDo, CqeGet, Cqe, ServerTypes
  <2>3. ServerTypes'
    BY <1>9, <2>1, <2>2 DEF CqNext, MoreToDo, CqeGet, ServerTypes
  <2>4. Sizes'
    BY <1>9, <2>1, <2>2, ServerAssumption DEF CqNext, MoreToDo, CqeGet, Sizes
  <2>5. ListInv(keyList, map)'
    BY <1>9 DEF CqNext, MoreToDo, CqeGet, ListInv
  <2> QED
    BY <2>3, <2>4, <2>5
<1>10. CASE CqePost
  <2>1. wr_id \in Pings /\ ibv_post_send(wr_id, "ack")
    BY <1>10 DEF CqePost, ServerTypes
  <2>2. PICK e \in Work : sq' = Append(sq, e)
    BY <2>1, PostTyped
  <2>3. sq' \in Seq(Work) /\ Len(sq') = Len(sq) + 1 /\ Len(sq) \in Nat /\ Len(cqes) \in Nat
    BY <2>2, AppendElements, LenProperties DEF ServerTypes
  <2>4. ServerTypes'
    BY <1>0, <1>10, <2>1, <2>3 DEF CqePost, ServerTypes
  <2>5. Sizes'
    BY <1>10, <2>3, ServerAssumption DEF CqePost, Sizes, SendQueueFull
  <2>6. ListInv(keyList, map)'
    BY <1>10 DEF CqePost, ListInv
  <2> QED
    BY <2>4, <2>5, <2>6
<1>11. CASE CqeRemove
  <2>1. /\ keyList' \in Seq(Pings) /\ ListInv(keyList', map')
        /\ DOMAIN map' = DOMAIN map \ {wr_id}
        /\ map' \in [DOMAIN map' -> [time : Nat, ts : Nat]]
    BY <1>11, RemoveFacts DEF CqeRemove
  <2> QED
    BY <1>11, <2>1 DEF CqeRemove, ServerTypes, Sizes
<1>12. CASE Quiet
  BY <1>0, <1>12 DEF Quiet, TxSends, CqSends, ServerTypes, Sizes, ListInv
<1> QED
  BY <1>1, <1>2, <1>3, <1>4, <1>5, <1>6, <1>7, <1>8, <1>9, <1>10, <1>11, <1>12, Moves

\* The sleepers: a batch is no longer than the queue it is taken from.
LEMMA EventsTyped ==
    ASSUME ServerTypes, Sizes, EventTypes, [Next]_vars
    PROVE  EventTypes'
<1> USE DEF table, rx, rxThread, txThread, cqWait, cqThread, events, nic, fate
<1>1. /\ NumBuf \in Nat \ {0} /\ BatchCqe \in Nat \ {0} /\ HwTs \in BOOLEAN
      /\ Len(arrivals) \in Nat /\ Len(sq) \in Nat /\ Len(cqes) \in Nat
  BY ServerAssumption, LenProperties DEF ServerTypes
<1>2. Batch(arrivals) \in 0 .. NumBuf /\ Batch(cqes) \in 0 .. NumBuf
  BY <1>1 DEF Batch, Sizes
<1>3. rxTodo \in Int /\ cqTodo \in Int
  BY <1>1 DEF EventTypes
<1>4. CASE RxHandle
  <2>1. rxTodo' \in 0 .. NumBuf
    BY <1>1, <1>4 DEF RxHandle, MoreToDo, EventTypes
  <2> QED
    BY <1>4, <2>1 DEF RxHandle, EventTypes
<1>5. CASE CqeIgnore \/ CqeGet
  <2>1. CqNext
    BY <1>5 DEF CqeIgnore, CqeGet
  <2>2. cqTodo' \in 0 .. NumBuf
    BY <1>1, <2>1 DEF CqNext, MoreToDo, EventTypes
  <2> QED
    BY <2>1, <2>2 DEF CqNext, EventTypes
<1>6. CASE RxWake \/ CqWake
  BY <1>2, <1>6 DEF RxWake, CqWake, EventTypes
<1>7. CASE RxPollEnd \/ RxArm \/ CqPollEnd \/ CqArm
  BY <1>1, <1>7 DEF RxPollEnd, RxArm, CqPollEnd, CqArm, EventTypes
<1>8. CASE Arrive \/ (\E ok \in BOOLEAN : NicSend(ok))
  BY <1>8 DEF Arrive, NicSend, Notify, EventTypes
<1>9. CASE Terminate
  BY <1>9 DEF Terminate, SendFails, AhFails, EventTypes
<1>10. CASE UNCHANGED <<rxEvent, rxTodo, cqEvent, cqTodo, alive, ahFailed>>
  BY <1>10 DEF EventTypes
<1>11. CASE Tick \/ TxTake \/ TxInsert \/ TxPost \/ CqePost \/ CqeRemove \/ UNCHANGED vars
  BY <1>10, <1>11 DEF Tick, TxTake, TxInsert, TxPost, CqePost, CqeRemove, vars
<1>12. CASE CopySteps
  BY <1>10, <1>12 DEF CopySteps, TxCopyFirst, TxCopyLast, CqeCopyFirst, CqeCopyLast
<1> QED
  BY <1>4, <1>5, <1>6, <1>7, <1>8, <1>9, <1>11, <1>12, Steps DEF EventSteps

-----------------------------------------------------------------------------
(* One place at a time.                                                    *)

\* A step that moves no ping.
StillThere ==
    UNCHANGED <<arrivals, server_queue, ping_msg, sq, cqes, arrivedAt, leftAt>>

LEMMA PlacesKept ==
    ASSUME OnePlace, LeftInv, StillThere,
           (txpc # "wait") <=> (txpc' # "wait"), CqSends' <=> CqSends,
           CqSends => wr_id' = wr_id
    PROVE  OnePlace' /\ LeftInv'
<1>1. /\ DistinctIds(arrivals)' /\ DistinctIds(server_queue)'
      /\ DistinctTos(sq)' /\ DistinctTos(cqes)'
  BY DEF OnePlace, StillThere, DistinctIds, DistinctTos
<1>2. ASSUME NEW i \in Pings PROVE Exclusive(i)'
  <2>1. /\ Arriving(i)' <=> Arriving(i)
        /\ Queued(i)' <=> Queued(i)
        /\ Posted(i)' <=> Posted(i)
        /\ Completed(i)' <=> Completed(i)
    BY DEF StillThere, Arriving, Queued, Posted, Completed, HasId, HasTo
  <2>2. /\ Handled(i)' <=> Handled(i)
        /\ Acking(i)' <=> Acking(i)
    BY DEF StillThere, Handled, Acking
  <2>3. Exclusive(i)
    BY DEF OnePlace
  <2> QED
    BY <2>1, <2>2, <2>3 DEF Exclusive, Before, StillThere
<1>3. LeftInv'
  BY DEF LeftInv, StillThere
<1> QED
  BY <1>1, <1>2, <1>3 DEF OnePlace

LEMMA ArriveMoves ==
    ASSUME ServerTypes, OnePlace, LeftInv, Arrive
    PROVE  OnePlace' /\ LeftInv'
<1> USE DEF table, txThread, cqThread, nic
<1>1. PICK j \in Pings \ DOMAIN arrivedAt :
        /\ arrivals' = Append(arrivals, [id |-> j, time |-> now])
        /\ arrivedAt' = With(arrivedAt, j, now)
  BY DEF Arrive
<1> DEFINE e == [id |-> j, time |-> now]
<1>2. e \in Request /\ e.id = j /\ arrivals \in Seq(Request) /\ arrivals' = Append(arrivals, e)
  BY <1>1 DEF ServerTypes, Request
<1> HIDE DEF e
<1>3. ~Before(j) /\ ~Posted(j) /\ ~Completed(j) /\ ~Acking(j) /\ j \notin DOMAIN leftAt
  BY <1>1 DEF OnePlace, Exclusive, ServerTypes
<1>4. ~HasId(arrivals, j)
  BY <1>3 DEF Before, Arriving
<1>5. /\ DistinctIds(arrivals')
      /\ \A i : HasId(arrivals', i) <=> HasId(arrivals, i) \/ i = j
  BY <1>2, <1>4, AppendIds DEF OnePlace
<1>6. UNCHANGED <<server_queue, txpc, ping_msg, sq, cqes, leftAt, cqpc, wr_id>>
  BY DEF Arrive
<1>7. DOMAIN arrivedAt' = DOMAIN arrivedAt \cup {j}
  BY <1>1 DEF With
<1>8. ASSUME NEW i \in Pings PROVE Exclusive(i)'
  <2>1. /\ Arriving(i)' <=> Arriving(i) \/ i = j
        /\ Queued(i)' <=> Queued(i)
        /\ Handled(i)' <=> Handled(i)
        /\ Posted(i)' <=> Posted(i)
        /\ Completed(i)' <=> Completed(i)
        /\ Acking(i)' <=> Acking(i)
    BY <1>5, <1>6 DEF Arriving, Queued, Handled, Posted, Completed, Acking, CqSends
  <2>2. Exclusive(i)
    BY DEF OnePlace
  <2> QED
    BY <1>3, <1>6, <1>7, <2>1, <2>2 DEF Exclusive, Before
<1>9. /\ DistinctIds(server_queue)' /\ DistinctTos(sq)' /\ DistinctTos(cqes)'
  BY <1>6 DEF OnePlace, DistinctIds, DistinctTos
<1>10. LeftInv'
  BY <1>6 DEF LeftInv
<1> QED
  BY <1>5, <1>8, <1>9, <1>10 DEF OnePlace

LEMMA RxMoves ==
    ASSUME ServerTypes, OnePlace, LeftInv, RxHandle
    PROVE  OnePlace' /\ LeftInv'
<1> USE DEF table, txThread, cqThread, nic
<1> DEFINE j == Head(arrivals).id
<1> DEFINE m == [id |-> j, time |-> IF HwTs THEN Head(arrivals).time ELSE now]
<1>1. arrivals \in Seq(Request) /\ arrivals # <<>> /\ arrivals' = Tail(arrivals)
      /\ server_queue \in Seq(Request) /\ Head(arrivals) \in Request
  BY TailElements DEF RxHandle, MoreToDo, ServerTypes
<1>2. j \in Pings /\ m \in Request /\ m.id = j
  BY <1>1 DEF Request, ServerTypes
<1>3. \/ server_queue' = Append(server_queue, m)
      \/ server_queue' = server_queue
  BY DEF RxHandle
<1>4. UNCHANGED <<arrivedAt, txpc, ping_msg, sq, cqes, leftAt, cqpc, wr_id>>
  BY DEF RxHandle
<1> HIDE DEF j, m
<1>5. /\ DistinctIds(arrivals') /\ HasId(arrivals, j)
      /\ \A i : HasId(arrivals', i) <=> HasId(arrivals, i) /\ i # j
  BY <1>1, TailIds DEF OnePlace, j
<1>6. Arriving(j) /\ Exclusive(j)
  BY <1>2, <1>5 DEF Arriving, OnePlace
<1>7. ~HasId(server_queue, j)
  BY <1>6 DEF Exclusive, Queued
<1>8. /\ DistinctIds(server_queue')
      /\ \A i : HasId(server_queue', i) => HasId(server_queue, i) \/ i = j
  <2>1. CASE server_queue' = server_queue
    BY <2>1 DEF OnePlace, DistinctIds, HasId
  <2>2. CASE server_queue' = Append(server_queue, m)
    BY <1>1, <1>2, <1>7, <2>2, AppendIds DEF OnePlace
  <2> QED
    BY <1>3, <2>1, <2>2
<1>9. ASSUME NEW i \in Pings PROVE Exclusive(i)'
  <2>1. /\ Arriving(i)' <=> Arriving(i) /\ i # j
        /\ Queued(i)' => Queued(i) \/ i = j
        /\ Handled(i)' <=> Handled(i)
        /\ Posted(i)' <=> Posted(i)
        /\ Completed(i)' <=> Completed(i)
        /\ Acking(i)' <=> Acking(i)
    BY <1>4, <1>5, <1>8 DEF Arriving, Queued, Handled, Posted, Completed, Acking, CqSends
  <2>2. Exclusive(i)
    BY DEF OnePlace
  <2> QED
    BY <1>4, <1>6, <2>1, <2>2 DEF Exclusive, Before
<1>10. DistinctTos(sq)' /\ DistinctTos(cqes)'
  BY <1>4 DEF OnePlace, DistinctTos
<1>11. LeftInv'
  BY <1>4 DEF LeftInv
<1> QED
  BY <1>5, <1>8, <1>9, <1>10, <1>11 DEF OnePlace

LEMMA TakeMoves ==
    ASSUME ServerTypes, OnePlace, LeftInv, TxTake
    PROVE  OnePlace' /\ LeftInv'
<1> USE DEF table, rx, cqThread, nic
<1> DEFINE j == Head(server_queue).id
<1>1. server_queue \in Seq(Request) /\ server_queue # <<>>
      /\ server_queue' = Tail(server_queue) /\ Head(server_queue) \in Request
  BY TailElements DEF TxTake, ServerTypes
<1>2. j \in Pings
  BY <1>1 DEF Request, ServerTypes
<1>3. /\ ping_msg'.id = j /\ txpc = "wait" /\ txpc' = "insert"
      /\ UNCHANGED <<arrivals, arrivedAt, sq, cqes, leftAt, cqpc, wr_id>>
  BY DEF TxTake
<1> HIDE DEF j
<1>4. /\ DistinctIds(server_queue') /\ HasId(server_queue, j)
      /\ \A i : HasId(server_queue', i) <=> HasId(server_queue, i) /\ i # j
  BY <1>1, TailIds DEF OnePlace, j
<1>5. Queued(j) /\ Exclusive(j)
  BY <1>2, <1>4 DEF Queued, OnePlace
<1>6. ASSUME NEW i \in Pings PROVE Exclusive(i)'
  <2>1. /\ Arriving(i)' <=> Arriving(i)
        /\ Queued(i)' <=> Queued(i) /\ i # j
        /\ Handled(i)' <=> i = j
        /\ Posted(i)' <=> Posted(i)
        /\ Completed(i)' <=> Completed(i)
        /\ Acking(i)' <=> Acking(i)
    BY <1>3, <1>4 DEF Arriving, Queued, Handled, Posted, Completed, Acking, CqSends
  <2>2. Exclusive(i)
    BY DEF OnePlace
  <2> QED
    BY <1>3, <1>5, <2>1, <2>2 DEF Exclusive, Before
<1>7. DistinctIds(arrivals)' /\ DistinctTos(sq)' /\ DistinctTos(cqes)'
  BY <1>3 DEF OnePlace, DistinctTos, DistinctIds
<1>8. LeftInv'
  BY <1>3 DEF LeftInv
<1> QED
  BY <1>4, <1>6, <1>7, <1>8 DEF OnePlace

\* Every element of a longer sq is an old one or the new one.
LEMMA LeftAppend ==
    ASSUME sq \in Seq(Work), LeftInv, NEW w \in Work, sq' = Append(sq, w), leftAt' = leftAt,
           w.wr = "ack" <=> w.to \in DOMAIN leftAt
    PROVE  LeftInv'
<1>1. /\ Len(sq') = Len(sq) + 1 /\ Len(sq) \in Nat /\ sq'[Len(sq) + 1] = w
      /\ \A k \in 1 .. Len(sq) : sq'[k] = sq[k]
      /\ \A k \in 1 .. Len(sq) + 1 : k # Len(sq) + 1 => k \in 1 .. Len(sq)
  BY AppendElements
<1> SUFFICES ASSUME NEW k \in 1 .. Len(sq')
             PROVE  sq'[k].wr = "ack" <=> sq'[k].to \in DOMAIN leftAt'
  BY DEF LeftInv
<1>2. CASE k = Len(sq) + 1
  BY <1>1, <1>2
<1>3. CASE k # Len(sq) + 1
  BY <1>1, <1>3 DEF LeftInv
<1> QED
  BY <1>2, <1>3

LEMMA PostMoves ==
    ASSUME ServerTypes, OnePlace, LeftInv, TxPost
    PROVE  OnePlace' /\ LeftInv'
<1> USE DEF table, rx, cqThread
<1> DEFINE j == ping_msg.id
<1>1. j \in Pings /\ ibv_post_send(j, "pong")
  BY DEF TxPost, ServerTypes
<1>2. PICK w \in Work : w.wr = "pong" /\ w.to = j /\ sq' = Append(sq, w)
  BY <1>1, PostTyped
<1>3. /\ txpc = "post" /\ txpc' = "wait" /\ sq \in Seq(Work)
      /\ UNCHANGED <<arrivals, arrivedAt, server_queue, cqes, leftAt, cqpc, wr_id>>
  BY DEF TxPost, ServerTypes
<1>4. Handled(j) /\ Exclusive(j)
  BY <1>1, <1>3 DEF Handled, OnePlace
<1> HIDE DEF j
<1>5. ~HasTo(sq, j)
  BY <1>4 DEF Exclusive, Before, Posted
<1>6. /\ DistinctTos(sq')
      /\ \A i : HasTo(sq', i) <=> HasTo(sq, i) \/ i = j
  BY <1>2, <1>3, <1>5, AppendTos DEF OnePlace
<1>7. ASSUME NEW i \in Pings PROVE Exclusive(i)'
  <2>1. /\ Arriving(i)' <=> Arriving(i)
        /\ Queued(i)' <=> Queued(i)
        /\ ~Handled(i)'
        /\ Posted(i)' <=> Posted(i) \/ i = j
        /\ Completed(i)' <=> Completed(i)
        /\ Acking(i)' <=> Acking(i)
    BY <1>3, <1>6 DEF Arriving, Queued, Handled, Posted, Completed, Acking, CqSends
  <2>2. Exclusive(i)
    BY DEF OnePlace
  <2> QED
    BY <1>3, <1>4, <2>1, <2>2 DEF Exclusive, Before
<1>8. DistinctIds(arrivals)' /\ DistinctIds(server_queue)' /\ DistinctTos(cqes)'
  BY <1>3 DEF OnePlace, DistinctTos, DistinctIds
<1>9. j \notin DOMAIN leftAt
  BY <1>4 DEF Exclusive, Before
<1>10. LeftInv'
  BY <1>2, <1>3, <1>9, LeftAppend
<1> QED
  BY <1>6, <1>7, <1>8, <1>10 DEF OnePlace

LEMMA AckMoves ==
    ASSUME ServerTypes, OnePlace, LeftInv, CqePost
    PROVE  OnePlace' /\ LeftInv'
<1> USE DEF table, rx, txThread
<1>1. wr_id \in Pings /\ ibv_post_send(wr_id, "ack")
  BY DEF CqePost, ServerTypes
<1>2. PICK w \in Work : w.wr = "ack" /\ w.to = wr_id /\ sq' = Append(sq, w)
  BY <1>1, PostTyped
<1>3. /\ cqpc = "post" /\ cqpc' = "remove" /\ wr_id' = wr_id /\ sq \in Seq(Work)
      /\ UNCHANGED <<arrivals, arrivedAt, server_queue, txpc, ping_msg, cqes, leftAt>>
  BY DEF CqePost, ServerTypes
<1>4. Acking(wr_id) /\ Exclusive(wr_id)
  BY <1>1, <1>3 DEF Acking, CqSends, OnePlace
<1>5. ~HasTo(sq, wr_id)
  BY <1>4 DEF Exclusive, Posted
<1>6. /\ DistinctTos(sq')
      /\ \A i : HasTo(sq', i) <=> HasTo(sq, i) \/ i = wr_id
  BY <1>2, <1>3, <1>5, AppendTos DEF OnePlace
<1>7. ASSUME NEW i \in Pings PROVE Exclusive(i)'
  <2>1. /\ Arriving(i)' <=> Arriving(i)
        /\ Queued(i)' <=> Queued(i)
        /\ Handled(i)' <=> Handled(i)
        /\ Posted(i)' <=> Posted(i) \/ i = wr_id
        /\ Completed(i)' <=> Completed(i)
        /\ ~Acking(i)'
    BY <1>3, <1>6 DEF Arriving, Queued, Handled, Posted, Completed, Acking, CqSends
  <2>2. Exclusive(i)
    BY DEF OnePlace
  <2>3. DOMAIN leftAt \subseteq DOMAIN arrivedAt
    BY DEF ServerTypes
  <2> QED
    BY <1>3, <1>4, <2>1, <2>2, <2>3 DEF Exclusive, Before
<1>8. DistinctIds(arrivals)' /\ DistinctIds(server_queue)' /\ DistinctTos(cqes)'
  BY <1>3 DEF OnePlace, DistinctTos, DistinctIds
<1>9. wr_id \in DOMAIN leftAt
  BY <1>4 DEF Exclusive
<1>10. LeftInv'
  BY <1>2, <1>3, <1>9, LeftAppend
<1> QED
  BY <1>6, <1>7, <1>8, <1>10 DEF OnePlace

\* The departure of a PONG is written down once, that of an ACK not at all.
LEMMA NicFacts ==
    ASSUME ServerTypes, OnePlace, LeftInv, NEW ok \in BOOLEAN, NicSend(ok)
    PROVE  /\ sq \in Seq(Work) /\ sq # <<>> /\ sq' = Tail(sq) /\ Head(sq) \in Work
           /\ Head(sq).to \in Pings /\ Posted(Head(sq).to)
           /\ DOMAIN leftAt' = DOMAIN leftAt \cup {Head(sq).to}
           /\ \A i \in DOMAIN leftAt : leftAt'[i] = leftAt[i]
           /\ Head(sq).wr = "ack" => leftAt' = leftAt
           /\ Head(sq).wr = "pong" => leftAt'[Head(sq).to] = now /\ Head(sq).to \notin DOMAIN leftAt
<1> DEFINE w == Head(sq)
<1>1. /\ sq \in Seq(Work) /\ sq # <<>> /\ sq' = Tail(sq) /\ w \in Work
      /\ w = sq[1] /\ 1 \in 1 .. Len(sq)
  BY TailElements DEF NicSend, ServerTypes
<1>2. w.to \in Pings /\ w.wr \in {"pong", "ack"}
  BY <1>1 DEF Work
<1>3. Posted(w.to)
  BY <1>1 DEF Posted, HasTo
<1>4. w.wr = "ack" <=> w.to \in DOMAIN leftAt
  BY <1>1 DEF LeftInv
<1>5. leftAt' = IF w.wr = "ack" THEN leftAt ELSE With(leftAt, w.to, now)
  BY DEF NicSend
<1> HIDE DEF w
<1>6. CASE w.wr = "ack"
  BY <1>1, <1>2, <1>3, <1>4, <1>5, <1>6 DEF w
<1>7. CASE w.wr = "pong"
  <2>1. leftAt' = With(leftAt, w.to, now) /\ w.to \notin DOMAIN leftAt
    BY <1>4, <1>5, <1>7
  <2>2. DOMAIN leftAt' = DOMAIN leftAt \cup {w.to} /\ leftAt'[w.to] = now
        /\ \A i \in DOMAIN leftAt : leftAt'[i] = leftAt[i]
    BY <2>1 DEF With
  <2> QED
    BY <1>1, <1>2, <1>3, <1>7, <2>1, <2>2 DEF w
<1> QED
  BY <1>2, <1>6, <1>7

LEMMA NicMoves ==
    ASSUME ServerTypes, OnePlace, LeftInv, NEW ok \in BOOLEAN, NicSend(ok)
    PROVE  OnePlace' /\ LeftInv'
<1> USE DEF table, rx, txThread, cqThread
<1> DEFINE w == Head(sq)
<1> DEFINE j == w.to
<1> DEFINE c == [wr |-> w.wr, to |-> w.to, at |-> now, ok |-> ok]
<1>1. /\ sq \in Seq(Work) /\ sq # <<>> /\ sq' = Tail(sq) /\ w \in Work
      /\ j \in Pings /\ Posted(j)
      /\ DOMAIN leftAt' = DOMAIN leftAt \cup {j}
  BY NicFacts
<1>2. c \in Cqe /\ c.to = j /\ cqes \in Seq(Cqe) /\ cqes' = Append(cqes, c)
  BY <1>1 DEF NicSend, Cqe, Work, ServerTypes
<1>3. UNCHANGED <<arrivals, arrivedAt, server_queue, txpc, ping_msg, cqpc, wr_id>>
  BY DEF NicSend
<1>4. /\ DistinctTos(sq') /\ HasTo(sq, j)
      /\ \A i : HasTo(sq', i) <=> HasTo(sq, i) /\ i # j
  BY <1>1, TailTos DEF OnePlace
<1>5. Exclusive(j)
  BY <1>1 DEF OnePlace
<1> HIDE DEF c
<1>6. ~HasTo(cqes, j)
  BY <1>1, <1>5 DEF Exclusive, Completed
<1>7. /\ DistinctTos(cqes')
      /\ \A i : HasTo(cqes', i) <=> HasTo(cqes, i) \/ i = j
  BY <1>2, <1>6, AppendTos DEF OnePlace
<1> HIDE DEF w, j
<1>8. ASSUME NEW i \in Pings PROVE Exclusive(i)'
  <2>1. /\ Arriving(i)' <=> Arriving(i)
        /\ Queued(i)' <=> Queued(i)
        /\ Handled(i)' <=> Handled(i)
        /\ Posted(i)' <=> Posted(i) /\ i # j
        /\ Completed(i)' <=> Completed(i) \/ i = j
        /\ Acking(i)' <=> Acking(i)
    BY <1>3, <1>4, <1>7 DEF Arriving, Queued, Handled, Posted, Completed, Acking, CqSends
  <2>2. Exclusive(i)
    BY DEF OnePlace
  <2> QED
    BY <1>1, <1>3, <1>5, <2>1, <2>2 DEF Exclusive, Before
<1>9. DistinctIds(arrivals)' /\ DistinctIds(server_queue)'
  BY <1>3 DEF OnePlace, DistinctIds
<1>10. LeftInv'
  <2> SUFFICES ASSUME NEW k \in 1 .. Len(sq')
               PROVE  sq'[k].wr = "ack" <=> sq'[k].to \in DOMAIN leftAt'
    BY DEF LeftInv
  <2>1. k + 1 \in 1 .. Len(sq) /\ sq'[k] = sq[k + 1]
    BY <1>1, TailElements
  <2>2. sq'[k].to # j
    BY <1>4 DEF HasTo
  <2> QED
    BY <1>1, <2>1, <2>2 DEF LeftInv
<1> QED
  BY <1>4, <1>7, <1>8, <1>9, <1>10 DEF OnePlace

\* A completion leaves the queue; the tx_cqe thread may take over its ping.
LEMMA CqeMoves ==
    ASSUME ServerTypes, OnePlace, LeftInv, cqes # <<>>, cqes' = Tail(cqes),
           UNCHANGED <<arrivals, arrivedAt, server_queue, txpc, ping_msg, sq, leftAt>>,
           CqSends' => wr_id' = Head(cqes).to
    PROVE  OnePlace' /\ LeftInv'
<1> DEFINE j == Head(cqes).to
<1>1. cqes \in Seq(Cqe) /\ Head(cqes) \in Cqe
  BY TailElements DEF ServerTypes
<1>2. j \in Pings
  BY <1>1 DEF Cqe
<1>3. /\ DistinctTos(cqes') /\ HasTo(cqes, j)
      /\ \A i : HasTo(cqes', i) <=> HasTo(cqes, i) /\ i # j
  BY <1>1, TailTos DEF OnePlace
<1> HIDE DEF j
<1>4. Completed(j) /\ Exclusive(j)
  BY <1>2, <1>3 DEF Completed, OnePlace
<1>5. ASSUME NEW i \in Pings PROVE Exclusive(i)'
  <2>1. /\ Arriving(i)' <=> Arriving(i)
        /\ Queued(i)' <=> Queued(i)
        /\ Handled(i)' <=> Handled(i)
        /\ Posted(i)' <=> Posted(i)
        /\ Completed(i)' <=> Completed(i) /\ i # j
        /\ Acking(i)' => i = j
    BY <1>3 DEF Arriving, Queued, Handled, Posted, Completed, Acking, j
  <2>2. Exclusive(i)
    BY DEF OnePlace
  <2> QED
    BY <1>4, <2>1, <2>2 DEF Exclusive, Before
<1>6. DistinctIds(arrivals)' /\ DistinctIds(server_queue)' /\ DistinctTos(sq)'
  BY DEF OnePlace, DistinctTos, DistinctIds
<1>7. LeftInv'
  BY DEF LeftInv
<1> QED
  BY <1>3, <1>5, <1>6, <1>7 DEF OnePlace

LEMMA PlacesStep ==
    ASSUME ServerTypes, OnePlace, LeftInv, [Next]_vars
    PROVE  OnePlace' /\ LeftInv'
<1> USE DEF table, rx, txThread, cqThread, nic
<1>1. CASE Tick \/ TxInsert \/ CqeRemove
  <2>1. StillThere
    BY <1>1 DEF StillThere, Tick, TxInsert, CqeRemove
  <2>2. (txpc # "wait") <=> (txpc' # "wait")
    BY <1>1 DEF Tick, TxInsert, CqeRemove
  <2>3. (CqSends' <=> CqSends) /\ (CqSends => wr_id' = wr_id)
    BY <1>1 DEF Tick, TxInsert, CqeRemove, CqSends
  <2> QED
    BY <2>1, <2>2, <2>3, PlacesKept
<1>2. CASE Quiet
  <2>1. StillThere /\ wr_id' = wr_id
    BY <1>2 DEF StillThere, Quiet
  <2>2. (txpc # "wait") <=> (txpc' # "wait")
    BY <1>2 DEF Quiet, TxSends
  <2>3. CqSends' <=> CqSends
    BY <1>2 DEF Quiet, CqSends
  <2> QED
    BY <2>1, <2>2, <2>3, PlacesKept
<1>3. CASE CqeIgnore
  <2>1. /\ cqes # <<>> /\ cqes' = Tail(cqes) /\ ~CqSends'
        /\ UNCHANGED <<arrivals, arrivedAt, server_queue, txpc, ping_msg, sq, leftAt>>
    BY <1>3 DEF CqNext, MoreToDo, CqeIgnore, CqSends
  <2> QED
    BY <2>1, CqeMoves
<1>4. CASE CqeGet
  <2>1. /\ cqes # <<>> /\ cqes' = Tail(cqes) /\ wr_id' = Head(cqes).to
        /\ UNCHANGED <<arrivals, arrivedAt, server_queue, txpc, ping_msg, sq, leftAt>>
    BY <1>4 DEF CqNext, MoreToDo, CqeGet
  <2> QED
    BY <2>1, CqeMoves
<1> QED
  BY <1>1, <1>2, <1>3, <1>4, ArriveMoves, RxMoves, TakeMoves, PostMoves, AckMoves, NicMoves, Moves

-----------------------------------------------------------------------------
(* Entries of the table are on their way.                                  *)

PongIn(s, i) == \E k \in 1 .. Len(s) : s[k].wr = "pong" /\ s[k].to = i

LEMMA PongAppend ==
    ASSUME NEW S, NEW s \in Seq(S), NEW e \in S, NEW i, PongIn(s, i) \/ (e.wr = "pong" /\ e.to = i)
    PROVE  PongIn(Append(s, e), i)
<1> DEFINE t == Append(s, e)
<1>1. /\ Len(t) = Len(s) + 1 /\ Len(s) \in Nat /\ t[Len(s) + 1] = e
      /\ \A k \in 1 .. Len(s) : t[k] = s[k]
  BY AppendElements
<1> HIDE DEF t
<1>2. 1 .. Len(s) \subseteq 1 .. Len(t) /\ Len(s) + 1 \in 1 .. Len(t)
  BY <1>1
<1>3. CASE e.wr = "pong" /\ e.to = i
  BY <1>1, <1>2, <1>3 DEF PongIn, t
<1>4. CASE PongIn(s, i)
  <2>1. PICK k \in 1 .. Len(s) : s[k].wr = "pong" /\ s[k].to = i
    BY <1>4 DEF PongIn
  <2> QED
    BY <1>1, <1>2, <2>1 DEF PongIn, t
<1> QED
  BY <1>3, <1>4

LEMMA PongTail ==
    ASSUME NEW S, NEW s \in Seq(S), s # <<>>, NEW i, PongIn(s, i)
    PROVE  PongIn(Tail(s), i) \/ (Head(s).wr = "pong" /\ Head(s).to = i)
<1> DEFINE t == Tail(s)
<1>1. /\ Len(t) = Len(s) - 1 /\ Len(s) \in Nat \ {0} /\ Head(s) = s[1]
      /\ \A k \in 1 .. Len(t) : t[k] = s[k + 1]
  BY TailElements
<1>2. PICK k \in 1 .. Len(s) : s[k].wr = "pong" /\ s[k].to = i
  BY DEF PongIn
<1> HIDE DEF t
<1>3. CASE k = 1
  BY <1>1, <1>2, <1>3
<1>4. CASE k # 1
  <2>1. k - 1 \in 1 .. Len(t) /\ (k - 1) + 1 = k
    BY <1>1, <1>4
  <2>2. t[k - 1] = s[k]
    BY <1>1, <2>1
  <2> QED
    BY <1>2, <2>1, <2>2 DEF PongIn, t
<1> QED
  BY <1>3, <1>4

LEMMA InFlightIs ==
    ASSUME NEW i
    PROVE  InFlight(i) <=> \/ TxSends /\ ping_msg.id = i
                           \/ PongIn(sq, i) \/ PongIn(cqes, i)
                           \/ cqpc # "wait" /\ wr_id = i
BY DEF InFlight, Sending, PongIn, TxSends

LEMMA InFlightIsNext ==
    ASSUME NEW i
    PROVE  InFlight(i)' <=> \/ TxSends' /\ ping_msg'.id = i
                            \/ PongIn(sq', i) \/ PongIn(cqes', i)
                            \/ cqpc' # "wait" /\ wr_id' = i
BY DEF InFlight, Sending, PongIn, TxSends

LEMMA FailedStep ==
    ASSUME ServerTypes, ListInv(keyList, map), FailedIsGone, [Next]_vars
    PROVE  FailedIsGone'
<1> USE DEF table, rx, txThread, cqThread, nic
<1>1. CASE cqes' = cqes /\ gone \subseteq gone'
  BY <1>1 DEF FailedIsGone
<1>2. CASE cqes # <<>> /\ cqes' = Tail(cqes) /\ gone' = gone
  <2>1. \A k \in 1 .. Len(cqes') : k + 1 \in 1 .. Len(cqes) /\ cqes'[k] = cqes[k + 1]
    BY <1>2, TailElements DEF ServerTypes
  <2> QED
    BY <1>2, <2>1 DEF FailedIsGone
<1>3. ASSUME NEW ok \in BOOLEAN, NicSend(ok) PROVE FailedIsGone'
  <2> DEFINE w == Head(sq)
  <2> DEFINE c == [wr |-> w.wr, to |-> w.to, at |-> now, ok |-> ok]
  <2>1. w \in Work
    BY <1>3, TailElements DEF NicSend, ServerTypes
  <2>2. c \in Cqe /\ cqes' = Append(cqes, c) /\ gone \subseteq gone' /\ (~ok => w.to \in gone')
    BY <1>3, <2>1 DEF NicSend, Cqe, Work, ServerTypes
  <2>3. /\ Len(cqes') = Len(cqes) + 1 /\ cqes'[Len(cqes) + 1] = c
        /\ \A k \in 1 .. Len(cqes) : cqes'[k] = cqes[k]
        /\ \A k \in 1 .. Len(cqes) + 1 : k # Len(cqes) + 1 => k \in 1 .. Len(cqes)
    BY <2>2, AppendElements DEF ServerTypes
  <2>4. c.ok = ok /\ c.to = w.to
    OBVIOUS
  <2> HIDE DEF c, w
  <2> SUFFICES ASSUME NEW k \in 1 .. Len(cqes'), ~cqes'[k].ok PROVE cqes'[k].to \in gone'
    BY DEF FailedIsGone
  <2>5. CASE k = Len(cqes) + 1
    BY <2>2, <2>3, <2>4, <2>5
  <2>6. CASE k # Len(cqes) + 1
    BY <2>2, <2>3, <2>6 DEF FailedIsGone
  <2> QED
    BY <2>5, <2>6
<1>4. CASE TxInsert
  <2>1. gone \subseteq gone' /\ cqes' = cqes
    BY <1>4, InsertFacts DEF TxInsert
  <2> QED
    BY <1>1, <2>1
<1>5. CASE RxHandle
  BY <1>1, <1>5 DEF RxHandle
<1>6. CASE Tick \/ Arrive \/ TxTake \/ TxPost \/ CqePost \/ CqeRemove \/ Quiet
  BY <1>1, <1>6 DEF Tick, Arrive, TxTake, TxPost, CqePost, CqeRemove, Quiet
<1>7. CASE CqeIgnore \/ CqeGet
  BY <1>2, <1>7 DEF CqNext, MoreToDo, CqeIgnore, CqeGet
<1> QED
  BY <1>3, <1>4, <1>5, <1>6, <1>7, Moves

LEMMA EntryStep ==
    ASSUME ServerTypes, ListInv(keyList, map), OnTheWay, FailedIsGone, [Next]_vars
    PROVE  OnTheWay'
<1> USE DEF table, rx, txThread, cqThread, nic
<1>1. CASE /\ UNCHANGED <<map, sq, cqes, wr_id>> /\ gone \subseteq gone'
           /\ ping_msg' = ping_msg \/ ~TxSends
           /\ TxSends => TxSends'
           /\ cqpc' # "wait" <=> cqpc # "wait"
  BY <1>1, InFlightIs, InFlightIsNext DEF OnTheWay
<1>2. ASSUME NEW ok \in BOOLEAN, NicSend(ok) PROVE OnTheWay'
  <2> DEFINE w == Head(sq)
  <2> DEFINE c == [wr |-> w.wr, to |-> w.to, at |-> now, ok |-> ok]
  <2>1. w \in Work /\ sq # <<>> /\ sq' = Tail(sq)
    BY <1>2, TailElements DEF NicSend, ServerTypes
  <2>2. /\ c \in Cqe /\ cqes' = Append(cqes, c) /\ gone \subseteq gone'
        /\ UNCHANGED <<map, txpc, ping_msg, cqpc, wr_id>>
    BY <1>2, <2>1 DEF NicSend, Cqe, Work, ServerTypes
  <2>3. c.wr = w.wr /\ c.to = w.to
    OBVIOUS
  <2> HIDE DEF c
  <2> SUFFICES ASSUME NEW i \in DOMAIN map, InFlight(i) PROVE InFlight(i)'
    BY <2>2 DEF OnTheWay
  <2>4. CASE PongIn(sq, i)
    <3>1. PongIn(sq', i) \/ (w.wr = "pong" /\ w.to = i)
      BY <2>1, <2>4, PongTail DEF ServerTypes
    <3>2. CASE w.wr = "pong" /\ w.to = i
      <4>1. PongIn(cqes', i)
        BY <2>2, <2>3, <3>2, PongAppend DEF ServerTypes
      <4> QED
        BY <4>1, InFlightIsNext
    <3> QED
      BY <3>1, <3>2, InFlightIsNext
  <2>5. CASE PongIn(cqes, i)
    <3>1. PongIn(cqes', i)
      BY <2>2, <2>5, PongAppend DEF ServerTypes
    <3> QED
      BY <3>1, InFlightIsNext
  <2> QED
    BY <2>2, <2>4, <2>5, InFlightIs, InFlightIsNext DEF TxSends
<1>3. CASE TxInsert
  <2>1. /\ gone \subseteq gone'
        /\ \A x \in DOMAIN map' : x \in DOMAIN map \/ x = ping_msg.id
    BY <1>3, InsertFacts
  <2>2. ~TxSends /\ TxSends' /\ UNCHANGED <<ping_msg, sq, cqes, cqpc, wr_id>>
    BY <1>3 DEF TxInsert, TxSends
  <2> QED
    BY <2>1, <2>2, InFlightIs, InFlightIsNext DEF OnTheWay
<1>4. CASE TxPost
  <2>1. ping_msg.id \in Pings /\ ibv_post_send(ping_msg.id, "pong")
    BY <1>4 DEF TxPost, ServerTypes
  <2>2. PICK w \in Work : w.wr = "pong" /\ w.to = ping_msg.id /\ sq' = Append(sq, w)
    BY <2>1, PostTyped
  <2>3. UNCHANGED <<map, gone, cqes, cqpc, wr_id>>
    BY <1>4 DEF TxPost
  <2> SUFFICES ASSUME NEW i \in DOMAIN map, InFlight(i) PROVE InFlight(i)'
    BY <2>3 DEF OnTheWay
  <2>4. CASE PongIn(sq, i) \/ ping_msg.id = i
    <3>1. PongIn(sq', i)
      BY <2>2, <2>4, PongAppend DEF ServerTypes
    <3> QED
      BY <3>1, InFlightIsNext
  <2> QED
    BY <2>3, <2>4, InFlightIs, InFlightIsNext
<1>5. CASE CqeIgnore
  <2>1. /\ cqes # <<>> /\ cqes' = Tail(cqes)
        /\ Head(cqes).wr = "ack" \/ ~Head(cqes).ok
        /\ UNCHANGED <<map, gone, sq, txpc, ping_msg, cqpc, wr_id>>
    BY <1>5 DEF CqNext, MoreToDo, CqeIgnore
  <2>2. ~Head(cqes).ok => Head(cqes).to \in gone
    <3>1. Head(cqes) = cqes[1] /\ 1 \in 1 .. Len(cqes)
      BY <2>1, TailElements DEF ServerTypes
    <3> QED
      BY <3>1 DEF FailedIsGone
  <2> SUFFICES ASSUME NEW i \in DOMAIN map, InFlight(i), i \notin gone PROVE InFlight(i)'
    BY <2>1 DEF OnTheWay
  <2>3. CASE PongIn(cqes, i)
    <3>1. PongIn(cqes', i) \/ (Head(cqes).wr = "pong" /\ Head(cqes).to = i)
      BY <2>1, <2>3, PongTail DEF ServerTypes
    <3> QED
      BY <2>1, <2>2, <3>1, InFlightIsNext
  <2> QED
    BY <2>1, <2>3, InFlightIs, InFlightIsNext DEF TxSends
<1>6. CASE CqeGet
  <2>1. /\ cqes # <<>> /\ cqes' = Tail(cqes) /\ cqpc = "wait" /\ cqpc' # "wait"
        /\ wr_id' = Head(cqes).to
        /\ UNCHANGED <<map, gone, sq, txpc, ping_msg>>
    BY <1>6 DEF CqNext, MoreToDo, CqeGet
  <2> SUFFICES ASSUME NEW i \in DOMAIN map, InFlight(i) PROVE InFlight(i)'
    BY <2>1 DEF OnTheWay
  <2>2. CASE PongIn(cqes, i)
    <3>1. PongIn(cqes', i) \/ (Head(cqes).wr = "pong" /\ Head(cqes).to = i)
      BY <2>1, <2>2, PongTail DEF ServerTypes
    <3> QED
      BY <2>1, <3>1, InFlightIsNext
  <2> QED
    BY <2>1, <2>2, InFlightIs, InFlightIsNext DEF TxSends
<1>7. CASE CqePost
  <2>1. /\ ibv_post_send(wr_id, "ack") /\ wr_id \in Pings /\ cqpc' # "wait"
        /\ UNCHANGED <<map, gone, cqes, wr_id, txpc, ping_msg>>
    BY <1>7 DEF CqePost, ServerTypes
  <2>2. PICK w \in Work : sq' = Append(sq, w)
    BY <2>1, PostTyped
  <2> SUFFICES ASSUME NEW i \in DOMAIN map, InFlight(i) PROVE InFlight(i)'
    BY <2>1 DEF OnTheWay
  <2>3. PongIn(sq, i) => PongIn(sq', i)
    BY <2>2, PongAppend DEF ServerTypes
  <2> QED
    BY <2>1, <2>3, InFlightIs, InFlightIsNext DEF TxSends
<1>8. CASE CqeRemove
  <2>1. DOMAIN map' = DOMAIN map \ {wr_id}
    BY <1>8, RemoveFacts DEF CqeRemove
  <2>2. UNCHANGED <<gone, sq, cqes, txpc, ping_msg>>
    BY <1>8 DEF CqeRemove
  <2> QED
    BY <2>1, <2>2, InFlightIs, InFlightIsNext DEF OnTheWay, TxSends
<1>9. CASE Tick \/ Arrive \/ RxHandle \/ TxTake
  BY <1>1, <1>9 DEF Tick, Arrive, RxHandle, TxTake, TxSends
<1>10. CASE Quiet
  BY <1>1, <1>10 DEF Quiet, TxSends, CqSends
<1> QED
  BY <1>2, <1>3, <1>4, <1>5, <1>6, <1>7, <1>8, <1>9, <1>10, Moves

-----------------------------------------------------------------------------
(* Clocks and stamps.                                                      *)

\* What is on the way has arrived, and a completion has left.
LEMMA OnTheWayArrived ==
    ASSUME ServerTypes, OnePlace
    PROVE  /\ \A k \in 1 .. Len(arrivals) :
                 arrivals[k] \in Request /\ arrivals[k].id \in DOMAIN arrivedAt
           /\ \A k \in 1 .. Len(server_queue) :
                 server_queue[k] \in Request /\ server_queue[k].id \in DOMAIN arrivedAt
           /\ txpc # "wait" => ping_msg.id \in DOMAIN arrivedAt
           /\ \A k \in 1 .. Len(sq) : sq[k] \in Work /\ sq[k].to \in DOMAIN arrivedAt
           /\ \A k \in 1 .. Len(cqes) : cqes[k] \in Cqe /\ cqes[k].to \in DOMAIN leftAt
           /\ CqSends => wr_id \in DOMAIN leftAt
           /\ DOMAIN leftAt \subseteq DOMAIN arrivedAt
<1>1. ASSUME NEW k \in 1 .. Len(arrivals)
      PROVE  arrivals[k] \in Request /\ arrivals[k].id \in DOMAIN arrivedAt
  <2>1. arrivals[k] \in Request
    BY ElementOfSeq DEF ServerTypes
  <2>2. arrivals[k].id \in Pings /\ Arriving(arrivals[k].id)
    BY <2>1 DEF Request, Arriving, HasId
  <2> QED
    BY <2>1, <2>2 DEF OnePlace, Exclusive, Before
<1>2. ASSUME NEW k \in 1 .. Len(server_queue)
      PROVE  server_queue[k] \in Request /\ server_queue[k].id \in DOMAIN arrivedAt
  <2>1. server_queue[k] \in Request
    BY ElementOfSeq DEF ServerTypes
  <2>2. server_queue[k].id \in Pings /\ Queued(server_queue[k].id)
    BY <2>1 DEF Request, Queued, HasId
  <2> QED
    BY <2>1, <2>2 DEF OnePlace, Exclusive, Before
<1>3. ASSUME txpc # "wait" PROVE ping_msg.id \in DOMAIN arrivedAt
  <2>1. ping_msg.id \in Pings /\ Handled(ping_msg.id)
    BY <1>3 DEF ServerTypes, Handled
  <2> QED
    BY <2>1 DEF OnePlace, Exclusive, Before
<1>4. ASSUME NEW k \in 1 .. Len(sq) PROVE sq[k] \in Work /\ sq[k].to \in DOMAIN arrivedAt
  <2>1. sq[k] \in Work
    BY ElementOfSeq DEF ServerTypes
  <2>2. sq[k].to \in Pings /\ Posted(sq[k].to)
    BY <2>1 DEF Work, Posted, HasTo
  <2> QED
    BY <2>1, <2>2 DEF OnePlace, Exclusive
<1>5. ASSUME NEW k \in 1 .. Len(cqes) PROVE cqes[k] \in Cqe /\ cqes[k].to \in DOMAIN leftAt
  <2>1. cqes[k] \in Cqe
    BY ElementOfSeq DEF ServerTypes
  <2>2. cqes[k].to \in Pings /\ Completed(cqes[k].to)
    BY <2>1 DEF Cqe, Completed, HasTo
  <2> QED
    BY <2>1, <2>2 DEF OnePlace, Exclusive
<1>6. ASSUME CqSends PROVE wr_id \in DOMAIN leftAt
  <2>1. wr_id \in Pings /\ Acking(wr_id)
    BY <1>6 DEF ServerTypes, Acking, CqSends
  <2> QED
    BY <2>1 DEF OnePlace, Exclusive
<1> QED
  BY <1>1, <1>2, <1>3, <1>4, <1>5, <1>6 DEF ServerTypes

\* The histories only grow, and the clock does not go back.
Steady ==
    /\ now <= now'
    /\ \A i \in DOMAIN arrivedAt : i \in DOMAIN arrivedAt' /\ arrivedAt'[i] = arrivedAt[i]
    /\ \A i \in DOMAIN leftAt : i \in DOMAIN leftAt' /\ leftAt'[i] = leftAt[i]

LEMMA SteadyStep ==
    ASSUME ServerTypes, OnePlace, LeftInv, [Next]_vars
    PROVE  Steady
<1> USE DEF table, rx, txThread, cqThread, nic
<1>1. CASE Tick
  BY <1>1 DEF Tick, Steady, ServerTypes
<1>2. CASE Arrive
  <2>1. PICK i \in Pings \ DOMAIN arrivedAt : arrivedAt' = With(arrivedAt, i, now)
    BY <1>2 DEF Arrive
  <2>2. \A x \in DOMAIN arrivedAt : x \in DOMAIN arrivedAt' /\ arrivedAt'[x] = arrivedAt[x]
    BY <2>1 DEF With
  <2> QED
    BY <1>2, <2>2 DEF Arrive, Steady, ServerTypes
<1>3. ASSUME NEW ok \in BOOLEAN, NicSend(ok) PROVE Steady
  <2>1. \A i \in DOMAIN leftAt : i \in DOMAIN leftAt' /\ leftAt'[i] = leftAt[i]
    BY <1>3, NicFacts
  <2> QED
    BY <1>3, <2>1 DEF NicSend, Steady, ServerTypes
<1>4. CASE UNCHANGED <<now, arrivedAt, leftAt>>
  BY <1>4 DEF Steady, ServerTypes
<1>5. CASE RxHandle \/ TxTake \/ TxInsert \/ TxPost
  BY <1>4, <1>5 DEF RxHandle, TxTake, TxInsert, TxPost
<1>6. CASE CqeIgnore \/ CqeGet \/ CqePost \/ CqeRemove \/ Quiet
  BY <1>4, <1>6 DEF CqNext, CqeIgnore, CqeGet, CqePost, CqeRemove, Quiet
<1> QED
  BY <1>1, <1>2, <1>3, <1>5, <1>6, Moves

\* How the queues of requests move.
LEMMA RequestsMove ==
    ASSUME ServerTypes, [Next]_vars
    PROVE  /\ \A k \in 1 .. Len(arrivals') :
                 \/ \E j \in 1 .. Len(arrivals) : arrivals'[k] = arrivals[j]
                 \/ /\ arrivals'[k].id \in DOMAIN arrivedAt' /\ arrivals'[k].time = now
                    /\ arrivedAt'[arrivals'[k].id] = now
           /\ \A k \in 1 .. Len(server_queue') :
                 \/ \E j \in 1 .. Len(server_queue) : server_queue'[k] = server_queue[j]
                 \/ \E j \in 1 .. Len(arrivals) :
                       /\ server_queue'[k].id = arrivals[j].id
                       /\ server_queue'[k].time = IF HwTs THEN arrivals[j].time ELSE now
           /\ \/ txpc' # "wait" => txpc # "wait" /\ UNCHANGED ping_msg
              \/ \E j \in 1 .. Len(server_queue) : ping_msg' = server_queue[j]
<1> USE DEF table, rx, txThread, cqThread, nic
<1>1. CASE Arrive
  <2>1. PICK i \in Pings \ DOMAIN arrivedAt :
          /\ arrivals' = Append(arrivals, [id |-> i, time |-> now])
          /\ arrivedAt' = With(arrivedAt, i, now)
    BY <1>1 DEF Arrive
  <2> DEFINE e == [id |-> i, time |-> now]
  <2>2. e \in Request /\ e.id = i /\ e.time = now
    BY DEF ServerTypes, Request
  <2> HIDE DEF e
  <2>3. /\ Len(arrivals') = Len(arrivals) + 1 /\ arrivals'[Len(arrivals) + 1] = e
        /\ \A k \in 1 .. Len(arrivals) : arrivals'[k] = arrivals[k]
        /\ \A k \in 1 .. Len(arrivals) + 1 : k # Len(arrivals) + 1 => k \in 1 .. Len(arrivals)
    BY <2>1, <2>2, AppendElements DEF ServerTypes, e
  <2>4. i \in DOMAIN arrivedAt' /\ arrivedAt'[i] = now
    BY <2>1 DEF With
  <2> QED
    BY <1>1, <2>2, <2>3, <2>4 DEF Arrive
<1>2. CASE RxHandle
  <2> DEFINE m == [id |-> Head(arrivals).id,
                   time |-> IF HwTs THEN Head(arrivals).time ELSE now]
  <2>1. /\ Head(arrivals) = arrivals[1] /\ Head(arrivals) \in Request /\ 1 \in 1 .. Len(arrivals)
        /\ \A k \in 1 .. Len(arrivals') : k + 1 \in 1 .. Len(arrivals) /\ arrivals'[k] = arrivals[k + 1]
    BY <1>2, TailElements DEF RxHandle, MoreToDo, ServerTypes
  <2>2. /\ m \in Request /\ m.id = arrivals[1].id
        /\ m.time = IF HwTs THEN arrivals[1].time ELSE now
    BY <2>1 DEF Request, ServerTypes
  <2>3. \/ server_queue' = Append(server_queue, m)
        \/ server_queue' = server_queue
    BY <1>2 DEF RxHandle
  <2> HIDE DEF m
  <2>4. CASE server_queue' = server_queue
    BY <1>2, <2>1, <2>4 DEF RxHandle
  <2>5. CASE server_queue' = Append(server_queue, m)
    <3> DEFINE n == Len(server_queue)
    <3>1. /\ Len(server_queue') = n + 1 /\ server_queue'[n + 1] = m
          /\ \A k \in 1 .. n : server_queue'[k] = server_queue[k]
          /\ \A k \in 1 .. n + 1 : k # n + 1 => k \in 1 .. n
      BY <2>2, <2>5, AppendElements DEF ServerTypes
    <3> HIDE DEF n
    <3>2. ASSUME NEW k \in 1 .. Len(server_queue')
          PROVE  \/ \E j \in 1 .. n : server_queue'[k] = server_queue[j]
                 \/ \E j \in 1 .. Len(arrivals) :
                       /\ server_queue'[k].id = arrivals[j].id
                       /\ server_queue'[k].time = IF HwTs THEN arrivals[j].time ELSE now
      <4>1. CASE k = n + 1
        BY <2>1, <2>2, <3>1, <4>1
      <4>2. CASE k # n + 1
        BY <3>1, <4>2
      <4> QED
        BY <4>1, <4>2
    <3> QED
      BY <1>2, <2>1, <3>2 DEF RxHandle, n
  <2> QED
    BY <2>3, <2>4, <2>5
<1>3. CASE TxTake
  <2>1. /\ Head(server_queue) = server_queue[1] /\ 1 \in 1 .. Len(server_queue)
        /\ \A k \in 1 .. Len(server_queue') :
              k + 1 \in 1 .. Len(server_queue) /\ server_queue'[k] = server_queue[k + 1]
    BY <1>3, TailElements DEF TxTake, ServerTypes
  <2> QED
    BY <1>3, <2>1 DEF TxTake
<1>4. CASE /\ UNCHANGED <<arrivals, server_queue>>
           /\ txpc' # "wait" => txpc # "wait" /\ ping_msg' = ping_msg
  BY <1>4
<1>5. CASE Tick \/ (\E ok \in BOOLEAN : NicSend(ok)) \/ TxInsert \/ TxPost
  BY <1>4, <1>5 DEF Tick, NicSend, TxInsert, TxPost
<1>6. CASE CqeIgnore \/ CqeGet \/ CqePost \/ CqeRemove
  BY <1>4, <1>6 DEF CqNext, CqeIgnore, CqeGet, CqePost, CqeRemove
<1>7. CASE Quiet
  BY <1>4, <1>7 DEF Quiet, TxSends
<1> QED
  BY <1>1, <1>2, <1>3, <1>5, <1>6, <1>7, Moves

LEMMA MapMoves ==
    ASSUME ServerTypes, ListInv(keyList, map), [Next]_vars, NEW x \in DOMAIN map'
    PROVE  \/ x \in DOMAIN map /\ map'[x] = map[x]
           \/ /\ txpc # "wait" /\ x = ping_msg.id
              /\ map'[x] = [time |-> ping_msg.time, ts |-> now]
<1> USE DEF table, rx, txThread, cqThread, nic
<1>1. CASE TxInsert
  <2>1. \/ x \in DOMAIN map /\ map'[x] = map[x]
        \/ x = ping_msg.id /\ map'[x] = [time |-> ping_msg.time, ts |-> now]
    BY <1>1, InsertFacts
  <2> QED
    BY <1>1, <2>1 DEF TxInsert
<1>2. CASE CqeRemove
  BY <1>2, RemoveFacts DEF CqeRemove
<1>3. CASE map' = map
  BY <1>3
<1>4. CASE \/ Tick \/ Arrive \/ (\E ok \in BOOLEAN : NicSend(ok)) \/ RxHandle \/ TxTake \/ TxPost
           \/ CqeIgnore \/ CqeGet \/ CqePost \/ Quiet
  BY <1>3, <1>4 DEF Tick, Arrive, NicSend, RxHandle, TxTake, TxPost, CqNext, CqeIgnore, CqeGet,
                    CqePost, Quiet
<1> QED
  BY <1>1, <1>2, <1>4, Moves

\* When the pings arrived and left, in the new state.
LEMMA HistoriesMove ==
    ASSUME ServerTypes, OnePlace, LeftInv, [Next]_vars
    PROVE  /\ \A i \in DOMAIN arrivedAt' :
                 (i \in DOMAIN arrivedAt /\ arrivedAt'[i] = arrivedAt[i]) \/ arrivedAt'[i] = now
           /\ \A i \in DOMAIN leftAt' :
                 \/ i \in DOMAIN leftAt
                 \/ i \in DOMAIN arrivedAt /\ leftAt'[i] = now /\ arrivedAt' = arrivedAt
           /\ \/ now' = now
              \/ /\ now' = now + 1 /\ now < ClockStart + MaxTicks
                 /\ arrivedAt' = arrivedAt /\ leftAt' = leftAt
<1> USE DEF table, rx, txThread, cqThread, nic
<1>1. CASE Tick
  BY <1>1 DEF Tick
<1>2. CASE Arrive
  <2>1. PICK i \in Pings \ DOMAIN arrivedAt : arrivedAt' = With(arrivedAt, i, now)
    BY <1>2 DEF Arrive
  <2>2. \A x \in DOMAIN arrivedAt' :
          (x \in DOMAIN arrivedAt /\ arrivedAt'[x] = arrivedAt[x]) \/ arrivedAt'[x] = now
    BY <2>1 DEF With
  <2> QED
    BY <1>2, <2>2 DEF Arrive
<1>3. ASSUME NEW ok \in BOOLEAN, NicSend(ok)
      PROVE  /\ arrivedAt' = arrivedAt /\ now' = now
             /\ \A i \in DOMAIN leftAt' :
                   \/ i \in DOMAIN leftAt
                   \/ i \in DOMAIN arrivedAt /\ leftAt'[i] = now
  <2> DEFINE w == Head(sq)
  <2>1. /\ DOMAIN leftAt' = DOMAIN leftAt \cup {w.to}
        /\ w.wr = "ack" => leftAt' = leftAt
        /\ w.wr = "pong" => leftAt'[w.to] = now
        /\ w \in Work /\ w.to \in Pings /\ Posted(w.to)
    BY <1>3, NicFacts
  <2>2. w.wr \in {"pong", "ack"} /\ w.to \in DOMAIN arrivedAt
    BY <2>1 DEF Work, OnePlace, Exclusive
  <2>3. arrivedAt' = arrivedAt /\ now' = now
    BY <1>3 DEF NicSend
  <2> QED
    BY <2>1, <2>2, <2>3
<1>4. CASE UNCHANGED <<now, arrivedAt, leftAt>>
  BY <1>4
<1>5. CASE RxHandle \/ TxTake \/ TxInsert \/ TxPost
  BY <1>4, <1>5 DEF RxHandle, TxTake, TxInsert, TxPost
<1>6. CASE CqeIgnore \/ CqeGet \/ CqePost \/ CqeRemove \/ Quiet
  BY <1>4, <1>6 DEF CqNext, CqeIgnore, CqeGet, CqePost, CqeRemove, Quiet
<1> QED
  BY <1>1, <1>2, <1>3, <1>5, <1>6, Moves

LEMMA ClockStep ==
    ASSUME ServerTypes, ListInv(keyList, map), OnePlace, LeftInv, ClockInv, [Next]_vars
    PROVE  ClockInv'
<1>1. Steady
  BY SteadyStep
<1>2. /\ \A k \in 1 .. Len(arrivals) :
            arrivals[k] \in Request /\ arrivals[k].id \in DOMAIN arrivedAt
      /\ \A k \in 1 .. Len(server_queue) :
            server_queue[k] \in Request /\ server_queue[k].id \in DOMAIN arrivedAt
      /\ txpc # "wait" => ping_msg.id \in DOMAIN arrivedAt
      /\ DOMAIN leftAt \subseteq DOMAIN arrivedAt
  BY OnTheWayArrived
<1>3. /\ now \in Nat /\ ClockStart \in Nat /\ MaxTicks \in Nat
      /\ now' = now \/ (now' = now + 1 /\ now < ClockStart + MaxTicks)
  BY HistoriesMove, ServerAssumption DEF ServerTypes
<1>4. ClockStart <= now' /\ now' <= ClockStart + MaxTicks /\ now <= now' /\ now' \in Nat
  BY <1>3 DEF ClockInv
<1>5. ASSUME NEW i \in DOMAIN arrivedAt'
      PROVE  ClockStart <= arrivedAt'[i] /\ arrivedAt'[i] <= now'
  <2>1. \/ i \in DOMAIN arrivedAt /\ arrivedAt'[i] = arrivedAt[i]
        \/ arrivedAt'[i] = now
    BY HistoriesMove
  <2>2. i \in DOMAIN arrivedAt => arrivedAt[i] \in Nat
    BY DEF ServerTypes
  <2> QED
    BY <1>3, <1>4, <2>1, <2>2 DEF ClockInv
<1>6. ASSUME NEW i \in DOMAIN leftAt'
      PROVE  arrivedAt'[i] <= leftAt'[i] /\ leftAt'[i] <= now'
  <2>1. \/ i \in DOMAIN leftAt
        \/ i \in DOMAIN arrivedAt /\ leftAt'[i] = now /\ arrivedAt' = arrivedAt
    BY HistoriesMove
  <2>2. CASE i \in DOMAIN leftAt
    <3>1. leftAt'[i] = leftAt[i] /\ arrivedAt'[i] = arrivedAt[i]
      BY <1>1, <1>2, <2>2 DEF Steady
    <3>2. leftAt[i] \in Nat
      BY <2>2 DEF ServerTypes
    <3> QED
      BY <1>3, <1>4, <2>2, <3>1, <3>2 DEF ClockInv
  <2>3. CASE i \in DOMAIN arrivedAt /\ leftAt'[i] = now /\ arrivedAt' = arrivedAt
    BY <1>3, <1>4, <2>3 DEF ClockInv
  <2> QED
    BY <2>1, <2>2, <2>3
<1>7. ASSUME NEW k \in 1 .. Len(arrivals')
      PROVE  arrivals'[k].time = arrivedAt'[arrivals'[k].id]
  <2>1. \/ \E j \in 1 .. Len(arrivals) : arrivals'[k] = arrivals[j]
        \/ arrivals'[k].time = now /\ arrivedAt'[arrivals'[k].id] = now
    BY RequestsMove
  <2> QED
    BY <1>1, <1>2, <2>1 DEF Steady, ClockInv
<1>8. ASSUME NEW k \in 1 .. Len(server_queue') PROVE server_queue'[k].time <= now'
  <2>1. CASE \E j \in 1 .. Len(server_queue) : server_queue'[k] = server_queue[j]
    <3>1. PICK j \in 1 .. Len(server_queue) : server_queue'[k] = server_queue[j]
      BY <2>1
    <3>2. server_queue[j].time \in Nat /\ server_queue[j].time <= now
      BY <1>2 DEF Request, ClockInv
    <3> QED
      BY <1>3, <1>4, <3>1, <3>2
  <2>2. CASE \E j \in 1 .. Len(arrivals) :
               /\ server_queue'[k].id = arrivals[j].id
               /\ server_queue'[k].time = IF HwTs THEN arrivals[j].time ELSE now
    <3>1. PICK j \in 1 .. Len(arrivals) :
               server_queue'[k].time = IF HwTs THEN arrivals[j].time ELSE now
      BY <2>2
    <3>2. arrivals[j].time \in Nat /\ arrivals[j].time <= now
      BY <1>2 DEF Request, ClockInv
    <3> QED
      BY <1>3, <1>4, <3>1, <3>2
  <2> QED
    BY <2>1, <2>2, RequestsMove
<1>9. ASSUME txpc' # "wait" PROVE ping_msg'.time <= now'
  <2>1. \/ UNCHANGED ping_msg /\ txpc # "wait"
        \/ \E j \in 1 .. Len(server_queue) : ping_msg' = server_queue[j]
    BY <1>9, RequestsMove
  <2>2. CASE UNCHANGED ping_msg /\ txpc # "wait"
    <3>1. ping_msg.time \in Nat
      BY DEF ServerTypes
    <3> QED
      BY <1>3, <1>4, <2>2, <3>1 DEF ClockInv
  <2>3. CASE \E j \in 1 .. Len(server_queue) : ping_msg' = server_queue[j]
    <3>1. PICK j \in 1 .. Len(server_queue) : ping_msg' = server_queue[j]
      BY <2>3
    <3>2. server_queue[j].time \in Nat /\ server_queue[j].time <= now
      BY <1>2 DEF Request, ClockInv
    <3> QED
      BY <1>3, <1>4, <3>1, <3>2
  <2> QED
    BY <2>1, <2>2, <2>3
<1>10. ASSUME NEW x \in DOMAIN map'
       PROVE  /\ x \in DOMAIN arrivedAt'
              /\ map'[x].time <= map'[x].ts /\ map'[x].ts <= now'
  <2>1. CASE x \in DOMAIN map /\ map'[x] = map[x]
    <3>1. map[x].ts \in Nat
      BY <2>1 DEF ServerTypes
    <3> QED
      BY <1>1, <1>3, <1>4, <2>1, <3>1 DEF Steady, ClockInv
  <2>2. CASE /\ txpc # "wait" /\ x = ping_msg.id
             /\ map'[x] = [time |-> ping_msg.time, ts |-> now]
    BY <1>1, <1>2, <1>3, <1>4, <2>2 DEF Steady, ClockInv
  <2> QED
    BY <2>1, <2>2, MapMoves
<1> QED
  BY <1>4, <1>5, <1>6, <1>7, <1>8, <1>9, <1>10 DEF ClockInv

\* How the send queue and its completions move.
LEMMA SendsMove ==
    ASSUME ServerTypes, OnePlace, LeftInv, [Next]_vars
    PROVE  /\ \A k \in 1 .. Len(sq') :
                 \/ \E j \in 1 .. Len(sq) : sq'[k] = sq[j]
                 \/ /\ txpc = "post" /\ UNCHANGED <<buf, leftAt>>
                    /\ sq'[k].wr = "pong" /\ sq'[k].to = ping_msg.id
                    /\ sq'[k].msg = Slot(ping_msg.id) /\ sq'[k].idx = ping_msg.id % NumBuf
                 \/ /\ cqpc = "post" /\ UNCHANGED <<buf, leftAt>>
                    /\ sq'[k].wr = "ack" /\ sq'[k].to = wr_id
                    /\ sq'[k].msg = Slot(wr_id) /\ sq'[k].idx = wr_id % NumBuf
           /\ \A k \in 1 .. Len(cqes') :
                 \/ \E j \in 1 .. Len(cqes) : cqes'[k] = cqes[j]
                 \/ cqes'[k].wr = "pong" => cqes'[k].at = leftAt'[cqes'[k].to]
           /\ \/ CqSends' => CqSends /\ UNCHANGED <<wr_id, entry, cqe_time>>
              \/ \E j \in 1 .. Len(cqes) :
                    /\ cqes[j].wr = "pong" /\ wr_id' = cqes[j].to
                    /\ HwTs => cqe_time' = cqes[j].at
                    /\ CqSends' => /\ cqpc' = "copy" /\ wr_id' \in DOMAIN map
                                   /\ entry' = map[wr_id'].time
<1> USE DEF table, rx, txThread, cqThread, nic
<1>1. CASE TxPost
  <2>1. ping_msg.id \in Pings /\ ibv_post_send(ping_msg.id, "pong")
    BY <1>1 DEF TxPost, ServerTypes
  <2>2. PICK w \in Work : /\ w.wr = "pong" /\ w.to = ping_msg.id /\ w.msg = Slot(ping_msg.id)
                          /\ w.idx = ping_msg.id % NumBuf /\ sq' = Append(sq, w)
    BY <2>1, PostTyped
  <2>3. /\ Len(sq') = Len(sq) + 1 /\ sq'[Len(sq) + 1] = w
        /\ \A k \in 1 .. Len(sq) : sq'[k] = sq[k]
        /\ \A k \in 1 .. Len(sq) + 1 : k # Len(sq) + 1 => k \in 1 .. Len(sq)
    BY <2>2, AppendElements DEF ServerTypes
  <2>4. txpc = "post" /\ UNCHANGED <<buf, leftAt, cqes, cqpc, wr_id, entry, cqe_time>>
    BY <1>1 DEF TxPost
  <2>5. ASSUME NEW k \in 1 .. Len(sq')
        PROVE  (\E j \in 1 .. Len(sq) : sq'[k] = sq[j]) \/ sq'[k] = w
    <3>1. CASE k = Len(sq) + 1
      BY <2>3, <3>1
    <3>2. CASE k # Len(sq) + 1
      BY <2>3, <3>2
    <3> QED
      BY <3>1, <3>2
  <2> QED
    BY <2>2, <2>4, <2>5 DEF CqSends
<1>2. CASE CqePost
  <2>1. /\ wr_id \in Pings /\ ibv_post_send(wr_id, "ack") /\ cqpc = "post" /\ cqpc' = "remove"
        /\ UNCHANGED <<buf, leftAt, cqes>>
    BY <1>2 DEF CqePost, ServerTypes
  <2>2. PICK w \in Work : /\ w.wr = "ack" /\ w.to = wr_id /\ w.msg = Slot(wr_id)
                          /\ w.idx = wr_id % NumBuf /\ sq' = Append(sq, w)
    BY <2>1, PostTyped
  <2>3. /\ Len(sq') = Len(sq) + 1 /\ sq'[Len(sq) + 1] = w
        /\ \A k \in 1 .. Len(sq) : sq'[k] = sq[k]
        /\ \A k \in 1 .. Len(sq) + 1 : k # Len(sq) + 1 => k \in 1 .. Len(sq)
    BY <2>2, AppendElements DEF ServerTypes
  <2>4. ASSUME NEW k \in 1 .. Len(sq')
        PROVE  (\E j \in 1 .. Len(sq) : sq'[k] = sq[j]) \/ sq'[k] = w
    <3>1. CASE k = Len(sq) + 1
      BY <2>3, <3>1
    <3>2. CASE k # Len(sq) + 1
      BY <2>3, <3>2
    <3> QED
      BY <3>1, <3>2
  <2> QED
    BY <2>1, <2>2, <2>4 DEF CqSends
<1>3. ASSUME NEW ok \in BOOLEAN, NicSend(ok)
      PROVE  /\ \A k \in 1 .. Len(sq') : \E j \in 1 .. Len(sq) : sq'[k] = sq[j]
             /\ \A k \in 1 .. Len(cqes') :
                   \/ \E j \in 1 .. Len(cqes) : cqes'[k] = cqes[j]
                   \/ cqes'[k].wr = "pong" => cqes'[k].at = leftAt'[cqes'[k].to]
             /\ (CqSends' <=> CqSends) /\ UNCHANGED <<wr_id, entry, cqe_time>>
  <2> DEFINE w == Head(sq)
  <2> DEFINE c == [wr |-> w.wr, to |-> w.to, at |-> now, ok |-> ok]
  <2>1. /\ sq # <<>> /\ sq' = Tail(sq) /\ w \in Work
        /\ w.wr = "pong" => leftAt'[w.to] = now
    BY <1>3, NicFacts
  <2>2. c \in Cqe /\ cqes' = Append(cqes, c)
    BY <1>3, <2>1 DEF NicSend, Cqe, Work, ServerTypes
  <2>3. /\ Len(cqes') = Len(cqes) + 1 /\ cqes'[Len(cqes) + 1] = c
        /\ \A k \in 1 .. Len(cqes) : cqes'[k] = cqes[k]
        /\ \A k \in 1 .. Len(cqes) + 1 : k # Len(cqes) + 1 => k \in 1 .. Len(cqes)
    BY <2>2, AppendElements DEF ServerTypes
  <2>4. c.wr = "pong" => c.at = leftAt'[c.to]
    BY <2>1
  <2>5. \A k \in 1 .. Len(sq') : k + 1 \in 1 .. Len(sq) /\ sq'[k] = sq[k + 1]
    BY <2>1, TailElements DEF ServerTypes
  <2>6. UNCHANGED <<cqpc, wr_id, entry, cqe_time>>
    BY <1>3 DEF NicSend
  <2> HIDE DEF c
  <2>7. ASSUME NEW k \in 1 .. Len(cqes')
        PROVE  \/ \E j \in 1 .. Len(cqes) : cqes'[k] = cqes[j]
               \/ cqes'[k].wr = "pong" => cqes'[k].at = leftAt'[cqes'[k].to]
    <3>1. CASE k = Len(cqes) + 1
      BY <2>3, <2>4, <3>1
    <3>2. CASE k # Len(cqes) + 1
      BY <2>3, <3>2
    <3> QED
      BY <3>1, <3>2
  <2> QED
    BY <2>5, <2>6, <2>7 DEF CqSends
<1>4. CASE CqeIgnore
  <2>1. \A k \in 1 .. Len(cqes') : k + 1 \in 1 .. Len(cqes) /\ cqes'[k] = cqes[k + 1]
    BY <1>4, TailElements DEF CqNext, MoreToDo, CqeIgnore, ServerTypes
  <2> QED
    BY <1>4, <2>1 DEF CqNext, CqeIgnore, CqSends
<1>5. CASE CqeGet
  <2>1. /\ Head(cqes) = cqes[1] /\ 1 \in 1 .. Len(cqes) /\ Head(cqes) \in Cqe
        /\ \A k \in 1 .. Len(cqes') : k + 1 \in 1 .. Len(cqes) /\ cqes'[k] = cqes[k + 1]
    BY <1>5, TailElements DEF CqNext, MoreToDo, CqeGet, ServerTypes
  <2>2. /\ cqes[1].wr = "pong" /\ wr_id' = cqes[1].to /\ (HwTs => cqe_time' = cqes[1].at)
        /\ CqSends' => cqpc' = "copy" /\ wr_id' \in DOMAIN map /\ entry' = map[wr_id'].time
    BY <1>5, <2>1 DEF CqeGet, Cqe, CqSends
  <2>3. sq' = sq
    BY <1>5 DEF CqNext, CqeGet
  <2> QED
    BY <2>1, <2>2, <2>3
<1>6. CASE UNCHANGED <<sq, cqes>> /\ (CqSends' => CqSends /\ UNCHANGED <<wr_id, entry, cqe_time>>)
  BY <1>6
<1>7. CASE Tick \/ Arrive \/ RxHandle \/ TxTake \/ TxInsert \/ CqeRemove
  BY <1>6, <1>7 DEF Tick, Arrive, RxHandle, TxTake, TxInsert, CqeRemove, CqSends
<1>8. CASE Quiet
  BY <1>6, <1>8 DEF Quiet, CqSends
<1> QED
  BY <1>1, <1>2, <1>3, <1>4, <1>5, <1>7, <1>8, Moves

LEMMA StampStep ==
    ASSUME ServerTypes, ListInv(keyList, map), OnePlace, LeftInv, ClockInv, HwTs, StampInv,
           [Next]_vars
    PROVE  StampInv'
<1>1. Steady
  BY SteadyStep
<1>2. /\ \A k \in 1 .. Len(arrivals) : arrivals[k].id \in DOMAIN arrivedAt
      /\ \A k \in 1 .. Len(server_queue) : server_queue[k].id \in DOMAIN arrivedAt
      /\ txpc # "wait" => ping_msg.id \in DOMAIN arrivedAt
      /\ \A k \in 1 .. Len(cqes) : cqes[k].to \in DOMAIN leftAt
      /\ CqSends => wr_id \in DOMAIN leftAt
      /\ DOMAIN leftAt \subseteq DOMAIN arrivedAt
  BY OnTheWayArrived
<1>3. ASSUME NEW k \in 1 .. Len(server_queue')
      PROVE  server_queue'[k].time = arrivedAt'[server_queue'[k].id]
  <2>1. \/ \E j \in 1 .. Len(server_queue) : server_queue'[k] = server_queue[j]
        \/ \E j \in 1 .. Len(arrivals) :
              /\ server_queue'[k].id = arrivals[j].id
              /\ server_queue'[k].time = arrivals[j].time
    BY RequestsMove
  <2> QED
    BY <1>1, <1>2, <2>1 DEF Steady, StampInv, ClockInv
<1>4. ASSUME txpc' # "wait" PROVE ping_msg'.time = arrivedAt'[ping_msg'.id]
  <2>1. \/ UNCHANGED ping_msg /\ txpc # "wait"
        \/ \E j \in 1 .. Len(server_queue) : ping_msg' = server_queue[j]
    BY <1>4, RequestsMove
  <2> QED
    BY <1>1, <1>2, <2>1 DEF Steady, StampInv
<1>5. ASSUME NEW x \in DOMAIN map' PROVE map'[x].time = arrivedAt'[x]
  <2>1. CASE x \in DOMAIN map /\ map'[x] = map[x]
    BY <1>1, <2>1 DEF Steady, StampInv, ClockInv
  <2>2. CASE /\ txpc # "wait" /\ x = ping_msg.id
             /\ map'[x] = [time |-> ping_msg.time, ts |-> now]
    BY <1>1, <1>2, <2>2 DEF Steady, StampInv
  <2> QED
    BY <2>1, <2>2, MapMoves
<1>6. ASSUME NEW k \in 1 .. Len(cqes'), cqes'[k].wr = "pong"
      PROVE  cqes'[k].at = leftAt'[cqes'[k].to]
  <2>1. \/ \E j \in 1 .. Len(cqes) : cqes'[k] = cqes[j]
        \/ cqes'[k].at = leftAt'[cqes'[k].to]
    BY <1>6, SendsMove
  <2> QED
    BY <1>1, <1>2, <1>6, <2>1 DEF Steady, StampInv
<1>7. ASSUME CqSends' PROVE entry' = arrivedAt'[wr_id'] /\ cqe_time' = leftAt'[wr_id']
  <2>1. \/ CqSends /\ UNCHANGED <<wr_id, entry, cqe_time>>
        \/ \E j \in 1 .. Len(cqes) :
              /\ cqes[j].wr = "pong" /\ wr_id' = cqes[j].to /\ cqe_time' = cqes[j].at
              /\ wr_id' \in DOMAIN map /\ entry' = map[wr_id'].time
    BY <1>7, SendsMove
  <2> QED
    BY <1>1, <1>2, <2>1 DEF Steady, StampInv
<1> QED
  BY <1>3, <1>4, <1>5, <1>6, <1>7 DEF StampInv

-----------------------------------------------------------------------------
(* What is sent.                                                           *)

LEMMA BusyIs ==
    ASSUME ServerTypes, NEW i
    PROVE  Busy(i) <=> \/ TxSends /\ ping_msg.id = i
                       \/ HasTo(sq, i) \/ HasTo(cqes, i)
                       \/ cqpc # "wait" /\ wr_id = i
<1>1. ASSUME NEW k \in 1 .. Len(sq) PROVE sq[k].wr \in {"pong", "ack"}
  <2>1. sq[k] \in Work
    BY ElementOfSeq DEF ServerTypes
  <2> QED
    BY <2>1 DEF Work
<1>2. ASSUME NEW k \in 1 .. Len(cqes) PROVE cqes[k].wr \in {"pong", "ack"}
  <2>1. cqes[k] \in Cqe
    BY ElementOfSeq DEF ServerTypes
  <2> QED
    BY <2>1 DEF Cqe
<1> QED
  BY <1>1, <1>2 DEF Busy, InFlight, Sending, TxSends, HasTo

LEMMA BusyIsNext ==
    ASSUME ServerTypes', NEW i
    PROVE  Busy(i)' <=> \/ TxSends' /\ ping_msg'.id = i
                        \/ HasTo(sq', i) \/ HasTo(cqes', i)
                        \/ cqpc' # "wait" /\ wr_id' = i
<1>1. ASSUME NEW k \in 1 .. Len(sq') PROVE sq'[k].wr \in {"pong", "ack"}
  <2>1. sq'[k] \in Work
    BY ElementOfSeq DEF ServerTypes
  <2> QED
    BY <2>1 DEF Work
<1>2. ASSUME NEW k \in 1 .. Len(cqes') PROVE cqes'[k].wr \in {"pong", "ack"}
  <2>1. cqes'[k] \in Cqe
    BY ElementOfSeq DEF ServerTypes
  <2> QED
    BY <2>1 DEF Cqe
<1> QED
  BY <1>1, <1>2 DEF Busy, InFlight, Sending, TxSends, HasTo

\* A completion was a work request or a completion before.
LEMMA CompletedMoves ==
    ASSUME ServerTypes, [Next]_vars, NEW i, HasTo(cqes', i)
    PROVE  HasTo(cqes, i) \/ HasTo(sq, i)
<1> USE DEF table, rx, txThread, cqThread, nic
<1>1. CASE cqes' = cqes
  BY <1>1
<1>2. CASE cqes # <<>> /\ cqes' = Tail(cqes)
  <2>1. \A k \in 1 .. Len(cqes') : k + 1 \in 1 .. Len(cqes) /\ cqes'[k] = cqes[k + 1]
    BY <1>2, TailElements DEF ServerTypes
  <2> QED
    BY <2>1 DEF HasTo
<1>3. ASSUME NEW ok \in BOOLEAN, NicSend(ok) PROVE HasTo(cqes, i) \/ HasTo(sq, i)
  <2> DEFINE w == Head(sq)
  <2> DEFINE c == [wr |-> w.wr, to |-> w.to, at |-> now, ok |-> ok]
  <2>1. w \in Work /\ w = sq[1] /\ 1 \in 1 .. Len(sq)
    BY <1>3, TailElements DEF NicSend, ServerTypes
  <2>2. c \in Cqe /\ cqes' = Append(cqes, c) /\ c.to = sq[1].to
    BY <1>3, <2>1 DEF NicSend, Cqe, Work, ServerTypes
  <2> HIDE DEF c, w
  <2>3. /\ Len(cqes') = Len(cqes) + 1 /\ cqes'[Len(cqes) + 1] = c
        /\ \A k \in 1 .. Len(cqes) : cqes'[k] = cqes[k]
        /\ \A k \in 1 .. Len(cqes) + 1 : k # Len(cqes) + 1 => k \in 1 .. Len(cqes)
    BY <2>2, AppendElements DEF ServerTypes
  <2>4. PICK k \in 1 .. Len(cqes') : cqes'[k].to = i
    BY DEF HasTo
  <2>5. CASE k = Len(cqes) + 1
    BY <2>1, <2>2, <2>3, <2>4, <2>5 DEF HasTo
  <2>6. CASE k # Len(cqes) + 1
    BY <2>3, <2>4, <2>6 DEF HasTo
  <2> QED
    BY <2>5, <2>6
<1>4. CASE CqeIgnore \/ CqeGet
  BY <1>2, <1>4 DEF CqNext, MoreToDo, CqeIgnore, CqeGet
<1>5. CASE \/ Tick \/ Arrive \/ RxHandle \/ TxTake \/ TxInsert \/ TxPost \/ CqePost \/ CqeRemove
           \/ Quiet
  BY <1>1, <1>5 DEF Tick, Arrive, RxHandle, TxTake, TxInsert, TxPost, CqePost, CqeRemove, Quiet
<1> QED
  BY <1>3, <1>4, <1>5, Moves

\* Where the two senders are.
LEMMA TxPhase ==
    ASSUME [Next]_vars, TxSends'
    PROVE  \/ TxInsert /\ txpc' = "copy" /\ ping_msg' = ping_msg
           \/ /\ TxSends /\ ping_msg' = ping_msg /\ ~TxInsert
              /\ \/ TxCopyFirst /\ txpc' = "copy2"
                 \/ TxCopyLast /\ txpc = "copy2" /\ txpc' = "post"
                 \/ txpc' = txpc /\ ~TxCopyFirst /\ ~TxCopyLast
<1> USE DEF table, rx, rxThread, txThread, cqWait, cqThread, events, nic, fate, TxSends
<1>1. CASE TxTake \/ TxInsert \/ TxPost
  BY <1>1 DEF TxTake, TxInsert, TxPost
<1>2. CASE TxCopyFirst \/ TxCopyLast
  BY <1>2 DEF TxCopyFirst, TxCopyLast, TxInsert
<1>3. CASE txpc' = txpc /\ ping_msg' = ping_msg
  BY <1>3 DEF TxCopyFirst, TxCopyLast, TxInsert
<1>4. CASE Tick \/ Arrive \/ (\E ok \in BOOLEAN : NicSend(ok)) \/ RxHandle
  BY <1>3, <1>4 DEF Tick, Arrive, NicSend, RxHandle
<1>5. CASE CqeIgnore \/ CqeGet \/ CqePost \/ CqeRemove \/ CqeCopyFirst \/ CqeCopyLast
  BY <1>3, <1>5 DEF CqNext, CqeIgnore, CqeGet, CqePost, CqeRemove, CqeCopyFirst, CqeCopyLast
<1>6. CASE EventSteps \/ Terminate \/ UNCHANGED vars
  BY <1>3, <1>6 DEF EventSteps, RxWake, RxPollEnd, RxArm, CqWake, CqPollEnd, CqArm,
                    Terminate, SendFails, AhFails, vars
<1> QED
  BY <1>1, <1>2, <1>4, <1>5, <1>6, Steps DEF CopySteps

LEMMA CqPhase ==
    ASSUME [Next]_vars, cqpc' \in {"copy2", "post"}
    PROVE  /\ CqSends /\ UNCHANGED <<wr_id, entry, cqe_time>>
           /\ \/ CqeCopyFirst /\ cqpc' = "copy2"
              \/ CqeCopyLast /\ cqpc = "copy2" /\ cqpc' = "post"
              \/ cqpc' = cqpc /\ ~CqeCopyFirst /\ ~CqeCopyLast
<1> USE DEF table, rx, rxThread, txThread, cqWait, cqThread, events, nic, fate, CqSends
<1>1. CASE CqeGet \/ CqePost \/ CqeRemove
  BY <1>1 DEF CqNext, CqeGet, CqePost, CqeRemove
<1>2. CASE CqeCopyFirst \/ CqeCopyLast
  BY <1>2 DEF CqeCopyFirst, CqeCopyLast
<1>3. CASE UNCHANGED <<cqpc, wr_id, entry, cqe_time>>
  BY <1>3 DEF CqeCopyFirst, CqeCopyLast
<1>4. CASE Tick \/ Arrive \/ (\E ok \in BOOLEAN : NicSend(ok)) \/ RxHandle
  BY <1>3, <1>4 DEF Tick, Arrive, NicSend, RxHandle
<1>5. CASE CqeIgnore \/ TxTake \/ TxInsert \/ TxPost \/ TxCopyFirst \/ TxCopyLast
  BY <1>3, <1>5 DEF CqNext, CqeIgnore, TxTake, TxInsert, TxPost, TxCopyFirst, TxCopyLast
<1>6. CASE EventSteps \/ Terminate \/ UNCHANGED vars
  BY <1>3, <1>6 DEF EventSteps, RxWake, RxPollEnd, RxArm, CqWake, CqPollEnd, CqArm,
                    Terminate, SendFails, AhFails, vars
<1> QED
  BY <1>1, <1>2, <1>4, <1>5, <1>6, Steps DEF CopySteps

\* Only insert() makes a ping one that is being answered.
LEMMA BusyMoves ==
    ASSUME ServerTypes, ServerTypes', OnePlace, LeftInv, [Next]_vars, NEW i \in Pings, Busy(i)'
    PROVE  Busy(i) \/ (TxInsert /\ i = ping_msg.id)
<1>1. CASE TxSends' /\ ping_msg'.id = i
  BY <1>1, TxPhase, BusyIs
<1>2. CASE HasTo(sq', i)
  <2>1. PICK k \in 1 .. Len(sq') : sq'[k].to = i
    BY <1>2 DEF HasTo
  <2>2. \/ \E j \in 1 .. Len(sq) : sq'[k] = sq[j]
        \/ txpc = "post" /\ i = ping_msg.id
        \/ cqpc = "post" /\ i = wr_id
    BY <2>1, SendsMove
  <2> QED
    BY <2>1, <2>2, BusyIs DEF HasTo, TxSends
<1>3. CASE HasTo(cqes', i)
  BY <1>3, CompletedMoves, BusyIs
<1>4. CASE cqpc' # "wait" /\ wr_id' = i
  <2> USE DEF table, rx, txThread, cqThread, nic
  <2>1. CASE CqeGet
    <3>1. cqes # <<>> /\ i = Head(cqes).to
      BY <1>4, <2>1 DEF CqNext, MoreToDo, CqeGet
    <3>2. Head(cqes) = cqes[1] /\ 1 \in 1 .. Len(cqes)
      BY <3>1, TailElements DEF ServerTypes
    <3> QED
      BY <3>1, <3>2, BusyIs DEF HasTo
  <2>2. CASE cqpc # "wait" /\ wr_id' = wr_id
    BY <1>4, <2>2, BusyIs
  <2>3. CASE CqeIgnore \/ CqePost \/ CqeRemove
    BY <1>4, <2>2, <2>3 DEF CqNext, CqeIgnore, CqePost, CqeRemove
  <2>4. CASE \/ Tick \/ Arrive \/ (\E ok \in BOOLEAN : NicSend(ok)) \/ RxHandle
             \/ TxTake \/ TxInsert \/ TxPost
    BY <1>4, <2>2, <2>4 DEF Tick, Arrive, NicSend, RxHandle, TxTake, TxInsert, TxPost
  <2>5. CASE Quiet
    BY <1>4, <2>2, <2>5 DEF Quiet, CqSends
  <2> QED
    BY <2>1, <2>3, <2>4, <2>5, Moves
<1> QED
  BY <1>1, <1>2, <1>3, <1>4, BusyIsNext

LEMMA OverlapGrows ==
    ASSUME [Next]_vars
    PROVE  overlapped \subseteq overlapped'
<1> USE DEF table, rx, txThread, cqThread, nic, fate
<1>1. CASE TxInsert
  BY <1>1 DEF TxInsert
<1>2. CASE overlapped' = overlapped
  BY <1>2
<1>3. CASE \/ Tick \/ Arrive \/ (\E ok \in BOOLEAN : NicSend(ok)) \/ RxHandle \/ TxTake \/ TxPost
           \/ CqeIgnore \/ CqeGet \/ CqePost \/ CqeRemove \/ Quiet
  BY <1>2, <1>3 DEF Tick, Arrive, NicSend, RxHandle, TxTake, TxPost, CqNext, CqeIgnore, CqeGet,
                    CqePost, CqeRemove, Quiet
<1> QED
  BY <1>1, <1>3, Moves

LEMMA PairStep ==
    ASSUME ServerTypes, ServerTypes', OnePlace, LeftInv, PairInv, [Next]_vars
    PROVE  PairInv'
<1> SUFFICES ASSUME NEW i \in Pings, NEW j \in Pings, Busy(i)', Busy(j)', i # j,
                    i % NumBuf = j % NumBuf
             PROVE  i \in overlapped'
  BY DEF PairInv
<1>1. CASE Busy(i) /\ Busy(j)
  BY <1>1, OverlapGrows DEF PairInv
<1>2. CASE TxInsert /\ (i = ping_msg.id \/ j = ping_msg.id)
  <2> DEFINE others == {x \in Pings \ {ping_msg.id} :
                           Busy(x) /\ x % NumBuf = ping_msg.id % NumBuf}
  <2>1. overlapped' = IF others = {} THEN overlapped
                      ELSE overlapped \cup others \cup {ping_msg.id}
    BY <1>2 DEF TxInsert
  <2>2. CASE i = ping_msg.id
    <3>1. Busy(j)
      BY <2>2, BusyMoves
    <3>2. j \in others
      BY <2>2, <3>1
    <3> QED
      BY <2>1, <2>2, <3>2
  <2>3. CASE j = ping_msg.id
    <3>1. Busy(i)
      BY <2>3, BusyMoves
    <3>2. i \in others
      BY <2>3, <3>1
    <3> QED
      BY <2>1, <3>2
  <2> QED
    BY <1>2, <2>2, <2>3
<1> QED
  BY <1>1, <1>2, BusyMoves

\* Nobody else copies into the buffer of a ping that has it for itself.
LEMMA SlotKept ==
    ASSUME ServerTypes, PairInv, [Next]_vars, NEW i \in Pings, Busy(i), i \notin overlapped
    PROVE  \/ buf'[i % NumBuf] = buf[i % NumBuf]
           \/ i = ping_msg.id /\ (TxCopyFirst \/ TxCopyLast)
           \/ i = wr_id /\ (CqeCopyFirst \/ CqeCopyLast)
<1> USE DEF table, rx, rxThread, txThread, cqWait, cqThread, events, nic, fate
<1>1. i % NumBuf \in 0 .. NumBuf - 1
  BY IndexRange
<1>2. CASE (TxCopyFirst \/ TxCopyLast) /\ i # ping_msg.id
  <2>1. ping_msg.id \in Pings /\ Busy(ping_msg.id)
    BY <1>2, BusyIs DEF TxCopyFirst, TxCopyLast, ServerTypes, TxSends
  <2>2. i % NumBuf # ping_msg.id % NumBuf
    BY <1>2, <2>1 DEF PairInv
  <2>3. CopyFirst(ping_msg.id, Pong) \/ CopyLast(ping_msg.id, Pong)
    BY <1>2 DEF TxCopyFirst, TxCopyLast
  <2> QED
    BY <1>1, <2>1, <2>2, <2>3, MessagesTyped, CopyTyped
<1>3. CASE (CqeCopyFirst \/ CqeCopyLast) /\ i # wr_id
  <2>1. wr_id \in Pings /\ Busy(wr_id)
    BY <1>3, BusyIs DEF CqeCopyFirst, CqeCopyLast, ServerTypes
  <2>2. i % NumBuf # wr_id % NumBuf
    BY <1>3, <2>1 DEF PairInv
  <2>3. CopyFirst(wr_id, Ack) \/ CopyLast(wr_id, Ack)
    BY <1>3 DEF CqeCopyFirst, CqeCopyLast
  <2> QED
    BY <1>1, <2>1, <2>2, <2>3, MessagesTyped, CopyTyped
<1>4. CASE buf' = buf
  BY <1>4
<1>5. CASE Tick \/ Arrive \/ (\E ok \in BOOLEAN : NicSend(ok)) \/ RxHandle
  BY <1>4, <1>5 DEF Tick, Arrive, NicSend, RxHandle
<1>6. CASE TxTake \/ TxInsert \/ TxPost
  BY <1>4, <1>6 DEF TxTake, TxInsert, TxPost
<1>7. CASE CqeIgnore \/ CqeGet \/ CqePost \/ CqeRemove
  BY <1>4, <1>7 DEF CqNext, CqeIgnore, CqeGet, CqePost, CqeRemove
<1>8. CASE EventSteps \/ Terminate \/ UNCHANGED vars
  BY <1>4, <1>8 DEF EventSteps, RxWake, RxPollEnd, RxArm, CqWake, CqPollEnd, CqArm,
                    Terminate, SendFails, AhFails, vars
<1> QED
  BY <1>2, <1>3, <1>5, <1>6, <1>7, <1>8, Steps DEF CopySteps

\* So what a posted work request points to stays.
LEMMA ContentKept ==
    ASSUME ServerTypes, OnePlace, PairInv, IndexInv, [Next]_vars,
           NEW j \in 1 .. Len(sq), sq[j].to \notin overlapped
    PROVE  buf'[sq[j].idx] = buf[sq[j].idx]
<1>1. sq[j] \in Work
  BY ElementOfSeq DEF ServerTypes
<1>2. PICK i \in Pings : i = sq[j].to
  BY <1>1 DEF Work
<1>3. HasTo(sq, i) /\ sq[j].idx = i % NumBuf
  BY <1>2 DEF HasTo, IndexInv
<1>4. Busy(i) /\ Exclusive(i) /\ Posted(i)
  BY <1>3, BusyIs DEF OnePlace, Posted
<1>5. ~(i = ping_msg.id /\ (TxCopyFirst \/ TxCopyLast))
  BY <1>4 DEF Exclusive, Before, Handled, TxCopyFirst, TxCopyLast
<1>6. ~(i = wr_id /\ (CqeCopyFirst \/ CqeCopyLast))
  BY <1>4 DEF Exclusive, Acking, CqSends, CqeCopyFirst, CqeCopyLast
<1> QED
  BY <1>2, <1>3, <1>4, <1>5, <1>6, SlotKept

LEMMA IndexStep ==
    ASSUME ServerTypes, OnePlace, LeftInv, IndexInv, [Next]_vars
    PROVE  IndexInv'
<1> SUFFICES ASSUME NEW k \in 1 .. Len(sq') PROVE sq'[k].idx = sq'[k].to % NumBuf
  BY DEF IndexInv
<1>1. CASE \E j \in 1 .. Len(sq) : sq'[k] = sq[j]
  BY <1>1 DEF IndexInv
<1> QED
  BY <1>1, SendsMove

LEMMA OutMoves ==
    ASSUME ServerTypes, [Next]_vars, NEW o \in out'
    PROVE  \/ o \in out
           \/ \E j \in 1 .. Len(sq) : o.to = sq[j].to /\ o.msg = Content(sq[j])
<1> USE DEF table, rx, txThread, cqThread, nic
<1>1. ASSUME NEW ok \in BOOLEAN, NicSend(ok)
      PROVE  o \in out \/ \E j \in 1 .. Len(sq) : o.to = sq[j].to /\ o.msg = Content(sq[j])
  <2>1. Head(sq) = sq[1] /\ 1 \in 1 .. Len(sq)
    BY <1>1, TailElements DEF NicSend, ServerTypes
  <2>2. o \in out \/ o = [to |-> Head(sq).to, msg |-> Content(Head(sq))]
    BY <1>1 DEF NicSend, Content
  <2> QED
    BY <2>1, <2>2
<1>2. CASE out' = out
  BY <1>2
<1>3. CASE Tick \/ Arrive \/ RxHandle \/ TxTake \/ TxInsert \/ TxPost \/ Quiet
  BY <1>2, <1>3 DEF Tick, Arrive, RxHandle, TxTake, TxInsert, TxPost, Quiet
<1>4. CASE CqeIgnore \/ CqeGet \/ CqePost \/ CqeRemove
  BY <1>2, <1>4 DEF CqNext, CqeIgnore, CqeGet, CqePost, CqeRemove
<1> QED
  BY <1>1, <1>3, <1>4, Moves

\* The tx thread is at work on a PING that tx_cqe has nothing to do with.
LEMMA TxAlone ==
    ASSUME ServerTypes, OnePlace, TxSends
    PROVE  /\ ping_msg.id \in Pings /\ Busy(ping_msg.id)
           /\ CqSends => ping_msg.id # wr_id
<1>1. ping_msg.id \in Pings /\ Handled(ping_msg.id)
  BY DEF ServerTypes, TxSends, Handled
<1>2. ~Acking(ping_msg.id)
  BY <1>1 DEF OnePlace, Exclusive, Before
<1> QED
  BY <1>1, <1>2, BusyIs DEF Acking

LEMMA TxSlotStep ==
    ASSUME ServerTypes, OnePlace, PairInv, OwnInv, [Next]_vars,
           txpc' \in {"copy2", "post"}, ping_msg'.id \notin overlapped'
    PROVE  buf'[ping_msg'.id % NumBuf].kind = "pong" /\ buf'[ping_msg'.id % NumBuf].id = ping_msg'.id
<1>1. /\ TxSends /\ ping_msg' = ping_msg
      /\ \/ TxCopyFirst
         \/ TxCopyLast /\ txpc = "copy2"
         \/ txpc' = txpc /\ ~TxCopyFirst /\ ~TxCopyLast
  BY TxPhase DEF TxSends
<1>2. PICK i \in Pings : i = ping_msg.id
  BY <1>1, TxAlone
<1>3. Busy(i) /\ (CqSends => i # wr_id) /\ i \notin overlapped
  BY <1>1, <1>2, TxAlone, OverlapGrows
<1>4. CASE TxCopyFirst
  BY <1>2, <1>1, <1>4, MessagesTyped, CopyTyped DEF TxCopyFirst
<1>5. CASE TxCopyLast /\ txpc = "copy2"
  <2>1. Slot(i).kind = "pong" /\ Slot(i).id = i
    BY <1>2, <1>3, <1>5 DEF OwnInv
  <2>2. buf'[i % NumBuf].kind = Slot(i).kind /\ buf'[i % NumBuf].id = Slot(i).id
    BY <1>2, <1>5, MessagesTyped, CopyTyped DEF TxCopyLast
  <2> QED
    BY <1>1, <1>2, <2>1, <2>2
<1>6. CASE txpc' = txpc /\ ~TxCopyFirst /\ ~TxCopyLast
  <2>1. Slot(i).kind = "pong" /\ Slot(i).id = i
    BY <1>2, <1>3, <1>6 DEF OwnInv
  <2>2. ~(i = wr_id /\ (CqeCopyFirst \/ CqeCopyLast))
    BY <1>3 DEF CqSends, CqeCopyFirst, CqeCopyLast
  <2>3. buf'[i % NumBuf] = buf[i % NumBuf]
    BY <1>3, <1>6, <2>2, SlotKept
  <2> QED
    BY <1>1, <1>2, <2>1, <2>3 DEF Slot
<1> QED
  BY <1>1, <1>4, <1>5, <1>6

\* A buffer that tx_cqe has begun to fill stays as it is until tx_cqe goes on.
LEMMA CqSlotKept ==
    ASSUME ServerTypes, OnePlace, PairInv, [Next]_vars, CqSends, wr_id \notin overlapped,
           ~CqeCopyFirst, ~CqeCopyLast
    PROVE  wr_id \in Pings /\ buf'[wr_id % NumBuf] = buf[wr_id % NumBuf]
<1>1. PICK i \in Pings : i = wr_id
  BY DEF ServerTypes, CqSends
<1>2. Busy(i)
  BY <1>1, BusyIs DEF CqSends
<1>3. ~(i = ping_msg.id /\ (TxCopyFirst \/ TxCopyLast))
  BY <1>1, TxAlone DEF TxSends, TxCopyFirst, TxCopyLast
<1>4. buf'[i % NumBuf] = buf[i % NumBuf]
  BY <1>1, <1>2, <1>3, SlotKept
<1> QED
  BY <1>1, <1>4

LEMMA CqSlotStep ==
    ASSUME ServerTypes, OnePlace, PairInv, OwnInv, [Next]_vars,
           cqpc' \in {"copy2", "post"}, wr_id' \notin overlapped'
    PROVE  buf'[wr_id' % NumBuf].kind = "ack" /\ buf'[wr_id' % NumBuf].id = wr_id'
<1>1. /\ CqSends /\ wr_id' = wr_id
      /\ \/ CqeCopyFirst
         \/ CqeCopyLast /\ cqpc = "copy2"
         \/ cqpc' = cqpc /\ ~CqeCopyFirst /\ ~CqeCopyLast
  BY CqPhase
<1>2. wr_id \in Pings /\ wr_id \notin overlapped
  BY <1>1, OverlapGrows DEF ServerTypes, CqSends
<1>3. CASE CqeCopyFirst
  BY <1>1, <1>2, <1>3, MessagesTyped, CopyTyped DEF CqeCopyFirst
<1>4. CASE CqeCopyLast /\ cqpc = "copy2"
  <2>1. Slot(wr_id).kind = "ack" /\ Slot(wr_id).id = wr_id
    BY <1>2, <1>4 DEF OwnInv
  <2>2. /\ buf'[wr_id % NumBuf].kind = Slot(wr_id).kind
        /\ buf'[wr_id % NumBuf].id = Slot(wr_id).id
    BY <1>2, <1>4, MessagesTyped, CopyTyped DEF CqeCopyLast
  <2> QED
    BY <1>1, <2>1, <2>2
<1>5. CASE cqpc' = cqpc /\ ~CqeCopyFirst /\ ~CqeCopyLast
  <2>1. Slot(wr_id).kind = "ack" /\ Slot(wr_id).id = wr_id
    BY <1>2, <1>5 DEF OwnInv
  <2>2. buf'[wr_id % NumBuf] = buf[wr_id % NumBuf]
    BY <1>1, <1>2, <1>5, CqSlotKept
  <2> QED
    BY <1>1, <2>1, <2>2 DEF Slot
<1> QED
  BY <1>1, <1>3, <1>4, <1>5

\* What a work request holds or points to, after a step.
LEMMA ContentMoves ==
    ASSUME ServerTypes, OnePlace, LeftInv, PairInv, IndexInv, [Next]_vars,
           NEW k \in 1 .. Len(sq'), sq'[k].to \notin overlapped'
    PROVE  \/ \E j \in 1 .. Len(sq) :
                 /\ sq'[k] = sq[j] /\ sq[j].to \notin overlapped
                 /\ Content(sq[k])' = Content(sq[j])
           \/ /\ txpc = "post" /\ ping_msg.id \notin overlapped
              /\ sq'[k].wr = "pong" /\ sq'[k].to = ping_msg.id
              /\ Content(sq[k])' = Slot(ping_msg.id)
           \/ /\ cqpc = "post" /\ wr_id \notin overlapped /\ leftAt' = leftAt
              /\ sq'[k].wr = "ack" /\ sq'[k].to = wr_id
              /\ Content(sq[k])' = Slot(wr_id)
<1>1. sq'[k].to \notin overlapped
  BY OverlapGrows
<1>2. Content(sq[k])' = IF Inline THEN sq'[k].msg ELSE buf'[sq'[k].idx]
  BY DEF Content
<1>3. CASE \E j \in 1 .. Len(sq) : sq'[k] = sq[j]
  <2>1. PICK j \in 1 .. Len(sq) : sq'[k] = sq[j]
    BY <1>3
  <2>2. sq[j].to \notin overlapped
    BY <1>1, <2>1
  <2>3. buf'[sq[j].idx] = buf[sq[j].idx]
    BY <2>2, ContentKept
  <2>4. Content(sq[k])' = Content(sq[j])
    BY <1>2, <2>1, <2>3 DEF Content
  <2> QED
    BY <2>1, <2>2, <2>4
<1>4. CASE /\ txpc = "post" /\ UNCHANGED <<buf, leftAt>>
           /\ sq'[k].wr = "pong" /\ sq'[k].to = ping_msg.id
           /\ sq'[k].msg = Slot(ping_msg.id) /\ sq'[k].idx = ping_msg.id % NumBuf
  BY <1>1, <1>2, <1>4 DEF Slot
<1>5. CASE /\ cqpc = "post" /\ UNCHANGED <<buf, leftAt>>
           /\ sq'[k].wr = "ack" /\ sq'[k].to = wr_id
           /\ sq'[k].msg = Slot(wr_id) /\ sq'[k].idx = wr_id % NumBuf
  BY <1>1, <1>2, <1>5 DEF Slot
<1> QED
  BY <1>3, <1>4, <1>5, SendsMove

LEMMA OwnStep ==
    ASSUME ServerTypes, OnePlace, LeftInv, PairInv, IndexInv, OwnInv, [Next]_vars
    PROVE  OwnInv'
<1>1. ASSUME txpc' \in {"copy2", "post"}, ping_msg'.id \notin overlapped'
      PROVE  Slot(ping_msg.id)'.kind = "pong" /\ Slot(ping_msg.id)'.id = ping_msg'.id
  BY <1>1, TxSlotStep DEF Slot
<1>2. ASSUME cqpc' \in {"copy2", "post"}, wr_id' \notin overlapped'
      PROVE  Slot(wr_id)'.kind = "ack" /\ Slot(wr_id)'.id = wr_id'
  BY <1>2, CqSlotStep DEF Slot
<1>3. ASSUME NEW k \in 1 .. Len(sq'), sq'[k].to \notin overlapped'
      PROVE  Content(sq[k])'.kind = sq'[k].wr /\ Content(sq[k])'.id = sq'[k].to
  BY <1>3, ContentMoves DEF OwnInv
<1>4. ASSUME NEW o \in out', o.to \notin overlapped' PROVE o.msg.id = o.to
  <2>1. o.to \notin overlapped
    BY <1>4, OverlapGrows
  <2> QED
    BY <2>1, OutMoves DEF OwnInv
<1> QED
  BY <1>1, <1>2, <1>3, <1>4 DEF OwnInv

\* The remainder of a division is determined.
LEMMA ModUnique ==
    ASSUME NEW a \in Int, NEW m \in Nat \ {0}, NEW q \in Int, NEW r \in 0 .. m - 1,
           a = m * q + r
    PROVE  a % m = r
<1> DEFINE d == a \div m
<1> DEFINE e == a % m
<1>1. d \in Int /\ e \in 0 .. m - 1 /\ m * d + e = m * q + r
  BY ModRange
<1> HIDE DEF d, e
<1>2. CASE d = q
  BY <1>1, <1>2 DEF e
<1>3. CASE d > q
  BY <1>1, <1>3 DEF e
<1>4. CASE d < q
  BY <1>1, <1>4 DEF e
<1> QED
  BY <1>1, <1>2, <1>3, <1>4

\* What calc_time_delta_with_modulo computes, for all times.
LEMMA DeltaIsDifference ==
    ASSUME NEW t1 \in Nat, NEW t2 \in Nat
    PROVE  calc_time_delta_with_modulo(t1, t2) = (t2 - t1) % Modulo
<1> DEFINE x == (t2 % Modulo) + Modulo - (t1 % Modulo)
<1> DEFINE k == (t2 \div Modulo) - (t1 \div Modulo) - 1
<1>1. Modulo \in Nat \ {0}
  BY ServerAssumption
<1>2. t1 = Modulo * (t1 \div Modulo) + (t1 % Modulo) /\ t1 % Modulo \in Int /\ t1 \div Modulo \in Int
  BY <1>1, ModRange
<1>3. t2 = Modulo * (t2 \div Modulo) + (t2 % Modulo) /\ t2 % Modulo \in Int /\ t2 \div Modulo \in Int
  BY <1>1, ModRange
<1>4. x \in Int /\ k \in Int /\ t2 - t1 = Modulo * k + x
  BY <1>1, <1>2, <1>3
<1> HIDE DEF x, k
<1>5. x = Modulo * (x \div Modulo) + (x % Modulo) /\ x % Modulo \in 0 .. Modulo - 1
      /\ x \div Modulo \in Int
  BY <1>1, <1>4, ModRange
<1>6. PICK q \in Int : q = k + (x \div Modulo)
  BY <1>4, <1>5
<1>7. t2 - t1 = Modulo * q + (x % Modulo) /\ t2 - t1 \in Int
  BY <1>1, <1>4, <1>5, <1>6
<1>8. (t2 - t1) % Modulo = x % Modulo
  BY <1>1, <1>5, <1>7, ModUnique
<1> QED
  BY <1>8 DEF calc_time_delta_with_modulo, x

LEMMA DelayStep ==
    ASSUME ServerTypes, OnePlace, LeftInv, PairInv, IndexInv, OwnInv, StampInv, DelayInv, [Next]_vars
    PROVE  DelayInv'
<1>1. Steady
  BY SteadyStep
<1>2. /\ \A k \in 1 .. Len(sq) : sq[k] \in Work /\ sq[k].to \in DOMAIN arrivedAt
      /\ CqSends => wr_id \in DOMAIN leftAt
      /\ DOMAIN leftAt \subseteq DOMAIN arrivedAt
  BY OnTheWayArrived
<1>3. ASSUME NEW i \in DOMAIN leftAt
      PROVE  i \in DOMAIN leftAt' /\ Delay(i)' = Delay(i)
  BY <1>1, <1>2 DEF Delay, Steady
<1>4. ASSUME CqSends
      PROVE  calc_time_delta_with_modulo(entry, cqe_time) = Delay(wr_id)
  <2>1. entry = arrivedAt[wr_id] /\ cqe_time = leftAt[wr_id] /\ entry \in Nat /\ cqe_time \in Nat
    BY <1>4 DEF StampInv, ServerTypes
  <2>2. calc_time_delta_with_modulo(entry, cqe_time) = (cqe_time - entry) % Modulo
    BY <2>1, DeltaIsDifference
  <2> QED
    BY <2>1, <2>2 DEF Delay
<1>5. ASSUME cqpc' = "post", wr_id' \notin overlapped'
      PROVE  Slot(wr_id)'.delay = Delay(wr_id)'
  <2>1. /\ CqSends /\ wr_id' = wr_id
        /\ CqeCopyLast \/ (cqpc = "post" /\ ~CqeCopyFirst /\ ~CqeCopyLast)
    BY <1>5, CqPhase
  <2>2. PICK i \in Pings : i = wr_id
    BY <2>1 DEF ServerTypes, CqSends
  <2>3. i \notin overlapped
    BY <1>5, <2>1, <2>2, OverlapGrows
  <2>4. i \in DOMAIN leftAt /\ Delay(i)' = Delay(i)
    BY <1>2, <1>3, <2>1, <2>2
  <2>5. CASE CqeCopyLast
    <3>1. buf'[i % NumBuf].delay = Ack.delay
      BY <2>2, <2>5, MessagesTyped, CopyTyped DEF CqeCopyLast
    <3>2. Ack.delay = Delay(i)
      BY <1>4, <2>1, <2>2, MessagesTyped
    <3> QED
      BY <2>1, <2>2, <2>4, <3>1, <3>2 DEF Slot, Delay
  <2>6. CASE cqpc = "post" /\ ~CqeCopyFirst /\ ~CqeCopyLast
    <3>1. buf[i % NumBuf].delay = Delay(i)
      BY <2>2, <2>3, <2>6 DEF DelayInv, Slot
    <3>2. buf'[i % NumBuf] = buf[i % NumBuf]
      BY <2>1, <2>2, <2>3, <2>6, CqSlotKept
    <3> QED
      BY <2>1, <2>2, <2>4, <3>1, <3>2 DEF Slot, Delay
  <2> QED
    BY <2>1, <2>5, <2>6
<1>6. ASSUME NEW k \in 1 .. Len(sq'), sq'[k].wr = "ack", sq'[k].to \notin overlapped'
      PROVE  Content(sq[k])'.delay = (leftAt'[sq'[k].to] - arrivedAt'[sq'[k].to]) % Modulo
  <2>1. CASE \E j \in 1 .. Len(sq) :
               /\ sq'[k] = sq[j] /\ sq[j].to \notin overlapped
               /\ Content(sq[k])' = Content(sq[j])
    <3>1. PICK j \in 1 .. Len(sq) :
               /\ sq'[k] = sq[j] /\ sq[j].to \notin overlapped
               /\ Content(sq[k])' = Content(sq[j])
      BY <2>1
    <3>2. sq[j].to \in DOMAIN leftAt /\ Content(sq[j]).delay = Delay(sq[j].to)
      BY <1>6, <3>1 DEF LeftInv, DelayInv
    <3>3. PICK i \in DOMAIN leftAt : i = sq[j].to
      BY <3>2
    <3>4. Delay(i)' = Delay(i)
      BY <1>3
    <3>5. Content(sq[k])'.delay = Delay(i) /\ sq'[k].to = i
      BY <3>1, <3>2, <3>3
    <3> QED
      BY <3>4, <3>5 DEF Delay
  <2>2. CASE /\ cqpc = "post" /\ wr_id \notin overlapped
             /\ sq'[k].to = wr_id /\ Content(sq[k])' = Slot(wr_id)
    <3>1. PICK i \in DOMAIN leftAt : i = wr_id
      BY <1>2, <2>2 DEF CqSends
    <3>2. Content(sq[k])'.delay = Delay(i)
      BY <2>2, <3>1 DEF DelayInv
    <3>3. Delay(i)' = Delay(i)
      BY <1>3
    <3> QED
      BY <2>2, <3>1, <3>2, <3>3 DEF Delay
  <2> QED
    BY <1>6, <2>1, <2>2, ContentMoves
<1>7. ASSUME NEW o \in out', o.msg.kind = "ack", o.to \notin overlapped'
      PROVE  o.to \in DOMAIN leftAt' /\ o.msg.delay = Delay(o.to)'
  <2>1. o.to \notin overlapped
    BY <1>7, OverlapGrows
  <2>2. o.to \in DOMAIN leftAt /\ o.msg.delay = Delay(o.to)
    <3>1. CASE o \in out
      BY <1>7, <2>1, <3>1 DEF DelayInv
    <3>2. CASE \E j \in 1 .. Len(sq) : o.to = sq[j].to /\ o.msg = Content(sq[j])
      <4>1. PICK j \in 1 .. Len(sq) : o.to = sq[j].to /\ o.msg = Content(sq[j])
        BY <3>2
      <4>2. sq[j].wr = "ack"
        BY <1>7, <2>1, <4>1 DEF OwnInv
      <4> QED
        BY <2>1, <4>1, <4>2 DEF LeftInv, DelayInv
    <3> QED
      BY <3>1, <3>2, OutMoves
  <2>3. PICK i \in DOMAIN leftAt : i = o.to
    BY <2>2
  <2>4. i \in DOMAIN leftAt' /\ Delay(i)' = Delay(i)
    BY <1>3
  <2>5. o.msg.delay = Delay(i)
    BY <2>2, <2>3
  <2> QED
    BY <2>3, <2>4, <2>5 DEF Delay
<1> QED
  BY <1>5, <1>6, <1>7 DEF DelayInv, Delay

-----------------------------------------------------------------------------
(* The end of the process.                                                 *)

BusyPings == {id \in Pings : Busy(id)}

LEMMA BusySends ==
    ASSUME ServerTypes
    PROVE  /\ \A k \in 1 .. Len(sq) : sq[k].to \in BusyPings
           /\ \A k \in 1 .. Len(cqes) : cqes[k].to \in BusyPings
<1>1. ASSUME NEW k \in 1 .. Len(sq) PROVE sq[k].to \in BusyPings
  <2>1. sq[k] \in Work
    BY ElementOfSeq DEF ServerTypes
  <2>2. sq[k].to \in Pings /\ sq[k].wr \in {"pong", "ack"}
    BY <2>1 DEF Work
  <2> QED
    BY <2>2 DEF BusyPings, Busy, InFlight, Sending
<1>2. ASSUME NEW k \in 1 .. Len(cqes) PROVE cqes[k].to \in BusyPings
  <2>1. cqes[k] \in Cqe
    BY ElementOfSeq DEF ServerTypes
  <2>2. cqes[k].to \in Pings /\ cqes[k].wr \in {"pong", "ack"}
    BY <2>1 DEF Cqe
  <2> QED
    BY <2>2 DEF BusyPings, Busy, InFlight, Sending
<1> QED
  BY <1>1, <1>2

\* A thread that finds the send queue full: the pings in the queue and its own
\* are all different.
LEMMA FullIsBusy ==
    ASSUME ServerTypes, Sizes, OnePlace, SendQueueFull, txpc = "post" \/ cqpc = "post"
    PROVE  Cardinality(BusyPings) > NumBuf
<1> DEFINE n == Len(sq)
<1>1. /\ NumBuf \in Nat \ {0} /\ n \in Nat /\ Len(cqes) \in Nat /\ n + Len(cqes) = NumBuf
      /\ IsFiniteSet(Pings)
  <2>1. NumBuf \in Nat \ {0} /\ IsFiniteSet(Pings)
    BY ServerAssumption
  <2>2. n \in Nat /\ Len(cqes) \in Nat
    BY LenProperties DEF ServerTypes
  <2> QED
    BY <2>1, <2>2 DEF Sizes, SendQueueFull
<1>2. PICK p \in BusyPings : ~HasTo(sq, p) /\ ~HasTo(cqes, p)
  <2>1. CASE txpc = "post"
    <3>1. ping_msg.id \in Pings /\ Handled(ping_msg.id)
      BY <2>1 DEF ServerTypes, Handled
    <3>2. ~HasTo(sq, ping_msg.id) /\ ~HasTo(cqes, ping_msg.id)
      BY <3>1 DEF OnePlace, Exclusive, Before, Posted, Completed
    <3>3. ping_msg.id \in BusyPings
      BY <2>1, <3>1 DEF BusyPings, Busy, InFlight
    <3> QED
      BY <3>2, <3>3
  <2>2. CASE cqpc = "post"
    <3>1. wr_id \in Pings /\ Acking(wr_id)
      BY <2>2 DEF ServerTypes, Acking, CqSends
    <3>2. ~HasTo(sq, wr_id) /\ ~HasTo(cqes, wr_id)
      BY <3>1 DEF OnePlace, Exclusive, Posted, Completed
    <3>3. wr_id \in BusyPings
      BY <2>2, <3>1 DEF BusyPings, Busy, InFlight
    <3> QED
      BY <3>2, <3>3
  <2> QED
    BY <2>1, <2>2
<1> DEFINE f == [k \in 1 .. NumBuf + 1 |->
                   IF k <= n THEN sq[k].to ELSE IF k <= NumBuf THEN cqes[k - n].to ELSE p]
<1> HIDE DEF n
<1>3. ASSUME NEW k \in 1 .. NumBuf + 1
      PROVE  \/ k \in 1 .. n /\ f[k] = sq[k].to
             \/ ~(k <= n) /\ k - n \in 1 .. Len(cqes) /\ f[k] = cqes[k - n].to
             \/ k = NumBuf + 1 /\ f[k] = p
  <2>1. CASE k <= n
    BY <1>1, <2>1
  <2>2. CASE ~(k <= n) /\ k <= NumBuf
    BY <1>1, <2>2
  <2>3. CASE ~(k <= NumBuf)
    BY <1>1, <2>3
  <2> QED
    BY <2>1, <2>2, <2>3
<1>4. f \in [1 .. NumBuf + 1 -> BusyPings]
  <2>1. \A k \in 1 .. NumBuf + 1 : f[k] \in BusyPings
    BY <1>2, <1>3, BusySends DEF n
  <2> QED
    BY <2>1
<1>5. ASSUME NEW j \in 1 .. NumBuf + 1, NEW k \in 1 .. NumBuf + 1, f[j] = f[k], j < k PROVE FALSE
  <2> HIDE DEF f
  <2>1. CASE k = NumBuf + 1 /\ f[k] = p
    <3>1. j # NumBuf + 1
      BY <1>1, <1>5, <2>1
    <3> QED
      BY <1>2, <1>3, <1>5, <2>1, <3>1 DEF HasTo, n
  <2>2. CASE k \in 1 .. n /\ f[k] = sq[k].to
    <3>1. j \in 1 .. n /\ f[j] = sq[j].to
      <4>1. j <= n /\ j # NumBuf + 1
        BY <1>1, <1>5, <2>2
      <4> QED
        BY <1>3, <4>1
    <3>2. j = k
      BY <1>5, <2>2, <3>1 DEF OnePlace, DistinctTos, n
    <3> QED
      BY <1>1, <1>5, <3>2
  <2>3. CASE ~(k <= n) /\ k - n \in 1 .. Len(cqes) /\ f[k] = cqes[k - n].to
    <3>1. j # NumBuf + 1
      BY <1>1, <1>5, <2>3
    <3>2. CASE j \in 1 .. n /\ f[j] = sq[j].to
      <4>1. sq[j] \in Work
        BY <3>2, ElementOfSeq DEF ServerTypes, n
      <4>2. sq[j].to \in Pings /\ Posted(sq[j].to) /\ Completed(sq[j].to)
        BY <1>5, <2>3, <3>2, <4>1 DEF Work, Posted, Completed, HasTo, n
      <4> QED
        BY <4>2 DEF OnePlace, Exclusive
    <3>3. CASE j - n \in 1 .. Len(cqes) /\ f[j] = cqes[j - n].to
      <4>1. j - n = k - n
        BY <1>5, <2>3, <3>3 DEF OnePlace, DistinctTos
      <4> QED
        BY <1>1, <1>5, <4>1
    <3> QED
      BY <1>3, <3>1, <3>2, <3>3
  <2> QED
    BY <1>3, <2>1, <2>2, <2>3
<1>6. f \in Injection(1 .. NumBuf + 1, BusyPings)
  <2>1. \A j, k \in 1 .. NumBuf + 1 : f[j] = f[k] => j = k
    <3> SUFFICES ASSUME NEW j \in 1 .. NumBuf + 1, NEW k \in 1 .. NumBuf + 1, f[j] = f[k]
                 PROVE  j = k
      OBVIOUS
    <3> HIDE DEF f
    <3>1. ~(j < k) /\ ~(k < j)
      BY <1>5
    <3> QED
      BY <1>1, <3>1
  <2> HIDE DEF f
  <2> QED
    BY <1>4, <2>1 DEF Injection, IsInjective
<1>7. IsFiniteSet(BusyPings)
  BY <1>1, FS_Subset DEF BusyPings
<1>8. Cardinality(1 .. NumBuf + 1) <= Cardinality(BusyPings)
  BY <1>6, <1>7, FS_Injection
<1>9. Cardinality(1 .. NumBuf + 1) = NumBuf + 1
  BY <1>1, FS_Interval
<1>10. Cardinality(BusyPings) \in Nat
  BY <1>7, FS_CardinalityType
<1> QED
  BY <1>1, <1>8, <1>9, <1>10

LEMMA AliveStep ==
    ASSUME ServerTypes, EventTypes, Sizes, OnePlace, StaysAlive, [Next]_vars
    PROVE  StaysAlive'
<1> USE DEF table, rx, rxThread, txThread, cqWait, cqThread, events, nic, fate
<1>1. CASE alive'
  BY <1>1 DEF StaysAlive
<1>2. CASE SendFails
  <2>1. UNCHANGED <<txpc, ping_msg, sq, cqes, cqpc, wr_id>>
    BY <1>2 DEF SendFails
  <2>2. Cardinality(BusyPings) > NumBuf
    BY <1>2, FullIsBusy DEF SendFails
  <2>3. BusyPings' = BusyPings
    BY <2>1 DEF BusyPings, Busy, InFlight, Sending
  <2> QED
    BY <2>2, <2>3 DEF StaysAlive, BusyPings
<1>3. CASE AhFails
  BY <1>3 DEF AhFails, StaysAlive
<1>4. CASE UNCHANGED vars
  <2>1. UNCHANGED <<txpc, ping_msg, sq, cqes, cqpc, wr_id, alive, ahFailed>>
    BY <1>4 DEF vars
  <2>2. BusyPings' = BusyPings
    BY <2>1 DEF BusyPings, Busy, InFlight, Sending
  <2> QED
    BY <2>1, <2>2 DEF StaysAlive, BusyPings
<1>5. ASSUME \/ Tick \/ Arrive \/ (\E ok \in BOOLEAN : NicSend(ok)) \/ RxHandle
             \/ TxTake \/ TxInsert \/ TxPost \/ CqeIgnore \/ CqeGet \/ CqePost \/ CqeRemove
             \/ EventSteps \/ CopySteps
      PROVE  alive'
  <2>1. CASE Tick \/ Arrive \/ RxHandle \/ TxTake \/ TxInsert \/ TxPost
    BY <2>1 DEF Tick, Arrive, RxHandle, TxTake, TxInsert, TxPost
  <2>2. ASSUME NEW ok \in BOOLEAN, NicSend(ok) PROVE alive'
    BY <2>2 DEF NicSend
  <2>3. CASE CqeIgnore \/ CqeGet \/ CqePost \/ CqeRemove
    BY <2>3 DEF CqeIgnore, CqeGet, CqNext, CqePost, CqeRemove
  <2>4. CASE EventSteps
    BY <2>4 DEF EventSteps, RxWake, RxPollEnd, RxArm, CqWake, CqPollEnd, CqArm
  <2>5. CASE CopySteps
    BY <2>5 DEF CopySteps, TxCopyFirst, TxCopyLast, CqeCopyFirst, CqeCopyLast
  <2> QED
    BY <1>5, <2>1, <2>2, <2>3, <2>4, <2>5
<1> QED
  BY <1>1, <1>2, <1>3, <1>4, <1>5, Steps DEF Terminate

-----------------------------------------------------------------------------
(* The theorems.                                                           *)

LEMMA PathInit == Init => PathInv /\ AnswerInv
<1> SUFFICES ASSUME Init PROVE PathInv /\ AnswerInv
  OBVIOUS
<1>1. ServerTypes /\ Sizes /\ ListInv(keyList, map)
  BY TypesInit
<1>2. /\ DOMAIN map = {} /\ DOMAIN leftAt = {} /\ DOMAIN arrivedAt = {} /\ out = {}
      /\ 1 .. Len(sq) = {} /\ 1 .. Len(cqes) = {} /\ 1 .. Len(arrivals) = {}
      /\ 1 .. Len(server_queue) = {}
      /\ txpc = "wait" /\ cqpc = "wait" /\ alive /\ now = ClockStart
  BY DEF Init
<1>3. EntryInv
  BY <1>2 DEF EntryInv, OnTheWay, FailedIsGone
<1>4. OnePlace /\ LeftInv
  BY <1>2 DEF OnePlace, LeftInv, DistinctIds, DistinctTos, Exclusive, Before, Arriving, Queued,
              Handled, Posted, Completed, Acking, CqSends, HasId, HasTo
<1>5. ClockInv
  BY <1>2, ServerAssumption DEF ClockInv
<1>6. StaysAlive
  BY <1>2 DEF StaysAlive
<1>7. EventTypes
  <2>1. 0 \in 0 .. NumBuf
    BY ServerAssumption
  <2> QED
    BY <2>1 DEF Init, EventTypes
<1>8. PairInv
  BY <1>2 DEF PairInv, Busy, InFlight, Sending
<1>9. IndexInv /\ OwnInv
  BY <1>2 DEF IndexInv, OwnInv
<1>10. StampInv /\ DelayInv
  BY <1>2 DEF StampInv, DelayInv, CqSends
<1> QED
  BY <1>1, <1>3, <1>4, <1>5, <1>6, <1>7, <1>8, <1>9, <1>10 DEF PathInv, AnswerInv

LEMMA PathStep ==
    ASSUME PathInv, [Next]_vars
    PROVE  PathInv'
<1>1. /\ ServerTypes /\ EventTypes /\ Sizes /\ ListInv(keyList, map)
      /\ OnTheWay /\ FailedIsGone /\ OnePlace /\ LeftInv /\ ClockInv /\ StaysAlive
  BY DEF PathInv, EntryInv
<1>2. ServerTypes' /\ Sizes' /\ ListInv(keyList, map)'
  BY <1>1, TypesStep
<1>3. OnTheWay' /\ FailedIsGone'
  BY <1>1, EntryStep, FailedStep
<1>4. OnePlace' /\ LeftInv'
  BY <1>1, PlacesStep
<1>5. ClockInv' /\ StaysAlive'
  BY <1>1, ClockStep, AliveStep
<1>6. EventTypes'
  BY <1>1, EventsTyped
<1> QED
  BY <1>2, <1>3, <1>4, <1>5, <1>6 DEF PathInv, EntryInv

LEMMA AnswerStep ==
    ASSUME PathInv, AnswerInv, [Next]_vars
    PROVE  AnswerInv'
<1>1. /\ ServerTypes /\ Sizes /\ ListInv(keyList, map) /\ OnePlace /\ LeftInv /\ ClockInv
      /\ PairInv /\ IndexInv /\ OwnInv
  BY DEF PathInv, AnswerInv
<1>2. ServerTypes'
  BY <1>1, TypesStep
<1>3. PairInv'
  BY <1>1, <1>2, PairStep
<1>4. IndexInv' /\ OwnInv'
  BY <1>1, IndexStep, OwnStep
<1>5. ASSUME HwTs PROVE StampInv' /\ DelayInv'
  <2>1. StampInv /\ DelayInv
    BY <1>5 DEF AnswerInv
  <2>2. StampInv'
    BY <1>1, <1>5, <2>1, StampStep
  <2>3. DelayInv'
    BY <1>1, <2>1, DelayStep
  <2> QED
    BY <2>2, <2>3
<1> QED
  BY <1>3, <1>4, <1>5 DEF AnswerInv

\* The inductive invariant holds in every state of the server.
THEOREM PathInvariant == Spec => [](PathInv /\ AnswerInv)
<1>1. Init => PathInv /\ AnswerInv
  BY PathInit
<1>2. PathInv /\ AnswerInv /\ [Next]_vars => (PathInv /\ AnswerInv)'
  BY PathStep, AnswerStep
<1> QED
  BY <1>1, <1>2, PTL DEF Spec

LEMMA PathIsRight == PathInv => ServerInv
<1> SUFFICES ASSUME PathInv PROVE ServerInv
  OBVIOUS
<1>1. ServerTypes /\ EventTypes /\ Sizes /\ ListInv(keyList, map) /\ OnTheWay /\ ClockInv
  BY DEF PathInv, EntryInv
<1>2. \A i \in DOMAIN buf : buf[i].kind \in {"none", "pong", "ack"}
  BY <1>1 DEF ServerTypes, Msg
<1>3. /\ Len(arrivals) <= NumBuf /\ Len(server_queue) <= QueueSize
      /\ Len(sq) + Len(cqes) <= NumBuf
  BY <1>1 DEF Sizes
<1>4. /\ DOMAIN map \subseteq DOMAIN arrivedAt
      /\ \A id \in DOMAIN map : map[id].time <= map[id].ts /\ map[id].ts <= now
  BY <1>1 DEF ClockInv
<1>5. TypeOK
  <2>1. /\ DOMAIN arrivedAt \subseteq Pings /\ DOMAIN leftAt \subseteq Pings
        /\ txpc \in {"wait", "insert", "copy", "copy2", "post"}
        /\ cqpc \in {"wait", "copy", "copy2", "post", "remove"}
        /\ gone \subseteq Pings /\ overlapped \subseteq Pings
    BY <1>1 DEF ServerTypes
  <2>2. /\ {rxEvent, cqEvent} \subseteq {"armed", "event", "polling", "off"}
        /\ rxTodo \in 0 .. NumBuf /\ cqTodo \in 0 .. NumBuf
    BY <1>1 DEF EventTypes
  <2>3. alive \in BOOLEAN /\ ahFailed \in BOOLEAN
    BY <1>1, Zenon DEF EventTypes
  <2> QED
    BY <1>2, <1>3, <1>4, <2>1, <2>2, <2>3, Zenon DEF TypeOK
<1>6. keyList \in Seq(Pings)
  BY <1>1 DEF ServerTypes
<1>7. Cardinality(DOMAIN map) = Len(keyList)
  BY <1>1, <1>6, ListLength
<1>8. ToSet(keyList) = DOMAIN map
  BY <1>1 DEF ListInv
<1> QED
  BY <1>1, <1>5, <1>7, <1>8 DEF ServerInv, NoLeakedEntry, OnTheWay

\* Whatever the threads and the NIC do: the queues keep to their sizes, the
\* table's list and map agree and hold no entry that nobody is going to remove
\* (PingMsgMap, server_process_pong_cqe), and the process ends only for want of
\* an address handle or when more pings are being answered than there are
\* buffers (post_send).
THEOREM ServerCorrect == Spec => [](ServerInv /\ StaysAlive)
<1>1. PathInv /\ AnswerInv => ServerInv /\ StaysAlive
  BY PathIsRight DEF PathInv
<1> QED
  BY <1>1, PathInvariant, PTL

\* A message carries another ping's id only if the two were answered at the same
\* time from the same buffer, although tx and tx_cqe copy into it without a lock
\* and the NIC may read it late (post_send); with inline sends and without.
THEOREM AnswerCorrect == Spec => []SoleAnswerIsOwn
<1>1. PathInv /\ AnswerInv => SoleAnswerIsOwn
  BY DEF AnswerInv, OwnInv, SoleAnswerIsOwn
<1> QED
  BY <1>1, PathInvariant, PTL

\* The delay in an ACK is the time the ping spent in the server, up to multiples
\* of the modulus.
DelayModulo ==
    \A o \in out : o.msg.kind = "ack" /\ o.to \notin overlapped =>
        o.msg.delay = (leftAt[o.to] - arrivedAt[o.to]) % Modulo

\* It is, with stamps of the NIC, for as long as the server runs
\* (calc_time_delta_with_modulo).
THEOREM DelayModuloCorrect ==
    ASSUME HwTs
    PROVE  Spec => []DelayModulo
<1>1. PathInv /\ AnswerInv => DelayModulo
  BY DEF AnswerInv, DelayInv, Delay, DelayModulo
<1> QED
  BY <1>1, PathInvariant, PTL

\* It is exactly that time for every ping that spent less than the modulus in the
\* server, however often the clocks have wrapped around before or meanwhile.
THEOREM DelayCorrect ==
    ASSUME HwTs
    PROVE  Spec => []DelayIsServerTime
<1>1. PathInv /\ AnswerInv => DelayIsServerTime
  <2> SUFFICES ASSUME PathInv, AnswerInv, NEW o \in out, o.msg.kind = "ack", o.to \notin overlapped,
                      leftAt[o.to] - arrivedAt[o.to] < Modulo
               PROVE  o.msg.delay = leftAt[o.to] - arrivedAt[o.to]
    BY DEF DelayIsServerTime
  <2>1. DelayInv /\ ServerTypes /\ ClockInv
    BY DEF AnswerInv, PathInv
  <2>2. PICK i : i = o.to
    OBVIOUS
  <2>3. i \in DOMAIN leftAt /\ o.msg.delay = (leftAt[i] - arrivedAt[i]) % Modulo
    BY <2>1, <2>2 DEF DelayInv, Delay
  <2>4. i \in DOMAIN arrivedAt
    BY <2>1, <2>3 DEF ServerTypes
  <2>5. leftAt[i] \in Nat /\ arrivedAt[i] \in Nat
    BY <2>1, <2>3, <2>4 DEF ServerTypes
  <2>6. arrivedAt[i] <= leftAt[i]
    BY <2>1, <2>3 DEF ClockInv
  <2>7. PICK d \in Int : d = leftAt[i] - arrivedAt[i]
    BY <2>5
  <2>8. Modulo \in Nat \ {0} /\ d \in 0 .. Modulo - 1
    BY <2>2, <2>5, <2>6, <2>7, ServerAssumption
  <2>9. d = Modulo * 0 + d
    BY <2>8
  <2>10. d % Modulo = d
    BY <2>8, <2>9, ModUnique
  <2> QED
    BY <2>2, <2>3, <2>7, <2>10
<1> QED
  BY <1>1, PathInvariant, PTL
=============================================================================
