------------------------ MODULE TcpUdpClientProofs ------------------------
(***************************************************************************)
(* Proofs about the TCP and UDP clients, for either protocol, every set of *)
(* destinations, number of pings, threshold, queue size, width of the      *)
(* clock and clock bound.                                                  *)
(***************************************************************************)
EXTENDS TcpUdpClient, FiniteSetTheorems, SequenceTheorems, TLAPS

-----------------------------------------------------------------------------
(* The inductive invariant.                                                *)

\* The ping has been inserted.
Known(i) == i \in DOMAIN map \/ verdict[i] # "none"

\* An entry is that of a ping that was made and has not ended.
EntryInv ==
    \A i \in DOMAIN map :
        /\ i \in DOMAIN dst /\ map[i].dst = dst[i]
        /\ map[i].ts <= now /\ map[i].network_delay = Nanos(map[i].ts)
        /\ verdict[i] = "none"

\* Only the thread of a ping inserts it, before it sends it.
StageInv ==
    \A i \in Ids :
        /\ stage[i] = "none" <=> i >= uid
        /\ stage[i] \in {"none", "made", "insert"} => ~Known(i)
        /\ stage[i] \in {"send", "connect"} => Known(i)

\* What is under way was sent after the insert, and answers were answered.
WireInv ==
    \A m \in wire :
        /\ Known(m.id) /\ m.at <= now
        /\ m.id \in DOMAIN map => map[m.id].ts <= m.at
        /\ m.kind = "pong" => m.id \in answered

ClientInv ==
    /\ TypeOK /\ ListMatchesMap /\ EntryInv /\ StageInv /\ WireInv
    /\ DelayFits /\ CountsAreTrue

-----------------------------------------------------------------------------
(* The list of keys.                                                       *)

LEMMA ToSetOfSeq ==
    ASSUME NEW S, NEW s \in Seq(S)
    PROVE  ToSet(s) = {s[i] : i \in 1 .. Len(s)}
BY LenProperties DEF ToSet

LEMMA RemoveAtProperties ==
    ASSUME NEW S, NEW s \in Seq(S), NEW p \in 1 .. Len(s)
    PROVE  /\ RemoveAt(s, p) \in Seq(S)
           /\ Len(RemoveAt(s, p)) = Len(s) - 1
           /\ \A i \in 1 .. Len(s) - 1 :
                 RemoveAt(s, p)[i] = IF i < p THEN s[i] ELSE s[i + 1]
<1>1. Len(s) \in Nat /\ \A i \in 1 .. Len(s) : s[i] \in S
  BY LenProperties, ElementOfSeq
<1> DEFINE a == SubSeq(s, 1, p - 1)
<1> DEFINE b == SubSeq(s, p + 1, Len(s))
<1>2. a \in Seq(S) /\ Len(a) = p - 1 /\ \A i \in 1 .. p - 1 : a[i] = s[i]
  <2>1. \A i \in 1 .. p - 1 : s[i] \in S
    BY <1>1
  <2>2. /\ a \in Seq(S) /\ Len(a) = IF 1 <= p - 1 THEN p - 1 - 1 + 1 ELSE 0
        /\ \A i \in 1 .. p - 1 - 1 + 1 : a[i] = s[1 + i - 1]
    BY <1>1, <2>1, SubSeqProperties
  <2> QED
    BY <1>1, <2>2
<1>3. /\ b \in Seq(S) /\ Len(b) = Len(s) - p
      /\ \A i \in 1 .. Len(s) - p : b[i] = s[p + i]
  <2>1. \A i \in p + 1 .. Len(s) : s[i] \in S
    BY <1>1
  <2>2. /\ b \in Seq(S) /\ Len(b) = IF p + 1 <= Len(s) THEN Len(s) - (p + 1) + 1 ELSE 0
        /\ \A i \in 1 .. Len(s) - (p + 1) + 1 : b[i] = s[p + 1 + i - 1]
    BY <1>1, <2>1, SubSeqProperties
  <2> QED
    BY <1>1, <2>2
<1>4. RemoveAt(s, p) = a \o b
  BY DEF RemoveAt
<1>5. /\ a \o b \in Seq(S) /\ Len(a \o b) = Len(a) + Len(b)
      /\ \A i \in 1 .. Len(a) + Len(b) :
            (a \o b)[i] = IF i <= Len(a) THEN a[i] ELSE b[i - Len(a)]
  BY <1>2, <1>3, ConcatProperties
<1> HIDE DEF a, b
<1> QED
  BY <1>1, <1>2, <1>3, <1>4, <1>5

\* Erasing one position and the key that stood there keeps the others in order.
LEMMA EraseOldestFirst ==
    ASSUME NEW S, NEW s \in Seq(S), NEW m, OldestFirst(s, m), NEW p \in 1 .. Len(s)
    PROVE  OldestFirst(RemoveAt(s, p), Without(m, s[p]))
<1> DEFINE t == RemoveAt(s, p)
<1> DEFINE n == Without(m, s[p])
<1>1. /\ t \in Seq(S) /\ Len(t) = Len(s) - 1
      /\ \A i \in 1 .. Len(s) - 1 : t[i] = IF i < p THEN s[i] ELSE s[i + 1]
  BY RemoveAtProperties
<1>2. Len(s) \in Nat
  BY LenProperties
<1>3. DOMAIN n = DOMAIN m \ {s[p]} /\ \A k \in DOMAIN m \ {s[p]} : n[k] = m[k]
  BY DEF Without, Restrict
<1> HIDE DEF t, n
<1>4. \A i \in 1 .. Len(t) : \E k \in 1 .. Len(s) : k # p /\ t[i] = s[k]
  BY <1>1, <1>2
<1>5. \A k \in 1 .. Len(s) : k # p => \E i \in 1 .. Len(t) : t[i] = s[k]
  <2> SUFFICES ASSUME NEW k \in 1 .. Len(s), k # p
               PROVE  \E i \in 1 .. Len(t) : t[i] = s[k]
    OBVIOUS
  <2>1. CASE k < p
    BY <1>1, <1>2, <2>1
  <2>2. CASE k > p
    <3>1. k - 1 \in 1 .. Len(t) /\ ~(k - 1 < p) /\ (k - 1) + 1 = k
      BY <1>1, <1>2, <2>2
    <3>2. t[k - 1] = s[k]
      BY <1>1, <3>1
    <3> QED
      BY <3>1, <3>2
  <2> QED
    BY <1>2, <2>1, <2>2
<1>6. ToSet(s) = DOMAIN m /\ \A i, j \in 1 .. Len(s) :
          i < j => s[i] # s[j] /\ m[s[i]].ts <= m[s[j]].ts
  BY DEF OldestFirst
<1>7. \A k \in 1 .. Len(s) : k # p => s[k] # s[p]
  BY <1>2, <1>6
<1>8. ToSet(t) = DOMAIN n
  <2>1. ToSet(s) = {s[i] : i \in 1 .. Len(s)} /\ ToSet(t) = {t[i] : i \in 1 .. Len(t)}
    BY <1>1, ToSetOfSeq
  <2> HIDE DEF ToSet
  <2>2. ASSUME NEW x \in ToSet(t) PROVE x \in DOMAIN n
    <3>1. PICK i \in 1 .. Len(t) : x = t[i]
      BY <2>1, <2>2
    <3>2. PICK k \in 1 .. Len(s) : k # p /\ t[i] = s[k]
      BY <1>4, <3>1
    <3> QED
      BY <1>3, <1>6, <1>7, <2>1, <3>1, <3>2
  <2>3. ASSUME NEW x \in DOMAIN n PROVE x \in ToSet(t)
    <3>1. PICK k \in 1 .. Len(s) : x = s[k]
      BY <1>3, <1>6, <2>1, <2>3
    <3>2. k # p
      BY <1>3, <2>3, <3>1
    <3> QED
      BY <1>5, <2>1, <3>1, <3>2
  <2> QED
    BY <2>2, <2>3
<1>9. \A i, j \in 1 .. Len(t) : i < j => t[i] # t[j] /\ n[t[i]].ts <= n[t[j]].ts
  <2> SUFFICES ASSUME NEW i \in 1 .. Len(t), NEW j \in 1 .. Len(t), i < j
               PROVE  t[i] # t[j] /\ n[t[i]].ts <= n[t[j]].ts
    OBVIOUS
  <2>1. PICK a, b \in 1 .. Len(s) : a < b /\ a # p /\ b # p /\ t[i] = s[a] /\ t[j] = s[b]
    <3>1. CASE j < p
      <4>1. i \in 1 .. Len(s) /\ j \in 1 .. Len(s) /\ i < p /\ i # p /\ j # p
        BY <1>1, <1>2, <3>1
      <4>2. t[i] = s[i] /\ t[j] = s[j]
        BY <1>1, <3>1, <4>1
      <4> QED
        BY <4>1, <4>2
    <3>2. CASE i < p /\ ~(j < p)
      <4>1. i \in 1 .. Len(s) /\ j + 1 \in 1 .. Len(s) /\ i < j + 1 /\ i # p /\ j + 1 # p
        BY <1>1, <1>2, <3>2
      <4>2. t[i] = s[i] /\ t[j] = s[j + 1]
        BY <1>1, <3>2
      <4> QED
        BY <4>1, <4>2
    <3>3. CASE ~(i < p)
      <4>1. i + 1 \in 1 .. Len(s) /\ j + 1 \in 1 .. Len(s) /\ i + 1 < j + 1
            /\ i + 1 # p /\ j + 1 # p /\ ~(j < p)
        BY <1>1, <1>2, <3>3
      <4>2. t[i] = s[i + 1] /\ t[j] = s[j + 1]
        BY <1>1, <3>3, <4>1
      <4> QED
        BY <4>1, <4>2
    <3> QED
      BY <3>1, <3>2, <3>3
  <2>2. s[a] \in DOMAIN n /\ s[b] \in DOMAIN n /\ n[s[a]] = m[s[a]] /\ n[s[b]] = m[s[b]]
    BY <1>3, <1>6, <1>7, <2>1 DEF ToSet
  <2> QED
    BY <1>6, <2>1, <2>2
<1> QED
  BY <1>8, <1>9 DEF OldestFirst, t, n

LEMMA TailIsRemoveAt ==
    ASSUME NEW S, NEW s \in Seq(S), s # <<>>
    PROVE  Tail(s) = RemoveAt(s, 1) /\ Head(s) = s[1] /\ 1 \in 1 .. Len(s)
<1>1. /\ Len(s) \in Nat /\ Len(s) > 0 /\ Head(s) = s[1]
      /\ Tail(s) \in Seq(S) /\ Len(Tail(s)) = Len(s) - 1
      /\ \A i \in 1 .. Len(Tail(s)) : Tail(s)[i] = s[i + 1]
  BY HeadTailProperties, EmptySeq, LenProperties
<1>2. /\ RemoveAt(s, 1) \in Seq(S) /\ Len(RemoveAt(s, 1)) = Len(s) - 1
      /\ \A i \in 1 .. Len(s) - 1 : RemoveAt(s, 1)[i] = s[i + 1]
  <2>1. 1 \in 1 .. Len(s)
    BY <1>1
  <2>2. /\ RemoveAt(s, 1) \in Seq(S) /\ Len(RemoveAt(s, 1)) = Len(s) - 1
        /\ \A i \in 1 .. Len(s) - 1 :
              RemoveAt(s, 1)[i] = IF i < 1 THEN s[i] ELSE s[i + 1]
    BY <2>1, RemoveAtProperties
  <2>3. ASSUME NEW i \in 1 .. Len(s) - 1 PROVE RemoveAt(s, 1)[i] = s[i + 1]
    <3>1. ~(i < 1)
      BY <1>1
    <3> QED
      BY <2>2, <3>1
  <2> QED
    BY <2>2, <2>3
<1>3. Tail(s) = RemoveAt(s, 1)
  BY <1>1, <1>2, SeqEqual
<1> QED
  BY <1>1, <1>3

\* A new key at the end, no older than the others.
LEMMA AppendOldestFirst ==
    ASSUME NEW S, NEW s \in Seq(S), NEW m, OldestFirst(s, m), NEW k \in S, k \notin DOMAIN m,
           NEW n, DOMAIN n = DOMAIN m \cup {k}, \A x \in DOMAIN m : n[x] = m[x],
           \A x \in DOMAIN m : m[x].ts <= n[k].ts
    PROVE  OldestFirst(Append(s, k), n)
<1> DEFINE t == Append(s, k)
<1>1. /\ Len(s) \in Nat /\ t \in Seq(S) /\ Len(t) = Len(s) + 1
      /\ \A i \in 1 .. Len(s) : t[i] = s[i]
      /\ t[Len(s) + 1] = k
  BY AppendProperties, LenProperties
<1> HIDE DEF t
<1>2. ToSet(s) = {s[i] : i \in 1 .. Len(s)} /\ ToSet(t) = {t[i] : i \in 1 .. Len(t)}
  BY <1>1, ToSetOfSeq
<1>3. ToSet(s) = DOMAIN m /\ \A i, j \in 1 .. Len(s) :
          i < j => s[i] # s[j] /\ m[s[i]].ts <= m[s[j]].ts
  BY DEF OldestFirst
<1>4. \A i \in 1 .. Len(s) : s[i] \in DOMAIN m
  BY <1>2, <1>3
<1>5. ToSet(t) = DOMAIN n
  <2>1. ASSUME NEW x \in ToSet(t) PROVE x \in DOMAIN n
    <3>1. PICK i \in 1 .. Len(t) : x = t[i]
      BY <1>2, <2>1
    <3> QED
      BY <1>1, <1>4, <3>1
  <2>2. ASSUME NEW x \in DOMAIN n PROVE x \in ToSet(t)
    <3>1. CASE x = k
      BY <1>1, <1>2, <3>1
    <3>2. CASE x # k
      <4>1. PICK i \in 1 .. Len(s) : x = s[i]
        BY <1>2, <1>3, <2>2, <3>2
      <4> QED
        BY <1>1, <1>2, <4>1
    <3> QED
      BY <3>1, <3>2
  <2> QED
    BY <2>1, <2>2
<1>6. \A i, j \in 1 .. Len(t) : i < j => t[i] # t[j] /\ n[t[i]].ts <= n[t[j]].ts
  <2> SUFFICES ASSUME NEW i \in 1 .. Len(t), NEW j \in 1 .. Len(t), i < j
               PROVE  t[i] # t[j] /\ n[t[i]].ts <= n[t[j]].ts
    OBVIOUS
  <2>1. i \in 1 .. Len(s) /\ t[i] = s[i] /\ s[i] \in DOMAIN m
    BY <1>1, <1>4
  <2>2. CASE j = Len(s) + 1
    BY <1>1, <2>1, <2>2
  <2>3. CASE j # Len(s) + 1
    <3>1. j \in 1 .. Len(s) /\ t[j] = s[j] /\ s[j] \in DOMAIN m
      BY <1>1, <1>4, <2>3
    <3> QED
      BY <1>3, <2>1, <3>1
  <2> QED
    BY <2>2, <2>3
<1> QED
  BY <1>5, <1>6 DEF OldestFirst, t

LEMMA ListIterFinds ==
    ASSUME TypeOK, ListMatchesMap, NEW id \in DOMAIN map
    PROVE  listIter(id) \in 1 .. Len(keyList) /\ keyList[listIter(id)] = id
<1>1. ToSet(keyList) = {keyList[i] : i \in 1 .. Len(keyList)}
  BY ToSetOfSeq DEF TypeOK
<1>2. \E i \in 1 .. Len(keyList) : keyList[i] = id
  BY <1>1 DEF ListMatchesMap, OldestFirst
<1> QED
  BY <1>2 DEF listIter

-----------------------------------------------------------------------------
(* What a step does to table, queue and fates.                             *)

\* A ping is inserted by its thread.
Begins(id) ==
    /\ stage[id] = "insert" /\ id \notin DOMAIN map
    /\ keyList' = Append(keyList, id)
    /\ DOMAIN map' = DOMAIN map \cup {id} /\ map'[id] = NewEntry(id)
    /\ \A x \in DOMAIN map : map'[x] = map[x]
    /\ UNCHANGED <<queue, verdict, now, dst, uid, window, reported, wire, answered>>
    /\ stage' = [stage EXCEPT ![id] = "send"]

\* A ping ends: its entry leaves list and map, and its result goes to the queue.
Ends(id, kind, delay) ==
    /\ id \in DOMAIN map
    /\ \E p \in 1 .. Len(keyList) : keyList[p] = id /\ keyList' = RemoveAt(keyList, p)
    /\ map' = Without(map, id)
    /\ Enqueue(id, kind, delay)
    /\ UNCHANGED <<now, dst, uid, window, reported, answered>>
    /\ wire' \subseteq wire
    /\ \A i \in Ids : stage'[i] = stage[i] \/ (stage[i] = "connect" /\ stage'[i] = "done")

\* An answer that was read after it came.
Answers(id, delay) ==
    \E m \in wire : \E recv_time \in Clock :
        /\ m.id = id /\ receive_udp_message(m, recv_time)
        /\ delay = calc_time_delta_with_bitwrap(map[id].network_delay, Nanos(recv_time))

\* Neither.
Waits ==
    /\ UNCHANGED <<map, keyList, verdict>>
    /\ ResultTake \/ UNCHANGED queue

Moves ==
    \/ Waits
    \/ \E id \in Ids : Begins(id)
    \/ \E id \in Ids : Ends(id, "failure", 0)
    \/ \E id \in Ids : \E delay \in 0 .. Mask : Ends(id, "success", delay) /\ Answers(id, delay)

LEMMA DeltaFits ==
    ASSUME NEW t1 \in 0 .. Mask, NEW t2 \in 0 .. Mask
    PROVE  calc_time_delta_with_bitwrap(t1, t2) \in 0 .. Mask
<1>1. Mask \in Nat
  BY TcpUdpAssumption
<1> QED
  BY <1>1 DEF calc_time_delta_with_bitwrap

LEMMA NanosFits ==
    ASSUME NEW t \in Nat
    PROVE  Nanos(t) \in 0 .. Mask
<1>1. Mask \in Nat
  BY TcpUdpAssumption
<1>2. PICK n \in Nat \ {0} : n = Mask + 1
  BY <1>1
<1>3. t % n \in 0 .. n - 1
  BY <1>2
<1> QED
  BY <1>1, <1>2, <1>3 DEF Nanos

LEMMA ClockNat == Clock \subseteq Nat /\ Ids \subseteq Nat
BY TcpUdpAssumption DEF Clock, Ids

\* update_pong_info, from either client.
LEMMA PongMoves ==
    ASSUME TypeOK, ListMatchesMap, NEW m \in wire, NEW recv_time \in Clock,
           receive_udp_message(m, recv_time), update_pong_info(m.id, Nanos(recv_time)),
           UNCHANGED <<now, dst, uid, window, reported, answered>>, wire' \subseteq wire,
           \A i \in Ids : stage'[i] = stage[i] \/ (stage[i] = "connect" /\ stage'[i] = "done")
    PROVE  Moves
<1>1. PICK id \in Ids : id = m.id
  BY DEF TypeOK, Message
<1>2. CASE id \notin DOMAIN map
  BY <1>1, <1>2 DEF update_pong_info, table, Moves, Waits
<1>3. CASE id \in DOMAIN map
  <2> DEFINE delay == calc_time_delta_with_bitwrap(map[id].network_delay, Nanos(recv_time))
  <2>1. Enqueue(id, "success", delay) /\ Erase(id)
    BY <1>1, <1>3 DEF update_pong_info
  <2>2. delay \in 0 .. Mask
    <3>1. map[id].network_delay \in 0 .. Mask
      BY <1>3 DEF TypeOK, Entry
    <3>2. Nanos(recv_time) \in 0 .. Mask
      BY NanosFits, ClockNat
    <3> QED
      BY <3>1, <3>2, DeltaFits
  <2>3. listIter(id) \in 1 .. Len(keyList) /\ keyList[listIter(id)] = id
    BY <1>3, ListIterFinds
  <2> HIDE DEF delay
  <2>4. Ends(id, "success", delay)
    BY <1>3, <2>1, <2>3 DEF Ends, Erase
  <2>5. Answers(id, delay)
    BY <1>1 DEF Answers, delay
  <2> QED
    BY <2>2, <2>4, <2>5 DEF Moves
<1> QED
  BY <1>2, <1>3

LEMMA StepMoves ==
    ASSUME TypeOK, ListMatchesMap, EntryInv, StageInv, [Next]_vars
    PROVE  Moves
<1> USE DEF table, sending, net, report
<1>1. CASE TxNext \/ Report \/ ServerAnswer \/ Tick \/ UNCHANGED vars
  BY <1>1 DEF TxNext, Report, ServerAnswer, Tick, vars, Moves, Waits
<1>2. CASE ResultTake
  BY <1>2 DEF ResultTake, Moves, Waits
<1>3. ASSUME NEW id \in Ids,
             InsertBegin(id) \/ MakeCtxFail(id) \/ Send(id) \/ SendFail(id)
      PROVE  Moves
  BY <1>3 DEF InsertBegin, MakeCtxFail, Send, SendFail, Moves, Waits
<1>4. ASSUME NEW id \in Ids, InsertEnd(id) PROVE Moves
  <2>1. id \notin DOMAIN map
    BY <1>4 DEF InsertEnd, StageInv, Known
  <2>2. Begins(id)
    BY <1>4, <2>1 DEF InsertEnd, Begins
  <2> QED
    BY <2>2 DEF Moves
<1>5. CASE Expire
  <2>1. keyList \in Seq(Ids) /\ keyList # <<>>
    BY <1>5 DEF Expire, TypeOK
  <2>2. Tail(keyList) = RemoveAt(keyList, 1) /\ Head(keyList) = keyList[1]
        /\ 1 \in 1 .. Len(keyList)
    BY <2>1, TailIsRemoveAt
  <2>3. PICK id \in Ids : id = Head(keyList)
    BY <2>1, <2>2, ElementOfSeq
  <2>4. id \in DOMAIN map
    BY <2>1, <2>2, <2>3, ToSetOfSeq DEF ListMatchesMap, OldestFirst
  <2>5. Enqueue(id, "failure", 0) /\ map' = Without(map, id) /\ keyList' = Tail(keyList)
    BY <1>5, <2>3, <2>4 DEF Expire
  <2>6. Ends(id, "failure", 0)
    BY <1>5, <2>2, <2>3, <2>4, <2>5 DEF Expire, Ends
  <2> QED
    BY <2>6 DEF Moves
<1>6. ASSUME NEW again \in BOOLEAN, UdpReceive(again) PROVE Moves
  <2>1. PICK m \in wire : /\ \E recv_time \in Clock :
                                /\ receive_udp_message(m, recv_time)
                                /\ update_pong_info(m.id, Nanos(recv_time))
                          /\ wire' = IF again THEN wire ELSE wire \ {m}
    BY <1>6 DEF UdpReceive
  <2>2. wire' \subseteq wire
    BY <2>1
  <2> QED
    BY <1>6, <2>1, <2>2, PongMoves DEF UdpReceive
<1>7. CASE TcpConnected
  <2>1. PICK m \in wire : /\ m.kind = "pong" /\ stage[m.id] = "connect"
                          /\ \E recv_time \in m.at .. now :
                                update_pong_info(m.id, Nanos(recv_time))
                          /\ wire' = wire \ {m}
                          /\ stage' = [stage EXCEPT ![m.id] = "done"]
    BY <1>7 DEF TcpConnected
  <2>2. PICK recv_time \in m.at .. now : update_pong_info(m.id, Nanos(recv_time))
    BY <2>1
  <2>3. recv_time \in Clock
    BY <2>2, ClockNat, TcpUdpAssumption DEF TypeOK, Message, Clock
  <2>4. receive_udp_message(m, recv_time)
    BY <2>1, <2>2 DEF receive_udp_message
  <2>5. wire' \subseteq wire
    BY <2>1
  <2>6. \A i \in Ids : stage'[i] = stage[i] \/ (stage[i] = "connect" /\ stage'[i] = "done")
    BY <2>1 DEF TypeOK
  <2> QED
    BY <1>7, <2>2, <2>3, <2>4, <2>5, <2>6, PongMoves DEF TcpConnected
<1> QED
  BY <1>1, <1>2, <1>3, <1>4, <1>5, <1>6, <1>7 DEF Next

-----------------------------------------------------------------------------
(* The type invariant.                                                     *)

TableTypes ==
    /\ DOMAIN map \subseteq Ids /\ \A i \in DOMAIN map : map[i] \in Entry
    /\ keyList \in Seq(Ids) /\ queue \in Seq(Result) /\ Len(queue) <= QueueSize
    /\ verdict \in [Ids -> Counted \cup {"none", "full"}]
SendTypes ==
    /\ proto \in Protocols /\ now \in Clock
    /\ uid \in 0 .. MaxPing /\ expireTime \in Nat
    /\ stage \in [Ids -> {"none", "made", "insert", "send", "connect", "done"}]
    /\ DOMAIN dst = 0 .. uid - 1 /\ \A i \in DOMAIN dst : dst[i] \in Dsts
    /\ wire \subseteq Message /\ dups \in 0 .. MaxDup /\ answered \subseteq Ids
CountTypes == window \in Counts /\ reported \in Counts

LEMMA TypeParts == TypeOK <=> TableTypes /\ SendTypes /\ CountTypes
BY DEF TypeOK, TableTypes, SendTypes, CountTypes

LEMMA EnqueueTyped ==
    ASSUME TypeOK, NEW id \in DOMAIN map, NEW kind \in Counted, NEW delay \in 0 .. Mask,
           Enqueue(id, kind, delay)
    PROVE  /\ queue' \in Seq(Result) /\ Len(queue') <= QueueSize
           /\ verdict' \in [Ids -> Counted \cup {"none", "full"}]
<1>1. queue \in Seq(Result) /\ Len(queue) \in Nat /\ Len(queue) <= QueueSize /\ QueueSize \in Nat
      /\ id \in Ids /\ verdict \in [Ids -> Counted \cup {"none", "full"}]
  BY LenProperties, TcpUdpAssumption DEF TypeOK
<1>2. CASE Len(queue) < QueueSize
  <2> DEFINE r == [id |-> id, dst |-> map[id].dst, sent |-> map[id].ts,
                   delay |-> delay, kind |-> kind]
  <2>1. r \in Result
    BY <1>1 DEF TypeOK, Entry, Result
  <2>2. queue' = Append(queue, r) /\ verdict' = [verdict EXCEPT ![id] = kind]
    BY <1>2 DEF Enqueue
  <2> HIDE DEF r
  <2>3. queue' \in Seq(Result) /\ Len(queue') = Len(queue) + 1
    BY <1>1, <2>1, <2>2, AppendProperties
  <2> QED
    BY <1>1, <1>2, <2>2, <2>3
<1>3. CASE ~(Len(queue) < QueueSize)
  BY <1>1, <1>3 DEF Enqueue
<1> QED
  BY <1>2, <1>3

LEMMA EndsTyped ==
    ASSUME TypeOK, ListMatchesMap, NEW id \in Ids, NEW kind \in Counted, NEW delay \in 0 .. Mask,
           Ends(id, kind, delay)
    PROVE  TableTypes' /\ ListMatchesMap'
<1>1. id \in DOMAIN map /\ map' = Without(map, id) /\ Enqueue(id, kind, delay)
  BY DEF Ends
<1>2. PICK p \in 1 .. Len(keyList) : keyList[p] = id /\ keyList' = RemoveAt(keyList, p)
  BY DEF Ends
<1>3. keyList \in Seq(Ids) /\ DOMAIN map \subseteq Ids /\ \A i \in DOMAIN map : map[i] \in Entry
  BY DEF TypeOK
<1>4. keyList' \in Seq(Ids)
  BY <1>2, <1>3, RemoveAtProperties
<1>5. DOMAIN map' \subseteq Ids /\ \A i \in DOMAIN map' : map'[i] \in Entry
  BY <1>1, <1>3 DEF Without, Restrict
<1>6. OldestFirst(RemoveAt(keyList, p), Without(map, keyList[p]))
  BY <1>2, <1>3, EraseOldestFirst DEF ListMatchesMap
<1>7. ListMatchesMap'
  BY <1>1, <1>2, <1>6 DEF ListMatchesMap
<1> QED
  BY <1>1, <1>4, <1>5, <1>7, EnqueueTyped DEF TableTypes

LEMMA BeginsTyped ==
    ASSUME TypeOK, ListMatchesMap, EntryInv, StageInv, NEW id \in Ids, Begins(id)
    PROVE  TableTypes' /\ ListMatchesMap'
<1>1. /\ keyList \in Seq(Ids) /\ DOMAIN map \subseteq Ids /\ \A i \in DOMAIN map : map[i] \in Entry
      /\ now \in Nat /\ now \in Clock /\ DOMAIN dst = 0 .. uid - 1 /\ uid \in Nat /\ id \in Nat
  BY ClockNat DEF TypeOK
<1>2. id \in DOMAIN dst
  <2>1. ~(id >= uid)
    BY DEF Begins, StageInv
  <2> QED
    BY <1>1, <2>1
<1>3. NewEntry(id) \in Entry
  BY <1>1, <1>2, NanosFits DEF NewEntry, Entry, TypeOK
<1>4. /\ keyList' = Append(keyList, id) /\ DOMAIN map' = DOMAIN map \cup {id}
      /\ map'[id] = NewEntry(id) /\ id \notin DOMAIN map
      /\ \A x \in DOMAIN map : map'[x] = map[x]
      /\ UNCHANGED <<queue, verdict>>
  BY DEF Begins
<1>5. TableTypes'
  <2>1. keyList' \in Seq(Ids)
    BY <1>1, <1>4, AppendProperties
  <2>2. DOMAIN map' \subseteq Ids /\ \A i \in DOMAIN map' : map'[i] \in Entry
    BY <1>1, <1>3, <1>4
  <2> QED
    BY <1>4, <2>1, <2>2 DEF TypeOK, TableTypes
<1>6. \A x \in DOMAIN map : map[x].ts <= map'[id].ts
  BY <1>4 DEF EntryInv, NewEntry
<1>7. OldestFirst(Append(keyList, id), map')
  BY <1>1, <1>4, <1>6, AppendOldestFirst DEF ListMatchesMap
<1>8. ListMatchesMap'
  BY <1>4, <1>7 DEF ListMatchesMap
<1> QED
  BY <1>5, <1>8

LEMMA TableStep ==
    ASSUME TypeOK, ListMatchesMap, EntryInv, StageInv, [Next]_vars
    PROVE  TableTypes' /\ ListMatchesMap'
<1>1. CASE Waits
  <2>1. queue' \in Seq(Result) /\ Len(queue') <= QueueSize
    <3>1. queue \in Seq(Result) /\ Len(queue) <= QueueSize
      BY DEF TypeOK
    <3>2. ASSUME queue # <<>>, queue' = Tail(queue)
          PROVE  queue' \in Seq(Result) /\ Len(queue') <= QueueSize
      <4>1. Tail(queue) \in Seq(Result) /\ Len(Tail(queue)) = Len(queue) - 1 /\ Len(queue) \in Nat
        BY <3>1, <3>2, HeadTailProperties, LenProperties
      <4> QED
        BY <3>1, <3>2, <4>1, TcpUdpAssumption
    <3> QED
      BY <1>1, <3>1, <3>2 DEF Waits, ResultTake
  <2> QED
    BY <1>1, <2>1 DEF Waits, TypeOK, TableTypes, ListMatchesMap
<1>2. ASSUME NEW id \in Ids, Begins(id) PROVE TableTypes' /\ ListMatchesMap'
  BY <1>2, BeginsTyped
<1>3. ASSUME NEW id \in Ids, Ends(id, "failure", 0) PROVE TableTypes' /\ ListMatchesMap'
  <2>1. "failure" \in Counted /\ 0 \in 0 .. Mask
    BY TcpUdpAssumption DEF Counted
  <2> QED
    BY <1>3, <2>1, EndsTyped
<1>4. ASSUME NEW id \in Ids, NEW delay \in 0 .. Mask, Ends(id, "success", delay)
      PROVE  TableTypes' /\ ListMatchesMap'
  <2>1. "success" \in Counted
    BY DEF Counted
  <2> QED
    BY <1>4, <2>1, EndsTyped
<1> QED
  BY <1>1, <1>2, <1>3, <1>4, StepMoves DEF Moves

LEMMA SendTypesStep ==
    ASSUME TypeOK, [Next]_vars
    PROVE  SendTypes'
<1> USE DEF table, sending, net, report
<1>1. SendTypes
  BY TypeParts
<1>2. Clock \subseteq Nat /\ Ids \subseteq Nat /\ MaxPing \in Nat /\ MaxDup \in Nat
  BY ClockNat, TcpUdpAssumption
<1>3. CASE TxNext
  <2>1. PICK d \in Dsts : dst' = [i \in DOMAIN dst \cup {uid} |-> IF i = uid THEN d ELSE dst[i]]
    BY <1>3 DEF TxNext
  <2>2. /\ DOMAIN dst' = 0 .. uid' - 1 /\ uid' \in 0 .. MaxPing /\ uid \in Ids
        /\ \A i \in DOMAIN dst' : dst'[i] \in Dsts
    BY <1>1, <1>2, <1>3, <2>1 DEF TxNext, SendTypes, Ids
  <2>3. stage' \in [Ids -> {"none", "made", "insert", "send", "connect", "done"}]
    BY <1>1, <1>3, <2>2 DEF TxNext, SendTypes
  <2> QED
    BY <1>1, <1>3, <2>2, <2>3 DEF TxNext, SendTypes
<1>4. ASSUME NEW id \in Ids,
             InsertBegin(id) \/ InsertEnd(id) \/ MakeCtxFail(id) \/ SendFail(id)
      PROVE  SendTypes'
  <2>1. expireTime' \in Nat
    BY <1>1, <1>2, <1>4 DEF InsertBegin, InsertEnd, MakeCtxFail, SendFail, SendTypes
  <2>2. stage' \in [Ids -> {"none", "made", "insert", "send", "connect", "done"}]
    BY <1>1, <1>4 DEF InsertBegin, InsertEnd, MakeCtxFail, SendFail, SendTypes
  <2>3. UNCHANGED <<proto, now, uid, dst, wire, dups, answered>>
    BY <1>4 DEF InsertBegin, InsertEnd, MakeCtxFail, SendFail
  <2> QED
    BY <1>1, <2>1, <2>2, <2>3 DEF SendTypes
<1>5. ASSUME NEW id \in Ids, Send(id) PROVE SendTypes'
  <2>1. [kind |-> "ping", id |-> id, at |-> now] \in Message
    BY <1>1 DEF SendTypes, Message
  <2>2. stage' \in [Ids -> {"none", "made", "insert", "send", "connect", "done"}]
    BY <1>1, <1>5 DEF Send, SendTypes
  <2> QED
    BY <1>1, <1>5, <2>1, <2>2 DEF Send, SendTypes
<1>6. ASSUME NEW again \in BOOLEAN, UdpReceive(again) PROVE SendTypes'
  <2>1. PICK m \in wire : wire' = IF again THEN wire ELSE wire \ {m}
    BY <1>6 DEF UdpReceive
  <2>2. wire' \subseteq wire /\ dups' \in 0 .. MaxDup
    BY <1>1, <1>2, <1>6, <2>1 DEF UdpReceive, SendTypes
  <2> QED
    BY <1>1, <1>6, <2>2 DEF UdpReceive, SendTypes
<1>7. CASE TcpConnected
  <2>1. PICK m \in wire : wire' = wire \ {m} /\ stage' = [stage EXCEPT ![m.id] = "done"]
    BY <1>7 DEF TcpConnected
  <2>2. stage' \in [Ids -> {"none", "made", "insert", "send", "connect", "done"}]
    BY <1>1, <2>1 DEF SendTypes, Message
  <2> QED
    BY <1>1, <1>7, <2>1, <2>2 DEF TcpConnected, SendTypes
<1>8. CASE ServerAnswer
  <2>1. PICK m \in wire : /\ wire' = (wire \ {m}) \cup {[m EXCEPT !.kind = "pong", !.at = now]}
                          /\ answered' = answered \cup {m.id}
    BY <1>8 DEF ServerAnswer
  <2>2. m \in Message /\ now \in Clock
    BY <1>1 DEF SendTypes
  <2>3. [m EXCEPT !.kind = "pong", !.at = now] \in Message /\ m.id \in Ids
    BY <2>2 DEF Message
  <2> QED
    BY <1>1, <1>8, <2>1, <2>3 DEF ServerAnswer, SendTypes
<1>9. CASE Tick
  <2>1. now' \in Clock
    BY <1>1, <1>2, <1>9, TcpUdpAssumption DEF Tick, SendTypes, Clock
  <2> QED
    BY <1>1, <1>9, <2>1 DEF Tick, SendTypes
<1>10. CASE Expire \/ ResultTake \/ Report \/ UNCHANGED vars
  BY <1>1, <1>10 DEF Expire, ResultTake, Report, vars, SendTypes
<1> QED
  BY <1>3, <1>4, <1>5, <1>6, <1>7, <1>8, <1>9, <1>10 DEF Next

-----------------------------------------------------------------------------
(* What is counted.                                                        *)

WaitingSet(s, d, k) == {i \in 1 .. Len(s) : s[i].dst = d /\ s[i].kind = k}
Waiting(s, d, k) == Cardinality(WaitingSet(s, d, k))
EndedSet(d, k) == {id \in DOMAIN dst : dst[id] = d /\ verdict[id] = k}
One(r, d, k) == IF r.dst = d /\ r.kind = k THEN 1 ELSE 0

LEMMA WaitingFinite ==
    ASSUME NEW s \in Seq(Result), NEW d, NEW k
    PROVE  IsFiniteSet(WaitingSet(s, d, k)) /\ Waiting(s, d, k) \in Nat
<1>1. IsFiniteSet(1 .. Len(s))
  BY LenProperties, FS_Interval
<1>2. IsFiniteSet(WaitingSet(s, d, k))
  BY <1>1, FS_Subset DEF WaitingSet
<1> QED
  BY <1>2, FS_CardinalityType DEF Waiting

LEMMA WaitingAppend ==
    ASSUME NEW s \in Seq(Result), NEW r \in Result, NEW d, NEW k
    PROVE  Waiting(Append(s, r), d, k) = Waiting(s, d, k) + One(r, d, k)
<1> DEFINE t == Append(s, r)
<1>1. /\ t \in Seq(Result) /\ Len(t) = Len(s) + 1 /\ Len(s) \in Nat
      /\ t[Len(s) + 1] = r /\ \A i \in 1 .. Len(s) : t[i] = s[i]
  BY AppendProperties, LenProperties
<1> HIDE DEF t
<1>2. IsFiniteSet(WaitingSet(s, d, k)) /\ Waiting(s, d, k) \in Nat
  BY WaitingFinite
<1>3. CASE r.dst = d /\ r.kind = k
  <2>1. WaitingSet(t, d, k) = WaitingSet(s, d, k) \cup {Len(s) + 1}
    BY <1>1, <1>3 DEF WaitingSet
  <2>2. Len(s) + 1 \notin WaitingSet(s, d, k)
    BY <1>1 DEF WaitingSet
  <2>3. Cardinality(WaitingSet(t, d, k)) = Cardinality(WaitingSet(s, d, k)) + 1
    BY <1>2, <2>1, <2>2, FS_AddElement
  <2> QED
    BY <1>3, <2>3 DEF Waiting, One, t
<1>4. CASE ~(r.dst = d /\ r.kind = k)
  <2>1. WaitingSet(t, d, k) = WaitingSet(s, d, k)
    BY <1>1, <1>4 DEF WaitingSet
  <2> QED
    BY <1>2, <1>4, <2>1 DEF Waiting, One, t
<1> QED
  BY <1>3, <1>4

LEMMA WaitingTail ==
    ASSUME NEW s \in Seq(Result), s # <<>>, NEW d, NEW k
    PROVE  Waiting(s, d, k) = Waiting(Tail(s), d, k) + One(Head(s), d, k)
<1> DEFINE t == Tail(s)
<1> DEFINE A == WaitingSet(t, d, k)
<1> DEFINE B == WaitingSet(s, d, k) \ {1}
<1>1. /\ t \in Seq(Result) /\ Len(t) = Len(s) - 1 /\ Len(s) \in Nat \ {0}
      /\ Head(s) = s[1] /\ \A i \in 1 .. Len(t) : t[i] = s[i + 1]
  BY HeadTailProperties, EmptySeq, LenProperties
<1> HIDE DEF t
<1>2. IsFiniteSet(A) /\ Waiting(t, d, k) \in Nat
  BY <1>1, WaitingFinite
<1>3. IsFiniteSet(WaitingSet(s, d, k)) /\ Waiting(s, d, k) \in Nat
  BY WaitingFinite
<1>4. Cardinality(B) = Cardinality(A)
  <2> DEFINE f == [i \in A |-> i + 1]
  <2>1. \A i \in A : i \in Int /\ i + 1 \in B
    BY <1>1 DEF WaitingSet
  <2>2. \A j \in B : j \in Int /\ j - 1 \in A
    <3> SUFFICES ASSUME NEW j \in B PROVE j \in Int /\ j - 1 \in A
      OBVIOUS
    <3>1. j \in 1 .. Len(s) /\ j # 1 /\ s[j].dst = d /\ s[j].kind = k
      BY DEF WaitingSet
    <3>2. j - 1 \in 1 .. Len(t) /\ (j - 1) + 1 = j
      BY <1>1, <3>1
    <3>3. t[j - 1] = s[j]
      BY <1>1, <3>2
    <3> QED
      BY <3>1, <3>2, <3>3 DEF WaitingSet
  <2> HIDE DEF A, B
  <2>3. f \in Bijection(A, B)
    <3>1. f \in [A -> B]
      BY <2>1
    <3>2. \A i, j \in A : f[i] = f[j] => i = j
      BY <2>1
    <3>3. \A j \in B : \E i \in A : f[i] = j
      <4> SUFFICES ASSUME NEW j \in B PROVE \E i \in A : f[i] = j
        OBVIOUS
      <4>1. j - 1 \in A /\ f[j - 1] = j
        BY <2>2
      <4> QED
        BY <4>1
    <3> QED
      BY <3>1, <3>2, <3>3 DEF Bijection, Injection, Surjection, IsInjective
  <2>4. ExistsBijection(A, B)
    BY <2>3 DEF ExistsBijection
  <2> QED
    BY <1>2, <2>4, FS_Bijection
<1>5. 1 \in 1 .. Len(s)
  BY <1>1
<1>6. CASE s[1].dst = d /\ s[1].kind = k
  <2>1. 1 \in WaitingSet(s, d, k)
    BY <1>5, <1>6 DEF WaitingSet
  <2>2. Cardinality(B) = Waiting(s, d, k) - 1
    BY <1>3, <2>1, FS_RemoveElement DEF Waiting
  <2> HIDE DEF A, B
  <2>3. Cardinality(A) = Waiting(t, d, k)
    BY DEF A, Waiting
  <2>4. One(Head(s), d, k) = 1
    BY <1>1, <1>6 DEF One
  <2>5. Waiting(s, d, k) = Waiting(t, d, k) + 1
    <3>1. PICK a \in Nat : a = Waiting(s, d, k)
      BY <1>3
    <3>2. PICK b \in Nat : b = Waiting(t, d, k)
      BY <1>2
    <3>3. b = a - 1
      BY <1>4, <2>2, <2>3, <3>1, <3>2
    <3>4. a = b + 1
      BY <3>3
    <3> QED
      BY <3>1, <3>2, <3>4
  <2> QED
    BY <2>4, <2>5 DEF t
<1>7. CASE ~(s[1].dst = d /\ s[1].kind = k)
  <2>1. B = WaitingSet(s, d, k)
    BY <1>7 DEF WaitingSet
  <2> HIDE DEF A, B
  <2>2. Cardinality(A) = Waiting(t, d, k) /\ Cardinality(B) = Waiting(s, d, k)
    BY <2>1 DEF A, Waiting
  <2>3. One(Head(s), d, k) = 0
    BY <1>1, <1>7 DEF One
  <2>4. Waiting(s, d, k) = Waiting(t, d, k) + 0
    BY <1>2, <1>4, <2>2
  <2> QED
    BY <2>3, <2>4 DEF t
<1> QED
  BY <1>6, <1>7

LEMMA EndedFinite ==
    ASSUME TypeOK, NEW d, NEW k
    PROVE  IsFiniteSet(EndedSet(d, k)) /\ Cardinality(EndedSet(d, k)) \in Nat
<1>1. IsFiniteSet(DOMAIN dst)
  BY FS_Interval, TcpUdpAssumption DEF TypeOK
<1>2. IsFiniteSet(EndedSet(d, k))
  BY <1>1, FS_Subset DEF EndedSet
<1> QED
  BY <1>2, FS_CardinalityType

\* A ping that ends goes to the queue with its destination, or is lost there.
LEMMA EndsCounted ==
    ASSUME TypeOK, EntryInv, NEW id \in Ids, NEW kind \in Counted, NEW delay \in 0 .. Mask,
           Ends(id, kind, delay), NEW d \in Dsts, NEW k \in Counted
    PROVE  \E n \in {0, 1} :
              /\ Waiting(queue', d, k) = Waiting(queue, d, k) + n
              /\ Cardinality(EndedSet(d, k)') = Cardinality(EndedSet(d, k)) + n
<1> DEFINE r == [id |-> id, dst |-> map[id].dst, sent |-> map[id].ts,
                 delay |-> delay, kind |-> kind]
<1>1. /\ id \in DOMAIN map /\ Enqueue(id, kind, delay) /\ dst' = dst
      /\ queue \in Seq(Result) /\ verdict \in [Ids -> Counted \cup {"none", "full"}]
  BY DEF Ends, TypeOK
<1>2. id \in DOMAIN dst /\ map[id].dst = dst[id] /\ verdict[id] = "none"
  BY <1>1 DEF EntryInv
<1>3. r \in Result /\ r.dst = map[id].dst /\ r.kind = kind
  BY <1>1 DEF TypeOK, Entry, Result
<1>4. IsFiniteSet(EndedSet(d, k)) /\ Cardinality(EndedSet(d, k)) \in Nat
  BY EndedFinite
<1>5. Waiting(queue, d, k) \in Nat
  BY <1>1, WaitingFinite
<1>6. id \notin EndedSet(d, k)
  BY <1>2 DEF EndedSet, Counted
<1>7. EndedSet(d, k)' = {i \in DOMAIN dst : dst[i] = d /\ verdict'[i] = k}
  BY <1>1 DEF EndedSet
<1>8. CASE Len(queue) < QueueSize
  <2>1. queue' = Append(queue, r) /\ verdict' = [verdict EXCEPT ![id] = kind]
    BY <1>1, <1>8 DEF Enqueue
  <2> HIDE DEF r
  <2>2. Waiting(queue', d, k) = Waiting(queue, d, k) + One(r, d, k)
    BY <1>1, <1>3, <2>1, WaitingAppend
  <2>3. CASE dst[id] = d /\ kind = k
    <3>1. One(r, d, k) = 1
      BY <1>2, <1>3, <2>3 DEF One
    <3>2. EndedSet(d, k)' = EndedSet(d, k) \cup {id}
      BY <1>1, <1>2, <1>7, <2>1, <2>3, ClockNat DEF EndedSet, TypeOK
    <3>3. Cardinality(EndedSet(d, k)') = Cardinality(EndedSet(d, k)) + 1
      BY <1>4, <1>6, <3>2, FS_AddElement
    <3> QED
      BY <2>2, <3>1, <3>3
  <2>4. CASE ~(dst[id] = d /\ kind = k)
    <3>1. One(r, d, k) = 0
      BY <1>2, <1>3, <2>4 DEF One
    <3>2. EndedSet(d, k)' = EndedSet(d, k)
      BY <1>1, <1>2, <1>6, <1>7, <2>1, <2>4 DEF EndedSet, Counted
    <3> QED
      BY <1>4, <2>2, <3>1, <3>2
  <2> QED
    BY <2>3, <2>4
<1>9. CASE ~(Len(queue) < QueueSize)
  <2>1. queue' = queue /\ verdict' = [verdict EXCEPT ![id] = "full"]
    BY <1>1, <1>9 DEF Enqueue
  <2>2. EndedSet(d, k)' = EndedSet(d, k)
    BY <1>1, <1>2, <1>6, <1>7, <2>1 DEF EndedSet, Counted
  <2> QED
    BY <1>4, <1>5, <2>1, <2>2
<1> QED
  BY <1>8, <1>9

\* The result thread alone writes the counters, the tx thread alone makes pings.
LEMMA CountersMove ==
    ASSUME [Next]_vars
    PROVE  Report \/ ResultTake \/ TxNext \/ UNCHANGED <<window, reported, dst>>
BY DEF Next, Report, ResultTake, TxNext, Expire, InsertBegin, InsertEnd, MakeCtxFail, Send, SendFail,
       UdpReceive, TcpConnected, ServerAnswer, Tick, vars, table, sending, net, report

LEMMA CountTypesStep ==
    ASSUME TypeOK, [Next]_vars
    PROVE  CountTypes'
<1>1. window \in Counts /\ reported \in Counts
  BY DEF TypeOK
<1>2. CASE Report
  <2>1. Plus(reported, window) \in Counts
    BY <1>1 DEF Plus, Counts
  <2>2. NoCounts \in Counts
    BY DEF NoCounts, Counts
  <2> QED
    BY <1>2, <2>1, <2>2 DEF Report, CountTypes
<1>3. CASE ResultTake
  <2>1. PICK r \in Result : r = Head(queue)
    BY <1>3, HeadTailProperties DEF ResultTake, TypeOK
  <2>2. r.dst \in Dsts /\ r.kind \in Counted
    BY <2>1 DEF Result
  <2>3. window' = [window EXCEPT ![r.dst][r.kind] = @ + 1] /\ reported' = reported
    BY <1>3, <2>1 DEF ResultTake
  <2> QED
    BY <1>1, <2>2, <2>3 DEF CountTypes, Counts
<1>4. CASE TxNext \/ UNCHANGED <<window, reported, dst>>
  BY <1>1, <1>4 DEF TxNext, CountTypes, report
<1> QED
  BY <1>2, <1>3, <1>4, CountersMove

LEMMA CountsStep ==
    ASSUME TypeOK, ListMatchesMap, EntryInv, StageInv, CountsAreTrue, [Next]_vars
    PROVE  CountsAreTrue'
<1> SUFFICES ASSUME NEW d \in Dsts, NEW k \in Counted
             PROVE  reported'[d][k] + window'[d][k] + Waiting(queue', d, k)
                        = Cardinality(EndedSet(d, k)')
  BY DEF CountsAreTrue, Waiting, WaitingSet, EndedSet
<1>1. window \in Counts /\ reported \in Counts /\ queue \in Seq(Result)
  BY DEF TypeOK
<1>2. PICK a \in Nat : a = reported[d][k]
  BY <1>1 DEF Counts
<1>3. PICK b \in Nat : b = window[d][k]
  BY <1>1 DEF Counts
<1>4. PICK c \in Nat : c = Waiting(queue, d, k)
  BY <1>1, WaitingFinite
<1>5. PICK e \in Nat : e = Cardinality(EndedSet(d, k))
  BY EndedFinite
<1>6. a + b + c = e
  BY <1>2, <1>3, <1>4, <1>5 DEF CountsAreTrue, Waiting, WaitingSet, EndedSet
<1>7. ASSUME NEW id \in Ids, NEW kind \in Counted, NEW delay \in 0 .. Mask, Ends(id, kind, delay)
      PROVE  reported'[d][k] + window'[d][k] + Waiting(queue', d, k)
                 = Cardinality(EndedSet(d, k)')
  <2>1. PICK n \in {0, 1} : /\ Waiting(queue', d, k) = c + n
                            /\ Cardinality(EndedSet(d, k)') = e + n
    BY <1>4, <1>5, <1>7, EndsCounted
  <2>2. reported'[d][k] = a /\ window'[d][k] = b
    BY <1>2, <1>3, <1>7 DEF Ends
  <2>3. a + b + (c + n) = e + n
    BY <1>6
  <2> QED
    BY <2>1, <2>2, <2>3
<1>8. CASE ResultTake
  <2>1. PICK r \in Result : r = Head(queue)
    BY <1>8, HeadTailProperties DEF ResultTake, TypeOK
  <2>2. r.dst \in Dsts /\ r.kind \in Counted
    BY <2>1 DEF Result
  <2>3. window' = [window EXCEPT ![r.dst][r.kind] = @ + 1] /\ reported' = reported
        /\ queue # <<>> /\ queue' = Tail(queue) /\ dst' = dst /\ verdict' = verdict
    BY <1>8, <2>1 DEF ResultTake, sending
  <2>4. EndedSet(d, k)' = EndedSet(d, k)
    BY <2>3 DEF EndedSet
  <2>5. PICK n \in {0, 1} : n = One(r, d, k)
    BY DEF One
  <2>6. window'[d][k] = b + n
    BY <1>1, <1>3, <2>2, <2>3, <2>5 DEF Counts, One
  <2>7. c = Waiting(queue', d, k) + n
    BY <1>1, <1>4, <2>1, <2>3, <2>5, WaitingTail
  <2>8. PICK c2 \in Nat : c2 = Waiting(queue', d, k)
    <3>1. queue' \in Seq(Result)
      BY <1>1, <2>3, HeadTailProperties
    <3> QED
      BY <3>1, WaitingFinite
  <2>9. a + (b + n) + c2 = e
    BY <1>6, <2>7, <2>8
  <2> QED
    BY <1>2, <1>5, <2>3, <2>4, <2>6, <2>8, <2>9
<1>9. CASE UNCHANGED <<queue, verdict>>
  <2>1. CASE Report
    <3>1. reported'[d][k] = a + b /\ window'[d][k] = 0
      BY <1>2, <1>3, <2>1 DEF Report, Plus, NoCounts
    <3>2. EndedSet(d, k)' = EndedSet(d, k)
      BY <1>9, <2>1 DEF Report, EndedSet, sending
    <3>3. (a + b) + 0 + c = e
      BY <1>6
    <3> QED
      BY <1>4, <1>5, <1>9, <3>1, <3>2, <3>3
  <2>2. CASE TxNext
    <3>1. PICK x \in Dsts : dst' = [i \in DOMAIN dst \cup {uid} |-> IF i = uid THEN x ELSE dst[i]]
      BY <2>2 DEF TxNext
    <3>2. uid \in Ids /\ uid \in Nat /\ DOMAIN dst = 0 .. uid - 1
      BY <2>2, TcpUdpAssumption DEF TxNext, TypeOK, Ids
    <3>3. stage[uid] = "none" /\ uid \notin DOMAIN dst
      BY <3>2 DEF StageInv
    <3>4. verdict[uid] = "none"
      BY <3>2, <3>3 DEF StageInv, Known
    <3>5. EndedSet(d, k)' = EndedSet(d, k)
      BY <1>9, <3>1, <3>3, <3>4 DEF EndedSet, Counted
    <3>6. window' = window /\ reported' = reported
      BY <2>2 DEF TxNext, report
    <3> QED
      BY <1>2, <1>3, <1>4, <1>5, <1>6, <1>9, <3>5, <3>6
  <2>3. CASE UNCHANGED <<window, reported, dst>>
    <3>1. EndedSet(d, k)' = EndedSet(d, k)
      BY <1>9, <2>3 DEF EndedSet
    <3> QED
      BY <1>2, <1>3, <1>4, <1>5, <1>6, <1>9, <2>3, <3>1
  <2> QED
    BY <1>8, <2>1, <2>2, <2>3, CountersMove
<1>10. "success" \in Counted /\ "failure" \in Counted /\ 0 \in 0 .. Mask
  BY TcpUdpAssumption DEF Counted
<1>11. CASE Waits
  BY <1>8, <1>9, <1>11 DEF Waits
<1>12. ASSUME NEW id \in Ids, Begins(id)
       PROVE  UNCHANGED <<queue, verdict>>
  BY <1>12 DEF Begins
<1> QED
  BY <1>7, <1>9, <1>10, <1>11, <1>12, StepMoves DEF Moves

-----------------------------------------------------------------------------
(* The threads and the network.                                            *)

\* Clocks go on, a ping keeps its destination, an answered ping stays answered.
Steady ==
    /\ now <= now' /\ answered \subseteq answered'
    /\ \A i \in DOMAIN dst : i \in DOMAIN dst' /\ dst'[i] = dst[i]

LEMMA SteadyStep ==
    ASSUME TypeOK, [Next]_vars
    PROVE  Steady
<1> USE DEF table, sending, net, report
<1>1. now \in Nat /\ uid \notin DOMAIN dst
  BY ClockNat DEF TypeOK
<1>2. CASE TxNext
  BY <1>1, <1>2 DEF TxNext, Steady
<1>3. CASE Tick
  BY <1>1, <1>3 DEF Tick, Steady
<1>4. CASE ServerAnswer
  BY <1>1, <1>4 DEF ServerAnswer, Steady
<1>5. CASE UNCHANGED <<now, answered, dst>>
  BY <1>1, <1>5 DEF Steady
<1> QED
  BY <1>2, <1>3, <1>4, <1>5 DEF Next, Report, ResultTake, Expire, InsertBegin, InsertEnd, MakeCtxFail,
     Send, SendFail, UdpReceive, TcpConnected, vars

\* A ping becomes known when its thread inserts it.
LEMMA KnownMoves ==
    ASSUME TypeOK, ListMatchesMap, EntryInv, StageInv, [Next]_vars, NEW i \in Ids
    PROVE  /\ Known(i)' <=> Known(i) \/ Begins(i)
           /\ i \in DOMAIN map' /\ ~Begins(i) => i \in DOMAIN map /\ map'[i] = map[i]
           /\ i \in DOMAIN map' => verdict'[i] = verdict[i]
<1>1. CASE Waits
  <2>1. UNCHANGED <<map, verdict>>
    BY <1>1 DEF Waits
  <2>2. Begins(i) => FALSE
    BY <2>1 DEF Begins
  <2> QED
    BY <2>1, <2>2 DEF Known
<1>2. ASSUME NEW id \in Ids, Begins(id)
      PROVE  /\ Known(i)' <=> Known(i) \/ Begins(i)
             /\ i \in DOMAIN map' /\ ~Begins(i) => i \in DOMAIN map /\ map'[i] = map[i]
             /\ i \in DOMAIN map' => verdict'[i] = verdict[i]
  <2>1. /\ DOMAIN map' = DOMAIN map \cup {id} /\ verdict' = verdict /\ id \notin DOMAIN map
        /\ \A x \in DOMAIN map : map'[x] = map[x]
    BY <1>2 DEF Begins
  <2>2. CASE i = id
    BY <1>2, <2>1, <2>2 DEF Known
  <2>3. CASE i # id
    <3>1. Begins(i) => i \in DOMAIN map' /\ i \notin DOMAIN map
      BY DEF Begins
    <3> QED
      BY <2>1, <2>3, <3>1 DEF Known
  <2> QED
    BY <2>2, <2>3
<1>3. ASSUME NEW id \in Ids, NEW kind \in Counted, NEW delay, Ends(id, kind, delay)
      PROVE  /\ Known(i)' <=> Known(i) \/ Begins(i)
             /\ i \in DOMAIN map' /\ ~Begins(i) => i \in DOMAIN map /\ map'[i] = map[i]
             /\ i \in DOMAIN map' => verdict'[i] = verdict[i]
  <2>1. /\ DOMAIN map' = DOMAIN map \ {id} /\ \A x \in DOMAIN map' : map'[x] = map[x]
        /\ id \in DOMAIN map
    BY <1>3 DEF Ends, Without, Restrict
  <2>2. PICK v \in Counted \cup {"full"} : verdict' = [verdict EXCEPT ![id] = v]
    BY <1>3 DEF Ends, Enqueue
  <2>3. verdict'[id] # "none" /\ \A x \in Ids : x # id => verdict'[x] = verdict[x]
    BY <2>2 DEF TypeOK, Counted
  <2>4. ~Begins(i)
    BY <2>1 DEF Begins
  <2> QED
    BY <2>1, <2>3, <2>4 DEF Known
<1>4. "success" \in Counted /\ "failure" \in Counted
  BY DEF Counted
<1> QED
  BY <1>1, <1>2, <1>3, <1>4, StepMoves DEF Moves

\* The sending of a ping goes its way, in the thread that made it.
StageMoves(i) ==
    \/ stage'[i] = stage[i] /\ (uid' = uid \/ (uid' = uid + 1 /\ i # uid))
    \/ i = uid /\ uid' = uid + 1 /\ stage'[i] = "made"
    \/ uid' = uid /\ stage[i] = "made" /\ stage'[i] \in {"insert", "done"}
    \/ uid' = uid /\ stage[i] \in {"send", "connect"} /\ stage'[i] \in {"connect", "done"}
    \/ uid' = uid /\ stage[i] = "insert" /\ stage'[i] = "send" /\ InsertEnd(i)

LEMMA StagesMove ==
    ASSUME TypeOK, [Next]_vars, NEW i \in Ids
    PROVE  StageMoves(i)
<1> USE DEF table, sending, net, report
<1>1. stage \in [Ids -> {"none", "made", "insert", "send", "connect", "done"}]
  BY DEF TypeOK
<1>2. CASE TxNext
  BY <1>1, <1>2 DEF TxNext, StageMoves
<1>3. ASSUME NEW id \in Ids, InsertBegin(id) \/ MakeCtxFail(id) PROVE StageMoves(i)
  BY <1>1, <1>3 DEF InsertBegin, MakeCtxFail, StageMoves
<1>4. ASSUME NEW id \in Ids, Send(id) \/ SendFail(id) PROVE StageMoves(i)
  BY <1>1, <1>4 DEF Send, SendFail, StageMoves
<1>5. ASSUME NEW id \in Ids, InsertEnd(id) PROVE StageMoves(i)
  <2>1. uid' = uid /\ stage[id] = "insert" /\ stage' = [stage EXCEPT ![id] = "send"]
    BY <1>5 DEF InsertEnd
  <2>2. CASE i = id
    BY <1>1, <1>5, <2>1, <2>2 DEF StageMoves
  <2>3. CASE i # id
    BY <1>1, <2>1, <2>3 DEF StageMoves
  <2> QED
    BY <2>2, <2>3
<1>6. CASE TcpConnected
  <2>1. PICK m \in wire : stage[m.id] = "connect" /\ stage' = [stage EXCEPT ![m.id] = "done"]
    BY <1>6 DEF TcpConnected
  <2>2. uid' = uid
    BY <1>6 DEF TcpConnected
  <2> QED
    BY <1>1, <2>1, <2>2 DEF StageMoves
<1>7. CASE UNCHANGED <<stage, uid>>
  BY <1>7 DEF StageMoves
<1> QED
  BY <1>2, <1>3, <1>4, <1>5, <1>6, <1>7 DEF Next, Report, ResultTake, Expire, UdpReceive,
     ServerAnswer, Tick, vars

LEMMA EntryStep ==
    ASSUME TypeOK, ListMatchesMap, EntryInv, StageInv, [Next]_vars
    PROVE  EntryInv'
<1>1. SUFFICES ASSUME NEW i \in DOMAIN map'
               PROVE  /\ i \in DOMAIN dst' /\ map'[i].dst = dst'[i]
                      /\ map'[i].ts <= now' /\ map'[i].network_delay = Nanos(map'[i].ts)
                      /\ verdict'[i] = "none"
  BY DEF EntryInv, Nanos
<1>2. i \in Ids /\ i \in Nat
  BY TableStep, ClockNat DEF TableTypes
<1>3. Steady /\ now \in Nat /\ now' \in Nat
  BY SteadyStep, SendTypesStep, ClockNat DEF SendTypes, TypeOK
<1>4. verdict'[i] = verdict[i]
  BY <1>2, KnownMoves
<1>5. CASE Begins(i)
  <2>1. map'[i] = NewEntry(i) /\ stage[i] = "insert" /\ now' = now /\ dst' = dst
    BY <1>5 DEF Begins
  <2>2. ~Known(i) /\ ~(i >= uid)
    BY <1>2, <2>1 DEF StageInv
  <2>3. i \in DOMAIN dst
    BY <1>2, <2>2 DEF TypeOK
  <2> QED
    BY <1>2, <1>3, <1>4, <2>1, <2>2, <2>3 DEF NewEntry, Known
<1>6. CASE ~Begins(i)
  <2>1. i \in DOMAIN map /\ map'[i] = map[i]
    BY <1>2, <1>6, KnownMoves
  <2>2. map[i].ts \in Nat
    BY <2>1, ClockNat DEF TypeOK, Entry
  <2> QED
    BY <1>3, <1>4, <2>1, <2>2 DEF EntryInv, Steady
<1> QED
  BY <1>5, <1>6

LEMMA StageStep ==
    ASSUME TypeOK, ListMatchesMap, EntryInv, StageInv, [Next]_vars
    PROVE  StageInv'
<1>1. SUFFICES ASSUME NEW i \in Ids
               PROVE  /\ stage'[i] = "none" <=> i >= uid'
                      /\ stage'[i] \in {"none", "made", "insert"} => ~Known(i)'
                      /\ stage'[i] \in {"send", "connect"} => Known(i)'
  BY DEF StageInv, Known
<1>2. i \in Nat /\ uid \in Nat
  BY ClockNat DEF TypeOK
<1>3. /\ stage[i] = "none" <=> i >= uid
      /\ stage[i] \in {"none", "made", "insert"} => ~Known(i)
      /\ stage[i] \in {"send", "connect"} => Known(i)
  BY DEF StageInv
<1>4. Known(i)' <=> Known(i) \/ Begins(i)
  BY KnownMoves
<1>5. StageMoves(i)
  BY StagesMove
<1>6. ASSUME Begins(i) PROVE stage[i] = "insert" /\ stage'[i] = "send" /\ uid' = uid
  BY <1>6 DEF Begins, TypeOK
<1>7. ASSUME InsertEnd(i) PROVE Begins(i)
  BY <1>3, <1>7 DEF InsertEnd, Begins, Known, net, report
<1>8. stage'[i] = "none" <=> i >= uid'
  BY <1>2, <1>3, <1>5 DEF StageMoves
<1>9. stage'[i] \in {"none", "made", "insert"} => ~Known(i)'
  BY <1>2, <1>3, <1>4, <1>5, <1>6 DEF StageMoves
<1>10. stage'[i] \in {"send", "connect"} => Known(i)'
  BY <1>3, <1>4, <1>5, <1>7 DEF StageMoves
<1> QED
  BY <1>8, <1>9, <1>10

\* A message is under way already, was sent now by its thread, or answers one.
LEMMA WireMoves ==
    ASSUME TypeOK, [Next]_vars, NEW m \in wire'
    PROVE  \/ m \in wire
           \/ m.id \in Ids /\ stage[m.id] = "send" /\ m.at = now /\ m.kind = "ping" /\ now' = now
           \/ \E o \in wire : m.id = o.id /\ m.at = now /\ m.id \in answered' /\ now' = now
<1> USE DEF table, sending, net, report
<1>1. ASSUME NEW id \in Ids, Send(id), m \notin wire
      PROVE  m.id \in Ids /\ stage[m.id] = "send" /\ m.at = now /\ m.kind = "ping" /\ now' = now
  <2>1. m = [kind |-> "ping", id |-> id, at |-> now]
    BY <1>1 DEF Send
  <2> QED
    BY <1>1, <2>1 DEF Send
<1>2. ASSUME ServerAnswer, m \notin wire
      PROVE  \E o \in wire : m.id = o.id /\ m.at = now /\ m.id \in answered' /\ now' = now
  <2>1. PICK o \in wire : /\ wire' = (wire \ {o}) \cup {[o EXCEPT !.kind = "pong", !.at = now]}
                          /\ answered' = answered \cup {o.id}
    BY <1>2 DEF ServerAnswer
  <2>2. m = [o EXCEPT !.kind = "pong", !.at = now] /\ o \in Message
    BY <1>2, <2>1 DEF TypeOK
  <2>3. m.id = o.id /\ m.at = now
    BY <2>2 DEF Message
  <2> QED
    BY <1>2, <2>1, <2>3 DEF ServerAnswer
<1>3. CASE wire' \subseteq wire
  BY <1>3
<1>4. ASSUME NEW again \in BOOLEAN, UdpReceive(again) PROVE wire' \subseteq wire
  BY <1>4 DEF UdpReceive
<1>5. ASSUME TcpConnected PROVE wire' \subseteq wire
  BY <1>5 DEF TcpConnected
<1>6. ASSUME NEW id \in Ids, InsertBegin(id) \/ InsertEnd(id) \/ MakeCtxFail(id) \/ SendFail(id)
      PROVE  wire' \subseteq wire
  BY <1>6 DEF InsertBegin, InsertEnd, MakeCtxFail, SendFail
<1>7. ASSUME TxNext \/ Expire \/ ResultTake \/ Report \/ Tick \/ UNCHANGED vars
      PROVE  wire' \subseteq wire
  BY <1>7 DEF TxNext, Expire, ResultTake, Report, Tick, vars
<1> QED
  BY <1>1, <1>2, <1>3, <1>4, <1>5, <1>6, <1>7 DEF Next

LEMMA WireStep ==
    ASSUME TypeOK, ListMatchesMap, EntryInv, StageInv, WireInv, [Next]_vars
    PROVE  WireInv'
<1>1. SUFFICES ASSUME NEW m \in wire'
               PROVE  /\ Known(m.id)' /\ m.at <= now'
                      /\ m.id \in DOMAIN map' => map'[m.id].ts <= m.at
                      /\ m.kind = "pong" => m.id \in answered'
  BY DEF WireInv, Known
<1>2. m \in Message /\ now \in Nat /\ now' \in Nat /\ Steady
  BY SendTypesStep, SteadyStep, ClockNat DEF SendTypes, TypeOK
<1>3. m.id \in Ids /\ m.at \in Nat
  BY <1>2, ClockNat DEF Message
<1>4. ASSUME NEW i \in Ids, Known(i)
      PROVE  Known(i)' /\ (i \in DOMAIN map' => i \in DOMAIN map /\ map'[i] = map[i])
  <2>1. ~Begins(i)
    BY <1>4 DEF Begins, StageInv
  <2> QED
    BY <1>4, <2>1, KnownMoves
<1>5. \A i \in DOMAIN map : map[i].ts <= now
  BY DEF EntryInv
<1>6. CASE m \in wire
  BY <1>2, <1>3, <1>4, <1>6 DEF WireInv, Steady
<1>7. CASE stage[m.id] = "send" /\ m.at = now /\ m.kind = "ping" /\ now' = now
  BY <1>2, <1>3, <1>4, <1>5, <1>7 DEF StageInv
<1>8. CASE \E o \in wire : m.id = o.id /\ m.at = now /\ m.id \in answered' /\ now' = now
  BY <1>2, <1>3, <1>4, <1>5, <1>8 DEF WireInv
<1> QED
  BY <1>6, <1>7, <1>8, WireMoves

-----------------------------------------------------------------------------
(* The delay.                                                              *)

LEMMA ModRange ==
    ASSUME NEW a \in Int, NEW m \in Nat \ {0}
    PROVE  /\ a % m \in 0 .. m - 1 /\ a \div m \in Int
           /\ a = m * (a \div m) + (a % m)
OBVIOUS

LEMMA QuotientOrder ==
    ASSUME NEW n \in Nat \ {0}, NEW p \in Int, NEW q \in Int, NEW r \in 0 .. n - 1,
           NEW s \in 0 .. n - 1, n * p + r <= n * q + s
    PROVE  /\ s - r <= (n * q + s) - (n * p + r)
           /\ s < r => n - r + s <= (n * q + s) - (n * p + r)
<1>1. p <= q
  <2>1. ASSUME p > q PROVE FALSE
    <3>1. n * p >= n * q + n
      BY <2>1
    <3> QED
      BY <3>1
  <2> QED
    BY <2>1
<1>2. n * p <= n * q
  BY <1>1
<1>3. ASSUME s < r PROVE n * q >= n * p + n
  <2>1. p # q
    BY <1>3
  <2>2. p + 1 <= q
    BY <1>1, <2>1
  <2> QED
    BY <2>2
<1>4. n * p \in Int /\ n * q \in Int
  OBVIOUS
<1> QED
  BY <1>2, <1>3, <1>4

\* The clock may wrap around between two readings: the delay is never too long.
LEMMA DeltaIsNoMore ==
    ASSUME NEW t1 \in Nat, NEW t2 \in Nat, t1 <= t2
    PROVE  calc_time_delta_with_bitwrap(Nanos(t1), Nanos(t2)) <= t2 - t1
<1>1. PICK n \in Nat \ {0} : n = Mask + 1
  BY TcpUdpAssumption
<1>2. PICK p \in Int : p = t1 \div n
  BY <1>1
<1>3. PICK q \in Int : q = t2 \div n
  BY <1>1
<1>4. PICK r \in 0 .. n - 1 : r = t1 % n
  BY <1>1
<1>5. PICK s \in 0 .. n - 1 : s = t2 % n
  BY <1>1
<1>6. t1 = n * p + r /\ t2 = n * q + s
  BY <1>2, <1>3, <1>4, <1>5, ModRange
<1>7. s - r <= t2 - t1 /\ (s < r => n - r + s <= t2 - t1)
  BY <1>6, QuotientOrder
<1>8. calc_time_delta_with_bitwrap(r, s) = IF s >= r THEN s - r ELSE (Mask - r + 1) + s
  BY DEF calc_time_delta_with_bitwrap
<1>9. Mask \in Nat
  BY TcpUdpAssumption
<1>10. calc_time_delta_with_bitwrap(r, s) <= t2 - t1
  BY <1>1, <1>7, <1>8, <1>9
<1> QED
  BY <1>1, <1>4, <1>5, <1>10 DEF Nanos

\* What stands in the queue was there before or was put there now.
LEMMA QueueMoves ==
    ASSUME TypeOK, ListMatchesMap, EntryInv, StageInv, [Next]_vars, NEW k \in 1 .. Len(queue')
    PROVE  \/ \E j \in 1 .. Len(queue) : queue'[k] = queue[j]
           \/ queue'[k].kind = "failure"
           \/ \E id \in DOMAIN map : Answers(id, queue'[k].delay) /\ queue'[k].sent = map[id].ts
<1>1. queue \in Seq(Result) /\ Len(queue) \in Nat
  BY LenProperties DEF TypeOK
<1>2. CASE Waits
  <2>1. CASE UNCHANGED queue
    BY <2>1
  <2>2. CASE ResultTake
    <3>1. queue # <<>> /\ queue' = Tail(queue)
      BY <2>2 DEF ResultTake
    <3>2. Len(queue') = Len(queue) - 1 /\ \A i \in 1 .. Len(queue') : queue'[i] = queue[i + 1]
      BY <1>1, <3>1, HeadTailProperties
    <3>3. k + 1 \in 1 .. Len(queue)
      BY <1>1, <3>2
    <3> QED
      BY <3>2, <3>3
  <2> QED
    BY <1>2, <2>1, <2>2 DEF Waits
<1>3. ASSUME NEW id \in Ids, Begins(id) PROVE \E j \in 1 .. Len(queue) : queue'[k] = queue[j]
  BY <1>3 DEF Begins
<1>4. ASSUME NEW id \in Ids, NEW kind, NEW delay, Ends(id, kind, delay)
      PROVE  \/ \E j \in 1 .. Len(queue) : queue'[k] = queue[j]
             \/ queue'[k].kind = kind /\ queue'[k].delay = delay /\ queue'[k].sent = map[id].ts
  <2> DEFINE r == [id |-> id, dst |-> map[id].dst, sent |-> map[id].ts,
                   delay |-> delay, kind |-> kind]
  <2>1. queue' = queue \/ queue' = Append(queue, r)
    BY <1>4 DEF Ends, Enqueue
  <2>2. r.kind = kind /\ r.delay = delay /\ r.sent = map[id].ts
    OBVIOUS
  <2> HIDE DEF r
  <2>3. CASE queue' = queue
    BY <2>3
  <2>4. CASE queue' = Append(queue, r)
    <3>1. /\ Len(queue') = Len(queue) + 1 /\ queue'[Len(queue) + 1] = r
          /\ \A i \in 1 .. Len(queue) : queue'[i] = queue[i]
      <4>1. queue \in Seq(Result \cup {r})
        BY <1>1, SeqMonotonic
      <4> QED
        BY <2>4, <4>1, AppendProperties
    <3>2. CASE k = Len(queue) + 1
      BY <2>2, <3>1, <3>2
    <3>3. CASE k # Len(queue) + 1
      <4>1. k \in 1 .. Len(queue)
        BY <1>1, <3>1, <3>3
      <4> QED
        BY <3>1, <4>1
    <3> QED
      BY <3>2, <3>3
  <2> QED
    BY <2>1, <2>3, <2>4
<1>5. ASSUME NEW id \in Ids, NEW kind, NEW delay, Ends(id, kind, delay) PROVE id \in DOMAIN map
  BY <1>5 DEF Ends
<1> QED
  BY <1>2, <1>3, <1>4, <1>5, StepMoves DEF Moves

LEMMA DelayStep ==
    ASSUME TypeOK, ListMatchesMap, EntryInv, StageInv, WireInv, DelayFits, [Next]_vars
    PROVE  DelayFits'
<1>1. SUFFICES ASSUME NEW k \in 1 .. Len(queue'), queue'[k].kind = "success"
               PROVE  queue'[k].delay <= now' - queue'[k].sent
  BY DEF DelayFits
<1>2. now \in Nat /\ now' \in Nat /\ now <= now' /\ queue \in Seq(Result)
  BY SendTypesStep, SteadyStep, ClockNat DEF SendTypes, TypeOK, Steady
<1>3. ASSUME NEW j \in 1 .. Len(queue), queue'[k] = queue[j]
      PROVE  queue'[k].delay <= now' - queue'[k].sent
  <2>1. queue[j] \in Result
    BY <1>2, ElementOfSeq
  <2>2. queue[j].delay \in Int /\ queue[j].sent \in Nat
    <3>1. PICK x \in 0 .. Mask : x = queue[j].delay
      BY <2>1 DEF Result
    <3>2. queue[j].sent \in Clock
      BY <2>1 DEF Result
    <3>3. x \in Int
      OBVIOUS
    <3> QED
      BY <3>1, <3>2, <3>3, ClockNat
  <2>3. queue[j].delay <= now - queue[j].sent
    BY <1>1, <1>3 DEF DelayFits
  <2> QED
    BY <1>2, <1>3, <2>2, <2>3
<1>4. ASSUME NEW id \in DOMAIN map, Answers(id, queue'[k].delay), queue'[k].sent = map[id].ts
      PROVE  queue'[k].delay <= now' - queue'[k].sent
  <2>1. PICK m \in wire, recv_time \in Clock :
          /\ m.id = id /\ receive_udp_message(m, recv_time)
          /\ queue'[k].delay
                = calc_time_delta_with_bitwrap(map[id].network_delay, Nanos(recv_time))
    BY <1>4 DEF Answers
  <2>2. PICK ts \in Nat : ts = map[id].ts
    BY <1>4, ClockNat DEF TypeOK, Entry
  <2>3. map[id].network_delay = Nanos(ts)
    BY <2>2 DEF EntryInv
  <2>4. ts <= m.at /\ m.at \in Nat
    BY <2>1, <2>2, ClockNat DEF WireInv, TypeOK, Message
  <2>5. recv_time \in Nat /\ ts <= recv_time /\ recv_time <= now
    BY <1>2, <2>1, <2>2, <2>4, ClockNat DEF receive_udp_message
  <2>6. calc_time_delta_with_bitwrap(Nanos(ts), Nanos(recv_time)) <= recv_time - ts
    BY <2>5, DeltaIsNoMore
  <2>7. PICK x \in Int : x = queue'[k].delay
    <3>1. Nanos(ts) \in 0 .. Mask /\ Nanos(recv_time) \in 0 .. Mask
      BY <2>5, NanosFits
    <3>2. calc_time_delta_with_bitwrap(Nanos(ts), Nanos(recv_time)) \in 0 .. Mask
      BY <3>1, DeltaFits
    <3> QED
      BY <2>1, <2>3, <3>2
  <2>8. x <= recv_time - ts
    BY <2>1, <2>3, <2>6, <2>7
  <2>9. x <= now' - ts
    <3>1. PICK v \in Nat : v = now'
      BY <1>2
    <3>2. recv_time <= v
      BY <1>2, <2>5, <3>1
    <3>3. x <= v - ts
      BY <2>5, <2>8, <3>2
    <3> QED
      BY <3>1, <3>3
  <2> QED
    BY <1>4, <2>2, <2>7, <2>9
<1> QED
  BY <1>1, <1>3, <1>4, QueueMoves

-----------------------------------------------------------------------------
(* The theorems.                                                           *)

LEMMA ClientInit == Init => ClientInv
<1> SUFFICES ASSUME Init PROVE ClientInv
  OBVIOUS
<1>1. ClockStart \in Clock /\ MaxPing \in Nat /\ MaxDup \in Nat /\ QueueSize \in Nat
  BY TcpUdpAssumption DEF Clock
<1>2. /\ DOMAIN map = {} /\ keyList = <<>> /\ queue = <<>> /\ wire = {} /\ DOMAIN dst = {}
      /\ uid = 0 /\ now = ClockStart
      /\ stage = [i \in Ids |-> "none"] /\ verdict = [i \in Ids |-> "none"]
      /\ window = NoCounts /\ reported = NoCounts
  BY DEF Init
<1>3. NoCounts \in Counts
  BY DEF NoCounts, Counts
<1>4. TableTypes
  BY <1>1, <1>2 DEF TableTypes
<1>5. SendTypes
  <2>1. DOMAIN dst = 0 .. uid - 1
    BY <1>2
  <2> QED
    BY <1>1, <1>2, <2>1 DEF Init, SendTypes
<1>6. TypeOK
  BY <1>2, <1>3, <1>4, <1>5, TypeParts DEF CountTypes
<1>7. ListMatchesMap
  <2>1. ToSet(keyList) = {} /\ 1 .. Len(keyList) = {}
    BY <1>2 DEF ToSet
  <2> QED
    BY <1>2, <2>1 DEF ListMatchesMap, OldestFirst
<1>8. EntryInv /\ WireInv
  BY <1>2 DEF EntryInv, WireInv
<1>9. StageInv
  BY <1>2, ClockNat DEF StageInv, Known
<1>10. DelayFits
  BY <1>2 DEF DelayFits
<1>11. CountsAreTrue
  <2> SUFFICES ASSUME NEW d \in Dsts, NEW k \in Counted
               PROVE  reported[d][k] + window[d][k] + Waiting(queue, d, k)
                          = Cardinality(EndedSet(d, k))
    BY DEF CountsAreTrue, Waiting, WaitingSet, EndedSet
  <2>1. WaitingSet(queue, d, k) = {} /\ EndedSet(d, k) = {}
    BY <1>2 DEF WaitingSet, EndedSet
  <2>2. reported[d][k] = 0 /\ window[d][k] = 0
    BY <1>2 DEF NoCounts
  <2>3. Cardinality({}) = 0
    BY FS_EmptySet
  <2> QED
    BY <2>1, <2>2, <2>3 DEF Waiting
<1> QED
  BY <1>6, <1>7, <1>8, <1>9, <1>10, <1>11 DEF ClientInv

LEMMA ClientStep ==
    ASSUME ClientInv, [Next]_vars
    PROVE  ClientInv'
<1>1. /\ TypeOK /\ ListMatchesMap /\ EntryInv /\ StageInv /\ WireInv
      /\ DelayFits /\ CountsAreTrue
  BY DEF ClientInv
<1>2. TableTypes' /\ ListMatchesMap' /\ SendTypes' /\ CountTypes'
  BY <1>1, TableStep, SendTypesStep, CountTypesStep
<1>3. TypeOK'
  BY <1>2 DEF TypeOK, TableTypes, SendTypes, CountTypes
<1>4. EntryInv' /\ StageInv' /\ WireInv'
  BY <1>1, EntryStep, StageStep, WireStep
<1>5. DelayFits' /\ CountsAreTrue'
  BY <1>1, DelayStep, CountsStep
<1> QED
  BY <1>2, <1>3, <1>4, <1>5 DEF ClientInv

\* The inductive invariant of the clients.
THEOREM ClientInvariant == Spec => []ClientInv
<1>1. ClientInv /\ [Next]_vars => ClientInv'
  BY ClientStep
<1> QED
  BY ClientInit, <1>1, PTL DEF Spec

\* Whatever the threads of the pings do and the network loses, repeats or delays:
\* list and map of the table agree, oldest first (TcpUdpPinginfoMap); a delay is
\* never longer than the time since the insert, also when the clock wraps around
\* (calc_time_delta_with_bitwrap); and the counts of the result thread are the
\* numbers of pings that ended that way, for each destination.
THEOREM ClientCorrect == Spec => [](TableInv /\ DelayFits /\ CountsAreTrue)
<1>1. ClientInv => TableInv /\ DelayFits /\ CountsAreTrue
  BY DEF ClientInv, TableInv
<1> QED
  BY ClientInvariant, <1>1, PTL

\* An insert, by whichever thread, leaves no stale entry in the table, although
\* expireEntries stops at the first fresh one.
THEOREM ExpiryCorrect == Spec => ExpiryIsComplete
<1>1. ASSUME ClientInv, [Next]_vars, NEW id \in Ids, stage[id] = "insert", stage'[id] = "send",
             NEW i \in DOMAIN map
      PROVE  ~Stale(i)
  <2>1. TypeOK /\ OldestFirst(keyList, map)
    BY <1>1 DEF ClientInv, ListMatchesMap
  <2>2. InsertEnd(id)
    <3>1. StageMoves(id)
      BY <1>1, <2>1, StagesMove
    <3> QED
      BY <1>1, <3>1 DEF StageMoves
  <2>3. keyList \in Seq(Ids) /\ ToSet(keyList) = {keyList[j] : j \in 1 .. Len(keyList)}
        /\ Len(keyList) \in Nat
    BY <2>1, ToSetOfSeq, LenProperties DEF TypeOK
  <2>4. PICK j \in 1 .. Len(keyList) : keyList[j] = i
    BY <1>1, <2>1, <2>3 DEF OldestFirst
  <2>5. keyList # <<>>
    BY <2>3, <2>4, EmptySeq
  <2>6. /\ keyList[1] \in DOMAIN map /\ Head(keyList) = keyList[1] /\ ~Stale(keyList[1])
        /\ 1 \in 1 .. Len(keyList)
    BY <2>2, <2>3, <2>5, TailIsRemoveAt DEF InsertEnd
  <2>7. expireTime \in Nat /\ \A k \in DOMAIN map : map[k].ts \in Nat
    BY <2>1, ClockNat DEF TypeOK, Entry
  <2>8. map[keyList[1]].ts <= map[i].ts
    <3>1. CASE j = 1
      BY <1>1, <2>4, <2>7, <3>1
    <3>2. CASE j # 1
      BY <2>1, <2>3, <2>4, <2>6, <3>2 DEF OldestFirst
    <3> QED
      BY <3>1, <3>2
  <2> QED
    BY <1>1, <2>6, <2>7, <2>8, TcpUdpAssumption DEF Stale
<1>2. ClientInv /\ [Next]_vars =>
          [\A id \in Ids : stage[id] = "insert" /\ stage'[id] = "send" =>
              \A i \in DOMAIN map : ~Stale(i)]_vars
  BY <1>1
<1> QED
  BY ClientInvariant, <1>2, PTL DEF Spec, ExpiryIsComplete

-----------------------------------------------------------------------------
(* The clients implement the ledger of pings.                              *)

\* Each step begins, answers or ends one ping of the ledger, or changes nothing there.
LEMMA LedgerStep ==
    ASSUME ClientInv, [Next]_vars
    PROVE  [Ledger!Next]_(Ledger!vars)
<1> DEFINE fate == [id \in Ids |-> Fate(id)]
<1>1. TypeOK /\ ListMatchesMap /\ EntryInv /\ StageInv /\ WireInv
  BY DEF ClientInv
<1>2. ASSUME NEW id \in Ids, Begins(id) PROVE Ledger!Next
  <2>1. ~Known(id)
    BY <1>1, <1>2 DEF Begins, StageInv
  <2>2. verdict' = verdict /\ DOMAIN map' = DOMAIN map \cup {id} /\ answered' = answered
    BY <1>2 DEF Begins
  <2>3. fate' = [fate EXCEPT ![id] = "pending"] /\ fate[id] = "none"
    BY <2>1, <2>2 DEF Fate, Known
  <2>4. Ledger!Begin(id)
    BY <2>2, <2>3 DEF Ledger!Begin
  <2> QED
    BY <2>4 DEF Ledger!Next
<1>3. ASSUME NEW id \in Ids, NEW kind \in Counted, NEW delay, Ends(id, kind, delay),
             kind = "success" => id \in answered
      PROVE  Ledger!Next
  <2>1. id \in DOMAIN map /\ DOMAIN map' = DOMAIN map \ {id} /\ answered' = answered
    BY <1>3 DEF Ends, Without, Restrict
  <2>2. PICK v \in {kind, "full"} : verdict' = [verdict EXCEPT ![id] = v]
    BY <1>3 DEF Ends, Enqueue
  <2>3. v \in {"success", "failure", "full"} /\ (v = "success" => id \in answered)
    BY <1>3, <2>2 DEF Counted
  <2>4. verdict'[id] = v /\ \A x \in Ids : x # id => verdict'[x] = verdict[x]
    BY <1>1, <2>2 DEF TypeOK
  <2>5. verdict[id] = "none"
    BY <1>1, <2>1 DEF EntryInv
  <2>6. \A x \in Ids : Fate(x)' = IF x = id THEN v ELSE Fate(x)
    BY <2>1, <2>4 DEF Fate
  <2>7. fate' = [fate EXCEPT ![id] = v] /\ fate[id] = "pending"
    BY <2>1, <2>5, <2>6 DEF Fate
  <2>8. Ledger!End(id)
    BY <2>1, <2>3, <2>7 DEF Ledger!End
  <2> QED
    BY <2>8 DEF Ledger!Next
<1>4. CASE Waits
  <2>1. UNCHANGED <<map, verdict>>
    BY <1>4 DEF Waits
  <2>2. fate' = fate
    BY <2>1 DEF Fate
  <2>3. CASE answered' = answered
    BY <2>2, <2>3 DEF Ledger!vars
  <2>4. CASE ServerAnswer
    <3>1. PICK m \in wire : answered' = answered \cup {m.id}
      BY <2>4 DEF ServerAnswer
    <3>2. m.id \in Ids /\ Known(m.id)
      BY <1>1 DEF TypeOK, Message, WireInv
    <3>3. fate[m.id] # "none"
      BY <3>2 DEF Known, Fate
    <3>4. Ledger!Answer(m.id)
      BY <2>2, <3>1, <3>3 DEF Ledger!Answer
    <3> QED
      BY <3>2, <3>4 DEF Ledger!Next
  <2>5. answered' = answered \/ ServerAnswer
    BY DEF Next, Report, ResultTake, TxNext, Expire, InsertBegin, InsertEnd, MakeCtxFail, Send,
       SendFail, UdpReceive, TcpConnected, Tick, vars, net
  <2> QED
    BY <2>3, <2>4, <2>5
<1>5. ASSUME NEW id \in Ids, NEW delay, Answers(id, delay) PROVE id \in answered
  BY <1>1, <1>5 DEF Answers, receive_udp_message, WireInv
<1>6. "success" \in Counted /\ "failure" \in Counted /\ "failure" # "success"
  BY DEF Counted
<1> QED
  BY <1>1, <1>2, <1>3, <1>4, <1>5, <1>6, StepMoves DEF Moves

\* The clients keep the promise of a ping table: a ping ends once, whichever thread
\* completes or expires it, and ends well only if its destination has answered.
THEOREM LedgerImplemented == Spec => ImplementsLedger
<1>1. Init => Ledger!Init
  BY DEF Init, Ledger!Init, Fate
<1>2. ClientInv /\ [Next]_vars => [Ledger!Next]_(Ledger!vars)
  BY LedgerStep
<1> QED
  BY ClientInvariant, <1>1, <1>2, PTL DEF Spec, ImplementsLedger, Ledger!Spec
=============================================================================
