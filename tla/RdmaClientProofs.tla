-------------------------- MODULE RdmaClientProofs --------------------------
(***************************************************************************)
(* Proofs about the ping table of the RDMA client, for every number of     *)
(* pings, clock bound, queue size, threshold and timestamp mode.           *)
(***************************************************************************)
EXTENDS RdmaClient, SequenceTheorems, TLAPS

-----------------------------------------------------------------------------
(* The list of keys.                                                       *)

LEMMA ToSetOfSeq ==
    ASSUME NEW S, NEW s \in Seq(S)
    PROVE  ToSet(s) = {s[i] : i \in 1 .. Len(s)}
BY LenProperties DEF ToSet

LEMMA RemoveAtProperties ==
    ASSUME NEW S, NEW s \in Seq(S), NEW p \in 1 .. Len(s)
    PROVE  /\ RemoveAt(s, p) \in Seq(S)
           /\ Len(RemoveAt(s, p)) = Len(s) - 1
           /\ \A i \in 1 .. Len(s) - 1 :
                 RemoveAt(s, p)[i] = IF i < p THEN s[i] ELSE s[i + 1]
<1>1. Len(s) \in Nat /\ \A i \in 1 .. Len(s) : s[i] \in S
  BY LenProperties, ElementOfSeq
<1> DEFINE a == SubSeq(s, 1, p - 1)
<1> DEFINE b == SubSeq(s, p + 1, Len(s))
<1>2. a \in Seq(S) /\ Len(a) = p - 1 /\ \A i \in 1 .. p - 1 : a[i] = s[i]
  <2>1. \A i \in 1 .. p - 1 : s[i] \in S
    BY <1>1
  <2>2. /\ a \in Seq(S) /\ Len(a) = IF 1 <= p - 1 THEN p - 1 - 1 + 1 ELSE 0
        /\ \A i \in 1 .. p - 1 - 1 + 1 : a[i] = s[1 + i - 1]
    BY <1>1, <2>1, SubSeqProperties
  <2> QED
    BY <1>1, <2>2
<1>3. /\ b \in Seq(S) /\ Len(b) = Len(s) - p
      /\ \A i \in 1 .. Len(s) - p : b[i] = s[p + i]
  <2>1. \A i \in p + 1 .. Len(s) : s[i] \in S
    BY <1>1
  <2>2. /\ b \in Seq(S) /\ Len(b) = IF p + 1 <= Len(s) THEN Len(s) - (p + 1) + 1 ELSE 0
        /\ \A i \in 1 .. Len(s) - (p + 1) + 1 : b[i] = s[p + 1 + i - 1]
    BY <1>1, <2>1, SubSeqProperties
  <2> QED
    BY <1>1, <2>2
<1>4. RemoveAt(s, p) = a \o b
  BY DEF RemoveAt
<1>5. /\ a \o b \in Seq(S) /\ Len(a \o b) = Len(a) + Len(b)
      /\ \A i \in 1 .. Len(a) + Len(b) :
            (a \o b)[i] = IF i <= Len(a) THEN a[i] ELSE b[i - Len(a)]
  BY <1>2, <1>3, ConcatProperties
<1> HIDE DEF a, b
<1> QED
  BY <1>1, <1>2, <1>3, <1>4, <1>5

\* Erasing one position and the key that stood there keeps the others in order.
LEMMA EraseOldestFirst ==
    ASSUME NEW S, NEW s \in Seq(S), NEW m, OldestFirst(s, m), NEW p \in 1 .. Len(s)
    PROVE  OldestFirst(RemoveAt(s, p), Without(m, s[p]))
<1> DEFINE t == RemoveAt(s, p)
<1> DEFINE n == Without(m, s[p])
<1>1. /\ t \in Seq(S) /\ Len(t) = Len(s) - 1
      /\ \A i \in 1 .. Len(s) - 1 : t[i] = IF i < p THEN s[i] ELSE s[i + 1]
  BY RemoveAtProperties
<1>2. Len(s) \in Nat
  BY LenProperties
<1>3. DOMAIN n = DOMAIN m \ {s[p]} /\ \A k \in DOMAIN m \ {s[p]} : n[k] = m[k]
  BY DEF Without, Restrict
<1> HIDE DEF t, n
<1>4. \A i \in 1 .. Len(t) : \E k \in 1 .. Len(s) : k # p /\ t[i] = s[k]
  BY <1>1, <1>2
<1>5. \A k \in 1 .. Len(s) : k # p => \E i \in 1 .. Len(t) : t[i] = s[k]
  <2> SUFFICES ASSUME NEW k \in 1 .. Len(s), k # p
               PROVE  \E i \in 1 .. Len(t) : t[i] = s[k]
    OBVIOUS
  <2>1. CASE k < p
    BY <1>1, <1>2, <2>1
  <2>2. CASE k > p
    <3>1. k - 1 \in 1 .. Len(t) /\ ~(k - 1 < p) /\ (k - 1) + 1 = k
      BY <1>1, <1>2, <2>2
    <3>2. t[k - 1] = s[k]
      BY <1>1, <3>1
    <3> QED
      BY <3>1, <3>2
  <2> QED
    BY <1>2, <2>1, <2>2
<1>6. ToSet(s) = DOMAIN m /\ \A i, j \in 1 .. Len(s) :
          i < j => s[i] # s[j] /\ m[s[i]].ts <= m[s[j]].ts
  BY DEF OldestFirst
<1>7. \A k \in 1 .. Len(s) : k # p => s[k] # s[p]
  BY <1>2, <1>6
<1>8. ToSet(t) = DOMAIN n
  <2>1. ToSet(s) = {s[i] : i \in 1 .. Len(s)} /\ ToSet(t) = {t[i] : i \in 1 .. Len(t)}
    BY <1>1, ToSetOfSeq
  <2> HIDE DEF ToSet
  <2>2. ASSUME NEW x \in ToSet(t) PROVE x \in DOMAIN n
    <3>1. PICK i \in 1 .. Len(t) : x = t[i]
      BY <2>1, <2>2
    <3>2. PICK k \in 1 .. Len(s) : k # p /\ t[i] = s[k]
      BY <1>4, <3>1
    <3> QED
      BY <1>3, <1>6, <1>7, <2>1, <3>1, <3>2
  <2>3. ASSUME NEW x \in DOMAIN n PROVE x \in ToSet(t)
    <3>1. PICK k \in 1 .. Len(s) : x = s[k]
      BY <1>3, <1>6, <2>1, <2>3
    <3>2. k # p
      BY <1>3, <2>3, <3>1
    <3> QED
      BY <1>5, <2>1, <3>1, <3>2
  <2> QED
    BY <2>2, <2>3
<1>9. \A i, j \in 1 .. Len(t) : i < j => t[i] # t[j] /\ n[t[i]].ts <= n[t[j]].ts
  <2> SUFFICES ASSUME NEW i \in 1 .. Len(t), NEW j \in 1 .. Len(t), i < j
               PROVE  t[i] # t[j] /\ n[t[i]].ts <= n[t[j]].ts
    OBVIOUS
  <2>1. PICK a, b \in 1 .. Len(s) : a < b /\ a # p /\ b # p /\ t[i] = s[a] /\ t[j] = s[b]
    <3>1. CASE j < p
      <4>1. i \in 1 .. Len(s) /\ j \in 1 .. Len(s) /\ i < p /\ i # p /\ j # p
        BY <1>1, <1>2, <3>1
      <4>2. t[i] = s[i] /\ t[j] = s[j]
        BY <1>1, <3>1, <4>1
      <4> QED
        BY <4>1, <4>2
    <3>2. CASE i < p /\ ~(j < p)
      <4>1. i \in 1 .. Len(s) /\ j + 1 \in 1 .. Len(s) /\ i < j + 1 /\ i # p /\ j + 1 # p
        BY <1>1, <1>2, <3>2
      <4>2. t[i] = s[i] /\ t[j] = s[j + 1]
        BY <1>1, <3>2
      <4> QED
        BY <4>1, <4>2
    <3>3. CASE ~(i < p)
      <4>1. i + 1 \in 1 .. Len(s) /\ j + 1 \in 1 .. Len(s) /\ i + 1 < j + 1
            /\ i + 1 # p /\ j + 1 # p /\ ~(j < p)
        BY <1>1, <1>2, <3>3
      <4>2. t[i] = s[i + 1] /\ t[j] = s[j + 1]
        BY <1>1, <3>3, <4>1
      <4> QED
        BY <4>1, <4>2
    <3> QED
      BY <3>1, <3>2, <3>3
  <2>2. s[a] \in DOMAIN n /\ s[b] \in DOMAIN n /\ n[s[a]] = m[s[a]] /\ n[s[b]] = m[s[b]]
    BY <1>3, <1>6, <1>7, <2>1 DEF ToSet
  <2> QED
    BY <1>6, <2>1, <2>2
<1> QED
  BY <1>8, <1>9 DEF OldestFirst, t, n

LEMMA TailIsRemoveAt ==
    ASSUME NEW S, NEW s \in Seq(S), s # <<>>
    PROVE  Tail(s) = RemoveAt(s, 1) /\ Head(s) = s[1] /\ 1 \in 1 .. Len(s)
<1>1. /\ Len(s) \in Nat /\ Len(s) > 0 /\ Head(s) = s[1]
      /\ Tail(s) \in Seq(S) /\ Len(Tail(s)) = Len(s) - 1
      /\ \A i \in 1 .. Len(Tail(s)) : Tail(s)[i] = s[i + 1]
  BY HeadTailProperties, EmptySeq, LenProperties
<1>2. /\ RemoveAt(s, 1) \in Seq(S) /\ Len(RemoveAt(s, 1)) = Len(s) - 1
      /\ \A i \in 1 .. Len(s) - 1 : RemoveAt(s, 1)[i] = s[i + 1]
  <2>1. 1 \in 1 .. Len(s)
    BY <1>1
  <2>2. /\ RemoveAt(s, 1) \in Seq(S) /\ Len(RemoveAt(s, 1)) = Len(s) - 1
        /\ \A i \in 1 .. Len(s) - 1 :
              RemoveAt(s, 1)[i] = IF i < 1 THEN s[i] ELSE s[i + 1]
    BY <2>1, RemoveAtProperties
  <2>3. ASSUME NEW i \in 1 .. Len(s) - 1 PROVE RemoveAt(s, 1)[i] = s[i + 1]
    <3>1. ~(i < 1)
      BY <1>1
    <3> QED
      BY <2>2, <3>1
  <2> QED
    BY <2>2, <2>3
<1>3. Tail(s) = RemoveAt(s, 1)
  BY <1>1, <1>2, SeqEqual
<1> QED
  BY <1>1, <1>3

\* A new key at the end, no older than the others.
LEMMA AppendOldestFirst ==
    ASSUME NEW S, NEW s \in Seq(S), NEW m, OldestFirst(s, m), NEW k \in S, k \notin DOMAIN m,
           NEW n, DOMAIN n = DOMAIN m \cup {k}, \A x \in DOMAIN m : n[x] = m[x],
           \A x \in DOMAIN m : m[x].ts <= n[k].ts
    PROVE  OldestFirst(Append(s, k), n)
<1> DEFINE t == Append(s, k)
<1>1. /\ Len(s) \in Nat /\ t \in Seq(S) /\ Len(t) = Len(s) + 1
      /\ \A i \in 1 .. Len(s) : t[i] = s[i]
      /\ t[Len(s) + 1] = k
  BY AppendProperties, LenProperties
<1> HIDE DEF t
<1>2. ToSet(s) = {s[i] : i \in 1 .. Len(s)} /\ ToSet(t) = {t[i] : i \in 1 .. Len(t)}
  BY <1>1, ToSetOfSeq
<1>3. ToSet(s) = DOMAIN m /\ \A i, j \in 1 .. Len(s) :
          i < j => s[i] # s[j] /\ m[s[i]].ts <= m[s[j]].ts
  BY DEF OldestFirst
<1>4. \A i \in 1 .. Len(s) : s[i] \in DOMAIN m
  BY <1>2, <1>3
<1>5. ToSet(t) = DOMAIN n
  <2>1. ASSUME NEW x \in ToSet(t) PROVE x \in DOMAIN n
    <3>1. PICK i \in 1 .. Len(t) : x = t[i]
      BY <1>2, <2>1
    <3> QED
      BY <1>1, <1>4, <3>1
  <2>2. ASSUME NEW x \in DOMAIN n PROVE x \in ToSet(t)
    <3>1. CASE x = k
      BY <1>1, <1>2, <3>1
    <3>2. CASE x # k
      <4>1. PICK i \in 1 .. Len(s) : x = s[i]
        BY <1>2, <1>3, <2>2, <3>2
      <4> QED
        BY <1>1, <1>2, <4>1
    <3> QED
      BY <3>1, <3>2
  <2> QED
    BY <2>1, <2>2
<1>6. \A i, j \in 1 .. Len(t) : i < j => t[i] # t[j] /\ n[t[i]].ts <= n[t[j]].ts
  <2> SUFFICES ASSUME NEW i \in 1 .. Len(t), NEW j \in 1 .. Len(t), i < j
               PROVE  t[i] # t[j] /\ n[t[i]].ts <= n[t[j]].ts
    OBVIOUS
  <2>1. i \in 1 .. Len(s) /\ t[i] = s[i] /\ s[i] \in DOMAIN m
    BY <1>1, <1>4
  <2>2. CASE j = Len(s) + 1
    BY <1>1, <2>1, <2>2
  <2>3. CASE j # Len(s) + 1
    <3>1. j \in 1 .. Len(s) /\ t[j] = s[j] /\ s[j] \in DOMAIN m
      BY <1>1, <1>4, <2>3
    <3> QED
      BY <1>3, <2>1, <3>1
  <2> QED
    BY <2>2, <2>3
<1> QED
  BY <1>5, <1>6 DEF OldestFirst, t

\* A new value for a key that keeps its time.
LEMMA UpdateOldestFirst ==
    ASSUME NEW s, NEW m, OldestFirst(s, m), NEW n, DOMAIN n = DOMAIN m,
           \A x \in DOMAIN m : n[x].ts = m[x].ts, NEW S, s \in Seq(S)
    PROVE  OldestFirst(s, n)
<1>1. ToSet(s) = {s[i] : i \in 1 .. Len(s)}
  BY ToSetOfSeq
<1>2. \A i \in 1 .. Len(s) : s[i] \in DOMAIN m
  BY <1>1 DEF OldestFirst
<1> QED
  BY <1>2 DEF OldestFirst

-----------------------------------------------------------------------------
(* The ping table.                                                         *)

\* What a step of the table owes: the invariant, no ping forgotten or
\* invented, no fate changed, at most one ping begun or ended.
Ways == {"success", "weird", "failure", "full", "overlaid", "corrupted"}
FateMoves ==
    \/ \A k \in Ids : Fate(k)' = Fate(k)
    \/ \E id \in Ids :
          /\ \/ Fate(id) = "none" /\ Fate(id)' = "pending"
             \/ Fate(id) = "pending" /\ Fate(id)' \in Ways
          /\ \A k \in Ids : k # id => Fate(k)' = Fate(k)
FateKept == \A id \in Ids : verdict[id] # "none" => verdict'[id] = verdict[id]
SamePings == \A id \in Ids : Known(id)' <=> Known(id)
TableKept == TableType' /\ TableInv' /\ SamePings /\ FateKept /\ FateMoves

LEMMA EntryFacts ==
    ASSUME TableInv, NEW k \in DOMAIN map
    PROVE  /\ map[k].ts <= now /\ verdict[k] = "none"
           /\ "ack" \in map[k].seen => k \in acked
BY DEF TableInv

\* An entry leaves the table with a fate.
LEMMA LeaveKeeps ==
    ASSUME TableType, TableInv, NEW id \in DOMAIN map,
           map' = Without(map, id), keyList' \in Seq(Ids), OldestFirst(keyList', map'),
           queue' \in Seq(Result), Len(queue') <= QueueSize,
           NEW v \in Verdicts, v # "none", verdict' = [verdict EXCEPT ![id] = v],
           v \in {"success", "weird"} => id \in acked,
           now' = now, acked' = acked
    PROVE  TableKept
<1>1. DOMAIN map' = DOMAIN map \ {id} /\ \A k \in DOMAIN map' : map'[k] = map[k]
  BY DEF Without, Restrict
<1>2. id \in Ids /\ verdict' \in [Ids -> Verdicts] /\ verdict'[id] = v
      /\ \A k \in Ids : k # id => verdict'[k] = verdict[k]
  BY DEF TableType
<1>3. TableType'
  BY <1>1, <1>2 DEF TableType
<1>4. ListMatchesMap'
  BY DEF ListMatchesMap
<1>5. SuccessIsAnswered'
  BY <1>2 DEF SuccessIsAnswered, TableInv
<1>6. TableInv'
  <2>1. ASSUME NEW k \in DOMAIN map'
        PROVE  map'[k].ts <= now' /\ verdict'[k] = "none"
               /\ ("ack" \in map'[k].seen => k \in acked')
    <3>1. k \in DOMAIN map /\ k # id /\ k \in Ids /\ map'[k] = map[k]
      BY <1>1 DEF TableType
    <3>2. verdict'[k] = verdict[k]
      BY <1>2, <3>1
    <3>3. /\ map[k].ts <= now /\ verdict[k] = "none"
          /\ "ack" \in map[k].seen => k \in acked
      BY <3>1, EntryFacts
    <3> QED
      BY <3>1, <3>2, <3>3
  <2> QED
    BY <1>4, <1>5, <2>1 DEF TableInv
<1>7. SamePings /\ FateKept
  <2>1. verdict[id] = "none"
    BY EntryFacts
  <2>2. ASSUME NEW k \in Ids
        PROVE  /\ Known(k)' <=> Known(k)
               /\ verdict[k] # "none" => verdict'[k] = verdict[k]
    <3>1. CASE k = id
      BY <1>2, <2>1, <3>1 DEF Known
    <3>2. CASE k # id
      BY <1>1, <1>2, <3>2 DEF Known
    <3> QED
      BY <3>1, <3>2
  <2> QED
    BY <2>2 DEF SamePings, FateKept
<1>8. FateMoves
  <2>1. Fate(id) = "pending" /\ Fate(id)' \in Ways
    BY <1>1, <1>2 DEF Fate, Ways, Verdicts, Counted
  <2>2. \A k \in Ids : k # id => Fate(k)' = Fate(k)
    BY <1>1, <1>2 DEF Fate
  <2> QED
    BY <1>2, <2>1, <2>2 DEF FateMoves
<1> QED
  BY <1>3, <1>6, <1>7, <1>8 DEF TableKept

LEMMA EnqueueTyped ==
    ASSUME TableType, NEW id \in DOMAIN map, NEW kind \in Counted,
           NEW client \in Nat, NEW network \in Nat, NEW server \in Nat,
           Enqueue(id, kind, client, network, server)
    PROVE  /\ queue' \in Seq(Result) /\ Len(queue') <= QueueSize
           /\ \E v \in {kind, "full"} : verdict' = [verdict EXCEPT ![id] = v]
<1>1. CASE Len(queue) < QueueSize
  <2> DEFINE r == [id |-> id, kind |-> kind, sent |-> map[id].ts,
                   client |-> client, network |-> network, server |-> server]
  <2>1. r \in Result
    BY DEF Result, TableType, Entry
  <2>2. queue' = Append(queue, r) /\ verdict' = [verdict EXCEPT ![id] = kind]
    BY <1>1 DEF Enqueue
  <2>3. Len(queue) \in Nat /\ queue' \in Seq(Result) /\ Len(queue') = Len(queue) + 1
    <3> HIDE DEF r
    <3> QED
      BY <2>1, <2>2, AppendProperties, LenProperties DEF TableType
  <2> QED
    BY <1>1, <2>2, <2>3, ClientAssumption
<1>2. CASE ~(Len(queue) < QueueSize)
  BY <1>2 DEF Enqueue, TableType
<1> QED
  BY <1>1, <1>2

LEMMA ListIterFinds ==
    ASSUME TableType, ListMatchesMap, NEW id \in DOMAIN map
    PROVE  listIter(id) \in 1 .. Len(keyList) /\ keyList[listIter(id)] = id
<1>1. ToSet(keyList) = {keyList[i] : i \in 1 .. Len(keyList)}
  BY ToSetOfSeq DEF TableType
<1>2. \E i \in 1 .. Len(keyList) : keyList[i] = id
  BY <1>1 DEF ListMatchesMap, OldestFirst
<1> QED
  BY <1>2 DEF listIter

LEMMA EraseKeeps ==
    ASSUME TableType, ListMatchesMap, NEW id \in DOMAIN map, Erase(id)
    PROVE  map' = Without(map, id) /\ keyList' \in Seq(Ids) /\ OldestFirst(keyList', map')
<1>1. listIter(id) \in 1 .. Len(keyList) /\ keyList[listIter(id)] = id
  BY ListIterFinds
<1>2. keyList \in Seq(Ids) /\ OldestFirst(keyList, map)
  BY DEF TableType, ListMatchesMap
<1>3. OldestFirst(RemoveAt(keyList, listIter(id)), Without(map, id))
  BY <1>1, <1>2, EraseOldestFirst
<1>4. RemoveAt(keyList, listIter(id)) \in Seq(Ids)
  BY <1>1, <1>2, RemoveAtProperties
<1> QED
  BY <1>3, <1>4 DEF Erase

LEMMA ModNat ==
    ASSUME NEW a \in Int, NEW b \in Nat \ {0}
    PROVE  a % b \in Nat
OBVIOUS

\* Storing what arrived, and logging().
LEMMA RecordKeeps ==
    ASSUME TableType, TableInv, NEW id \in DOMAIN map, NEW e \in Entry,
           e.ts = map[id].ts, "ack" \in e.seen => id \in acked,
           Record(id, e), now' = now, acked' = acked
    PROVE  TableKept
<1>1. CASE e.seen # Parts
  <2>1. map' = [map EXCEPT ![id] = e] /\ UNCHANGED <<keyList, queue, verdict>>
    BY <1>1 DEF Record
  <2>2. DOMAIN map' = DOMAIN map /\ map'[id] = e
        /\ \A k \in DOMAIN map : k # id => map'[k] = map[k]
    BY <2>1
  <2>3. OldestFirst(keyList, map')
    <3>1. \A k \in DOMAIN map : map'[k].ts = map[k].ts
      BY <2>2
    <3> QED
      BY <2>2, <3>1, UpdateOldestFirst DEF TableType, TableInv, ListMatchesMap
  <2>4. TableType'
    BY <2>1, <2>2 DEF TableType
  <2>5. TableInv'
    BY <2>1, <2>2, <2>3 DEF TableInv, ListMatchesMap, SuccessIsAnswered
  <2>6. SamePings /\ FateKept /\ FateMoves
    BY <2>1, <2>2 DEF SamePings, FateKept, FateMoves, Fate, Known
  <2> QED
    BY <2>4, <2>5, <2>6 DEF TableKept
<1>2. CASE e.seen = Parts /\ e.cnt # 3
  <2>1. Erase(id) /\ queue' = queue /\ verdict' = [verdict EXCEPT ![id] = "corrupted"]
    BY <1>2 DEF Record
  <2>2. map' = Without(map, id) /\ keyList' \in Seq(Ids) /\ OldestFirst(keyList', map')
    BY <2>1, EraseKeeps DEF TableInv
  <2>3. queue' \in Seq(Result) /\ Len(queue') <= QueueSize
    BY <2>1 DEF TableType
  <2> QED
    BY <2>1, <2>2, <2>3, LeaveKeeps DEF Verdicts
<1>3. CASE e.seen = Parts /\ e.cnt = 3
  <2> DEFINE kind == IF e.network <= e.server THEN "weird" ELSE "success"
  <2> DEFINE c == (e.client - e.network) % Word
  <2> DEFINE n == IF e.network > e.server THEN e.network - e.server ELSE e.network
  <2>1. Enqueue(id, kind, c, n, e.server) /\ Erase(id)
    BY <1>3 DEF Record
  <2>2. c \in Nat /\ n \in Nat /\ e.server \in Nat
    <3>1. e.client - e.network \in Int /\ Word \in Nat \ {0}
      BY ClientAssumption DEF Entry
    <3>2. c \in Nat
      BY <3>1, ModNat
    <3> QED
      BY <3>2 DEF Entry
  <2>3. kind \in Counted /\ kind \in {"success", "weird"}
    BY DEF Counted
  <2> HIDE DEF kind, c, n
  <2>4. map' = Without(map, id) /\ keyList' \in Seq(Ids) /\ OldestFirst(keyList', map')
    BY <2>1, EraseKeeps DEF TableInv
  <2>5. PICK v \in {kind, "full"} : verdict' = [verdict EXCEPT ![id] = v]
    BY <2>1, <2>2, <2>3, EnqueueTyped
  <2>6. queue' \in Seq(Result) /\ Len(queue') <= QueueSize
    BY <2>1, <2>2, <2>3, EnqueueTyped
  <2>7. v \in Verdicts /\ v # "none" /\ id \in acked
    BY <1>3, <2>3 DEF Verdicts, Counted, Parts
  <2> QED
    BY <2>4, <2>5, <2>6, <2>7, LeaveKeeps
<1> QED
  BY <1>1, <1>2, <1>3 DEF Record

\* The table is left alone while time passes or an ACK is sent.
LEMMA IdleKeeps ==
    ASSUME TableType, TableInv, UNCHANGED <<table, queue, verdict>>,
           now \in Clock, now' \in Clock, now <= now', acked \subseteq acked'
    PROVE  TableKept
<1>1. TableType'
  BY DEF TableType, table
<1>2. ListMatchesMap' /\ SuccessIsAnswered'
  BY DEF TableInv, ListMatchesMap, SuccessIsAnswered, table
<1>3. ASSUME NEW k \in DOMAIN map'
      PROVE  map'[k].ts <= now' /\ verdict'[k] = "none"
             /\ ("ack" \in map'[k].seen => k \in acked')
  <2>1. k \in DOMAIN map /\ map'[k] = map[k] /\ verdict'[k] = verdict[k]
    BY <1>3 DEF table
  <2>2. map[k].ts \in Clock
    BY <2>1 DEF TableType, Entry
  <2>3. map'[k].ts <= now'
    BY <2>1, <2>2, EntryFacts, ClientAssumption DEF Clock
  <2> QED
    BY <2>1, <2>3, EntryFacts
<1>4. TableInv'
  BY <1>2, <1>3 DEF TableInv
<1>5. SamePings /\ FateKept /\ FateMoves
  BY DEF SamePings, FateKept, FateMoves, Fate, Known, table
<1> QED
  BY <1>1, <1>4, <1>5 DEF TableKept

LEMMA DeltaNat ==
    ASSUME NEW t1 \in Nat, NEW t2 \in Nat
    PROVE  calc_time_delta_with_modulo(t1, t2) \in Nat
<1>1. t1 % Modulo \in Nat /\ t2 % Modulo \in Nat /\ Modulo \in Nat \ {0}
  BY ModNat, ClientAssumption
<1>2. (t2 % Modulo) + Modulo - (t1 % Modulo) \in Int
  BY <1>1
<1> QED
  BY <1>1, <1>2, ModNat DEF calc_time_delta_with_modulo

\* One field of an entry at a time.
LEMMA EntryField ==
    ASSUME NEW r \in Entry, NEW n \in Nat, NEW q \in SUBSET Parts
    PROVE  /\ [r EXCEPT !.client = n] \in Entry /\ [r EXCEPT !.client = n].ts = r.ts
              /\ [r EXCEPT !.client = n].seen = r.seen
           /\ [r EXCEPT !.network = n] \in Entry /\ [r EXCEPT !.network = n].ts = r.ts
              /\ [r EXCEPT !.network = n].seen = r.seen
           /\ [r EXCEPT !.server = n] \in Entry /\ [r EXCEPT !.server = n].ts = r.ts
              /\ [r EXCEPT !.server = n].seen = r.seen
           /\ [r EXCEPT !.cnt = n] \in Entry /\ [r EXCEPT !.cnt = n].ts = r.ts
              /\ [r EXCEPT !.cnt = n].seen = r.seen
           /\ [r EXCEPT !.seen = q] \in Entry /\ [r EXCEPT !.seen = q].ts = r.ts
           /\ [r EXCEPT !.seen = q].seen = q
<1> USE DEF Entry
<1>1. [r EXCEPT !.client = n] \in Entry /\ [r EXCEPT !.client = n].ts = r.ts
              /\ [r EXCEPT !.client = n].seen = r.seen
  OBVIOUS
<1>2. [r EXCEPT !.network = n] \in Entry /\ [r EXCEPT !.network = n].ts = r.ts
              /\ [r EXCEPT !.network = n].seen = r.seen
  OBVIOUS
<1>3. [r EXCEPT !.server = n] \in Entry /\ [r EXCEPT !.server = n].ts = r.ts
              /\ [r EXCEPT !.server = n].seen = r.seen
  OBVIOUS
<1>4. [r EXCEPT !.cnt = n] \in Entry /\ [r EXCEPT !.cnt = n].ts = r.ts
              /\ [r EXCEPT !.cnt = n].seen = r.seen
  OBVIOUS
<1>5. [r EXCEPT !.seen = q] \in Entry /\ [r EXCEPT !.seen = q].ts = r.ts
      /\ [r EXCEPT !.seen = q].seen = q
  OBVIOUS
<1> QED
  BY <1>1, <1>2, <1>3, <1>4, <1>5

LEMMA MarkedTyped ==
    ASSUME NEW r \in Entry, NEW p \in Parts
    PROVE  /\ Marked(r, p) \in Entry /\ Marked(r, p).ts = r.ts
           /\ Marked(r, p).seen = r.seen \cup {p}
<1> DEFINE r1 == [r EXCEPT !.cnt = r.cnt + 1]
<1> DEFINE q == r.seen \cup {p}
<1>1. r.cnt + 1 \in Nat /\ q \in SUBSET Parts
  BY DEF Entry
<1>2. Marked(r, p) = [r1 EXCEPT !.seen = q]
  BY DEF Marked
<1>3. r1 \in Entry /\ r1.ts = r.ts
  BY <1>1, EntryField
<1> HIDE DEF r1, q
<1>4. [r1 EXCEPT !.seen = q] \in Entry /\ [r1 EXCEPT !.seen = q].ts = r1.ts
      /\ [r1 EXCEPT !.seen = q].seen = q
  BY <1>1, <1>3, EntryField
<1> QED
  BY <1>2, <1>3, <1>4 DEF q

\* What the three update functions do with an entry that is there.
LEMMA MarkedKeeps ==
    ASSUME TableType, TableInv, NEW id \in DOMAIN map, NEW r \in Entry,
           r.ts = map[id].ts, r.seen = map[id].seen, NEW p \in Parts,
           p = "ack" => id \in acked,
           Record(id, Marked(r, p)), now' = now, acked' = acked
    PROVE  TableKept
<1> DEFINE e == Marked(r, p)
<1>1. e \in Entry /\ e.ts = map[id].ts /\ e.seen = map[id].seen \cup {p}
  BY MarkedTyped
<1>2. "ack" \in e.seen => id \in acked
  BY <1>1, EntryFacts
<1>3. Record(id, e)
  OBVIOUS
<1> HIDE DEF e
<1> QED
  BY <1>1, <1>2, <1>3, RecordKeeps

LEMMA CqeKeeps ==
    ASSUME TableType, TableInv, now \in Clock, NEW id, NEW x \in Nat,
           update_ping_cqe_time(id, x), now' = now, acked' = acked
    PROVE  TableKept
<1>1. CASE NoEntry(id)
  BY <1>1, IdleKeeps, ClientAssumption DEF NoEntry, Clock
<1>2. CASE id \in DOMAIN map
  <2> DEFINE n == IF map[id].network = 0 THEN x
                  ELSE calc_time_delta_with_modulo(x, map[id].network)
  <2> DEFINE r == [map[id] EXCEPT !.network = n]
  <2>1. map[id] \in Entry
    BY <1>2 DEF TableType
  <2>2. n \in Nat
    BY <2>1, DeltaNat DEF Entry
  <2>3. Record(id, Marked(r, "cqe"))
    BY <1>2 DEF update_ping_cqe_time, NoEntry
  <2>4. r \in Entry /\ r.ts = map[id].ts /\ r.seen = map[id].seen
    BY <2>1, <2>2, EntryField
  <2> HIDE DEF r
  <2> QED
    BY <1>2, <2>3, <2>4, MarkedKeeps DEF Parts
<1> QED
  BY <1>1, <1>2 DEF update_ping_cqe_time

LEMMA PongKeeps ==
    ASSUME TableType, TableInv, now \in Clock, NEW id, NEW t \in Nat, NEW x \in Nat,
           update_pong_info(id, t, x), now' = now, acked' = acked
    PROVE  TableKept
<1>1. CASE NoEntry(id)
  BY <1>1, IdleKeeps, ClientAssumption DEF NoEntry, Clock
<1>2. CASE id \in DOMAIN map
  <2> DEFINE c == calc_time_delta_with_modulo(map[id].client, t)
  <2> DEFINE n == IF map[id].network # 0
                  THEN calc_time_delta_with_modulo(map[id].network, x) ELSE x
  <2> DEFINE r == [map[id] EXCEPT !.client = c, !.network = n]
  <2>1. map[id] \in Entry
    BY <1>2 DEF TableType
  <2>2. c \in Nat /\ n \in Nat
    BY <2>1, DeltaNat DEF Entry
  <2>3. Record(id, Marked(r, "pong"))
    BY <1>2 DEF update_pong_info, NoEntry
  <2>4. r \in Entry /\ r.ts = map[id].ts /\ r.seen = map[id].seen
    <3> DEFINE r1 == [map[id] EXCEPT !.client = c]
    <3>1. r1 \in Entry /\ r1.ts = map[id].ts /\ r1.seen = map[id].seen
      BY <2>1, <2>2, EntryField
    <3>2. r = [r1 EXCEPT !.network = n]
      OBVIOUS
    <3> HIDE DEF r1, r
    <3> QED
      BY <2>2, <3>1, <3>2, EntryField
  <2> HIDE DEF r
  <2> QED
    BY <1>2, <2>3, <2>4, MarkedKeeps DEF Parts
<1> QED
  BY <1>1, <1>2 DEF update_pong_info

LEMMA AckKeeps ==
    ASSUME TableType, TableInv, now \in Clock, NEW id, id \in acked, NEW d \in Nat,
           update_ack_info(id, d), now' = now, acked' = acked
    PROVE  TableKept
<1>1. CASE NoEntry(id)
  BY <1>1, IdleKeeps, ClientAssumption DEF NoEntry, Clock
<1>2. CASE id \in DOMAIN map
  <2> DEFINE r == [map[id] EXCEPT !.server = d]
  <2>1. map[id] \in Entry
    BY <1>2 DEF TableType
  <2>3. Record(id, Marked(r, "ack"))
    BY <1>2 DEF update_ack_info, NoEntry
  <2>4. r \in Entry /\ r.ts = map[id].ts /\ r.seen = map[id].seen
    BY <2>1, EntryField
  <2> HIDE DEF r
  <2> QED
    BY <1>2, <2>3, <2>4, MarkedKeeps DEF Parts
<1> QED
  BY <1>1, <1>2 DEF update_ack_info

-----------------------------------------------------------------------------
(* The threads.                                                            *)

\* What every step owes.
ClientKept == ClientInv' /\ FateKept /\ FateMoves

LEMMA InitInv == Init => ClientInv
<1> SUFFICES ASSUME Init PROVE ClientInv
  OBVIOUS
<1> USE ClientAssumption DEF Init
<1>1. DOMAIN map = {} /\ DOMAIN serving = {}
  OBVIOUS
<1>2. keyList \in Seq(Ids) /\ queue \in Seq(Result) /\ Len(queue) = 0 /\ Len(keyList) = 0
  BY EmptySeq, LenProperties
<1>3. TableType
  BY <1>1, <1>2 DEF TableType, Verdicts
<1>4. ThreadType
  BY <1>1 DEF ThreadType, Clock
<1>5. ToSet(keyList) = {}
  BY DEF ToSet
<1>6. TableInv
  BY <1>1, <1>2, <1>5 DEF TableInv, ListMatchesMap, OldestFirst, SuccessIsAnswered
<1>7. EachPingOnePlace
  BY <1>1 DEF EachPingOnePlace, Known, Inserted, Ids
<1>8. ThreadInv
  BY DEF ThreadInv
<1> QED
  BY <1>3, <1>4, <1>6, <1>7, <1>8 DEF ClientInv, TypeOK

\* Table steps that leave tx_sched where it is, or move it while it does not
\* hold the lock, keep every ping in one place.
LEMMA PlacesKept ==
    ASSUME ClientInv, TableKept, uid' = uid, txId' = txId,
           txpc = "expire" <=> txpc' = "expire"
    PROVE  EachPingOnePlace'
<1> SUFFICES ASSUME NEW id \in Ids
             PROVE  /\ Inserted(id)' <=> Known(id)'
                    /\ id \in DOMAIN map' => verdict'[id] = "none"
  BY DEF EachPingOnePlace
<1>1. Inserted(id)' <=> Inserted(id)
  BY DEF Inserted
<1>2. Inserted(id) <=> Known(id)
  BY DEF ClientInv, EachPingOnePlace
<1>3. Known(id)' <=> Known(id)
  BY DEF TableKept, SamePings
<1>4. id \in DOMAIN map' => verdict'[id] = "none"
  BY DEF TableKept, TableInv
<1> QED
  BY <1>1, <1>2, <1>3, <1>4

LEMMA TxNextStep ==
    ASSUME ClientInv, TxNext, UNCHANGED stamper
    PROVE  ClientKept
<1> USE ClientAssumption
<1>1. TableKept
  BY IdleKeeps DEF ClientInv, TypeOK, ThreadType, TxNext, net, Clock
<1>2. ThreadType'
  BY DEF ClientInv, TypeOK, ThreadType, TxNext, net, Clock, Ids, Message
<1>3. ThreadInv'
  BY DEF ClientInv, TypeOK, ThreadType, ThreadInv, TxNext, net
<1>4. EachPingOnePlace'
  <2> SUFFICES ASSUME NEW id \in Ids
               PROVE  /\ Inserted(id)' <=> Known(id)'
                      /\ id \in DOMAIN map' => verdict'[id] = "none"
    BY DEF EachPingOnePlace
  <2>1. Inserted(id)' <=> Inserted(id)
    BY DEF Inserted, TxNext, ClientInv, TypeOK, ThreadType, Ids
  <2>2. Inserted(id) <=> Known(id)
    BY DEF ClientInv, EachPingOnePlace
  <2>3. Known(id)' <=> Known(id)
    BY <1>1 DEF TableKept, SamePings
  <2>4. id \in DOMAIN map' => verdict'[id] = "none"
    BY <1>1 DEF TableKept, TableInv
  <2> QED
    BY <2>1, <2>2, <2>3, <2>4
<1> QED
  BY <1>1, <1>2, <1>3, <1>4 DEF ClientKept, ClientInv, TypeOK, TableKept

LEMMA TxExpireStep ==
    ASSUME ClientInv, TxExpire, UNCHANGED stamper
    PROVE  ClientKept
<1> USE ClientAssumption
<1> DEFINE id == Head(keyList)
<1>1. TableType /\ TableInv /\ ThreadType
  BY DEF ClientInv, TypeOK
<1>2. keyList \in Seq(Ids) /\ keyList # <<>> /\ OldestFirst(keyList, map)
  BY DEF ClientInv, TypeOK, TableType, TableInv, ListMatchesMap, TxExpire
<1>3. Tail(keyList) = RemoveAt(keyList, 1) /\ id = keyList[1] /\ 1 \in 1 .. Len(keyList)
  BY <1>2, TailIsRemoveAt
<1>4. id \in DOMAIN map
  <2>1. ToSet(keyList) = {keyList[i] : i \in 1 .. Len(keyList)}
    BY <1>2, ToSetOfSeq
  <2> QED
    BY <1>2, <1>3, <2>1 DEF OldestFirst
<1>5. keyList' = Tail(keyList) /\ map' = Without(map, id) /\ UNCHANGED <<now, tx, net, sendCqes>>
  BY DEF TxExpire
<1>6. keyList' \in Seq(Ids) /\ OldestFirst(keyList', map')
  <2>1. OldestFirst(RemoveAt(keyList, 1), Without(map, keyList[1]))
    BY <1>2, <1>3, EraseOldestFirst
  <2>2. RemoveAt(keyList, 1) \in Seq(Ids)
    BY <1>2, <1>3, RemoveAtProperties
  <2> QED
    BY <1>3, <1>5, <2>1, <2>2
<1>7. /\ queue' \in Seq(Result) /\ Len(queue') <= QueueSize
      /\ \E v \in {"failure", "full", "overlaid"} : verdict' = [verdict EXCEPT ![id] = v]
  <2>1. CASE map[id].cnt >= 3
    BY <1>1, <1>4, <2>1 DEF TxExpire, TableType
  <2>2. CASE ~(map[id].cnt >= 3)
    <3>1. Enqueue(id, "failure", 0, 0, 0)
      BY <1>4, <2>2 DEF TxExpire
    <3> HIDE DEF id
    <3> QED
      BY <1>1, <1>4, <3>1, EnqueueTyped DEF Counted
  <2> QED
    BY <2>1, <2>2
<1>8. PICK v \in {"failure", "full", "overlaid"} : verdict' = [verdict EXCEPT ![id] = v]
  BY <1>7
<1>9. v \in Verdicts /\ v # "none" /\ v \notin {"success", "weird"}
  BY DEF Verdicts, Counted
<1> HIDE DEF id
<1>10. TableKept
  BY <1>1, <1>4, <1>5, <1>6, <1>7, <1>8, <1>9, LeaveKeeps DEF net
<1>11. ThreadType' /\ ThreadInv'
  BY <1>1, <1>5 DEF ClientInv, ThreadType, ThreadInv, tx, net
<1>12. EachPingOnePlace'
  BY <1>5, <1>10, PlacesKept DEF tx
<1> QED
  BY <1>10, <1>11, <1>12 DEF ClientKept, ClientInv, TypeOK, TableKept

LEMMA TxInsertStep ==
    ASSUME ClientInv, TxInsert, UNCHANGED stamper
    PROVE  ClientKept
<1> USE ClientAssumption
<1>1. TableType /\ TableInv /\ ThreadType /\ ThreadInv
  BY DEF ClientInv, TypeOK
<1>2. txpc = "expire" /\ txpc' = "post"
      /\ UNCHANGED <<now, queue, uid, txId, txTime, net, sendCqes, verdict>>
  BY DEF TxInsert
<1>3. txId \in Ids /\ txId < uid
  BY <1>1, <1>2 DEF ThreadType, ThreadInv, Ids
<1>4. ~Known(txId)
  BY <1>2, <1>3 DEF ClientInv, EachPingOnePlace, Inserted
<1>5. txId \notin DOMAIN map /\ verdict[txId] = "none"
  BY <1>4 DEF Known
<1>6. /\ keyList' = Append(keyList, txId)
      /\ DOMAIN map' = DOMAIN map \cup {txId} /\ map'[txId] = NewEntry
      /\ \A k \in DOMAIN map : map'[k] = map[k]
  BY <1>5 DEF TxInsert
<1>7. NewEntry \in Entry /\ NewEntry.ts = now /\ NewEntry.seen = {}
  BY <1>1 DEF NewEntry, Entry, ThreadType, Clock
<1>8. OldestFirst(keyList', map')
  <2>1. keyList \in Seq(Ids) /\ OldestFirst(keyList, map)
    BY <1>1 DEF TableType, TableInv, ListMatchesMap
  <2>2. \A k \in DOMAIN map : map[k].ts <= map'[txId].ts
    BY <1>1, <1>6, <1>7, EntryFacts
  <2> QED
    BY <1>3, <1>5, <1>6, <2>1, <2>2, AppendOldestFirst
<1>9. TableType'
  <2>1. keyList' \in Seq(Ids)
    BY <1>1, <1>3, <1>6, AppendProperties DEF TableType
  <2> QED
    BY <1>1, <1>2, <1>3, <1>6, <1>7, <2>1 DEF TableType
<1>10. TableInv'
  <2>1. ASSUME NEW k \in DOMAIN map'
        PROVE  map'[k].ts <= now' /\ verdict'[k] = "none"
               /\ ("ack" \in map'[k].seen => k \in acked')
    <3>1. CASE k = txId
      BY <1>1, <1>2, <1>5, <1>6, <1>7, <3>1 DEF ThreadType, Clock
    <3>2. CASE k # txId
      <4>1. k \in DOMAIN map /\ map'[k] = map[k]
        BY <1>6, <3>2
      <4> QED
        BY <1>1, <1>2, <4>1, EntryFacts DEF net
    <3> QED
      BY <3>1, <3>2
  <2>2. SuccessIsAnswered'
    BY <1>1, <1>2 DEF TableInv, SuccessIsAnswered, net
  <2> QED
    BY <1>8, <2>1, <2>2 DEF TableInv, ListMatchesMap
<1>11. ThreadType' /\ ThreadInv'
  BY <1>1, <1>2 DEF ThreadType, ThreadInv, net
<1>12. EachPingOnePlace'
  <2> SUFFICES ASSUME NEW id \in Ids
               PROVE  Inserted(id)' <=> Known(id)'
    BY <1>10 DEF EachPingOnePlace, TableInv
  <2>1. CASE id = txId
    BY <1>2, <1>3, <1>6, <2>1 DEF Inserted, Known
  <2>2. CASE id # txId
    <3>1. Inserted(id) <=> Known(id)
      BY DEF ClientInv, EachPingOnePlace
    <3>2. Inserted(id)' <=> Inserted(id)
      BY <1>2, <2>2 DEF Inserted
    <3>3. Known(id)' <=> Known(id)
      BY <1>2, <1>6, <2>2 DEF Known
    <3> QED
      BY <3>1, <3>2, <3>3
  <2> QED
    BY <2>1, <2>2
<1>13. FateMoves
  <2>1. PICK id \in Ids : id = txId
    BY <1>3
  <2>2. Fate(id) = "none" /\ Fate(id)' = "pending"
    BY <1>5, <1>6, <2>1 DEF Fate
  <2>3. \A k \in Ids : k # id => Fate(k)' = Fate(k)
    BY <1>2, <1>6, <2>1 DEF Fate
  <2> QED
    BY <2>2, <2>3 DEF FateMoves
<1> QED
  BY <1>2, <1>9, <1>10, <1>11, <1>12, <1>13 DEF ClientKept, ClientInv, TypeOK, FateKept

LEMMA TxPostStep ==
    ASSUME ClientInv, TxPost \/ TxPostFail \/ TxStamp, UNCHANGED stamper
    PROVE  ClientKept
<1> USE ClientAssumption
<1>1. TableType /\ TableInv /\ ThreadType /\ ThreadInv
  BY DEF ClientInv, TypeOK
<1>2. /\ UNCHANGED <<now, table, queue, uid, txId, serving, acked, dups, verdict>>
      /\ txpc # "expire" /\ txpc' # "expire"
  BY DEF TxPost, TxPostFail, TxStamp, net
<1>3. TableKept
  BY <1>1, <1>2, IdleKeeps DEF ThreadType, Clock
<1>4. EachPingOnePlace'
  BY <1>2, <1>3, PlacesKept
<1>5. CASE TxPost
  <2> DEFINE m == [kind |-> "ping", id |-> txId, delay |-> 0, at |-> now]
  <2>1. txId \in Ids
    BY <1>1, <1>5 DEF ThreadType, ThreadInv, TxPost, Ids
  <2>2. m \in Message /\ m.at = now /\ m.kind = "ping"
    BY <1>1, <2>1 DEF Message, ThreadType
  <2>3. now + HwOffset \in Nat /\ now <= now
    BY <1>1 DEF ThreadType, Clock
  <2>4. wire' = wire \cup {m} /\ txTime' = txTime
        /\ txpc' \in {"next", "stamp"} /\ sendCqes' \subseteq sendCqes \cup {<<txId, now + HwOffset>>}
    BY <1>5 DEF TxPost
  <2> HIDE DEF m
  <2>5. ThreadType'
    BY <1>1, <1>2, <2>1, <2>2, <2>3, <2>4 DEF ThreadType
  <2>6. ThreadInv'
    <3>1. txpc' # "next" => uid' > 0 /\ txId' = uid' - 1
      BY <1>1, <1>2, <1>5 DEF ThreadInv, TxPost
    <3>2. ASSUME NEW x \in wire'
          PROVE  x.at <= now' /\ (x.kind = "ack" => x.id \in acked')
      BY <1>1, <1>2, <2>2, <2>3, <2>4, <3>2 DEF ThreadInv
    <3> QED
      BY <3>1, <3>2 DEF ThreadInv
  <2> QED
    BY <1>3, <1>4, <2>5, <2>6 DEF ClientKept, ClientInv, TypeOK, TableKept
<1>6. CASE TxPostFail \/ TxStamp
  <2>1. ThreadType'
    BY <1>1, <1>6 DEF TxPostFail, TxStamp, ThreadType, net, Clock
  <2>2. ThreadInv'
    BY <1>1, <1>6 DEF TxPostFail, TxStamp, ThreadInv, net
  <2> QED
    BY <1>3, <1>4, <2>1, <2>2 DEF ClientKept, ClientInv, TypeOK, TableKept
<1> QED
  BY <1>5, <1>6

LEMMA TxUpdateStep ==
    ASSUME ClientInv, TxUpdate, UNCHANGED stamper
    PROVE  ClientKept
<1> USE ClientAssumption
<1>1. TableType /\ TableInv /\ ThreadType /\ ThreadInv
  BY DEF ClientInv, TypeOK
<1>2. TableKept
  BY <1>1, CqeKeeps DEF TxUpdate, ThreadType, net
<1>3. EachPingOnePlace'
  BY <1>2, PlacesKept DEF TxUpdate
<1>4. ThreadType' /\ ThreadInv'
  BY <1>1 DEF TxUpdate, ThreadType, ThreadInv, net
<1> QED
  BY <1>2, <1>3, <1>4 DEF ClientKept, ClientInv, TypeOK, TableKept

LEMMA TxCqeStep ==
    ASSUME ClientInv, TxCqe, UNCHANGED stamper
    PROVE  ClientKept
<1> USE ClientAssumption
<1>1. TableType /\ TableInv /\ ThreadType /\ ThreadInv
  BY DEF ClientInv, TypeOK
<1>2. PICK c \in sendCqes : update_ping_cqe_time(c[1], c[2]) /\ sendCqes' = sendCqes \ {c}
  BY DEF TxCqe
<1>3. UNCHANGED <<now, tx, net>>
  BY DEF TxCqe
<1>4. c[2] \in Nat
  BY <1>1 DEF ThreadType
<1>5. TableKept
  BY <1>1, <1>2, <1>3, <1>4, CqeKeeps DEF ThreadType, net
<1>6. EachPingOnePlace'
  BY <1>3, <1>5, PlacesKept DEF tx
<1>7. ThreadType' /\ ThreadInv'
  BY <1>1, <1>2, <1>3 DEF ThreadType, ThreadInv, tx, net
<1> QED
  BY <1>5, <1>6, <1>7 DEF ClientKept, ClientInv, TypeOK, TableKept

LEMMA RxHandleStep ==
    ASSUME ClientInv, NEW again \in BOOLEAN, RxHandle(again), UNCHANGED stamper
    PROVE  ClientKept
<1> USE ClientAssumption
<1>1. TableType /\ TableInv /\ ThreadType /\ ThreadInv
  BY DEF ClientInv, TypeOK
<1>2. PICK m \in wire :
          /\ \/ /\ m.kind = "pong"
                /\ \E arrival, recv_time \in m.at .. now :
                      /\ arrival <= recv_time
                      /\ update_pong_info(m.id, recv_time,
                                          IF HwTs THEN arrival + HwOffset ELSE recv_time)
             \/ /\ m.kind = "ack"
                /\ update_ack_info(m.id, m.delay)
          /\ wire' = IF again THEN wire ELSE wire \ {m}
  BY DEF RxHandle
<1>3. UNCHANGED <<now, tx, serving, acked, sendCqes>>
  BY DEF RxHandle
<1>4. m \in Message
  BY <1>1, <1>2 DEF ThreadType
<1>5. wire' \subseteq wire
  BY <1>2
<1>6. dups' \in 0 .. MaxDup
  BY <1>1 DEF RxHandle, ThreadType
<1>7. TableKept
  <2>1. CASE m.kind = "pong"
    <3>1. PICK arrival, recv_time \in m.at .. now :
              update_pong_info(m.id, recv_time,
                               IF HwTs THEN arrival + HwOffset ELSE recv_time)
      BY <1>2, <2>1
    <3> DEFINE x == IF HwTs THEN arrival + HwOffset ELSE recv_time
    <3>2. recv_time \in Nat /\ x \in Nat
      BY <1>1, <1>4 DEF Message, Clock, ThreadType
    <3>3. update_pong_info(m.id, recv_time, x)
      BY <3>1
    <3> HIDE DEF x
    <3> QED
      BY <1>1, <1>3, <3>2, <3>3, PongKeeps DEF ThreadType
  <2>2. CASE m.kind = "ack"
    <3>1. update_ack_info(m.id, m.delay)
      BY <1>2, <2>2
    <3>2. m.id \in acked /\ m.delay \in Nat
      BY <1>1, <1>2, <1>4, <2>2 DEF ThreadInv, Message
    <3> QED
      BY <1>1, <1>3, <3>1, <3>2, AckKeeps DEF ThreadType
  <2> QED
    BY <1>2, <2>1, <2>2
<1>8. EachPingOnePlace'
  BY <1>3, <1>7, PlacesKept DEF tx
<1>9. ThreadType' /\ ThreadInv'
  BY <1>1, <1>3, <1>5, <1>6 DEF ThreadType, ThreadInv, tx
<1> QED
  BY <1>7, <1>8, <1>9 DEF ClientKept, ClientInv, TypeOK, TableKept

LEMMA ResultTakeStep ==
    ASSUME ClientInv, ResultTake, UNCHANGED stamper
    PROVE  ClientKept
<1> USE ClientAssumption
<1>1. queue' \in Seq(Result) /\ Len(queue') <= QueueSize
  <2>1. queue \in Seq(Result) /\ queue # <<>> /\ queue' = Tail(queue) /\ Len(queue) <= QueueSize
    BY DEF ClientInv, TypeOK, TableType, ResultTake
  <2>2. queue' \in Seq(Result) /\ Len(queue') = Len(queue) - 1 /\ Len(queue) \in Nat
    BY <2>1, HeadTailProperties, LenProperties
  <2> QED
    BY <2>1, <2>2
<1>2. UNCHANGED <<now, table, tx, net, sendCqes, verdict>>
  BY DEF ResultTake
<1>3. TableType' /\ ThreadType'
  BY <1>1, <1>2 DEF ClientInv, TypeOK, TableType, ThreadType, table, tx, net
<1>4. TableInv' /\ ThreadInv'
  BY <1>2 DEF ClientInv, TableInv, ThreadInv, ListMatchesMap, SuccessIsAnswered, table, tx, net
<1>5. EachPingOnePlace'
  BY <1>2 DEF ClientInv, EachPingOnePlace, Inserted, Known, table, tx
<1>6. FateKept /\ FateMoves
  BY <1>2 DEF FateKept, FateMoves, Fate, table
<1> QED
  BY <1>2, <1>3, <1>4, <1>5, <1>6 DEF ClientKept, ClientInv, TypeOK

LEMMA EnvironmentStep ==
    ASSUME ClientInv, Environment, UNCHANGED stamper
    PROVE  ClientKept
<1> USE ClientAssumption
<1>1. TableType /\ TableInv /\ ThreadType /\ ThreadInv
  BY DEF ClientInv, TypeOK
<1>2. UNCHANGED <<table, queue, tx, dups, sendCqes, verdict>>
  BY DEF Environment, Tick, ServerPong, ServerAck, net
<1>3. now' \in Clock /\ now \in Clock /\ now <= now'
  <2>1. now' = now \/ (now < ClockStart + MaxTicks /\ now' = now + 1)
    BY DEF Environment, Tick, ServerPong, ServerAck
  <2>2. now \in Clock
    BY <1>1 DEF ThreadType
  <2> QED
    BY <2>1, <2>2 DEF Clock
<1>4. acked \subseteq acked'
  BY DEF Environment, Tick, ServerPong, ServerAck, net
<1>5. TableKept
  BY <1>1, <1>2, <1>3, <1>4, IdleKeeps
<1>6. EachPingOnePlace'
  BY <1>2, <1>5, PlacesKept DEF tx
<1>7. /\ wire' \subseteq Message /\ acked' \subseteq Ids
      /\ DOMAIN serving' \subseteq Ids /\ \A i \in DOMAIN serving' : serving'[i] \in Clock
      /\ \A m \in wire' : m.at <= now' /\ (m.kind = "ack" => m.id \in acked')
  <2>1. CASE Tick
    <3>1. UNCHANGED <<wire, serving, acked>>
      BY <2>1 DEF Tick, net
    <3>2. \A m \in wire : m.at \in Int /\ m.at <= now
      BY <1>1 DEF ThreadType, ThreadInv, Message, Clock
    <3>3. \A m \in wire : m.at <= now'
      BY <1>3, <3>2 DEF Clock
    <3> QED
      BY <1>1, <3>1, <3>3 DEF ThreadType, ThreadInv
  <2>2. CASE ServerPong
    <3>1. PICK m \in wire :
            /\ m.kind = "ping"
            /\ wire' = (wire \ {m}) \cup {[m EXCEPT !.kind = "pong", !.at = now]}
            /\ serving' = [i \in DOMAIN serving \cup {m.id} |->
                              IF i = m.id THEN now ELSE serving[i]]
      BY <2>2 DEF ServerPong
    <3> DEFINE q == [m EXCEPT !.kind = "pong", !.at = now]
    <3>2. m \in Message /\ m.id \in Ids
      BY <1>1, <3>1 DEF ThreadType, Message
    <3>3. q \in Message /\ q.at = now /\ q.kind = "pong"
      <4>1. [m EXCEPT !.kind = "pong"] \in Message
        BY <3>2 DEF Message
      <4> DEFINE m1 == [m EXCEPT !.kind = "pong"]
      <4>2. m1 \in Message /\ m1.kind = "pong" /\ q = [m1 EXCEPT !.at = now]
        BY <3>2, <4>1 DEF Message
      <4> HIDE DEF m1, q
      <4>3. [m1 EXCEPT !.at = now] \in Message /\ [m1 EXCEPT !.at = now].at = now
            /\ [m1 EXCEPT !.at = now].kind = m1.kind
        BY <1>1, <4>2 DEF Message, ThreadType
      <4> QED
        BY <4>2, <4>3
    <3>4. wire' = (wire \ {m}) \cup {q} /\ UNCHANGED <<now, acked>>
      BY <2>2, <3>1 DEF ServerPong
    <3> HIDE DEF q
    <3>5. DOMAIN serving' \subseteq Ids /\ \A i \in DOMAIN serving' : serving'[i] \in Clock
      BY <1>1, <3>1, <3>2 DEF ThreadType
    <3>6. now <= now
      BY <1>3 DEF Clock
    <3> QED
      BY <1>1, <3>3, <3>4, <3>5, <3>6 DEF ThreadType, ThreadInv
  <2>3. CASE ServerAck
    <3>1. PICK i \in DOMAIN serving :
            /\ wire' = wire \cup {[kind |-> "ack", id |-> i, at |-> now,
                                   delay |-> calc_time_delta_with_modulo(serving[i], now)]}
            /\ serving' = Without(serving, i) /\ acked' = acked \cup {i}
      BY <2>3 DEF ServerAck
    <3> DEFINE d == calc_time_delta_with_modulo(serving[i], now)
    <3> DEFINE q == [kind |-> "ack", id |-> i, at |-> now, delay |-> d]
    <3>2. i \in Ids /\ serving[i] \in Nat /\ now \in Nat /\ now <= now
      BY <1>1, <1>3, <3>1 DEF ThreadType, Clock
    <3>3. d \in Nat
      BY <3>2, DeltaNat
    <3> HIDE DEF d
    <3>4. q \in Message /\ q.at = now /\ q.id = i
      BY <1>1, <3>2, <3>3 DEF Message, ThreadType
    <3>5. wire' = wire \cup {q} /\ now' = now
      BY <2>3, <3>1 DEF ServerAck, d
    <3> HIDE DEF q
    <3>6. DOMAIN serving' \subseteq Ids /\ \A k \in DOMAIN serving' : serving'[k] \in Clock
      BY <1>1, <3>1 DEF ThreadType, Without, Restrict
    <3> QED
      BY <1>1, <3>1, <3>2, <3>4, <3>5, <3>6 DEF ThreadType, ThreadInv
  <2> QED
    BY <2>1, <2>2, <2>3 DEF Environment
<1>8. ThreadType' /\ ThreadInv'
  BY <1>1, <1>2, <1>3, <1>7 DEF ThreadType, ThreadInv, tx
<1> QED
  BY <1>5, <1>6, <1>8 DEF ClientKept, ClientInv, TypeOK, TableKept

\* Every step keeps the invariant and every fate, and begins or ends at most one ping.
LEMMA ClientStep ==
    ASSUME ClientInv, [Next]_vars
    PROVE  ClientKept
<1>1. CASE UNCHANGED vars
  <2>1. UNCHANGED <<stamper, now, map, keyList, queue, uid, txpc, txId, txTime, wire, serving,
                    acked, dups, sendCqes, verdict>>
    BY <1>1 DEF vars, table, tx, net
  <2>2. TypeOK'
    BY <2>1 DEF ClientInv, TypeOK, TableType, ThreadType
  <2>3. TableInv' /\ ThreadInv'
    BY <2>1 DEF ClientInv, TableInv, ThreadInv, ListMatchesMap, SuccessIsAnswered
  <2>4. EachPingOnePlace'
    BY <2>1 DEF ClientInv, EachPingOnePlace, Inserted, Known
  <2>5. FateKept /\ FateMoves
    BY <2>1 DEF FateKept, FateMoves, Fate
  <2> QED
    BY <2>1, <2>2, <2>3, <2>4, <2>5 DEF ClientKept, ClientInv
<1>2. CASE Threads /\ UNCHANGED stamper
  BY <1>2, TxNextStep, TxExpireStep, TxInsertStep, TxPostStep, TxUpdateStep, TxCqeStep,
     RxHandleStep, ResultTakeStep DEF Threads
<1>3. CASE Environment /\ UNCHANGED stamper
  BY <1>3, EnvironmentStep
<1> QED
  BY <1>1, <1>2, <1>3 DEF Next

-----------------------------------------------------------------------------
(* The theorems.                                                           *)

LEMMA ClientInvariant == Spec => []ClientInv
<1>1. ClientInv /\ [Next]_vars => ClientInv'
  BY ClientStep DEF ClientKept
<1> QED
  BY InitInv, <1>1, PTL DEF Spec

\* The table's list and map always agree and are ordered by age; every inserted
\* ping is in the table or has one fate; a success was answered by the server.
THEOREM TableCorrect ==
    Spec => [](TypeOK /\ ListMatchesMap /\ EachPingOnePlace /\ SuccessIsAnswered)
<1>1. ClientInv => TypeOK /\ ListMatchesMap /\ EachPingOnePlace /\ SuccessIsAnswered
  BY DEF ClientInv, TableInv
<1> QED
  BY ClientInvariant, <1>1, PTL

\* No late, repeated or reordered message changes what was decided on a ping.
THEOREM FateCorrect == Spec => FateIsFinal
<1>1. ClientInv /\ [Next]_vars => [FateKept]_vars
  BY ClientStep DEF ClientKept
<1>2. [FateKept]_vars => [\A id \in Ids : verdict[id] # "none" => verdict'[id] = verdict[id]]_vars
  BY DEF FateKept
<1> QED
  BY ClientInvariant, <1>1, <1>2, PTL DEF Spec, FateIsFinal

\* When a ping is inserted no stale entry stays behind, although expireEntries
\* looks only at the front of the list.
THEOREM ExpiryCorrect == Spec => ExpiryIsComplete
<1>1. ASSUME ClientInv, [Next]_vars, txpc = "expire", txpc' = "post", NEW id \in DOMAIN map
      PROVE  ~Stale(id)
  <2>1. TxInsert
    BY <1>1 DEF Next, Threads, Environment, TxNext, TxExpire, TxPost, TxPostFail, TxStamp,
       TxUpdate, TxCqe, RxHandle, Locked, ResultTake, Tick, ServerPong, ServerAck, vars, tx
  <2>2. keyList \in Seq(Ids) /\ OldestFirst(keyList, map) /\ txTime \in Nat
        /\ \A k \in DOMAIN map : map[k].ts \in Nat
    <3>1. TableType /\ ThreadType /\ ListMatchesMap
      BY <1>1 DEF ClientInv, TypeOK, TableInv
    <3>2. \A k \in DOMAIN map : map[k].ts \in Nat
      BY <3>1, ClientAssumption DEF TableType, Entry, Clock
    <3> QED
      BY <3>1, <3>2 DEF TableType, ThreadType, ListMatchesMap
  <2>3. ToSet(keyList) = {keyList[i] : i \in 1 .. Len(keyList)} /\ Len(keyList) \in Nat
    BY <2>2, ToSetOfSeq, LenProperties
  <2>4. PICK i \in 1 .. Len(keyList) : keyList[i] = id
    BY <1>1, <2>2, <2>3 DEF OldestFirst
  <2>5. keyList # <<>>
    BY <2>2, <2>3, <2>4, EmptySeq
  <2>6. keyList[1] \in DOMAIN map /\ Head(keyList) = keyList[1] /\ ~Stale(keyList[1])
        /\ 1 \in 1 .. Len(keyList)
    BY <2>1, <2>2, <2>5, TailIsRemoveAt DEF TxInsert
  <2>7. map[keyList[1]].ts <= map[id].ts
    <3>1. CASE i = 1
      BY <1>1, <2>2, <2>4, <3>1
    <3>2. CASE i # 1
      BY <2>2, <2>3, <2>4, <2>6, <3>2 DEF OldestFirst
    <3> QED
      BY <3>1, <3>2
  <2> QED
    BY <1>1, <2>2, <2>6, <2>7, ClientAssumption DEF Stale
<1>2. ClientInv /\ [Next]_vars =>
          [txpc = "expire" /\ txpc' = "post" => \A id \in DOMAIN map : ~Stale(id)]_vars
  BY <1>1
<1> QED
  BY ClientInvariant, <1>2, PTL DEF Spec, ExpiryIsComplete

-----------------------------------------------------------------------------
(* The client implements the ledger of pings.                              *)

LEMMA SentStep ==
    ASSUME ClientInv, SentInv, [Next]_vars
    PROVE  SentInv'
<1> USE ClientAssumption
<1>1. ThreadType /\ ThreadInv
  BY DEF ClientInv, TypeOK
<1>2. \A id \in Ids : Inserted(id) => Inserted(id)'
  <2> SUFFICES ASSUME NEW id \in Ids, Inserted(id)
               PROVE  Inserted(id)'
    OBVIOUS
  <2>1. CASE TxNext
    BY <1>1, <2>1 DEF TxNext, Inserted, ThreadType, Ids
  <2>2. CASE ~TxNext
    <3>1. uid' = uid /\ txId' = txId /\ (txpc' = "expire" => txpc = "expire")
      BY <2>2 DEF Next, Threads, Environment, TxExpire, TxInsert, TxPost, TxPostFail, TxStamp,
         TxUpdate, TxCqe, RxHandle, ResultTake, Tick, ServerPong, ServerAck, vars, tx
    <3> QED
      BY <3>1 DEF Inserted
  <2> QED
    BY <2>1, <2>2
<1>3. \A m \in wire : m.id \in Ids /\ Inserted(m.id)
  BY <1>1 DEF ThreadType, Message, SentInv
<1>4. \A id \in DOMAIN serving : id \in Ids /\ Inserted(id)
  BY <1>1 DEF ThreadType, SentInv
<1>5. CASE TxPost
  <2>1. txId \in Ids /\ Inserted(txId)
    BY <1>1, <1>5 DEF TxPost, ThreadType, ThreadInv, Inserted, Ids
  <2>2. \A m \in wire' : m \in wire \/ m.id = txId
    BY <1>5 DEF TxPost
  <2>3. serving' = serving
    BY <1>5 DEF TxPost
  <2> QED
    BY <1>2, <1>3, <1>4, <2>1, <2>2, <2>3 DEF SentInv
<1>6. CASE ServerPong
  <2>1. PICK m \in wire :
            /\ wire' = (wire \ {m}) \cup {[m EXCEPT !.kind = "pong", !.at = now]}
            /\ serving' = [i \in DOMAIN serving \cup {m.id} |->
                              IF i = m.id THEN now ELSE serving[i]]
    BY <1>6 DEF ServerPong
  <2>2. [m EXCEPT !.kind = "pong", !.at = now].id = m.id
    BY <1>1, <2>1 DEF ThreadType, Message
  <2>3. \A x \in wire' : \E y \in wire : x.id = y.id
    BY <2>1, <2>2
  <2>4. DOMAIN serving' = DOMAIN serving \cup {m.id}
    BY <2>1
  <2> QED
    BY <1>2, <1>3, <1>4, <2>1, <2>3, <2>4 DEF SentInv
<1>7. CASE ServerAck
  <2>1. PICK i \in DOMAIN serving :
            /\ wire' = wire \cup {[kind |-> "ack", id |-> i, at |-> now,
                                   delay |-> calc_time_delta_with_modulo(serving[i], now)]}
            /\ serving' = Without(serving, i)
    BY <1>7 DEF ServerAck
  <2>2. \A x \in wire' : x \in wire \/ x.id = i
    BY <2>1
  <2>3. DOMAIN serving' \subseteq DOMAIN serving
    BY <2>1 DEF Without, Restrict
  <2> QED
    BY <1>2, <1>3, <1>4, <2>1, <2>2, <2>3 DEF SentInv
<1>8. CASE ~(TxPost \/ ServerPong \/ ServerAck)
  <2>1. wire' \subseteq wire /\ serving' = serving
    BY <1>8 DEF Next, Threads, Environment, TxNext, TxExpire, TxInsert, TxPostFail, TxStamp,
       TxUpdate, TxCqe, RxHandle, ResultTake, Tick, vars, net
  <2> QED
    BY <1>2, <1>3, <1>4, <2>1 DEF SentInv
<1> QED
  BY <1>5, <1>6, <1>7, <1>8

LEMMA SentInvariant == Spec => []SentInv
<1>1. Init => SentInv
  <2>1. Init => wire = {} /\ DOMAIN serving = {}
    BY DEF Init
  <2> QED
    BY <2>1 DEF SentInv
<1>2. ClientInv /\ SentInv /\ [Next]_vars => SentInv'
  BY SentStep
<1> QED
  BY ClientInvariant, <1>1, <1>2, PTL DEF Spec

\* Each step begins, answers or ends one ping of the ledger, or changes nothing there.
LEMMA LedgerStep ==
    ASSUME ClientInv, ClientInv', SentInv, [Next]_vars
    PROVE  [Ledger!Next]_(Ledger!vars)
<1> DEFINE fate == [id \in Ids |-> Fate(id)]
<1>1. FateMoves
  BY ClientStep DEF ClientKept
<1>2. CASE ServerAck /\ UNCHANGED stamper
  <2>1. PICK i \in DOMAIN serving : acked' = acked \cup {i}
    BY <1>2 DEF ServerAck
  <2>2. i \in Ids /\ Known(i)
    BY <2>1 DEF ClientInv, TypeOK, ThreadType, SentInv, EachPingOnePlace
  <2>3. fate[i] # "none"
    BY <2>2 DEF Known, Fate
  <2>4. fate' = fate
    BY <1>2 DEF ServerAck, table, Fate
  <2>5. Ledger!Answer(i)
    BY <2>1, <2>3, <2>4 DEF Ledger!Answer
  <2> QED
    BY <2>2, <2>5 DEF Ledger!Next
<1>3. CASE ~ServerAck
  <2>1. acked' = acked
    BY <1>3 DEF Next, Threads, Environment, TxNext, TxExpire, TxInsert, TxPost, TxPostFail,
       TxStamp, TxUpdate, TxCqe, RxHandle, ResultTake, Tick, ServerPong, vars, net
  <2>2. CASE \A k \in Ids : Fate(k)' = Fate(k)
    <3>1. fate' = fate
      BY <2>2
    <3> QED
      BY <2>1, <3>1 DEF Ledger!vars
  <2>3. ASSUME NEW id \in Ids,
               \/ Fate(id) = "none" /\ Fate(id)' = "pending"
               \/ Fate(id) = "pending" /\ Fate(id)' \in Ways,
               \A k \in Ids : k # id => Fate(k)' = Fate(k)
        PROVE  Ledger!Next
    <3>1. fate' = [fate EXCEPT ![id] = Fate(id)'] /\ fate[id] = Fate(id)
      BY <2>3
    <3>2. CASE Fate(id) = "none" /\ Fate(id)' = "pending"
      <4>1. Ledger!Begin(id)
        BY <2>1, <3>1, <3>2 DEF Ledger!Begin
      <4> QED
        BY <4>1 DEF Ledger!Next
    <3>3. CASE Fate(id) = "pending" /\ Fate(id)' \in Ways
      <4>1. Fate(id)' \in {"success", "weird"} => id \in acked
        <5>1. Fate(id)' = verdict'[id]
          BY <3>3 DEF Fate, Ways
        <5>2. verdict'[id] \in {"success", "weird"} => id \in acked'
          BY DEF ClientInv, TableInv, SuccessIsAnswered
        <5> QED
          BY <2>1, <5>1, <5>2
      <4>2. Ledger!End(id)
        BY <2>1, <3>1, <3>3, <4>1 DEF Ledger!End, Ways
      <4> QED
        BY <4>2 DEF Ledger!Next
    <3> QED
      BY <2>3, <3>2, <3>3
  <2> QED
    BY <1>1, <2>2, <2>3 DEF FateMoves
<1> QED
  BY <1>2, <1>3 DEF Next, Threads, Environment, vars, net

\* The client keeps the promise of a ping table: whichever thread records the last
\* part of a ping, or expires it first, the ping ends once, and ends well only if
\* its server has answered it.
THEOREM LedgerImplemented == Spec => ImplementsLedger
<1>1. Init => Ledger!Init
  BY DEF Init, Ledger!Init, Fate
<1>2. ClientInv /\ ClientInv' /\ SentInv /\ [Next]_vars => [Ledger!Next]_(Ledger!vars)
  BY LedgerStep
<1> QED
  BY ClientInvariant, SentInvariant, <1>1, <1>2, PTL DEF Spec, ImplementsLedger, Ledger!Spec

-----------------------------------------------------------------------------
(* The delays, with NIC timestamps.                                        *)
(*                                                                         *)
(* An entry is clean when no part of it was recorded twice.  What a clean  *)
(* entry holds is a stamp or a difference of stamps; stamps that are still *)
(* under way will fit to it.                                               *)

Count(q) ==
    (IF "cqe" \in q THEN 1 ELSE 0) + (IF "pong" \in q THEN 1 ELSE 0) + (IF "ack" \in q THEN 1 ELSE 0)

Clean(e) == e.cnt = Count(e.seen)

StampsFit(e, n) ==
    /\ e.cnt >= Count(e.seen)
    /\ Clean(e) =>
          /\ "pong" \notin e.seen => e.client = e.ts
          /\ "pong" \in e.seen => e.ts + e.client <= n
          /\ "cqe" \notin e.seen /\ "pong" \notin e.seen => e.network = 0
          /\ "cqe" \in e.seen /\ "pong" \notin e.seen =>
                e.ts + HwOffset <= e.network /\ e.network <= n + HwOffset
          /\ "cqe" \notin e.seen /\ "pong" \in e.seen =>
                e.ts + HwOffset <= e.network /\ e.network <= e.ts + e.client + HwOffset
          /\ "cqe" \in e.seen /\ "pong" \in e.seen => e.network <= e.client

\* The completion of the ping's own send, not yet recorded.
CqeFits(c, e) ==
    /\ "cqe" \notin e.seen
    /\ e.ts + HwOffset <= c[2]
    /\ Clean(e) /\ "pong" \in e.seen => c[2] <= e.network

\* The PING, or the PONG that answers it, under way.
MessageFits(m, e) ==
    m.kind # "ack" =>
        /\ e.ts <= m.at
        /\ Clean(e) /\ "cqe" \in e.seen /\ "pong" \notin e.seen => e.network <= m.at + HwOffset

\* Ids that post_send may have seen.
Posted(id) == id < uid /\ ~(txId = id /\ txpc \in {"expire", "post"})

EntryFits(id, e) ==
    /\ StampsFit(e, now)
    /\ \A c \in sendCqes : c[1] = id => CqeFits(c, e)
    /\ \A m \in wire : m.id = id => MessageFits(m, e)
    /\ ~Posted(id) => e.seen = {}

WayInv ==
    /\ txpc \notin {"stamp", "update"}
    /\ \A c \in sendCqes : Posted(c[1]) /\ c[2] <= now + HwOffset
    /\ \A c, d \in sendCqes : c[1] = d[1] => c = d
    /\ \A c \in sendCqes, m \in wire : c[1] = m.id /\ m.kind # "ack" => c[2] <= m.at + HwOffset
    /\ \A m \in wire : Posted(m.id)
    /\ \A i \in DOMAIN serving : Posted(i)

AllFit == \A id \in DOMAIN map : EntryFits(id, map[id])

NicInv == HwTs => AllFit /\ WayInv /\ DelaysFit

\* No entry stays in the table for PINGWEAVE_TIME_CALC_MODULO (4.3 seconds) or
\* longer: expireEntries sees to it when pings are inserted often enough.
Young == \A id \in DOMAIN map : now - map[id].ts < Modulo

LEMMA ModRange ==
    ASSUME NEW a \in Int, NEW m \in Nat \ {0}
    PROVE  /\ a % m \in 0 .. m - 1 /\ a \div m \in Int
           /\ a = m * (a \div m) + (a % m)
OBVIOUS

LEMMA ModUnique ==
    ASSUME NEW a \in Int, NEW m \in Nat \ {0}, NEW q \in Int, NEW r \in 0 .. m - 1,
           a = m * q + r
    PROVE  a % m = r
<1> DEFINE d == a \div m
<1> DEFINE e == a % m
<1>1. d \in Int /\ e \in 0 .. m - 1 /\ m * d + e = m * q + r
  BY ModRange
<1> HIDE DEF d, e
<1>2. CASE d = q
  BY <1>1, <1>2 DEF e
<1>3. CASE d > q
  BY <1>1, <1>3 DEF e
<1>4. CASE d < q
  BY <1>1, <1>4 DEF e
<1> QED
  BY <1>1, <1>2, <1>3, <1>4

\* calc_time_delta_with_modulo is exact for times less than Modulo apart.
LEMMA DeltaIsExact ==
    ASSUME NEW t1 \in Nat, NEW t2 \in Nat, t1 <= t2, t2 - t1 < Modulo
    PROVE  calc_time_delta_with_modulo(t1, t2) = t2 - t1
<1> DEFINE x == (t2 % Modulo) + Modulo - (t1 % Modulo)
<1>1. Modulo \in Nat \ {0}
  BY ClientAssumption
<1>2. t1 = Modulo * (t1 \div Modulo) + (t1 % Modulo) /\ t1 % Modulo \in Int /\ t1 \div Modulo \in Int
  BY <1>1, ModRange
<1>3. t2 = Modulo * (t2 \div Modulo) + (t2 % Modulo) /\ t2 % Modulo \in Int /\ t2 \div Modulo \in Int
  BY <1>1, ModRange
<1>4. PICK k \in Int : k = (t1 \div Modulo) - (t2 \div Modulo) + 1
  BY <1>2, <1>3
<1>5. x \in Int /\ x = Modulo * k + (t2 - t1)
  BY <1>1, <1>2, <1>3, <1>4
<1>6. t2 - t1 \in 0 .. Modulo - 1
  BY <1>1
<1> HIDE DEF x
<1>7. x % Modulo = t2 - t1
  BY <1>1, <1>4, <1>5, <1>6, ModUnique
<1> QED
  BY <1>7 DEF calc_time_delta_with_modulo, x

\* The rest of an unsigned subtraction is not larger than the difference.
LEMMA ModSmaller ==
    ASSUME NEW a \in Nat, NEW m \in Nat \ {0}
    PROVE  a % m \in Nat /\ a % m <= a
<1>1. a % m \in 0 .. m - 1 /\ a \div m \in Int /\ a = m * (a \div m) + (a % m)
  BY ModRange
<1>2. a \div m \in Nat
  OBVIOUS
<1>3. m * (a \div m) \in Nat
  BY <1>2
<1> QED
  BY <1>1, <1>3

LEMMA CountOf ==
    ASSUME NEW q \in SUBSET Parts, NEW p \in Parts
    PROVE  /\ Count(q) \in 0 .. 3 /\ (Count(q) = 3 <=> q = Parts)
           /\ p \in q => Count(q \cup {p}) = Count(q)
           /\ p \notin q => Count(q \cup {p}) = Count(q) + 1
<1>1. Count(q) \in 0 .. 3
  BY DEF Count
<1>2. Count(q) = 3 <=> "cqe" \in q /\ "pong" \in q /\ "ack" \in q
  BY DEF Count
<1>3. q = Parts <=> "cqe" \in q /\ "pong" \in q /\ "ack" \in q
  BY DEF Parts
<1>4. p \in q => q \cup {p} = q
  OBVIOUS
<1>5. ASSUME p \notin q PROVE Count(q \cup {p}) = Count(q) + 1
  <2>1. CASE p = "cqe"
    BY <1>5, <2>1 DEF Count
  <2>2. CASE p = "pong"
    BY <1>5, <2>2 DEF Count
  <2>3. CASE p = "ack"
    BY <1>5, <2>3 DEF Count
  <2> QED
    BY <2>1, <2>2, <2>3 DEF Parts
<1> QED
  BY <1>1, <1>2, <1>3, <1>4, <1>5

\* Recording a part makes an entry unclean if it was recorded before.
LEMMA MarkedCount ==
    ASSUME NEW e \in Entry, NEW r \in Entry, NEW p \in Parts,
           r.ts = e.ts, r.seen = e.seen, r.cnt = e.cnt, e.cnt >= Count(e.seen)
    PROVE  LET f == Marked(r, p)
           IN  /\ f.cnt >= Count(f.seen)
               /\ Clean(f) => Clean(e) /\ p \notin e.seen
               /\ f.client = r.client /\ f.network = r.network /\ f.server = r.server
<1>1. r.cnt \in Nat /\ r.seen \in SUBSET Parts
  BY DEF Entry
<1> DEFINE f == Marked(r, p)
<1> DEFINE r1 == [r EXCEPT !.cnt = r.cnt + 1]
<1> DEFINE q == r.seen \cup {p}
<1>2. /\ r1 \in Entry /\ r1.cnt = r.cnt + 1 /\ r1.client = r.client /\ r1.network = r.network
      /\ r1.server = r.server
  BY <1>1 DEF Entry
<1>3. /\ f.cnt = e.cnt + 1 /\ f.seen = e.seen \cup {p}
      /\ f.client = r.client /\ f.network = r.network /\ f.server = r.server
  <2>1. f = [r1 EXCEPT !.seen = q]
    BY DEF Marked
  <2> HIDE DEF r1, q, f
  <2>2. /\ f.cnt = r1.cnt /\ f.seen = q /\ f.client = r1.client /\ f.network = r1.network
        /\ f.server = r1.server
    BY <1>2, <2>1 DEF Entry
  <2> QED
    BY <1>2, <2>2 DEF q
<1> HIDE DEF f
<1>4. /\ Count(e.seen) \in 0 .. 3
      /\ p \in e.seen => Count(f.seen) = Count(e.seen)
      /\ p \notin e.seen => Count(f.seen) = Count(e.seen) + 1
  BY <1>1, <1>3, CountOf
<1>5. PICK a \in Nat : a = e.cnt
  BY <1>1
<1>6. PICK b \in Nat : b = Count(e.seen)
  BY <1>4
<1>7. f.cnt >= Count(f.seen) /\ (Clean(f) => Clean(e) /\ p \notin e.seen)
  BY <1>3, <1>4, <1>5, <1>6 DEF Clean
<1> QED
  BY <1>3, <1>7 DEF f

\* update_ping_cqe_time on an entry that is there.
LEMMA CqeRecorded ==
    ASSUME NEW e \in Entry, NEW n \in Clock, n - e.ts < Modulo, StampsFit(e, n),
           NEW c, c[2] \in Nat, CqeFits(c, e), c[2] <= n + HwOffset,
           NEW r \in Entry, r.ts = e.ts, r.seen = e.seen, r.cnt = e.cnt, r.client = e.client,
           r.network = IF e.network = 0 THEN c[2]
                       ELSE calc_time_delta_with_modulo(c[2], e.network)
    PROVE  LET f == Marked(r, "cqe")
           IN  /\ StampsFit(f, n)
               /\ Clean(f) /\ "pong" \notin f.seen => f.network = c[2]
<1> DEFINE f == Marked(r, "cqe")
<1>1. PICK f1 \in Entry :
         /\ f1 = f /\ f1.ts = e.ts /\ f1.seen = e.seen \cup {"cqe"} /\ f1.cnt >= Count(f1.seen)
         /\ Clean(f1) => Clean(e)
         /\ f1.client = e.client /\ f1.network = r.network
  <2>1. "cqe" \in Parts
    BY DEF Parts
  <2>2. f \in Entry /\ f.ts = e.ts /\ f.seen = e.seen \cup {"cqe"}
    BY <2>1, MarkedTyped
  <2>3. e.cnt >= Count(e.seen)
    BY DEF StampsFit
  <2>4. /\ f.cnt >= Count(f.seen) /\ (Clean(f) => Clean(e))
        /\ f.client = r.client /\ f.network = r.network
    BY <2>1, <2>3, MarkedCount
  <2> HIDE DEF f
  <2> QED
    BY <2>2, <2>4
<1> HIDE DEF f
<1>2. SUFFICES ASSUME Clean(f1)
               PROVE  /\ "pong" \notin e.seen => f1.client = f1.ts /\ f1.network = c[2]
                      /\ "pong" \in e.seen => f1.ts + f1.client <= n /\ f1.network <= f1.client
  <2> HIDE DEF Clean
  <2>1. CASE Clean(f1)
    <3>1. /\ "pong" \notin e.seen => f1.client = f1.ts /\ f1.network = c[2]
          /\ "pong" \in e.seen => f1.ts + f1.client <= n /\ f1.network <= f1.client
      BY <1>2, <2>1
    <3>2. e.ts + HwOffset <= c[2]
      BY DEF CqeFits
    <3>3. "pong" \in f1.seen <=> "pong" \in e.seen
      BY <1>1
    <3>4. "cqe" \in f1.seen
      BY <1>1
    <3>5. StampsFit(f1, n)
      BY <1>1, <2>1, <3>1, <3>2, <3>3, <3>4 DEF StampsFit
    <3> QED
      BY <1>1, <2>1, <3>1, <3>3, <3>5 DEF f
  <2>2. CASE ~Clean(f1)
    BY <1>1, <2>2 DEF StampsFit, f
  <2> QED
    BY <2>1, <2>2
<1>3. Clean(e) /\ "cqe" \notin e.seen /\ e.ts + HwOffset <= c[2]
      /\ ("pong" \in e.seen => c[2] <= e.network)
  BY <1>1, <1>2 DEF CqeFits
<1>4. CASE "pong" \notin e.seen
  <2>1. e.client = e.ts /\ e.network = 0
    BY <1>3, <1>4 DEF StampsFit
  <2> QED
    BY <1>1, <1>4, <2>1
<1>5. CASE "pong" \in e.seen
  <2>1. PICK ts \in Clock : ts = e.ts
    BY DEF Entry
  <2>2. PICK cl \in Nat : cl = e.client
    BY DEF Entry
  <2>3. PICK nw \in Nat : nw = e.network
    BY DEF Entry
  <2>4. PICK x \in Nat : x = c[2]
    OBVIOUS
  <2>5. ts + cl <= n /\ ts + HwOffset <= nw /\ nw <= ts + cl + HwOffset
    BY <1>3, <1>5, <2>1, <2>2, <2>3 DEF StampsFit
  <2>6. ts + HwOffset <= x /\ x <= nw
    BY <1>3, <1>5, <2>1, <2>3, <2>4
  <2>7. /\ ts \in Nat /\ ts > 0 /\ HwOffset \in Nat /\ n \in Nat /\ n - ts < Modulo
        /\ Modulo \in Nat
    BY <2>1, ClientAssumption DEF Clock
  <2>8. nw # 0 /\ nw - x < Modulo /\ nw - x <= cl
    BY <2>5, <2>6, <2>7
  <2>9. calc_time_delta_with_modulo(x, nw) = nw - x
    BY <2>6, <2>8, DeltaIsExact
  <2>10. f1.network = nw - x
    BY <1>1, <2>3, <2>4, <2>8, <2>9
  <2> QED
    BY <1>1, <1>5, <2>1, <2>2, <2>5, <2>8, <2>10
<1> QED
  BY <1>4, <1>5

\* update_pong_info on an entry that is there: a is when the PONG arrived, t when
\* the rx thread read the clock.
LEMMA PongRecorded ==
    ASSUME NEW e \in Entry, NEW n \in Clock, n - e.ts < Modulo, StampsFit(e, n),
           NEW a \in Nat, NEW t \in Nat, a <= t, t <= n, e.ts <= a,
           Clean(e) /\ "cqe" \in e.seen /\ "pong" \notin e.seen => e.network <= a + HwOffset,
           NEW r \in Entry, r.ts = e.ts, r.seen = e.seen, r.cnt = e.cnt,
           r.client = calc_time_delta_with_modulo(e.client, t),
           r.network = IF e.network # 0
                       THEN calc_time_delta_with_modulo(e.network, a + HwOffset) ELSE a + HwOffset
    PROVE  LET f == Marked(r, "pong")
           IN  /\ StampsFit(f, n)
               /\ Clean(f) /\ "cqe" \notin f.seen => f.network = a + HwOffset
<1> DEFINE f == Marked(r, "pong")
<1>1. PICK f1 \in Entry :
         /\ f1 = f /\ f1.ts = e.ts /\ f1.seen = e.seen \cup {"pong"} /\ f1.cnt >= Count(f1.seen)
         /\ Clean(f1) => Clean(e) /\ "pong" \notin e.seen
         /\ f1.client = r.client /\ f1.network = r.network
  <2>1. "pong" \in Parts
    BY DEF Parts
  <2>2. f \in Entry /\ f.ts = e.ts /\ f.seen = e.seen \cup {"pong"}
    BY <2>1, MarkedTyped
  <2>3. e.cnt >= Count(e.seen)
    BY DEF StampsFit
  <2>4. /\ f.cnt >= Count(f.seen) /\ (Clean(f) => Clean(e) /\ "pong" \notin e.seen)
        /\ f.client = r.client /\ f.network = r.network
    BY <2>1, <2>3, MarkedCount
  <2> HIDE DEF f
  <2> QED
    BY <2>2, <2>4
<1> HIDE DEF f
<1>2. SUFFICES ASSUME Clean(f1)
               PROVE  /\ f1.ts + f1.client <= n
                      /\ "cqe" \notin e.seen => /\ f1.network = a + HwOffset
                                                /\ f1.network <= f1.ts + f1.client + HwOffset
                      /\ "cqe" \in e.seen => f1.network <= f1.client
  <2> HIDE DEF Clean
  <2>1. CASE Clean(f1)
    <3>1. /\ f1.ts + f1.client <= n
          /\ "cqe" \notin e.seen => /\ f1.network = a + HwOffset
                                    /\ f1.network <= f1.ts + f1.client + HwOffset
          /\ "cqe" \in e.seen => f1.network <= f1.client
      BY <1>2, <2>1
    <3>2. f1.ts + HwOffset <= a + HwOffset
      BY <1>1, ClientAssumption DEF Entry, Clock
    <3>3. "cqe" \in f1.seen <=> "cqe" \in e.seen
      BY <1>1
    <3>4. "pong" \in f1.seen
      BY <1>1
    <3>5. StampsFit(f1, n)
      BY <1>1, <2>1, <3>1, <3>2, <3>3, <3>4 DEF StampsFit
    <3> QED
      BY <1>1, <2>1, <3>1, <3>3, <3>5 DEF f
  <2>2. CASE ~Clean(f1)
    BY <1>1, <2>2 DEF StampsFit, f
  <2> QED
    BY <2>1, <2>2
<1>3. Clean(e) /\ "pong" \notin e.seen
  BY <1>1, <1>2
<1>4. PICK ts \in Clock : ts = e.ts
  BY DEF Entry
<1>5. PICK nw \in Nat : nw = e.network
  BY DEF Entry
<1>6. /\ ts \in Nat /\ ts > 0 /\ HwOffset \in Nat /\ n \in Nat /\ n - ts < Modulo
      /\ Modulo \in Nat
  BY <1>4, ClientAssumption DEF Clock
<1>7. e.client = ts
  BY <1>3, <1>4 DEF StampsFit
<1>8. calc_time_delta_with_modulo(ts, t) = t - ts
  BY <1>4, <1>6, DeltaIsExact
<1>9. f1.ts = ts /\ f1.client = t - ts
  BY <1>1, <1>4, <1>7, <1>8
<1>10. CASE "cqe" \notin e.seen
  <2>1. nw = 0
    BY <1>3, <1>5, <1>10 DEF StampsFit
  <2>2. f1.network = a + HwOffset
    BY <1>1, <1>5, <2>1
  <2> QED
    BY <1>6, <1>9, <1>10, <2>2
<1>11. CASE "cqe" \in e.seen
  <2>1. ts + HwOffset <= nw /\ nw <= a + HwOffset
    BY <1>3, <1>4, <1>5, <1>11 DEF StampsFit
  <2>2. /\ nw # 0 /\ a + HwOffset \in Nat /\ (a + HwOffset) - nw < Modulo
        /\ (a + HwOffset) - nw <= t - ts
    BY <1>4, <1>6, <2>1
  <2>3. calc_time_delta_with_modulo(nw, a + HwOffset) = (a + HwOffset) - nw
    BY <2>1, <2>2, DeltaIsExact
  <2>4. f1.network = (a + HwOffset) - nw
    BY <1>1, <1>5, <2>2, <2>3
  <2> QED
    BY <1>6, <1>9, <1>11, <2>2, <2>4
<1> QED
  BY <1>10, <1>11

\* update_ack_info leaves the stamps alone.
LEMMA AckRecorded ==
    ASSUME NEW e \in Entry, NEW n \in Clock, StampsFit(e, n),
           NEW r \in Entry, r.ts = e.ts, r.seen = e.seen, r.cnt = e.cnt, r.client = e.client,
           r.network = e.network
    PROVE  LET f == Marked(r, "ack")
           IN  /\ StampsFit(f, n) /\ (Clean(f) => Clean(e))
               /\ f.ts = e.ts /\ f.network = e.network
               /\ f.seen = e.seen \cup {"ack"}
<1> DEFINE f == Marked(r, "ack")
<1>1. "ack" \in Parts
  BY DEF Parts
<1>2. f \in Entry /\ f.ts = e.ts /\ f.seen = e.seen \cup {"ack"}
  BY <1>1, MarkedTyped
<1>3. e.cnt >= Count(e.seen)
  BY DEF StampsFit
<1>4. /\ f.cnt >= Count(f.seen) /\ (Clean(f) => Clean(e))
      /\ f.client = e.client /\ f.network = e.network
  BY <1>1, <1>3, MarkedCount
<1> HIDE DEF f
<1>5. /\ "cqe" \in f.seen <=> "cqe" \in e.seen
      /\ "pong" \in f.seen <=> "pong" \in e.seen
  BY <1>2
<1>6. StampsFit(f, n)
  <2> HIDE DEF Clean
  <2> QED
    BY <1>2, <1>4, <1>5 DEF StampsFit
<1> QED
  BY <1>2, <1>4, <1>6 DEF f

\* logging() of an entry whose parts came once each.
LEMMA ResultFits ==
    ASSUME NEW e \in Entry, NEW n \in Clock, StampsFit(e, n), e.seen = Parts, e.cnt = 3,
           e.network > e.server
    PROVE  ((e.client - e.network) % Word) + (e.network - e.server) + e.server <= n - e.ts
<1>1. Clean(e)
  <2>1. Count(Parts) = 3
    BY DEF Count, Parts
  <2> QED
    BY <2>1 DEF Clean
<1>2. e.ts + e.client <= n /\ e.network <= e.client
  BY <1>1 DEF StampsFit, Parts
<1>3. PICK ts \in Nat : ts = e.ts
  BY ClientAssumption DEF Entry, Clock
<1>4. PICK cl \in Nat : cl = e.client
  BY DEF Entry
<1>5. PICK nw \in Nat : nw = e.network
  BY DEF Entry
<1>6. PICK sv \in Nat : sv = e.server
  BY DEF Entry
<1>7. n \in Nat /\ Word \in Nat \ {0} /\ cl - nw \in Nat
  BY <1>2, <1>4, <1>5, ClientAssumption DEF Clock
<1>8. PICK w \in Nat : w = (cl - nw) % Word /\ w <= cl - nw
  BY <1>7, ModSmaller
<1>9. w + (nw - sv) + sv <= n - ts
  BY <1>2, <1>3, <1>4, <1>5, <1>7, <1>8
<1> QED
  BY <1>3, <1>4, <1>5, <1>6, <1>8, <1>9

-----------------------------------------------------------------------------
(* What a step does to the entries, to what is under way, and to the queue. *)

LEMMA WithoutSays ==
    ASSUME NEW f, NEW x
    PROVE  /\ DOMAIN Without(f, x) = DOMAIN f \ {x}
           /\ \A k \in DOMAIN f \ {x} : Without(f, x)[k] = f[k]
BY DEF Without, Restrict

LEMMA StampsLater ==
    ASSUME NEW e \in Entry, NEW n \in Clock, NEW o \in Clock, n <= o, StampsFit(e, n)
    PROVE  StampsFit(e, o)
<1>1. PICK ts \in Nat : ts = e.ts
  BY ClientAssumption DEF Entry, Clock
<1>2. PICK cl \in Nat : cl = e.client
  BY DEF Entry
<1>3. PICK nw \in Nat : nw = e.network
  BY DEF Entry
<1>4. n \in Nat /\ o \in Nat /\ HwOffset \in Nat
  BY ClientAssumption DEF Clock
<1>5. (ts + cl <= n => ts + cl <= o) /\ (nw <= n + HwOffset => nw <= o + HwOffset)
  BY <1>4
<1> QED
  BY <1>1, <1>2, <1>3, <1>5 DEF StampsFit

\* Entries that stay as they are.
LEMMA FitsMove ==
    ASSUME TableType, AllFit, now \in Clock, now' \in Clock, now <= now',
           \A k \in DOMAIN map' : k \in DOMAIN map /\ map'[k] = map[k],
           \A k \in DOMAIN map' : \A c \in sendCqes' :
               c[1] = k => c \in sendCqes \/ CqeFits(c, map[k]),
           \A k \in DOMAIN map' : \A m \in wire' :
               m.id = k => m \in wire \/ MessageFits(m, map[k]),
           \A k \in DOMAIN map : Posted(k) => Posted(k)'
    PROVE  AllFit'
<1> SUFFICES ASSUME NEW k \in DOMAIN map' PROVE EntryFits(k, map[k])'
  BY DEF AllFit
<1>1. k \in DOMAIN map
  OBVIOUS
<1>2. PICK e \in Entry : e = map[k]
  BY <1>1 DEF TableType
<1>3. e = map'[k]
  BY <1>2
<1>4. /\ StampsFit(e, now) /\ (~Posted(k) => e.seen = {})
      /\ \A c \in sendCqes : c[1] = k => CqeFits(c, e)
      /\ \A m \in wire : m.id = k => MessageFits(m, e)
  BY <1>1, <1>2 DEF AllFit, EntryFits
<1>5. StampsFit(e, now')
  BY <1>4, StampsLater
<1>6. \A c \in sendCqes' : c[1] = k => CqeFits(c, e)
  BY <1>2, <1>4
<1>7. \A m \in wire' : m.id = k => MessageFits(m, e)
  BY <1>2, <1>4
<1>8. ~Posted(k)' => e.seen = {}
  BY <1>1, <1>4
<1> HIDE DEF StampsFit, CqeFits, MessageFits, Posted
<1> QED
  BY <1>3, <1>5, <1>6, <1>7, <1>8 DEF EntryFits

\* One entry is replaced, or leaves.
LEMMA FitsRecorded ==
    ASSUME TableType, AllFit, UNCHANGED <<now, tx>>, sendCqes' \subseteq sendCqes,
           wire' \subseteq wire, NEW id \in DOMAIN map, NEW e, StampsFit(e, now),
           \A c \in sendCqes' : c[1] = id => CqeFits(c, e),
           \A m \in wire' : m.id = id => MessageFits(m, e),
           Posted(id), map' = [map EXCEPT ![id] = e] \/ map' = Without(map, id)
    PROVE  AllFit'
<1> SUFFICES ASSUME NEW k \in DOMAIN map' PROVE EntryFits(k, map[k])'
  BY DEF AllFit
<1>1. k \in DOMAIN map /\ (map'[k] = map[k] \/ (k = id /\ map'[k] = e))
  <2>1. CASE map' = [map EXCEPT ![id] = e]
    BY <2>1
  <2>2. CASE map' = Without(map, id)
    BY <2>2, WithoutSays
  <2> QED
    BY <2>1, <2>2
<1>2. now' = now /\ (Posted(k)' <=> Posted(k))
  BY DEF tx, Posted
<1>3. CASE map'[k] = map[k]
  <2>1. PICK d : d = map[k]
    OBVIOUS
  <2>2. /\ StampsFit(d, now) /\ (~Posted(k) => d.seen = {})
        /\ \A c \in sendCqes : c[1] = k => CqeFits(c, d)
        /\ \A m \in wire : m.id = k => MessageFits(m, d)
    BY <1>1, <2>1 DEF AllFit, EntryFits
  <2> QED
    BY <1>2, <1>3, <2>1, <2>2 DEF EntryFits
<1>4. CASE k = id /\ map'[k] = e
  <2>1. Posted(k)'
    BY <1>2, <1>4
  <2> QED
    BY <1>2, <1>4, <2>1 DEF EntryFits
<1> QED
  BY <1>1, <1>3, <1>4

LEMMA WayShrinks ==
    ASSUME WayInv, UNCHANGED <<now, tx, serving>>, sendCqes' \subseteq sendCqes, wire' \subseteq wire
    PROVE  WayInv'
<1>1. \A k : Posted(k)' <=> Posted(k)
  BY DEF tx, Posted
<1> HIDE DEF Posted
<1> QED
  BY <1>1 DEF WayInv, tx

Fits(r, n) == r.kind = "success" => r.client + r.network + r.server <= n - r.sent

LEMMA DelaysKept ==
    ASSUME queue \in Seq(Result), DelaysFit, now \in Clock, now' \in Clock, now <= now',
           \/ queue' = queue
           \/ queue # <<>> /\ queue' = Tail(queue)
           \/ \E r \in Result : queue' = Append(queue, r) /\ Fits(r, now)
    PROVE  DelaysFit'
<1>1. PICK q \in Seq(Result) : q = queue
  OBVIOUS
<1>2. Len(q) \in Nat /\ \A i \in 1 .. Len(q) : q[i] \in Result /\ Fits(q[i], now)
  BY <1>1 DEF DelaysFit, Fits
<1>3. \A r \in Result : Fits(r, now) => Fits(r, now')
  <2> SUFFICES ASSUME NEW r \in Result, Fits(r, now), r.kind = "success"
               PROVE  r.client + r.network + r.server <= now' - r.sent
    BY DEF Fits
  <2>1. PICK s \in Int : s = r.client + r.network + r.server
    BY DEF Result
  <2>2. s <= now - r.sent /\ r.sent \in Int /\ now \in Int /\ now' \in Int
    BY <2>1, ClientAssumption DEF Fits, Result, Clock
  <2> QED
    BY <2>1, <2>2
<1>4. PICK p : p = queue' /\ \A i \in 1 .. Len(p) : p[i] \in Result /\ Fits(p[i], now)
  <2>1. CASE queue' = queue
    BY <1>1, <1>2, <2>1
  <2>2. CASE queue # <<>> /\ queue' = Tail(queue)
    <3>1. Len(Tail(q)) = Len(q) - 1 /\ \A i \in 1 .. Len(q) - 1 : Tail(q)[i] = q[i + 1]
      BY <1>1, <2>2
    <3>2. \A i \in 1 .. Len(q) - 1 : i + 1 \in 1 .. Len(q)
      BY <1>2
    <3>3. \A i \in 1 .. Len(Tail(q)) : Tail(q)[i] \in Result /\ Fits(Tail(q)[i], now)
      BY <1>2, <3>1, <3>2
    <3> QED
      BY <1>1, <2>2, <3>3
  <2>3. CASE \E r \in Result : queue' = Append(queue, r) /\ Fits(r, now)
    <3>1. PICK r \in Result : queue' = Append(queue, r) /\ Fits(r, now)
      BY <2>3
    <3>2. /\ Len(Append(q, r)) = Len(q) + 1 /\ Append(q, r)[Len(q) + 1] = r
          /\ \A i \in 1 .. Len(q) : Append(q, r)[i] = q[i]
      OBVIOUS
    <3>3. ASSUME NEW i \in 1 .. Len(Append(q, r))
          PROVE  Append(q, r)[i] \in Result /\ Fits(Append(q, r)[i], now)
      <4>1. i \in 1 .. Len(q) \/ i = Len(q) + 1
        BY <1>2, <3>2
      <4> QED
        BY <1>2, <3>1, <3>2, <4>1
    <3> QED
      BY <1>1, <3>1, <3>3
  <2> QED
    BY <2>1, <2>2, <2>3
<1>5. \A i \in 1 .. Len(p) : Fits(p[i], now')
  BY <1>3, <1>4
<1> QED
  BY <1>4, <1>5 DEF DelaysFit, Fits

QueueMoves ==
    \/ queue' = queue
    \/ \E r \in Result : queue' = Append(queue, r) /\ Fits(r, now)

LEMMA EnqueueMoves ==
    ASSUME TableType, NEW id \in DOMAIN map, NEW kind \in Counted,
           NEW client \in Nat, NEW network \in Nat, NEW server \in Nat,
           Enqueue(id, kind, client, network, server),
           kind = "success" => client + network + server <= now - map[id].ts
    PROVE  QueueMoves
<1>1. CASE Len(queue) < QueueSize
  <2> DEFINE r == [id |-> id, kind |-> kind, sent |-> map[id].ts,
                   client |-> client, network |-> network, server |-> server]
  <2>1. queue' = Append(queue, r)
    BY <1>1 DEF Enqueue
  <2>2. map[id].ts \in Clock /\ id \in Ids
    BY DEF TableType, Entry
  <2>3. r \in Result
    BY <2>2 DEF Result
  <2>4. Fits(r, now)
    BY DEF Fits
  <2> QED
    BY <2>1, <2>3, <2>4 DEF QueueMoves
<1>2. CASE ~(Len(queue) < QueueSize)
  BY <1>2 DEF Enqueue, QueueMoves
<1> QED
  BY <1>1, <1>2

LEMMA RecordMoves ==
    ASSUME TableType, NEW id \in DOMAIN map, NEW e \in Entry, e.ts = map[id].ts,
           now \in Clock, StampsFit(e, now), Record(id, e)
    PROVE  (map' = [map EXCEPT ![id] = e] \/ map' = Without(map, id)) /\ QueueMoves
<1>1. CASE e.seen # Parts
  BY <1>1 DEF Record, QueueMoves
<1>2. CASE e.seen = Parts /\ e.cnt # 3
  BY <1>2 DEF Record, Erase, QueueMoves
<1>3. CASE e.seen = Parts /\ e.cnt = 3
  <2> DEFINE kind == IF e.network <= e.server THEN "weird" ELSE "success"
  <2> DEFINE c == (e.client - e.network) % Word
  <2> DEFINE n == IF e.network > e.server THEN e.network - e.server ELSE e.network
  <2>1. Enqueue(id, kind, c, n, e.server) /\ Erase(id)
    BY <1>3 DEF Record
  <2>2. e.server \in Nat /\ e.network \in Nat /\ e.client \in Nat
    BY DEF Entry
  <2>3. c \in Nat /\ n \in Nat
    <3>1. e.client - e.network \in Int /\ Word \in Nat \ {0}
      BY <2>2, ClientAssumption
    <3>2. c \in Nat
      BY <3>1, ModNat
    <3> QED
      BY <2>2, <3>2
  <2>4. kind \in Counted
    BY DEF Counted
  <2>5. kind = "success" => c + n + e.server <= now - map[id].ts
    <3> SUFFICES ASSUME kind = "success" PROVE c + n + e.server <= now - map[id].ts
      OBVIOUS
    <3>1. e.network > e.server
      BY <2>2
    <3>2. n = e.network - e.server
      BY <3>1
    <3>3. c + (e.network - e.server) + e.server <= now - e.ts
      BY <1>3, <3>1, ResultFits
    <3> HIDE DEF c, n
    <3> QED
      BY <3>2, <3>3
  <2> HIDE DEF kind, c, n
  <2>6. QueueMoves
    BY <2>1, <2>2, <2>3, <2>4, <2>5, EnqueueMoves
  <2> QED
    BY <2>1, <2>6 DEF Erase
<1> QED
  BY <1>1, <1>2, <1>3

\* A table that is left alone.
LEMMA IdleFits ==
    ASSUME TableType, AllFit, WayInv, DelaysFit, now \in Clock, UNCHANGED <<now, tx, serving>>,
           UNCHANGED <<table, queue>>, sendCqes' \subseteq sendCqes, wire' \subseteq wire
    PROVE  AllFit' /\ WayInv' /\ DelaysFit'
<1>1. map' = map /\ queue' = queue /\ now' = now
  BY DEF table
<1>2. \A k : Posted(k)' <=> Posted(k)
  BY DEF tx, Posted
<1>3. now <= now' /\ now' \in Clock
  BY <1>1, ClientAssumption DEF Clock
<1>4. AllFit'
  BY <1>1, <1>2, <1>3, FitsMove
<1>5. DelaysFit'
  BY <1>1, <1>3, DelaysKept DEF TableType
<1> QED
  BY <1>4, <1>5, WayShrinks

\* One of the update functions records a part in an entry that is there.
LEMMA RecordFits ==
    ASSUME TableType, AllFit, WayInv, DelaysFit, now \in Clock, UNCHANGED <<now, tx, serving>>,
           sendCqes' \subseteq sendCqes, wire' \subseteq wire,
           NEW id \in DOMAIN map, NEW f \in Entry, f.ts = map[id].ts, StampsFit(f, now),
           \A c \in sendCqes' : c[1] = id => CqeFits(c, f),
           \A m \in wire' : m.id = id => MessageFits(m, f),
           Posted(id), Record(id, f)
    PROVE  AllFit' /\ WayInv' /\ DelaysFit'
<1> HIDE DEF StampsFit, CqeFits, MessageFits, Posted
<1>1. (map' = [map EXCEPT ![id] = f] \/ map' = Without(map, id)) /\ QueueMoves
  BY RecordMoves
<1>2. AllFit'
  BY <1>1, FitsRecorded
<1>3. WayInv'
  BY WayShrinks
<1>4. DelaysFit'
  <2>1. now <= now' /\ now' \in Clock /\ queue \in Seq(Result)
    BY ClientAssumption DEF Clock, TableType
  <2> QED
    BY <1>1, <2>1, DelaysKept DEF QueueMoves
<1> QED
  BY <1>2, <1>3, <1>4

\* What is known of an entry and of what is under way to it.
LEMMA FitsSays ==
    ASSUME AllFit, NEW id \in DOMAIN map, NEW e, e = map[id]
    PROVE  /\ StampsFit(e, now) /\ (\A d \in sendCqes : d[1] = id => CqeFits(d, e))
           /\ \A m \in wire : m.id = id => MessageFits(m, e)
BY DEF AllFit, EntryFits

LEMMA TxCqeFits ==
    ASSUME ClientInv, Young, AllFit, WayInv, DelaysFit, TxCqe
    PROVE  AllFit' /\ WayInv' /\ DelaysFit'
<1>1. TableType /\ TableInv /\ ThreadType
  BY DEF ClientInv, TypeOK
<1>2. PICK c \in sendCqes : update_ping_cqe_time(c[1], c[2]) /\ sendCqes' = sendCqes \ {c}
  BY DEF TxCqe
<1>3. UNCHANGED <<now, tx, serving>> /\ wire' = wire /\ sendCqes' \subseteq sendCqes
  BY <1>2 DEF TxCqe, net
<1>4. c[2] \in Nat /\ now \in Clock
  BY <1>1 DEF ThreadType
<1>5. PICK id : id = c[1]
  OBVIOUS
<1>6. CASE NoEntry(id)
  BY <1>1, <1>3, <1>4, <1>6, IdleFits DEF NoEntry
<1>7. CASE id \in DOMAIN map
  <2>1. PICK e \in Entry : e = map[id]
    BY <1>1, <1>7 DEF TableType
  <2>2. PICK n \in Nat :
           n = IF e.network = 0 THEN c[2] ELSE calc_time_delta_with_modulo(c[2], e.network)
    BY <1>4, DeltaNat DEF Entry
  <2>3. PICK r \in Entry :
           /\ r = [e EXCEPT !.network = n]
           /\ r.ts = e.ts /\ r.seen = e.seen /\ r.cnt = e.cnt /\ r.client = e.client /\ r.network = n
    <3> DEFINE r == [e EXCEPT !.network = n]
    <3>1. r \in Entry
      BY <2>2, EntryField
    <3>2. r.ts = e.ts /\ r.seen = e.seen /\ r.cnt = e.cnt /\ r.client = e.client /\ r.network = n
      BY DEF Entry
    <3> QED
      BY <3>1, <3>2
  <2>4. PICK f : f = Marked(r, "cqe")
    OBVIOUS
  <2>5. f \in Entry /\ f.ts = e.ts /\ f.seen = e.seen \cup {"cqe"}
    <3>1. "cqe" \in Parts
      BY DEF Parts
    <3> QED
      BY <2>3, <2>4, <3>1, MarkedTyped
  <2>6. Record(id, f)
    BY <1>2, <1>5, <1>7, <2>1, <2>2, <2>3, <2>4 DEF update_ping_cqe_time, NoEntry
  <2>7. /\ StampsFit(e, now) /\ (\A d \in sendCqes : d[1] = id => CqeFits(d, e))
        /\ \A m \in wire : m.id = id => MessageFits(m, e)
    BY <1>7, <2>1, FitsSays
  <2>8. /\ Posted(id) /\ c[2] <= now + HwOffset
        /\ \A d \in sendCqes : d[1] = id => d = c
        /\ \A m \in wire : m.id = id /\ m.kind # "ack" => c[2] <= m.at + HwOffset
    BY <1>2, <1>5 DEF WayInv
  <2>9. CqeFits(c, e)
    BY <1>2, <1>5, <2>7
  <2>10. StampsFit(f, now) /\ (Clean(f) /\ "pong" \notin f.seen => f.network = c[2])
    <3> HIDE DEF StampsFit, CqeFits, Clean
    <3>1. PICK n0 \in Clock : n0 = now
      BY <1>4
    <3>2. StampsFit(e, n0) /\ c[2] <= n0 + HwOffset /\ n0 - e.ts < Modulo
      BY <1>7, <2>1, <2>7, <2>8, <3>1 DEF Young
    <3>3. r.network = IF e.network = 0 THEN c[2]
                      ELSE calc_time_delta_with_modulo(c[2], e.network)
      BY <2>2, <2>3
    <3>4. LET g == Marked(r, "cqe")
          IN  /\ StampsFit(g, n0)
              /\ Clean(g) /\ "pong" \notin g.seen => g.network = c[2]
      BY <1>4, <2>3, <2>9, <3>2, <3>3, CqeRecorded
    <3> QED
      BY <2>4, <3>1, <3>4
  <2>11. \A d \in sendCqes' : d[1] = id => CqeFits(d, f)
    BY <1>2, <2>8
  <2>12. \A m \in wire' : m.id = id => MessageFits(m, f)
    BY <1>3, <2>5, <2>7, <2>8, <2>10 DEF MessageFits
  <2> HIDE DEF StampsFit, CqeFits, MessageFits, Posted
  <2> QED
    BY <1>1, <1>3, <1>4, <1>7, <2>1, <2>5, <2>6, <2>8, <2>10, <2>11, <2>12, RecordFits
<1> QED
  BY <1>2, <1>5, <1>6, <1>7 DEF update_ping_cqe_time

\* update_pong_info: PONG m arrived at a, the rx thread read the clock at t.
LEMMA PongFits ==
    ASSUME ClientInv, Young, HwTs, AllFit, WayInv, DelaysFit,
           NEW m \in wire, m.kind = "pong", NEW a \in m.at .. now, NEW t \in m.at .. now, a <= t,
           update_pong_info(m.id, t, a + HwOffset),
           UNCHANGED <<now, tx, serving>>, wire' \subseteq wire, sendCqes' \subseteq sendCqes
    PROVE  AllFit' /\ WayInv' /\ DelaysFit'
<1>1. TableType /\ TableInv /\ ThreadType
  BY DEF ClientInv, TypeOK
<1>2. now \in Clock /\ m \in Message /\ m.at \in Clock
  BY <1>1 DEF ThreadType, Message
<1>3. PICK id : id = m.id
  OBVIOUS
<1>4. PICK at \in Clock : at = m.at
  BY <1>2
<1>5. PICK n0 \in Clock : n0 = now
  BY <1>2
<1>6. a \in Nat /\ t \in Nat /\ at <= a /\ t <= n0 /\ HwOffset \in Nat /\ at \in Nat /\ n0 \in Nat
  BY <1>4, <1>5, ClientAssumption DEF Clock
<1>7. CASE NoEntry(id)
  BY <1>1, <1>2, <1>7, IdleFits DEF NoEntry
<1>8. CASE id \in DOMAIN map
  <2>1. PICK e \in Entry : e = map[id]
    BY <1>1, <1>8 DEF TableType
  <2>2. e.client \in Nat /\ e.network \in Nat /\ a + HwOffset \in Nat /\ e.ts \in Nat
    BY <1>6, ClientAssumption DEF Entry, Clock
  <2>3. PICK cl \in Nat : cl = calc_time_delta_with_modulo(e.client, t)
    BY <1>6, <2>2, DeltaNat
  <2>4. PICK nw \in Nat :
           nw = IF e.network # 0 THEN calc_time_delta_with_modulo(e.network, a + HwOffset)
                ELSE a + HwOffset
    BY <1>6, <2>2, DeltaNat
  <2>5. PICK r1 \in Entry :
           /\ r1 = [e EXCEPT !.client = cl]
           /\ r1.ts = e.ts /\ r1.seen = e.seen /\ r1.cnt = e.cnt /\ r1.client = cl
           /\ r1.network = e.network
    <3> DEFINE r == [e EXCEPT !.client = cl]
    <3>1. r \in Entry
      BY <2>3, EntryField
    <3>2. r.ts = e.ts /\ r.seen = e.seen /\ r.cnt = e.cnt /\ r.client = cl /\ r.network = e.network
      BY DEF Entry
    <3> QED
      BY <3>1, <3>2
  <2>6. PICK r \in Entry :
           /\ r = [r1 EXCEPT !.network = nw]
           /\ r.ts = e.ts /\ r.seen = e.seen /\ r.cnt = e.cnt /\ r.client = cl /\ r.network = nw
    <3> DEFINE r == [r1 EXCEPT !.network = nw]
    <3>1. r \in Entry
      BY <2>4, EntryField
    <3>2. r.ts = r1.ts /\ r.seen = r1.seen /\ r.cnt = r1.cnt /\ r.client = r1.client /\ r.network = nw
      BY DEF Entry
    <3> QED
      BY <2>5, <3>1, <3>2
  <2>7. PICK f : f = Marked(r, "pong")
    OBVIOUS
  <2>8. f \in Entry /\ f.ts = e.ts /\ f.seen = e.seen \cup {"pong"}
    <3>1. "pong" \in Parts
      BY DEF Parts
    <3> QED
      BY <2>6, <2>7, <3>1, MarkedTyped
  <2>9. Record(id, f)
    <3>1. r = [e EXCEPT !.client = cl, !.network = nw]
      BY <2>5, <2>6
    <3> QED
      BY <1>3, <1>8, <2>1, <2>3, <2>4, <2>7, <3>1 DEF update_pong_info, NoEntry
  <2>10. /\ StampsFit(e, now) /\ (\A d \in sendCqes : d[1] = id => CqeFits(d, e))
         /\ \A k \in wire : k.id = id => MessageFits(k, e)
    BY <1>8, <2>1, FitsSays
  <2>11. /\ Posted(id)
         /\ \A d \in sendCqes : d[1] = id => d[2] <= at + HwOffset
    BY <1>3, <1>4 DEF WayInv
  <2>12. /\ e.ts <= at
         /\ Clean(e) /\ "cqe" \in e.seen /\ "pong" \notin e.seen => e.network <= at + HwOffset
    BY <1>3, <1>4, <2>10 DEF MessageFits
  <2>13. StampsFit(f, now) /\ (Clean(f) /\ "cqe" \notin f.seen => f.network = a + HwOffset)
    <3>1. e.ts <= a
      BY <1>6, <2>2, <2>12
    <3>2. Clean(e) /\ "cqe" \in e.seen /\ "pong" \notin e.seen => e.network <= a + HwOffset
      BY <1>6, <2>2, <2>12
    <3> HIDE DEF StampsFit, Clean
    <3>3. StampsFit(e, n0)
      BY <1>5, <2>10
    <3>4. r.client = calc_time_delta_with_modulo(e.client, t)
      BY <2>3, <2>6
    <3>5. r.network = IF e.network # 0
                      THEN calc_time_delta_with_modulo(e.network, a + HwOffset) ELSE a + HwOffset
      BY <2>4, <2>6
    <3>6. LET g == Marked(r, "pong")
          IN  /\ StampsFit(g, n0)
              /\ Clean(g) /\ "cqe" \notin g.seen => g.network = a + HwOffset
      <4>1. /\ r \in Entry /\ e \in Entry /\ n0 \in Clock /\ a \in Nat /\ t \in Nat /\ a <= t /\ t <= n0
            /\ r.ts = e.ts /\ r.seen = e.seen /\ r.cnt = e.cnt /\ n0 - e.ts < Modulo
        BY <1>5, <1>6, <1>8, <2>1, <2>6 DEF Young
      <4> HIDE DEF calc_time_delta_with_modulo, Marked
      <4> QED
        BY ONLY <4>1, <3>1, <3>2, <3>3, <3>4, <3>5, PongRecorded, SMTT(30)
    <3> QED
      BY <1>5, <2>7, <3>6
  <2>14. \A d \in sendCqes' : d[1] = id => CqeFits(d, f)
    <3> SUFFICES ASSUME NEW d \in sendCqes, d[1] = id PROVE CqeFits(d, f)
      OBVIOUS
    <3>1. "cqe" \notin e.seen /\ e.ts + HwOffset <= d[2]
      BY <2>10 DEF CqeFits
    <3>2. PICK x \in Nat : x = d[2]
      BY <1>1 DEF ThreadType
    <3>3. x <= a + HwOffset
      BY <1>6, <2>11, <3>2
    <3>4. "cqe" \notin f.seen
      BY <2>8, <3>1
    <3>5. Clean(f) => d[2] <= f.network
      BY <2>13, <3>2, <3>3, <3>4
    <3> QED
      BY <2>8, <3>1, <3>4, <3>5 DEF CqeFits
  <2>15. \A k \in wire' : k.id = id => MessageFits(k, f)
    BY <2>8, <2>10 DEF MessageFits
  <2> HIDE DEF StampsFit, CqeFits, MessageFits, Posted
  <2> QED
    BY <1>1, <1>2, <1>8, <2>1, <2>8, <2>9, <2>11, <2>13, <2>14, <2>15, RecordFits
<1> QED
  BY <1>3, <1>7, <1>8 DEF update_pong_info

\* update_ack_info.
LEMMA AckFits ==
    ASSUME ClientInv, AllFit, WayInv, DelaysFit,
           NEW m \in wire, m.kind = "ack", update_ack_info(m.id, m.delay),
           UNCHANGED <<now, tx, serving>>, wire' \subseteq wire, sendCqes' \subseteq sendCqes
    PROVE  AllFit' /\ WayInv' /\ DelaysFit'
<1>1. TableType /\ TableInv /\ ThreadType
  BY DEF ClientInv, TypeOK
<1>2. now \in Clock /\ m \in Message /\ m.delay \in Nat
  BY <1>1 DEF ThreadType, Message
<1>3. PICK id : id = m.id
  OBVIOUS
<1>4. PICK sv \in Nat : sv = m.delay
  BY <1>2
<1>5. CASE NoEntry(id)
  BY <1>1, <1>2, <1>5, IdleFits DEF NoEntry
<1>6. CASE id \in DOMAIN map
  <2>1. PICK e \in Entry : e = map[id]
    BY <1>1, <1>6 DEF TableType
  <2>2. PICK r \in Entry :
           /\ r = [e EXCEPT !.server = sv]
           /\ r.ts = e.ts /\ r.seen = e.seen /\ r.cnt = e.cnt /\ r.client = e.client
           /\ r.network = e.network
    <3> DEFINE r == [e EXCEPT !.server = sv]
    <3>1. r \in Entry
      BY EntryField
    <3>2. r.ts = e.ts /\ r.seen = e.seen /\ r.cnt = e.cnt /\ r.client = e.client /\ r.network = e.network
      BY DEF Entry
    <3> QED
      BY <3>1, <3>2
  <2>3. PICK f : f = Marked(r, "ack")
    OBVIOUS
  <2>4. f \in Entry
    <3>1. "ack" \in Parts
      BY DEF Parts
    <3> QED
      BY <2>2, <2>3, <3>1, MarkedTyped
  <2>5. Record(id, f)
    BY <1>3, <1>4, <1>6, <2>1, <2>2, <2>3 DEF update_ack_info, NoEntry
  <2>6. /\ StampsFit(e, now) /\ (\A d \in sendCqes : d[1] = id => CqeFits(d, e))
        /\ \A k \in wire : k.id = id => MessageFits(k, e)
    BY <1>6, <2>1, FitsSays
  <2>7. /\ StampsFit(f, now) /\ (Clean(f) => Clean(e))
        /\ f.ts = e.ts /\ f.network = e.network
        /\ f.seen = e.seen \cup {"ack"}
    <3> HIDE DEF StampsFit, Clean
    <3>1. PICK n0 \in Clock : n0 = now
      BY <1>2
    <3>2. StampsFit(e, n0)
      BY <2>6, <3>1
    <3>3. LET g == Marked(r, "ack")
          IN  /\ StampsFit(g, n0) /\ (Clean(g) => Clean(e))
              /\ g.ts = e.ts /\ g.network = e.network
              /\ g.seen = e.seen \cup {"ack"}
      BY <2>2, <3>2, AckRecorded
    <3> QED
      BY <2>3, <3>1, <3>3
  <2>8. Posted(id)
    BY <1>3 DEF WayInv
  <2>9. \A d \in sendCqes' : d[1] = id => CqeFits(d, f)
    BY <2>6, <2>7 DEF CqeFits
  <2>10. \A k \in wire' : k.id = id => MessageFits(k, f)
    BY <2>6, <2>7 DEF MessageFits
  <2> HIDE DEF StampsFit, CqeFits, MessageFits, Posted
  <2> QED
    BY <1>1, <1>2, <1>6, <2>1, <2>4, <2>5, <2>7, <2>8, <2>9, <2>10, RecordFits
<1> QED
  BY <1>3, <1>5, <1>6 DEF update_ack_info

LEMMA RxHandleFits ==
    ASSUME ClientInv, Young, HwTs, AllFit, WayInv, DelaysFit,
           NEW again \in BOOLEAN, RxHandle(again)
    PROVE  AllFit' /\ WayInv' /\ DelaysFit'
<1>1. UNCHANGED <<now, tx, serving, sendCqes>>
  BY DEF RxHandle
<1>2. PICK m \in wire :
         /\ \/ /\ m.kind = "pong"
               /\ \E arrival, recv_time \in m.at .. now :
                     /\ arrival <= recv_time
                     /\ update_pong_info(m.id, recv_time,
                                         IF HwTs THEN arrival + HwOffset ELSE recv_time)
            \/ /\ m.kind = "ack"
               /\ update_ack_info(m.id, m.delay)
         /\ wire' = IF again THEN wire ELSE wire \ {m}
  BY DEF RxHandle
<1>3. wire' \subseteq wire
  BY <1>2
<1>4. CASE m.kind = "pong"
  <2>1. PICK a \in m.at .. now, t \in m.at .. now :
           a <= t /\ update_pong_info(m.id, t, a + HwOffset)
    BY <1>2, <1>4
  <2> QED
    BY <1>1, <1>3, <1>4, <2>1, PongFits
<1>5. CASE m.kind = "ack"
  BY <1>1, <1>2, <1>3, <1>5, AckFits
<1> QED
  BY <1>2, <1>4, <1>5

\* Steps that do not touch sendCqes.
LEMMA WayMoves ==
    ASSUME ThreadType, WayInv, now' \in Clock, now <= now', sendCqes' = sendCqes,
           txpc' \notin {"stamp", "update"}, \A k \in Ids : Posted(k) => Posted(k)',
           \A m \in wire' :
               \/ m \in wire
               \/ /\ Posted(m.id)'
                  /\ m.kind # "ack" =>
                        \A c \in sendCqes : c[1] = m.id => c[2] <= m.at + HwOffset,
           \A i \in DOMAIN serving' : i \in DOMAIN serving \/ Posted(i)'
    PROVE  WayInv'
<1> HIDE DEF Posted
<1>1. /\ \A m \in wire : m.id \in Ids
      /\ \A i \in DOMAIN serving : i \in Ids
      /\ \A c \in sendCqes : c[1] \in Ids /\ c[2] \in Nat
  BY DEF ThreadType, Message
<1>2. \A c \in sendCqes' : Posted(c[1])' /\ c[2] <= now' + HwOffset
  <2> SUFFICES ASSUME NEW c \in sendCqes PROVE Posted(c[1])' /\ c[2] <= now' + HwOffset
    OBVIOUS
  <2>1. Posted(c[1]) /\ c[2] <= now + HwOffset
    BY DEF WayInv
  <2>2. PICK n \in Nat : n = now
    BY ClientAssumption DEF ThreadType, Clock
  <2>3. PICK o \in Nat : o = now'
    BY ClientAssumption DEF Clock
  <2>4. c[2] <= n + HwOffset /\ n <= o /\ c[2] \in Nat /\ HwOffset \in Nat
    BY <1>1, <2>1, <2>2, <2>3, ClientAssumption
  <2>5. c[2] <= o + HwOffset
    BY <2>4
  <2> QED
    BY <1>1, <2>1, <2>3, <2>5
<1>3. \A c, d \in sendCqes' : c[1] = d[1] => c = d
  BY DEF WayInv
<1>4. \A c \in sendCqes', m \in wire' : c[1] = m.id /\ m.kind # "ack" => c[2] <= m.at + HwOffset
  BY DEF WayInv
<1>5. \A m \in wire' : Posted(m.id)'
  BY <1>1 DEF WayInv
<1>6. \A i \in DOMAIN serving' : Posted(i)'
  BY <1>1 DEF WayInv
<1> QED
  BY <1>2, <1>3, <1>4, <1>5, <1>6 DEF WayInv

\* Steps that leave the table and the queue alone.
LEMMA OutsideFits ==
    ASSUME ClientInv, AllFit, WayInv, DelaysFit, UNCHANGED <<table, queue>>,
           now' \in Clock, now <= now', sendCqes' = sendCqes,
           txpc' \notin {"stamp", "update"}, \A k \in Ids : Posted(k) => Posted(k)',
           \A m \in wire' :
               \/ m \in wire
               \/ /\ Posted(m.id)'
                  /\ m.kind # "ack" =>
                        \A c \in sendCqes : c[1] = m.id => c[2] <= m.at + HwOffset
                  /\ \A k \in DOMAIN map : m.id = k => MessageFits(m, map[k]),
           \A i \in DOMAIN serving' : i \in DOMAIN serving \/ Posted(i)'
    PROVE  AllFit' /\ WayInv' /\ DelaysFit'
<1> HIDE DEF Posted, MessageFits
<1>1. TableType /\ ThreadType /\ map' = map /\ queue' = queue
  BY DEF ClientInv, TypeOK, table
<1>2. now \in Clock /\ queue \in Seq(Result) /\ \A k \in DOMAIN map : k \in Ids
  BY <1>1 DEF ThreadType, TableType
<1>3. AllFit'
  <2>1. \A k \in DOMAIN map' : k \in DOMAIN map /\ map'[k] = map[k]
    BY <1>1
  <2>2. \A k \in DOMAIN map' : \A c \in sendCqes' : c[1] = k => c \in sendCqes
    OBVIOUS
  <2>3. \A k \in DOMAIN map' : \A m \in wire' : m.id = k => m \in wire \/ MessageFits(m, map[k])
    BY <1>1
  <2>4. \A k \in DOMAIN map : Posted(k) => Posted(k)'
    BY <1>2
  <2> QED
    BY <1>1, <1>2, <2>1, <2>2, <2>3, <2>4, FitsMove
<1>4. WayInv'
  BY <1>1, WayMoves
<1>5. DelaysFit'
  BY <1>1, <1>2, DelaysKept
<1> QED
  BY <1>3, <1>4, <1>5

\* scheduler.next and the failure of post_send.
LEMMA TxNextFits ==
    ASSUME ClientInv, AllFit, WayInv, DelaysFit, TxNext \/ TxPostFail
    PROVE  AllFit' /\ WayInv' /\ DelaysFit'
<1>1. /\ UNCHANGED <<table, queue>> /\ now' = now /\ sendCqes' = sendCqes /\ wire' = wire
      /\ serving' = serving /\ txpc' \notin {"stamp", "update"}
  BY DEF TxNext, TxPostFail, net
<1>2. ThreadType /\ now' \in Clock /\ now <= now'
  BY <1>1, ClientAssumption DEF ClientInv, TypeOK, ThreadType, Clock
<1>3. ASSUME NEW k \in Ids, Posted(k) PROVE Posted(k)'
  <2>1. k \in Int /\ uid \in Int
    BY <1>2, ClientAssumption DEF Ids, ThreadType
  <2>2. CASE TxNext
    <3>1. txId' = uid /\ uid' = uid + 1 /\ k < uid
      BY <1>3, <2>2 DEF TxNext, Posted
    <3>2. PICK u \in Int : u = uid
      BY <2>1
    <3>3. k < u + 1 /\ k # u
      BY <2>1, <3>1, <3>2
    <3> QED
      BY <3>1, <3>2, <3>3 DEF Posted
  <2>3. CASE TxPostFail
    BY <1>3, <2>3 DEF TxPostFail, Posted
  <2> QED
    BY <2>2, <2>3
<1> QED
  BY <1>1, <1>2, <1>3, OutsideFits

\* expireEntries.
LEMMA TxExpireFits ==
    ASSUME ClientInv, AllFit, WayInv, DelaysFit, TxExpire
    PROVE  AllFit' /\ WayInv' /\ DelaysFit'
<1>1. UNCHANGED <<now, tx, serving>> /\ sendCqes' = sendCqes /\ wire' = wire
  BY DEF TxExpire, net
<1>2. TableType /\ ThreadType /\ now \in Clock /\ now' = now /\ now <= now' /\ queue \in Seq(Result)
  BY <1>1, ClientAssumption DEF ClientInv, TypeOK, TableType, ThreadType, Clock
<1>3. PICK id : id = Head(keyList)
  OBVIOUS
<1>4. map' = Without(map, id)
  BY <1>3 DEF TxExpire
<1>5. \A k : Posted(k)' <=> Posted(k)
  BY <1>1 DEF tx, Posted
<1>6. AllFit'
  <2>1. \A k \in DOMAIN map' : k \in DOMAIN map /\ map'[k] = map[k]
    BY <1>4, WithoutSays
  <2> HIDE DEF Posted
  <2> QED
    BY <1>1, <1>2, <1>5, <2>1, FitsMove
<1>7. WayInv'
  BY <1>1, WayShrinks
<1>8. QueueMoves
  <2>1. CASE id \notin DOMAIN map
    BY <1>3, <2>1 DEF TxExpire, QueueMoves
  <2>2. CASE id \in DOMAIN map /\ map[id].cnt >= 3
    BY <1>3, <2>2 DEF TxExpire, QueueMoves
  <2>3. CASE id \in DOMAIN map /\ ~(map[id].cnt >= 3)
    <3>1. Enqueue(id, "failure", 0, 0, 0)
      BY <1>3, <2>3 DEF TxExpire
    <3>2. "failure" \in Counted /\ "failure" # "success" /\ 0 \in Nat
      BY DEF Counted
    <3> QED
      BY <1>2, <2>3, <3>1, <3>2, EnqueueMoves
  <2> QED
    BY <2>1, <2>2, <2>3
<1>9. DelaysFit'
  BY <1>2, <1>8, DelaysKept DEF QueueMoves
<1> QED
  BY <1>6, <1>7, <1>9

\* The ping that insert() adds has not been posted: nothing is under way to it.
LEMMA TxInsertFits ==
    ASSUME ClientInv, AllFit, WayInv, DelaysFit, TxInsert
    PROVE  AllFit' /\ WayInv' /\ DelaysFit'
<1>1. /\ UNCHANGED <<now, queue, uid, txId, serving>> /\ sendCqes' = sendCqes /\ wire' = wire
      /\ txpc = "expire" /\ txpc' = "post"
  BY DEF TxInsert, net
<1>2. TableType /\ ThreadType /\ now \in Clock /\ now <= now' /\ queue \in Seq(Result)
  BY <1>1, ClientAssumption DEF ClientInv, TypeOK, TableType, ThreadType, Clock
<1>3. (\A k : Posted(k)' <=> Posted(k)) /\ ~Posted(txId)
  BY <1>1 DEF Posted
<1>4. AllFit'
  <2> SUFFICES ASSUME NEW k \in DOMAIN map' PROVE EntryFits(k, map[k])'
    BY DEF AllFit
  <2>1. PICK e : e = map'[k]
    OBVIOUS
  <2>2. \/ k \in DOMAIN map /\ e = map[k]
        \/ k = txId /\ e = NewEntry
    BY <2>1 DEF TxInsert, table
  <2>3. CASE k \in DOMAIN map /\ e = map[k]
    <3> HIDE DEF Posted
    <3>1. /\ StampsFit(e, now) /\ (~Posted(k) => e.seen = {})
          /\ \A c \in sendCqes : c[1] = k => CqeFits(c, e)
          /\ \A m \in wire : m.id = k => MessageFits(m, e)
      BY <2>3 DEF AllFit, EntryFits
    <3> QED
      BY <1>1, <1>3, <2>1, <3>1 DEF EntryFits
  <2>4. CASE k = txId /\ e = NewEntry
    <3>1. /\ e.seen = {} /\ e.cnt = 0 /\ e.client = e.ts /\ e.network = 0
      BY <2>4 DEF NewEntry
    <3>2. StampsFit(e, now)
      BY <3>1 DEF StampsFit, Count
    <3>3. \A c \in sendCqes : c[1] # k
      BY <1>3, <2>4 DEF WayInv
    <3>4. \A m \in wire : m.id # k
      BY <1>3, <2>4 DEF WayInv
    <3> QED
      BY <1>1, <2>1, <3>1, <3>2, <3>3, <3>4 DEF EntryFits
  <2> QED
    BY <2>2, <2>3, <2>4
<1>5. WayInv'
  <2> HIDE DEF Posted
  <2> QED
    BY <1>1, <1>2, <1>3, WayMoves
<1>6. DelaysFit'
  BY <1>1, <1>2, DelaysKept
<1> QED
  BY <1>4, <1>5, <1>6

\* post_send: the first message of this ping, and the stamp of its completion.
LEMMA TxPostFits ==
    ASSUME ClientInv, HwTs, AllFit, WayInv, DelaysFit, TxPost
    PROVE  AllFit' /\ WayInv' /\ DelaysFit'
<1> DEFINE x == [kind |-> "ping", id |-> txId, delay |-> 0, at |-> now]
<1> DEFINE y == <<txId, now + HwOffset>>
<1>1. /\ UNCHANGED <<now, queue, uid, txId, serving>> /\ map' = map
      /\ sendCqes' = sendCqes \cup {y} /\ wire' = wire \cup {x}
      /\ txpc = "post" /\ txpc' = "next"
  BY DEF TxPost, table
<1>2. /\ TableType /\ ThreadType /\ now \in Clock /\ now <= now' /\ queue \in Seq(Result)
      /\ now + HwOffset \in Nat /\ now \in Nat /\ HwOffset \in Nat
  BY <1>1, ClientAssumption DEF ClientInv, TypeOK, TableType, ThreadType, Clock
<1>3. (\A k : Posted(k) => Posted(k)') /\ ~Posted(txId)
  BY <1>1 DEF Posted
<1>4. Posted(txId)'
  <2>1. txId = uid - 1 /\ uid \in Int
    BY <1>1, <1>2 DEF ClientInv, ThreadInv, ThreadType
  <2>2. txId < uid
    BY <2>1
  <2> QED
    BY <1>1, <2>2 DEF Posted
<1>5. x.id = txId /\ x.at = now /\ y[1] = txId /\ y[2] = now + HwOffset
  OBVIOUS
<1> HIDE DEF x, y, Posted
<1>6. AllFit'
  <2>1. ASSUME NEW k \in DOMAIN map, k = txId
        PROVE  CqeFits(y, map[k]) /\ MessageFits(x, map[k])
    <3>1. map[k].ts <= now /\ map[k] \in Entry /\ map[k].ts \in Nat
      BY <1>2, ClientAssumption DEF ClientInv, TableInv, TableType, Entry, Clock
    <3>2. map[k].seen = {}
      BY <1>3, <2>1 DEF AllFit, EntryFits
    <3>3. map[k].ts + HwOffset <= now + HwOffset
      BY <1>2, <3>1
    <3> QED
      BY <1>5, <3>1, <3>2, <3>3 DEF CqeFits, MessageFits
  <2>2. \A k \in DOMAIN map' : k \in DOMAIN map /\ map'[k] = map[k]
    BY <1>1
  <2>3. \A k \in DOMAIN map' : \A c \in sendCqes' : c[1] = k => c \in sendCqes \/ CqeFits(c, map[k])
    <3> HIDE DEF CqeFits
    <3> QED
      BY <1>1, <1>5, <2>1
  <2>4. \A k \in DOMAIN map' : \A m \in wire' : m.id = k => m \in wire \/ MessageFits(m, map[k])
    <3> HIDE DEF MessageFits
    <3> QED
      BY <1>1, <1>5, <2>1
  <2> QED
    BY <1>1, <1>2, <1>3, <2>2, <2>3, <2>4, FitsMove
<1>7. WayInv'
  <2>1. \A c \in sendCqes : Posted(c[1]) /\ c[1] # txId
    BY <1>3 DEF WayInv
  <2>2. \A m \in wire : Posted(m.id) /\ m.id # txId
    BY <1>3 DEF WayInv
  <2>3. \A c \in sendCqes' : Posted(c[1])' /\ c[2] <= now' + HwOffset
    <3>1. now + HwOffset <= now + HwOffset
      BY <1>2
    <3> QED
      BY <1>1, <1>3, <1>4, <1>5, <2>1, <3>1 DEF WayInv
  <2>4. \A c, d \in sendCqes' : c[1] = d[1] => c = d
    BY <1>1, <1>5, <2>1 DEF WayInv
  <2>5. \A c \in sendCqes', m \in wire' : c[1] = m.id /\ m.kind # "ack" => c[2] <= m.at + HwOffset
    <3>1. now + HwOffset <= now + HwOffset
      BY <1>2
    <3> QED
      BY <1>1, <1>5, <2>1, <2>2, <3>1 DEF WayInv
  <2>6. \A m \in wire' : Posted(m.id)'
    BY <1>1, <1>3, <1>4, <1>5, <2>2
  <2>7. \A i \in DOMAIN serving' : Posted(i)'
    BY <1>1, <1>3 DEF WayInv
  <2> QED
    BY <1>1, <2>3, <2>4, <2>5, <2>6, <2>7 DEF WayInv
<1>8. DelaysFit'
  BY <1>1, <1>2, DelaysKept
<1> QED
  BY <1>6, <1>7, <1>8

\* The result thread takes what is oldest.
LEMMA ResultTakeFits ==
    ASSUME ClientInv, AllFit, WayInv, DelaysFit, ResultTake
    PROVE  AllFit' /\ WayInv' /\ DelaysFit'
<1>1. /\ UNCHANGED <<now, tx, serving>> /\ map' = map /\ sendCqes' = sendCqes /\ wire' = wire
      /\ queue # <<>> /\ queue' = Tail(queue)
  BY DEF ResultTake, table, net
<1>2. TableType /\ now \in Clock /\ now' = now /\ now <= now' /\ queue \in Seq(Result)
  BY <1>1, ClientAssumption DEF ClientInv, TypeOK, TableType, ThreadType, Clock
<1>3. \A k : Posted(k)' <=> Posted(k)
  BY <1>1 DEF tx, Posted
<1> HIDE DEF Posted
<1>4. AllFit'
  BY <1>1, <1>2, <1>3, FitsMove
<1>5. WayInv'
  BY <1>1, WayShrinks
<1>6. DelaysFit'
  BY <1>1, <1>2, DelaysKept
<1> QED
  BY <1>4, <1>5, <1>6

\* The clock, and the server, which stamps its PONG later than the PING.
LEMMA EnvironmentFits ==
    ASSUME ClientInv, AllFit, WayInv, DelaysFit, Environment
    PROVE  AllFit' /\ WayInv' /\ DelaysFit'
<1>1. ThreadType /\ ThreadInv /\ now \in Clock /\ now \in Nat /\ HwOffset \in Nat
  BY ClientAssumption DEF ClientInv, TypeOK, ThreadType, Clock
<1>2. UNCHANGED <<table, queue, tx>> /\ sendCqes' = sendCqes
  BY DEF Environment, Tick, ServerPong, ServerAck
<1>3. (\A k : Posted(k)' <=> Posted(k)) /\ txpc' \notin {"stamp", "update"}
  BY <1>2 DEF tx, Posted, WayInv
<1> HIDE DEF Posted
<1>4. CASE Tick
  <2>1. now' \in Clock /\ now <= now' /\ wire' = wire /\ serving' = serving
    BY <1>1, <1>4, ClientAssumption DEF Tick, net, Clock
  <2> QED
    BY <1>2, <1>3, <2>1, OutsideFits
<1>5. CASE ServerPong
  <2>1. PICK m \in wire :
           /\ m.kind = "ping"
           /\ wire' = (wire \ {m}) \cup {[m EXCEPT !.kind = "pong", !.at = now]}
           /\ serving' = [i \in DOMAIN serving \cup {m.id} |->
                             IF i = m.id THEN now ELSE serving[i]]
    BY <1>5 DEF ServerPong
  <2>2. now' \in Clock /\ now <= now'
    BY <1>1, <1>5 DEF ServerPong
  <2>3. PICK x : x = [m EXCEPT !.kind = "pong", !.at = now]
    OBVIOUS
  <2>4. m \in Message /\ m.at <= now /\ m.at \in Nat /\ Posted(m.id)
    BY <1>1, ClientAssumption DEF ThreadType, ThreadInv, WayInv, Message, Clock
  <2>5. x.id = m.id /\ x.at = now
    BY <2>3, <2>4 DEF Message
  <2>6. \A c \in sendCqes : c[1] = x.id => c[2] <= x.at + HwOffset
    BY <2>5 DEF WayInv
  <2>7. ASSUME NEW k \in DOMAIN map, x.id = k PROVE MessageFits(x, map[k])
    <3>1. PICK e \in Entry : e = map[k]
      BY DEF ClientInv, TypeOK, TableType
    <3>2. MessageFits(m, e)
      BY <2>5, <2>7, <3>1, FitsSays
    <3>3. /\ e.ts <= m.at
          /\ Clean(e) /\ "cqe" \in e.seen /\ "pong" \notin e.seen => e.network <= m.at + HwOffset
      BY <2>1, <3>2 DEF MessageFits
    <3>4. e.ts \in Nat /\ e.network \in Nat
      BY ClientAssumption DEF Entry, Clock
    <3>5. /\ e.ts <= x.at
          /\ Clean(e) /\ "cqe" \in e.seen /\ "pong" \notin e.seen => e.network <= x.at + HwOffset
      BY <1>1, <2>4, <2>5, <3>3, <3>4
    <3> QED
      BY <3>1, <3>5 DEF MessageFits
  <2>8. wire' = (wire \ {m}) \cup {x} /\ DOMAIN serving' = DOMAIN serving \cup {m.id}
    BY <2>1, <2>3
  <2> HIDE DEF MessageFits
  <2>9. \A k \in wire' :
           \/ k \in wire
           \/ /\ Posted(k.id)'
              /\ k.kind # "ack" => \A c \in sendCqes : c[1] = k.id => c[2] <= k.at + HwOffset
              /\ \A j \in DOMAIN map : k.id = j => MessageFits(k, map[j])
    BY <1>3, <2>4, <2>5, <2>6, <2>7, <2>8
  <2>10. \A i \in DOMAIN serving' : i \in DOMAIN serving \/ Posted(i)'
    BY <1>3, <2>4, <2>8
  <2> QED
    BY <1>2, <1>3, <2>2, <2>9, <2>10, OutsideFits
<1>6. CASE ServerAck
  <2>1. PICK i \in DOMAIN serving :
           /\ wire' = wire \cup
                {[kind |-> "ack", id |-> i, at |-> now,
                  delay |-> calc_time_delta_with_modulo(serving[i], now)]}
           /\ serving' = Without(serving, i)
    BY <1>6 DEF ServerAck
  <2>2. now' \in Clock /\ now <= now'
    BY <1>1, <1>6 DEF ServerAck
  <2>3. PICK x : x = [kind |-> "ack", id |-> i, at |-> now,
                      delay |-> calc_time_delta_with_modulo(serving[i], now)]
    OBVIOUS
  <2>4. x.kind = "ack" /\ x.id = i /\ Posted(i) /\ wire' = wire \cup {x}
    BY <2>1, <2>3 DEF WayInv
  <2>5. \A k : MessageFits(x, map[k])
    BY <2>4 DEF MessageFits
  <2>6. \A j \in DOMAIN serving' : j \in DOMAIN serving
    BY <2>1, WithoutSays
  <2> HIDE DEF MessageFits
  <2>7. \A k \in wire' :
           \/ k \in wire
           \/ /\ Posted(k.id)'
              /\ k.kind # "ack" => \A c \in sendCqes : c[1] = k.id => c[2] <= k.at + HwOffset
              /\ \A j \in DOMAIN map : k.id = j => MessageFits(k, map[j])
    BY <1>3, <2>4, <2>5
  <2> QED
    BY <1>2, <1>3, <2>2, <2>6, <2>7, OutsideFits
<1> QED
  BY <1>4, <1>5, <1>6 DEF Environment

LEMMA NicStep ==
    ASSUME ClientInv, Young, NicInv, [Next]_vars
    PROVE  NicInv'
<1> SUFFICES ASSUME HwTs' PROVE AllFit' /\ WayInv' /\ DelaysFit'
  BY DEF NicInv
<1>1. HwTs
  BY DEF HwTs, Next, vars
<1>2. AllFit /\ WayInv /\ DelaysFit
  BY <1>1 DEF NicInv
<1>3. CASE Threads
  <2>1. TxStamp \/ TxUpdate => FALSE
    BY <1>2 DEF TxStamp, TxUpdate, WayInv
  <2>2. CASE TxNext \/ TxPostFail
    BY <1>2, <2>2, TxNextFits
  <2>3. CASE TxExpire
    BY <1>2, <2>3, TxExpireFits
  <2>4. CASE TxInsert
    BY <1>2, <2>4, TxInsertFits
  <2>5. CASE TxPost
    BY <1>1, <1>2, <2>5, TxPostFits
  <2>6. CASE TxCqe
    BY <1>2, <2>6, TxCqeFits
  <2>7. CASE \E again \in BOOLEAN : RxHandle(again)
    BY <1>1, <1>2, <2>7, RxHandleFits
  <2>8. CASE ResultTake
    BY <1>2, <2>8, ResultTakeFits
  <2> QED
    BY <1>3, <2>1, <2>2, <2>3, <2>4, <2>5, <2>6, <2>7, <2>8 DEF Threads
<1>4. CASE Environment
  BY <1>2, <1>4, EnvironmentFits
<1>5. CASE UNCHANGED vars
  <2>1. /\ UNCHANGED <<now, tx, serving>> /\ UNCHANGED <<table, queue>>
        /\ sendCqes' = sendCqes /\ wire' = wire
    BY <1>5 DEF vars, net
  <2>2. TableType /\ now \in Clock
    BY DEF ClientInv, TypeOK, ThreadType
  <2> QED
    BY <1>2, <2>1, <2>2, IdleFits
<1> QED
  BY <1>3, <1>4, <1>5 DEF Next

\* With NIC timestamps the three delays of a success fit into the time since its
\* ping was inserted, for as long as the client runs: whatever the order in which
\* tx_cqe and rx record the completions, whichever message comes twice, and
\* although update_ping_cqe_time and update_pong_info subtract modulo
\* PINGWEAVE_TIME_CALC_MODULO; provided no entry gets as old as that modulus.
THEOREM YoungDelaysCorrect == Spec /\ []Young => []NicDelaysFit
<1>1. Init => NicInv
  BY DEF Init, NicInv, AllFit, WayInv, DelaysFit
<1>2. ClientInv /\ Young /\ NicInv /\ [Next]_vars => NicInv'
  BY NicStep
<1>3. NicInv => NicDelaysFit
  BY DEF NicInv, NicDelaysFit
<1> QED
  BY ClientInvariant, <1>1, <1>2, <1>3, PTL DEF Spec
=============================================================================
