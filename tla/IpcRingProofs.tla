--------------------------- MODULE IpcRingProofs ----------------------------
(***************************************************************************)
(* Proofs about the ring for every buffer size and every number of reports *)
(* and process ends.  Constructor and destructor of the producer may cut   *)
(* into a read; what they do to the indices then is followed by the        *)
(* history variable orderly.                                               *)
(***************************************************************************)
EXTENDS IpcRing, SequenceTheorems, FiniteSetTheorems, TLAPS

\* The index successor of writeMessage and read_messages stays in the ring and
\* wraps at its end.
LEMMA Next1Value ==
    ASSUME NEW i \in Slot
    PROVE  Next1(i) = IF i = BufferSize - 1 THEN 0 ELSE i + 1
  BY RingAssumption, SMTT(20) DEF Next1, Slot

LEMMA Next1Injective ==
    ASSUME NEW i \in Slot, NEW j \in Slot, i # j
    PROVE  Next1(i) # Next1(j)
<1>1. /\ Next1(i) = IF i = BufferSize - 1 THEN 0 ELSE i + 1
      /\ Next1(j) = IF j = BufferSize - 1 THEN 0 ELSE j + 1
  BY Next1Value
<1> QED
  BY <1>1, RingAssumption DEF Slot

\* Publishing adds the tail slot to what the ring holds, as its last element.
LEMMA BetweenPublish ==
    ASSUME NEW h \in Slot, NEW t \in Slot, Next1(t) # h
    PROVE  /\ Between(h, Next1(t)) = Between(h, t) \cup {t}
           /\ t \notin Between(h, t)
           /\ \A i \in Between(h, t) : i \in Slot /\ Rank(h, i) < Rank(h, t)
  BY Next1Value, RingAssumption DEF Between, Slot, Rank

\* Advancing head removes the first element and keeps the order of the others.
LEMMA BetweenAdvance ==
    ASSUME NEW h \in Slot, NEW t \in Slot, h # t
    PROVE  /\ Between(h, t) = Between(Next1(h), t) \cup {h}
           /\ h \notin Between(Next1(h), t)
           /\ \A i \in Between(Next1(h), t) :
                 Rank(Next1(h), i) = Rank(h, i) - 1 /\ Rank(h, h) < Rank(h, i)
  BY Next1Value, RingAssumption DEF Between, Slot, Rank

LEMMA RankInt ==
    ASSUME NEW h \in Slot, NEW i \in Slot
    PROVE  Rank(h, i) \in Int
  BY RingAssumption DEF Rank, Slot

\* Equal indices mean an empty ring.
LEMMA BetweenSame ==
    ASSUME NEW h \in Slot
    PROVE  Between(h, h) = {}
  BY DEF Between, Slot

\* What the ring holds are slots of the ring.
LEMMA PendingInSlot ==
    ASSUME head \in Slot, tail \in Slot
    PROVE  Pending \subseteq Slot
  BY RingAssumption DEF Pending, Between, Slot

-----------------------------------------------------------------------------
(* Type correctness.                                                       *)

Copying == ppc \in {"copy", "copy2", "publish"}

HistType ==
    /\ accepted \subseteq Msg /\ delivered \in Seq(Msg \cup {Empty, Torn})
    /\ lost \subseteq Msg \cup {Empty, Torn} /\ orderly \in BOOLEAN

TypeInv == TypeOK /\ (Copying => cur # 0)

LEMMA TypeInit == Init => TypeInv
  BY RingAssumption, EmptySeq DEF Init, TypeInv, TypeOK, Slot, Copying, Empty, Torn

LEMMA TypeStep == TypeInv /\ [Next]_vars => TypeInv'
<1> SUFFICES ASSUME TypeInv, [Next]_vars PROVE TypeInv'
  OBVIOUS
<1> USE RingAssumption DEF TypeInv, TypeOK, Copying, shared, prod, cons, hist, HistType
<1>r. ASSUME NEW a, NEW d, NEW l, NEW o, Record(a, d, l, o),
             a \subseteq Msg, d \in Seq(Msg \cup {Empty, Torn}),
             l \subseteq Msg \cup {Empty, Torn}, o \in BOOLEAN
      PROVE  HistType'
  BY <1>r, EmptySeq DEF Record, HistType
<1>1. CASE Construct
  <2>1. PendingMsgs \subseteq Msg \cup {Empty, Torn}
    BY PendingInSlot DEF PendingMsgs
  <2>2. Record(accepted, delivered, lost \cup PendingMsgs, orderly /\ cpc = "idle")
    BY <1>1 DEF Construct
  <2>3. HistType'
    BY <1>r, <2>1, <2>2
  <2>4. QED
    BY <1>1, <2>3 DEF Construct
<1>2. CASE \E x \in {"head", "tail"} : InitIndex(x)
  BY <1>2 DEF InitIndex, Slot
<1>3. CASE WriteFull
  BY <1>3 DEF WriteFull
<1>4. CASE WriteBegin
  BY <1>4 DEF WriteBegin, Msg
<1>5. CASE WriteCopyFirst
  BY <1>5 DEF WriteCopyFirst
<1>6. CASE WriteCopyLast
  BY <1>6 DEF WriteCopyLast, Empty
<1>7. CASE WritePublish
  <2>1. Next1(tailVal) \in Slot
    BY Next1Value DEF Slot
  <2>2. Record(accepted \cup {cur}, delivered, lost, orderly) /\ cur \in Msg
    BY <1>7 DEF WritePublish
  <2>3. HistType'
    BY <1>r, <2>2
  <2>4. QED
    BY <1>7, <2>1, <2>3 DEF WritePublish, Slot
<1>8. CASE Destruct
  <2>1. PendingMsgs \subseteq Msg \cup {Empty, Torn}
    BY PendingInSlot DEF PendingMsgs
  <2>2. Record(accepted, delivered, lost \cup PendingMsgs, orderly /\ cpc = "idle")
    BY <1>8 DEF Destruct
  <2>3. HistType'
    BY <1>r, <2>1, <2>2
  <2>4. QED
    BY <1>8, <2>3 DEF Destruct
<1>9. CASE Crash
  <2>1. Record(accepted, delivered, lost, orderly /\ ppc # "init")
    BY <1>9 DEF Crash
  <2>2. HistType'
    BY <1>r, <2>1
  <2>3. QED
    BY <1>9, <2>2 DEF Crash, Slot
<1>10. CASE LoadHead
  <2>1. Record(accepted, delivered, lost, orderly /\ ppc # "init")
    BY <1>10 DEF LoadHead
  <2>2. HistType'
    BY <1>r, <2>1
  <2>3. QED
    BY <1>10, <2>2 DEF LoadHead
<1>11. CASE ReadReturn
  <2> DEFINE d == delivered \o (IF orderly THEN batch ELSE <<>>)
  <2>1. d \in Seq(Msg \cup {Empty, Torn})
    BY ConcatProperties, EmptySeq
  <2>2. Record(accepted, d, lost, orderly \/ (head = tail /\ ppc # "init"))
    BY <1>11 DEF ReadReturn
  <2> HIDE DEF d
  <2>3. HistType'
    BY <1>r, <2>1, <2>2
  <2>4. QED
    BY <1>11, <2>3, EmptySeq DEF ReadReturn, Slot
<1>12. CASE ReadEnter
  BY <1>12 DEF ReadEnter, Slot
<1>13. CASE LoadIndex
  BY <1>13 DEF LoadIndex
<1>14. CASE ReadCopyFirst
  BY <1>14 DEF ReadCopyFirst
<1>15. CASE ReadCopyLast
  <2>1. (IF copy = slots[headIndex] THEN copy ELSE Torn) \in Msg \cup {Empty, Torn}
    OBVIOUS
  <2>2. batch' \in Seq(Msg \cup {Empty, Torn})
    BY <1>15, <2>1, AppendProperties, EmptySeq DEF ReadCopyLast
  <2>3. QED
    BY <1>15, <2>2 DEF ReadCopyLast
<1>16. CASE StoreHead
  <2>1. Next1(headIndex) \in Slot
    BY Next1Value DEF Slot
  <2>2. QED
    BY <1>16, <2>1 DEF StoreHead, Slot, Empty
<1>17. CASE ConsumerDies
  <2>1. InBatch \subseteq Msg \cup {Empty, Torn}
    BY ElementOfSeq DEF InBatch
  <2>2. Record(accepted, delivered, lost \cup (InBatch \ PendingMsgs), orderly)
    BY <1>17 DEF ConsumerDies
  <2>3. HistType'
    BY <1>r, <2>1, <2>2
  <2>4. QED
    BY <1>17, <2>3, EmptySeq DEF ConsumerDies, Slot, Empty
<1>18. CASE UNCHANGED vars
  BY <1>18 DEF vars
<1> QED
  BY <1>1, <1>2, <1>3, <1>4, <1>5, <1>6, <1>7, <1>8, <1>9, <1>10, <1>11, <1>12,
     <1>13, <1>14, <1>15, <1>16, <1>17, <1>18
     DEF Next, Producer, ConsumerSteps

\* The shared indices never leave the ring and the locals of both sides keep
\* their types, whatever the two processes do and whenever they stop.
THEOREM TypeCorrect == Spec => []TypeOK
<1>1. TypeInv => TypeOK
  BY DEF TypeInv
<1> QED
  BY <1>1, TypeInit, TypeStep, PTL DEF Spec

-----------------------------------------------------------------------------
(* The orderly ring: inductive invariant.                                  *)

\* The sets of reports that the consumer holds, by position.
LEMMA BatchAppend ==
    ASSUME NEW S, NEW b \in Seq(S), NEW e \in S
    PROVE  /\ {Append(b, e)[i] : i \in 1 .. Len(Append(b, e))} =
                  {b[i] : i \in 1 .. Len(b)} \cup {e}
           /\ {Append(b, e)[i] : i \in 1 .. Len(Append(b, e)) - 1} =
                  {b[i] : i \in 1 .. Len(b)}
  BY AppendProperties, LenProperties

LEMMA BatchConcat ==
    ASSUME NEW S, NEW d \in Seq(S), NEW b \in Seq(S)
    PROVE  {(d \o b)[i] : i \in 1 .. Len(d \o b)} =
               {d[i] : i \in 1 .. Len(d)} \cup {b[i] : i \in 1 .. Len(b)}
  BY ConcatProperties, LenProperties

\* The slot that the consumer copies is in the ring, and the slot that the
\* producer copies into is not: the two never meet.
LEMMA RaceFree == RingInv => NoSlotRace
  BY DEF RingInv, ConsumerInv, ProducerInv, NoSlotRace

LEMMA RingInit == Init => RingInv
<1> SUFFICES ASSUME Init PROVE RingInv
  OBVIOUS
<1>1. TypeOK
  BY TypeInit DEF TypeInv
<1>2. Pending = {} /\ PendingMsgs = {} /\ InBatch = {} /\ Returned = {} /\ Done = {}
  BY DEF Init, Pending, Between, PendingMsgs, InBatch, Returned, Done
<1>3. ProducerInv /\ ConsumerInv
  BY DEF Init, ProducerInv, ConsumerInv
<1>4. ContentsInv /\ DeliveredInOrder /\ NothingVanishes
  BY <1>2 DEF Init, ContentsInv, DeliveredInOrder, NothingVanishes, Increasing
<1> QED
  BY <1>1, <1>3, <1>4 DEF RingInv, Init

\* A step that moves no report keeps what is said about the reports.
SameReports ==
    /\ Pending' = Pending /\ PendingMsgs' = PendingMsgs /\ Done' = Done
    /\ InBatch' = InBatch /\ Returned' = Returned
    /\ UNCHANGED <<head, batch, delivered, accepted, lost>>
    /\ \A i \in Pending : slots'[i] = slots[i]

LEMMA SameReportsKept ==
    ASSUME RingInv, SameReports
    PROVE  ContentsInv' /\ DeliveredInOrder' /\ NothingVanishes'
  BY DEF RingInv, SameReports, ContentsInv, DeliveredInOrder, NothingVanishes,
         Increasing, Rank

LEMMA TypeOfRing ==
    ASSUME RingInv
    PROVE  TypeInv
  BY DEF RingInv, TypeInv, Copying, ProducerInv

LEMMA RingStep ==
    RingInv /\ [Next]_vars /\ orderly' => RingInv'
<1> SUFFICES ASSUME RingInv, [Next]_vars, orderly' PROVE RingInv'
  OBVIOUS
<1> DEFINE Val == Msg \cup {Empty, Torn}
<1>0. TypeOK /\ TypeOK'
  BY TypeOfRing, TypeStep DEF TypeInv
<1>a. Msg \subseteq Int /\ Slot \subseteq Int
  BY RingAssumption DEF Msg, Slot
<1>b. ASSUME SameReports, ProducerInv', ConsumerInv' PROVE RingInv'
  BY <1>0, <1>b, SameReportsKept DEF RingInv
<1>c. orderly
  BY DEF RingInv
<1> USE RingAssumption, <1>c DEF shared, prod, cons, hist, Record
<1>1. CASE WriteFull
  <2>1. SameReports
    BY <1>1 DEF WriteFull, SameReports, Pending, PendingMsgs, Done, InBatch, Returned
  <2>2. ProducerInv' /\ ConsumerInv'
    BY <1>0, <1>a, <1>1 DEF WriteFull, RingInv, ProducerInv, ConsumerInv, TypeOK, Msg
  <2> QED
    BY <1>b, <2>1, <2>2
<1>2. CASE WriteBegin
  <2>1. SameReports
    BY <1>2 DEF WriteBegin, SameReports, Pending, PendingMsgs, Done, InBatch, Returned
  <2>2. ProducerInv' /\ ConsumerInv'
    BY <1>0, <1>a, <1>2 DEF WriteBegin, RingInv, ProducerInv, ConsumerInv, TypeOK, Msg
  <2> QED
    BY <1>b, <2>1, <2>2
<1>3. CASE LoadHead
  <2>1. SameReports
    BY <1>3 DEF LoadHead, SameReports, Pending, PendingMsgs, Done, InBatch, Returned
  <2>2. ProducerInv' /\ ConsumerInv'
    BY <1>0, <1>a, <1>3 DEF LoadHead, RingInv, ProducerInv, ConsumerInv, TypeOK, Msg
  <2> QED
    BY <1>b, <2>1, <2>2
<1>4. CASE ReadEnter
  <2>1. SameReports
    BY <1>4 DEF ReadEnter, SameReports, Pending, PendingMsgs, Done, InBatch, Returned
  <2>2. ProducerInv' /\ ConsumerInv'
    BY <1>0, <1>a, <1>4 DEF ReadEnter, RingInv, ProducerInv, ConsumerInv, TypeOK, Msg
  <2> QED
    BY <1>b, <2>1, <2>2
<1>5. CASE LoadIndex
  <2>1. SameReports
    BY <1>5 DEF LoadIndex, SameReports, Pending, PendingMsgs, Done, InBatch, Returned
  <2>2. ProducerInv' /\ ConsumerInv'
    BY <1>0, <1>a, <1>5 DEF LoadIndex, RingInv, ProducerInv, ConsumerInv, TypeOK, Msg
  <2> QED
    BY <1>b, <2>1, <2>2
<1>6. CASE ReadCopyFirst
  <2>1. SameReports
    BY <1>6 DEF ReadCopyFirst, SameReports, Pending, PendingMsgs, Done, InBatch, Returned
  <2>2. ProducerInv' /\ ConsumerInv'
    BY <1>0, <1>a, <1>6 DEF ReadCopyFirst, RingInv, ProducerInv, ConsumerInv, TypeOK, Msg
  <2> QED
    BY <1>b, <2>1, <2>2
<1>7. CASE Crash
  <2>1. SameReports
    BY <1>7 DEF Crash, SameReports, Pending, PendingMsgs, Done, InBatch, Returned
  <2>2. ProducerInv' /\ ConsumerInv'
    BY <1>0, <1>a, <1>7 DEF Crash, RingInv, ProducerInv, ConsumerInv, TypeOK, Msg
  <2> QED
    BY <1>b, <2>1, <2>2
<1>8. CASE WriteCopyFirst
  <2>1. tail \notin Pending /\ tailVal = tail
    BY <1>0, <1>8, BetweenPublish DEF WriteCopyFirst, RingInv, ProducerInv, TypeOK, Pending
  <2>2. \A i \in Pending : slots'[i] = slots[i]
    BY <1>0, <1>8, <2>1, PendingInSlot DEF WriteCopyFirst, TypeOK
  <2>3. SameReports
    BY <1>8, <2>2 DEF WriteCopyFirst, SameReports, Pending, PendingMsgs, Done, InBatch, Returned
  <2>4. cpc \in {"index", "copy", "copy2", "advance"} => slots'[head] = slots[head]
    BY <1>0, <1>8, <2>1 DEF WriteCopyFirst, RingInv, ConsumerInv, TypeOK
  <2>5. ProducerInv' /\ ConsumerInv'
    BY <1>0, <1>8, <2>1, <2>4 DEF WriteCopyFirst, RingInv, ProducerInv, ConsumerInv, TypeOK
  <2> QED
    BY <1>b, <2>3, <2>5
<1>9. CASE WriteCopyLast
  <2>1. tail \notin Pending /\ tailVal = tail
    BY <1>0, <1>9, BetweenPublish DEF WriteCopyLast, RingInv, ProducerInv, TypeOK, Pending
  <2>2. \A i \in Pending : slots'[i] = slots[i]
    BY <1>0, <1>9, <2>1, PendingInSlot DEF WriteCopyLast, TypeOK
  <2>3. SameReports
    BY <1>9, <2>2 DEF WriteCopyLast, SameReports, Pending, PendingMsgs, Done, InBatch, Returned
  <2>4. cpc \in {"index", "copy", "copy2", "advance"} => slots'[head] = slots[head]
    BY <1>0, <1>9, <2>1 DEF WriteCopyLast, RingInv, ConsumerInv, TypeOK
  <2>5. ProducerInv' /\ ConsumerInv'
    BY <1>0, <1>9, <2>1, <2>4 DEF WriteCopyLast, RingInv, ProducerInv, ConsumerInv, TypeOK
  <2> QED
    BY <1>b, <2>3, <2>5
<1>10. CASE WritePublish
  <2>1. tailVal = tail /\ Next1(tail) # head /\ slots[tail] = cur /\ cur = called
        /\ \A m \in accepted : m < cur
    BY <1>10 DEF WritePublish, RingInv, ProducerInv
  <2>2. Pending' = Pending \cup {tail} /\ tail \notin Pending
        /\ \A i \in Pending : i \in Slot /\ Rank(head, i) < Rank(head, tail)
    BY <1>0, <1>10, <2>1, BetweenPublish DEF WritePublish, Pending, TypeOK
  <2>3. PendingMsgs' = PendingMsgs \cup {cur} /\ accepted' = accepted \cup {cur}
        /\ InBatch' = InBatch /\ Returned' = Returned /\ Done' = Done /\ lost' = lost
    BY <1>10, <2>1, <2>2 DEF WritePublish, PendingMsgs, InBatch, Returned, Done
  <2>4. lost \subseteq accepted /\ InBatch \subseteq accepted /\ Done \subseteq accepted
    BY DEF RingInv, NothingVanishes, DeliveredInOrder, Done, InBatch, Returned
  <2>5. cur \in Msg /\ cur \notin accepted
    BY <1>0, <1>a, <2>1, TypeOfRing, <1>10 DEF TypeOK, TypeInv, Copying, WritePublish
  <2>6. ProducerInv' /\ ConsumerInv'
    BY <1>0, <1>a, <1>10, <2>1 DEF WritePublish, RingInv, ProducerInv, ConsumerInv, TypeOK
  <2>7. ContentsInv'
    <3>1. \A i \in Pending' : slots'[i] \in accepted'
      BY <1>10, <2>1, <2>2, <2>3 DEF WritePublish, RingInv, ContentsInv
    <3>2. \A i, j \in Pending' : Rank(head, i) < Rank(head, j) => slots[i] < slots[j]
      <4>1. \A i \in Pending : slots[i] < cur
        BY <2>1 DEF RingInv, ContentsInv
      <4>2. \A i \in Pending : ~ (Rank(head, tail) < Rank(head, i))
        <5> TAKE i \in Pending
        <5>1. Rank(head, i) \in Int /\ Rank(head, tail) \in Int
          BY <1>0, <2>2, RankInt DEF TypeOK
        <5>2. Rank(head, i) < Rank(head, tail)
          BY <2>2
        <5> QED
          BY <5>1, <5>2
      <4>3. ~ (Rank(head, tail) < Rank(head, tail))
        BY <1>0, RankInt DEF TypeOK
      <4> QED
        BY <2>1, <2>2, <4>1, <4>2, <4>3 DEF RingInv, ContentsInv
    <3>3. \A m \in Done', i \in Pending' : m < slots[i]
      BY <2>1, <2>2, <2>3, <2>4 DEF RingInv, ContentsInv
    <3>4. lost' \cap (PendingMsgs' \cup InBatch') = {}
      BY <2>3, <2>4, <2>5 DEF RingInv, ContentsInv
    <3> QED
      BY <1>10, <3>1, <3>2, <3>3, <3>4 DEF ContentsInv, WritePublish, Rank
  <2>8. DeliveredInOrder'
    BY <1>10, <2>3 DEF WritePublish, RingInv, DeliveredInOrder, Increasing
  <2>9. NothingVanishes'
    BY <2>3 DEF RingInv, NothingVanishes
  <2> QED
    BY <1>0, <2>6, <2>7, <2>8, <2>9 DEF RingInv
<1>11. CASE StoreHead
  <2>1. head # tail /\ headIndex = head /\ batch # <<>> /\ batch[Len(batch)] = slots[head]
        /\ cpc = "advance" /\ ppc # "init"
    BY <1>11 DEF StoreHead, RingInv, ConsumerInv, ProducerInv
  <2>2. Pending = Pending' \cup {head} /\ head \notin Pending'
        /\ \A i \in Pending' : /\ Rank(Next1(head), i) = Rank(head, i) - 1
                              /\ Rank(head, head) < Rank(head, i)
    BY <1>0, <1>11, <2>1, BetweenAdvance DEF StoreHead, Pending, TypeOK
  <2>3. PendingMsgs = PendingMsgs' \cup {slots[head]} /\ InBatch' = InBatch
        /\ Returned' = Returned /\ lost' = lost /\ accepted' = accepted
    BY <1>11, <2>2 DEF StoreHead, PendingMsgs, InBatch, Returned
  <2>4. Len(batch) \in Nat /\ Len(batch) > 0
    BY <1>0, <2>1, EmptySeq, LenProperties DEF TypeOK
  <2>5. slots[head] \in InBatch /\ Done' = Done \cup {slots[head]}
    BY <1>11, <2>1, <2>4 DEF StoreHead, InBatch, Done, Returned
  <2>6. Next1(head) # Next1(tail)
    BY <1>0, <2>1, Next1Injective DEF TypeOK
  <2>7. ProducerInv' /\ ConsumerInv'
    BY <1>0, <1>11, <2>1, <2>6 DEF StoreHead, RingInv, ProducerInv, ConsumerInv, TypeOK
  <2>8. ContentsInv'
    <3>1. \A i \in Pending' : slots[i] \in accepted /\ i \in Slot
      <4>1. Pending \subseteq Slot
        BY <1>0, PendingInSlot DEF TypeOK
      <4> QED
        BY <2>2, <4>1 DEF RingInv, ContentsInv
    <3>2. \A i, j \in Pending' :
              Rank(Next1(head), i) < Rank(Next1(head), j) => slots[i] < slots[j]
      <4>1. \A i \in Pending' : Rank(head, i) \in Int
        BY <1>0, <3>1, RankInt DEF TypeOK
      <4> QED
        BY <2>2, <4>1 DEF RingInv, ContentsInv
    <3>3. \A m \in Done', i \in Pending' : m < slots[i]
      BY <2>2, <2>5 DEF RingInv, ContentsInv
    <3>4. lost \cap (PendingMsgs' \cup InBatch') = {}
      BY <2>3 DEF RingInv, ContentsInv
    <3> QED
      BY <1>11, <2>1, <2>3, <3>1, <3>2, <3>3, <3>4 DEF ContentsInv, StoreHead, Rank
  <2>9. DeliveredInOrder'
    BY <1>11, <2>3 DEF StoreHead, RingInv, DeliveredInOrder, Increasing
  <2>10. NothingVanishes'
    BY <2>3, <2>5 DEF RingInv, NothingVanishes
  <2> QED
    BY <1>0, <2>7, <2>8, <2>9, <2>10 DEF RingInv
<1>12. CASE ReadCopyLast
  <2>1. headIndex = head /\ head # tail /\ copy = slots[head] /\ cpc = "copy2" /\ ppc # "init"
    BY <1>12 DEF ReadCopyLast, RingInv, ConsumerInv, ProducerInv
  <2>2. head \in Pending /\ Pending' = Pending /\ PendingMsgs' = PendingMsgs
        /\ slots[head] \in PendingMsgs
    BY <1>0, <1>12, <2>1, BetweenAdvance DEF ReadCopyLast, Pending, PendingMsgs, TypeOK
  <2>3. batch' = Append(batch, slots[head]) /\ slots[head] \in Val
    BY <1>0, <1>12, <2>1 DEF ReadCopyLast, TypeOK
  <2>4. InBatch' = InBatch \cup {slots[head]} /\ Done' = Done /\ Returned' = Returned
        /\ lost' = lost /\ accepted' = accepted
    BY <1>0, <1>12, <2>1, <2>3, BatchAppend
       DEF ReadCopyLast, InBatch, Done, Returned, TypeOK
  <2>5. \A m \in Done : m < slots[head]
    BY <2>2 DEF RingInv, ContentsInv
  <2>6. Done = Returned \cup InBatch
    BY <2>1 DEF Done, InBatch
  <2>7. ProducerInv' /\ ConsumerInv'
    <3>1. batch \in Seq(Val)
      BY <1>0 DEF TypeOK
    <3>2. batch' # <<>> /\ batch'[Len(batch')] = slots[head]
      BY <2>3, <3>1, AppendProperties
    <3> QED
      BY <1>12, <2>1, <3>2 DEF ReadCopyLast, RingInv, ProducerInv, ConsumerInv
  <2>8. ContentsInv'
    BY <1>12, <2>2, <2>4 DEF ReadCopyLast, RingInv, ContentsInv, Rank
  <2>9. DeliveredInOrder'
    <3>1. Increasing(batch')
      <4>1. Len(batch') = Len(batch) + 1 /\ Len(batch) \in Nat
            /\ \A i \in 1 .. Len(batch) : batch'[i] = batch[i] /\ batch[i] \in InBatch
        BY <1>0, <2>3, AppendProperties, LenProperties DEF TypeOK, InBatch
      <4>2. batch'[Len(batch) + 1] = slots[head]
        BY <1>0, <2>3, AppendProperties DEF TypeOK
      <4> QED
        BY <4>1, <4>2, <2>5, <2>6 DEF RingInv, DeliveredInOrder, Increasing
    <3>2. slots[head] \in accepted
      BY <2>2 DEF RingInv, ContentsInv
    <3> QED
      BY <1>12, <2>4, <2>5, <2>6, <3>1, <3>2
         DEF ReadCopyLast, RingInv, DeliveredInOrder, Increasing
  <2>10. NothingVanishes'
    BY <2>2, <2>4 DEF RingInv, NothingVanishes
  <2> QED
    BY <1>0, <2>7, <2>8, <2>9, <2>10 DEF RingInv
<1>13. CASE ReadReturn
  <2>1. cpc = "test" /\ Pending' = Pending /\ PendingMsgs' = PendingMsgs
    BY <1>13 DEF ReadReturn, Pending, PendingMsgs
  <2>2. Returned' = Returned \cup InBatch /\ InBatch' = {} /\ lost' = lost
        /\ accepted' = accepted
    <3>1. delivered' = delivered \o batch /\ lost' = lost /\ accepted' = accepted
          /\ batch' = <<>> /\ Len(batch') = 0
      BY <1>13 DEF ReadReturn
    <3>2. Returned' = Returned \cup InBatch
      <4>1. PICK d \in Seq(Val) : d = delivered
        BY <1>0 DEF TypeOK
      <4>2. PICK b \in Seq(Val) : b = batch
        BY <1>0 DEF TypeOK
      <4>3. {(d \o b)[i] : i \in 1 .. Len(d \o b)} =
                {d[i] : i \in 1 .. Len(d)} \cup {b[i] : i \in 1 .. Len(b)}
        BY ONLY d \in Seq(Val), b \in Seq(Val), ConcatProperties, LenProperties
      <4>4. Returned' = {(d \o b)[i] : i \in 1 .. Len(d \o b)}
        BY <3>1, <4>1, <4>2 DEF Returned
      <4> QED
        BY <4>1, <4>2, <4>3, <4>4 DEF InBatch, Returned
    <3> QED
      BY <3>1, <3>2 DEF InBatch
  <2>3. Done = Returned \cup InBatch /\ Done' = Returned'
    BY <1>13, <2>1 DEF ReadReturn, Done, InBatch
  <2>4. ProducerInv' /\ ConsumerInv'
    BY <1>0, <1>13 DEF ReadReturn, RingInv, ProducerInv, ConsumerInv, TypeOK
  <2>5. ContentsInv'
    BY <1>13, <2>1, <2>2, <2>3 DEF ReadReturn, RingInv, ContentsInv, Rank
  <2>6. DeliveredInOrder'
    <3>1. Increasing(delivered')
      <4> DEFINE n == Len(delivered)
      <4>1. n \in Nat /\ Len(batch) \in Nat /\ Len(delivered') = n + Len(batch)
            /\ \A i \in 1 .. n : delivered'[i] = delivered[i] /\ delivered[i] \in Returned
        BY <1>0, <1>13, ConcatProperties, LenProperties DEF ReadReturn, TypeOK, Returned
      <4>2. \A i \in n + 1 .. n + Len(batch) :
                delivered'[i] = batch[i - n] /\ batch[i - n] \in InBatch
        BY <1>0, <1>13, <4>1, ConcatProperties DEF ReadReturn, TypeOK, InBatch
      <4>3. SUFFICES ASSUME NEW i \in 1 .. n + Len(batch), NEW j \in 1 .. n + Len(batch), i < j
                     PROVE  delivered'[i] < delivered'[j]
        BY <4>1 DEF Increasing
      <4>4. CASE j <= n
        BY <4>1, <4>3, <4>4 DEF RingInv, DeliveredInOrder, Increasing
      <4>5. CASE i <= n /\ j > n
        BY <4>1, <4>2, <4>3, <4>5 DEF RingInv, DeliveredInOrder
      <4>6. CASE i > n
        <5>1. i - n \in 1 .. Len(batch) /\ j - n \in 1 .. Len(batch) /\ i - n < j - n
          BY <4>1, <4>3, <4>6
        <5>2. i \in n + 1 .. n + Len(batch) /\ j \in n + 1 .. n + Len(batch)
          BY <4>1, <4>3, <4>6
        <5> QED
          BY <4>2, <5>1, <5>2 DEF RingInv, DeliveredInOrder, Increasing
      <4> QED
        BY <4>1, <4>3, <4>4, <4>5, <4>6
    <3>2. Increasing(batch')
      BY <1>13, EmptySeq DEF ReadReturn, Increasing
    <3> QED
      BY <2>2, <3>1, <3>2 DEF RingInv, DeliveredInOrder
  <2>7. NothingVanishes'
    BY <2>1, <2>2 DEF RingInv, NothingVanishes, ContentsInv
  <2> QED
    BY <1>0, <2>4, <2>5, <2>6, <2>7 DEF RingInv
<1>14. CASE Construct
  <2>0. orderly' = (orderly /\ cpc = "idle") /\ ppc # "init"
    BY <1>14 DEF Construct
  <2>1. cpc = "idle" /\ batch = <<>> /\ InBatch = {} /\ ppc # "init"
    <3>1. cpc = "idle"
      BY <2>0
    <3>2. batch = <<>> /\ Len(batch) = 0
      BY <3>1 DEF RingInv, ConsumerInv
    <3> QED
      BY <2>0, <3>1, <3>2 DEF InBatch
  <2>2. Pending' = {} /\ PendingMsgs' = {} /\ InBatch' = {} /\ Returned' = Returned
        /\ lost' = lost \cup PendingMsgs /\ accepted' = accepted
    BY <1>0, <1>14, <2>1, BetweenSame
       DEF Construct, Pending, PendingMsgs, InBatch, Returned, TypeOK
  <2>3. ProducerInv' /\ ConsumerInv'
    BY <1>0, <1>14, <2>1 DEF Construct, RingInv, ProducerInv, ConsumerInv, TypeOK
  <2>4. PendingMsgs \cap Returned = {}
    <3>1. \A m \in Returned, i \in Pending : m < slots[i]
      BY DEF RingInv, ContentsInv, Done
    <3>2. \A i \in Pending : slots[i] \in Int
      BY <1>0, <1>a DEF RingInv, ContentsInv, TypeOK
    <3>3. \A i \in Pending : slots[i] \notin Returned
      BY <3>1, <3>2
    <3> QED
      BY <3>3 DEF PendingMsgs
  <2>5. ContentsInv'
    BY <2>2 DEF ContentsInv
  <2>6. DeliveredInOrder'
    BY <1>14, <2>1, <2>2 DEF Construct, RingInv, DeliveredInOrder, Increasing
  <2>7. NothingVanishes'
    BY <2>1, <2>2, <2>4 DEF RingInv, NothingVanishes
  <2> QED
    BY <1>0, <2>3, <2>5, <2>6, <2>7 DEF RingInv
<1>15. CASE Destruct
  <2>0. orderly' = (orderly /\ cpc = "idle") /\ ppc # "init"
    BY <1>15 DEF Destruct
  <2>1. cpc = "idle" /\ batch = <<>> /\ InBatch = {} /\ ppc # "init"
    <3>1. cpc = "idle"
      BY <2>0
    <3>2. batch = <<>> /\ Len(batch) = 0
      BY <3>1 DEF RingInv, ConsumerInv
    <3> QED
      BY <2>0, <3>1, <3>2 DEF InBatch
  <2>2. Pending' = {} /\ PendingMsgs' = {} /\ InBatch' = {} /\ Returned' = Returned
        /\ lost' = lost \cup PendingMsgs /\ accepted' = accepted
    BY <1>0, <1>15, <2>1, BetweenSame
       DEF Destruct, Pending, PendingMsgs, InBatch, Returned, TypeOK
  <2>3. ProducerInv' /\ ConsumerInv'
    BY <1>0, <1>15, <2>1 DEF Destruct, RingInv, ProducerInv, ConsumerInv, TypeOK
  <2>4. PendingMsgs \cap Returned = {}
    <3>1. \A m \in Returned, i \in Pending : m < slots[i]
      BY DEF RingInv, ContentsInv, Done
    <3>2. \A i \in Pending : slots[i] \in Int
      BY <1>0, <1>a DEF RingInv, ContentsInv, TypeOK
    <3>3. \A i \in Pending : slots[i] \notin Returned
      BY <3>1, <3>2
    <3> QED
      BY <3>3 DEF PendingMsgs
  <2>5. ContentsInv'
    BY <2>2 DEF ContentsInv
  <2>6. DeliveredInOrder'
    BY <1>15, <2>1, <2>2 DEF Destruct, RingInv, DeliveredInOrder, Increasing
  <2>7. NothingVanishes'
    BY <2>1, <2>2, <2>4 DEF RingInv, NothingVanishes
  <2> QED
    BY <1>0, <2>3, <2>5, <2>6, <2>7 DEF RingInv
<1>16. CASE \E x \in {"head", "tail"} : InitIndex(x)
  <2>1. PICK x \in {"head", "tail"} : InitIndex(x)
    BY <1>16
  <2>2. cpc = "idle" /\ batch = <<>> /\ ppc = "init" /\ Pending = {}
    BY <2>1 DEF InitIndex, RingInv, ConsumerInv, ProducerInv, Pending
  <2>3. initLeft' = {} => head' = 0 /\ tail' = 0
    BY <1>0, <2>1 DEF InitIndex, RingInv, ProducerInv, TypeOK
  <2>4. Pending' = {}
    <3>1. CASE initLeft' = {}
      BY <1>0, <2>3, <3>1, BetweenSame DEF Pending, TypeOK
    <3>2. CASE initLeft' # {}
      BY <2>1, <3>2 DEF InitIndex, Pending
    <3> QED
      BY <3>1, <3>2
  <2>5. ProducerInv' /\ ConsumerInv'
    <3>1. initLeft' = {} => ppc' = "idle"
      BY <2>1 DEF InitIndex
    <3>2. initLeft' # {} => ppc' = "init" /\ ("head" \notin initLeft' => head' = 0)
                                          /\ ("tail" \notin initLeft' => tail' = 0)
      BY <1>0, <2>1 DEF InitIndex, RingInv, ProducerInv, TypeOK
    <3> QED
      BY <1>0, <2>1, <2>2, <3>1, <3>2 DEF InitIndex, RingInv, ProducerInv, ConsumerInv
  <2>6. PendingMsgs' = {} /\ PendingMsgs = {} /\ InBatch' = InBatch
        /\ Returned' = Returned /\ accepted' = accepted /\ lost' = lost
    BY <2>1, <2>2, <2>4 DEF InitIndex, PendingMsgs, InBatch, Returned
  <2>7. ContentsInv'
    BY <2>4, <2>6 DEF RingInv, ContentsInv
  <2>8. DeliveredInOrder'
    BY <2>1, <2>6 DEF InitIndex, RingInv, DeliveredInOrder, Increasing
  <2>9. NothingVanishes'
    BY <2>6 DEF RingInv, NothingVanishes
  <2> QED
    BY <1>0, <2>5, <2>7, <2>8, <2>9 DEF RingInv
<1>17. CASE ConsumerDies
  <2>1. Pending' = Pending /\ PendingMsgs' = PendingMsgs /\ Returned' = Returned
        /\ accepted' = accepted /\ lost' = lost \cup (InBatch \ PendingMsgs)
    BY <1>17 DEF ConsumerDies, Pending, PendingMsgs, Returned
  <2>2. InBatch' = {} /\ Done' = Returned /\ Returned \subseteq Done
    BY <1>17, EmptySeq DEF ConsumerDies, InBatch, Done, Returned
  <2>3. ProducerInv' /\ ConsumerInv'
    BY <1>0, <1>17 DEF ConsumerDies, RingInv, ProducerInv, ConsumerInv, TypeOK
  <2>4. ContentsInv'
    BY <1>17, <2>1, <2>2 DEF ConsumerDies, RingInv, ContentsInv, Rank
  <2>5. DeliveredInOrder'
    BY <1>17, <2>1, <2>2, EmptySeq DEF ConsumerDies, RingInv, DeliveredInOrder, Increasing
  <2>6. InBatch \cap Returned = {}
    <3>1. InBatch \subseteq Int
      BY <1>0, <1>a DEF RingInv, DeliveredInOrder, TypeOK
    <3>2. \A m \in Returned, n \in InBatch : m < n
      BY DEF RingInv, DeliveredInOrder
    <3>3. \A n \in InBatch : n \notin Returned
      BY <3>1, <3>2
    <3> QED
      BY <3>3
  <2>7. NothingVanishes'
    BY <2>1, <2>2, <2>6 DEF RingInv, NothingVanishes
  <2> QED
    BY <1>0, <2>3, <2>4, <2>5, <2>7 DEF RingInv
<1>18. CASE UNCHANGED vars
  <2>1. SameReports
    BY <1>18 DEF vars, SameReports, Pending, PendingMsgs, Done, InBatch, Returned
  <2>2. ProducerInv' /\ ConsumerInv'
    BY <1>18 DEF vars, RingInv, ProducerInv, ConsumerInv
  <2> QED
    BY <1>b, <2>1, <2>2
<1> QED
  BY <1>1, <1>2, <1>3, <1>4, <1>5, <1>6, <1>7, <1>8, <1>9, <1>10, <1>11, <1>12, <1>13, <1>14, <1>15, <1>16, <1>17, <1>18
     DEF Next, Producer, ConsumerSteps

\* A producer in the middle of a write, in any state.
LEMMA WriterStep == TypeInv /\ WriterInv /\ [Next]_vars => WriterInv'
<1> SUFFICES ASSUME TypeInv, WriterInv, [Next]_vars PROVE WriterInv'
  OBVIOUS
<1> USE RingAssumption DEF TypeInv, TypeOK, WriterInv, shared, prod, cons, hist
<1>1. CASE UNCHANGED <<slots, tail, ppc, tailVal, cur, called>>
  BY <1>1
<1>2. CASE ppc' \in {"init", "idle", "down"}
  BY <1>2
<1>3. CASE WriteBegin
  BY <1>3 DEF WriteBegin, Msg
<1>4. CASE WriteCopyFirst \/ WriteCopyLast
  BY <1>4 DEF WriteCopyFirst, WriteCopyLast
<1>5. [Next]_vars => \/ UNCHANGED <<slots, tail, ppc, tailVal, cur, called>>
                     \/ ppc' \in {"init", "idle", "down"}
                     \/ WriteBegin \/ WriteCopyFirst \/ WriteCopyLast
  BY DEF Next, Producer, ConsumerSteps, vars, Construct, InitIndex, WriteFull, WritePublish,
         Destruct, Crash, LoadHead, ReadReturn, ReadEnter, LoadIndex, ReadCopyFirst,
         ReadCopyLast, StoreHead, ConsumerDies
<1> QED
  BY <1>1, <1>2, <1>3, <1>4, <1>5

\* A read that ends on an empty ring restores order, whatever happened before.
LEMMA OrderRestored ==
    ASSUME TypeInv, WriterInv, Unrecorded, ~orderly, orderly', [Next]_vars
    PROVE  RingInv'
<1>1. TypeOK'
  BY TypeStep DEF TypeInv
<1>2. ReadReturn /\ head = tail /\ ppc # "init"
  BY DEF Next, Producer, ConsumerSteps, vars, shared, prod, cons, hist, Record,
         Construct, InitIndex, WriteFull, WriteBegin, WriteCopyFirst, WriteCopyLast, WritePublish,
         Destruct, Crash, LoadHead, ReadReturn, ReadEnter, LoadIndex, ReadCopyFirst,
         ReadCopyLast, StoreHead, ConsumerDies
<1>3. accepted' = {} /\ lost' = {} /\ delivered' = <<>>
  BY <1>2, EmptySeq DEF ReadReturn, Record, Unrecorded
<1>4. batch' = <<>> /\ cpc' = "idle" /\ UNCHANGED <<slots, head, tail, prod, called>>
  BY <1>2 DEF ReadReturn, shared
<1>5. Next1(tail) # tail
  BY Next1Value, RingAssumption DEF TypeInv, TypeOK, Slot
<1>6. ProducerInv' /\ ConsumerInv'
  BY <1>2, <1>3, <1>4, <1>5 DEF prod, WriterInv, ProducerInv, ConsumerInv
<1>7. Pending' = {} /\ PendingMsgs' = {} /\ InBatch' = {} /\ Returned' = {} /\ Done' = {}
  <2>1. Pending' = {}
    BY <1>2, <1>4, BetweenSame DEF Pending, TypeInv, TypeOK
  <2>2. Len(batch') = 0 /\ Len(delivered') = 0
    BY <1>3, <1>4
  <2>3. InBatch' = {} /\ Returned' = {}
    BY <2>2 DEF InBatch, Returned
  <2>4. Done' = {}
    BY <1>4, <2>2, <2>3 DEF Done
  <2> QED
    BY <2>1, <2>3, <2>4 DEF PendingMsgs
<1>8. ContentsInv' /\ DeliveredInOrder' /\ NothingVanishes'
  BY <1>3, <1>4, <1>7 DEF ContentsInv, DeliveredInOrder, NothingVanishes, Increasing
<1> QED
  BY <1>1, <1>6, <1>8 DEF RingInv

LEMMA DisturbedInit == Init => TypeInv /\ DisturbedInv
  BY TypeInit, RingInit DEF TypeInv, DisturbedInv, WriterInv, Unrecorded, Init

LEMMA DisturbedStep ==
    TypeInv /\ DisturbedInv /\ [Next]_vars => TypeInv' /\ DisturbedInv'
<1> SUFFICES ASSUME TypeInv, DisturbedInv, [Next]_vars PROVE TypeInv' /\ DisturbedInv'
  OBVIOUS
<1>1. TypeInv' /\ WriterInv'
  BY TypeStep, WriterStep DEF DisturbedInv
<1>2. ASSUME orderly' PROVE RingInv'
  <2>1. CASE orderly
    BY <1>2, <2>1, RingStep DEF DisturbedInv
  <2>2. CASE ~orderly
    BY <1>2, <2>2, OrderRestored DEF DisturbedInv
  <2> QED
    BY <2>1, <2>2
<1>3. Unrecorded'
  <2> SUFFICES ASSUME ~orderly' PROVE accepted' = {} /\ delivered' = <<>> /\ lost' = {}
    BY DEF Unrecorded
  <2>1. ASSUME NEW a, NEW d, NEW l, NEW o, Record(a, d, l, o)
        PROVE  accepted' = {} /\ delivered' = <<>> /\ lost' = {}
    BY <2>1 DEF Record
  <2>2. CASE UNCHANGED hist
    BY <2>2 DEF hist, DisturbedInv, Unrecorded
  <2>3. UNCHANGED hist \/ \E a, d, l, o : Record(a, d, l, o)
   BY DEF Next, Producer, ConsumerSteps, vars, Construct, InitIndex, WriteFull, WriteBegin, WriteCopyFirst, WriteCopyLast,
         WritePublish, Destruct, Crash, LoadHead, ReadReturn, ReadEnter, LoadIndex,
         ReadCopyFirst, ReadCopyLast, StoreHead, ConsumerDies
  <2> QED
    BY <2>1, <2>2, <2>3
<1> QED
  BY <1>1, <1>2, <1>3 DEF DisturbedInv, TypeInv

\* For every ring size, with producer and consumer ending and starting whenever
\* they do: from the first start on, and again from every read that finds the
\* ring empty, up to a constructor or destructor that cuts into a read, the two
\* sides never touch one slot at the same time; what read_messages returns is in
\* order, complete and never repeated; an accepted report is lost only with a
\* process.
THEOREM RingCorrect ==
    Spec => [](NoSlotRace /\ DeliveredInOrder /\ NothingVanishes)
<1>1. DisturbedInv => NoSlotRace /\ DeliveredInOrder /\ NothingVanishes
  BY RaceFree DEF DisturbedInv, RingInv, NoSlotRace, DeliveredInOrder, NothingVanishes
<1> QED
  BY <1>1, DisturbedInit, DisturbedStep, PTL DEF Spec

-----------------------------------------------------------------------------
(* The ring implements the bounded FIFO.                                   *)

LEMMA FunctionIsSeq ==
    ASSUME NEW S, NEW n \in Nat, NEW f \in [1 .. n -> S]
    PROVE  f \in Seq(S) /\ Len(f) = n
OBVIOUS

\* How many slots the ring holds from h up to t, and the i-th of them.
Count(h, t) == IF h <= t THEN t - h ELSE t - h + BufferSize
At(h, i) == (h + i - 1) % BufferSize

LEMMA CardinalityBetween ==
    ASSUME NEW h \in Slot, NEW t \in Slot
    PROVE  Cardinality(Between(h, t)) = Count(h, t)
<1> USE RingAssumption DEF Slot
<1>1. CASE h <= t
  <2>1. Cardinality(h .. t - 1) = IF h > t - 1 THEN 0 ELSE t - 1 - h + 1
    BY FS_Interval
  <2> QED
    BY <1>1, <2>1 DEF Between, Count
<1>2. CASE ~(h <= t)
  <2> DEFINE A == h .. BufferSize - 1
  <2> DEFINE B == 0 .. t - 1
  <2>1. /\ IsFiniteSet(A)
        /\ Cardinality(A) = IF h > BufferSize - 1 THEN 0 ELSE BufferSize - 1 - h + 1
    BY FS_Interval
  <2>2. IsFiniteSet(B) /\ Cardinality(B) = IF 0 > t - 1 THEN 0 ELSE t - 1 - 0 + 1
    BY FS_Interval
  <2>3. A \cap B = {}
    BY <1>2
  <2> HIDE DEF A, B
  <2>4. Cardinality(A \cup B) = Cardinality(A) + Cardinality(B) - Cardinality(A \cap B)
    BY <2>1, <2>2, FS_Union
  <2>5. Cardinality(A \cap B) = 0
    BY <2>3, FS_EmptySet
  <2>6. Between(h, t) = A \cup B
    BY <1>2 DEF Between, A, B
  <2> QED
    BY <1>2, <2>1, <2>2, <2>4, <2>5, <2>6 DEF Count
<1> QED
  BY <1>1, <1>2

LEMMA AtValue ==
    ASSUME NEW h \in Slot, NEW i \in 1 .. BufferSize
    PROVE  At(h, i) = IF h + i - 1 < BufferSize THEN h + i - 1 ELSE h + i - 1 - BufferSize
  BY RingAssumption, SMTT(20) DEF At, Slot

LEMMA AtBetween ==
    ASSUME NEW h \in Slot, NEW t \in Slot
    PROVE  /\ Count(h, t) \in 0 .. BufferSize - 1
           /\ \A i \in 1 .. Count(h, t) : At(h, i) \in Between(h, t)
<1>1. Count(h, t) \in 0 .. BufferSize - 1
  BY RingAssumption DEF Count, Slot
<1>2. ASSUME NEW i \in 1 .. Count(h, t) PROVE At(h, i) \in Between(h, t)
  <2>1. i \in 1 .. BufferSize
    BY <1>1, RingAssumption
  <2>2. At(h, i) = IF h + i - 1 < BufferSize THEN h + i - 1 ELSE h + i - 1 - BufferSize
    BY <2>1, AtValue
  <2> QED
    BY <2>1, <2>2, RingAssumption DEF Count, Between, Slot
<1> QED
  BY <1>1, <1>2

LEMMA CountPublish ==
    ASSUME NEW h \in Slot, NEW t \in Slot, Next1(t) # h
    PROVE  /\ Count(h, Next1(t)) = Count(h, t) + 1
           /\ Count(h, t) < BufferSize - 1
           /\ At(h, Count(h, t) + 1) = t
<1>1. Next1(t) = IF t = BufferSize - 1 THEN 0 ELSE t + 1
  BY Next1Value
<1>2. Count(h, Next1(t)) = Count(h, t) + 1 /\ Count(h, t) < BufferSize - 1
  BY <1>1, RingAssumption DEF Count, Slot
<1>3. Count(h, t) + 1 \in 1 .. BufferSize
  BY <1>2, AtBetween, RingAssumption
<1>4. At(h, Count(h, t) + 1) =
          IF h + (Count(h, t) + 1) - 1 < BufferSize THEN h + (Count(h, t) + 1) - 1
          ELSE h + (Count(h, t) + 1) - 1 - BufferSize
  BY <1>3, AtValue
<1> QED
  BY <1>2, <1>4, RingAssumption DEF Count, Slot

LEMMA CountAdvance ==
    ASSUME NEW h \in Slot, NEW t \in Slot, h # t
    PROVE  /\ Count(Next1(h), t) = Count(h, t) - 1
           /\ Count(h, t) > 0
           /\ At(h, 1) = h
           /\ \A i \in 1 .. Count(h, t) - 1 : At(Next1(h), i) = At(h, i + 1)
<1>1. Next1(h) = IF h = BufferSize - 1 THEN 0 ELSE h + 1
  BY Next1Value
<1>2. Next1(h) \in Slot
  BY <1>1, RingAssumption DEF Slot
<1>3. Count(Next1(h), t) = Count(h, t) - 1 /\ Count(h, t) > 0
  BY <1>1, RingAssumption DEF Count, Slot
<1>4. At(h, 1) = h
  <2>1. 1 \in 1 .. BufferSize
    BY RingAssumption
  <2> QED
    BY <2>1, AtValue, RingAssumption DEF Slot
<1>5. ASSUME NEW i \in 1 .. Count(h, t) - 1 PROVE At(Next1(h), i) = At(h, i + 1)
  <2>1. i \in 1 .. BufferSize /\ i + 1 \in 1 .. BufferSize
    BY AtBetween, RingAssumption
  <2>2. At(h, i + 1) = IF h + (i + 1) - 1 < BufferSize THEN h + (i + 1) - 1
                       ELSE h + (i + 1) - 1 - BufferSize
    BY <2>1, AtValue
  <2>3. At(Next1(h), i) = IF Next1(h) + i - 1 < BufferSize THEN Next1(h) + i - 1
                          ELSE Next1(h) + i - 1 - BufferSize
    BY <1>2, <2>1, AtValue
  <2> QED
    BY <1>1, <2>1, <2>2, <2>3, RingAssumption DEF Slot
<1> QED
  BY <1>3, <1>4, <1>5

\* The reports from h up to t, as a sequence, and what the two index stores do to it.
SeqOf(s, h, t) == [i \in 1 .. Count(h, t) |-> s[At(h, i)]]

LEMMA SeqOfTyped ==
    ASSUME NEW S, NEW s \in [Slot -> S], NEW h \in Slot, NEW t \in Slot
    PROVE  /\ SeqOf(s, h, t) \in Seq(S) /\ Len(SeqOf(s, h, t)) = Count(h, t)
           /\ Count(h, t) \in Nat
           /\ \A i \in 1 .. Count(h, t) : SeqOf(s, h, t)[i] = s[At(h, i)]
<1>1. Count(h, t) \in Nat /\ \A i \in 1 .. Count(h, t) : At(h, i) \in Slot
  <2>1. Between(h, t) \subseteq Slot
    BY RingAssumption DEF Between, Slot
  <2> QED
    BY <2>1, AtBetween, RingAssumption
<1>2. SeqOf(s, h, t) \in [1 .. Count(h, t) -> S]
  BY <1>1 DEF SeqOf
<1>3. SeqOf(s, h, t) \in Seq(S) /\ Len(SeqOf(s, h, t)) = Count(h, t)
  BY <1>1, <1>2, FunctionIsSeq
<1> QED
  BY <1>1, <1>3 DEF SeqOf

LEMMA SeqOfEmpty ==
    ASSUME NEW s, NEW h \in Slot
    PROVE  SeqOf(s, h, h) = <<>>
<1>1. Count(h, h) = 0
  BY DEF Count, Slot
<1> QED
  BY <1>1 DEF SeqOf

LEMMA SeqOfSame ==
    ASSUME NEW s, NEW u, NEW h \in Slot, NEW t \in Slot,
           \A i \in Between(h, t) : s[i] = u[i]
    PROVE  SeqOf(s, h, t) = SeqOf(u, h, t)
BY AtBetween DEF SeqOf

LEMMA SeqOfPublish ==
    ASSUME NEW S, NEW s \in [Slot -> S], NEW h \in Slot, NEW t \in Slot, Next1(t) # h
    PROVE  /\ SeqOf(s, h, Next1(t)) = Append(SeqOf(s, h, t), s[t])
           /\ Len(SeqOf(s, h, t)) < BufferSize - 1
<1>0. ASSUME NEW u \in Slot
      PROVE  /\ SeqOf(s, h, u) \in Seq(S) /\ Len(SeqOf(s, h, u)) = Count(h, u)
             /\ Count(h, u) \in Nat
             /\ \A i \in 1 .. Count(h, u) : SeqOf(s, h, u)[i] = s[At(h, i)]
  <2>1. SeqOf(s, h, u) \in Seq(S)
    BY SeqOfTyped
  <2>2. Len(SeqOf(s, h, u)) = Count(h, u)
    BY SeqOfTyped
  <2>3. Count(h, u) \in Nat
    BY SeqOfTyped
  <2>4. \A i \in 1 .. Count(h, u) : SeqOf(s, h, u)[i] = s[At(h, i)]
    BY DEF SeqOf
  <2> QED
    BY <2>1, <2>2, <2>3, <2>4
<1> DEFINE n == Count(h, t)
<1> DEFINE q == SeqOf(s, h, t)
<1> DEFINE r == SeqOf(s, h, Next1(t))
<1>1. Count(h, Next1(t)) = n + 1 /\ n < BufferSize - 1 /\ At(h, n + 1) = t
  BY CountPublish
<1>2. Next1(t) \in Slot /\ s[t] \in S
  BY Next1Value, RingAssumption DEF Slot
<1>3. q \in Seq(S) /\ Len(q) = n /\ n \in Nat /\ \A i \in 1 .. n : q[i] = s[At(h, i)]
  BY SeqOfTyped
<1>4. r \in Seq(S) /\ Len(r) = n + 1 /\ \A i \in 1 .. n + 1 : r[i] = s[At(h, i)]
  <2>1. /\ r \in Seq(S) /\ Len(r) = Count(h, Next1(t))
        /\ \A i \in 1 .. Count(h, Next1(t)) : r[i] = s[At(h, i)]
    BY <1>0, <1>2
  <2> HIDE DEF r, n
  <2> QED
    BY <1>1, <2>1
<1> HIDE DEF n, q, r
<1>5. /\ Append(q, s[t]) \in Seq(S) /\ Len(Append(q, s[t])) = n + 1
      /\ \A i \in 1 .. n : Append(q, s[t])[i] = q[i]
      /\ Append(q, s[t])[n + 1] = s[t]
  BY <1>2, <1>3, AppendProperties
<1>6. \A i \in 1 .. n + 1 : r[i] = Append(q, s[t])[i]
  BY <1>1, <1>3, <1>4, <1>5
<1>7. r = Append(q, s[t])
  BY <1>4, <1>5, <1>6, SeqEqual
<1> QED
  BY <1>1, <1>3, <1>7 DEF q, r

LEMMA SeqOfAdvance ==
    ASSUME NEW S, NEW s \in [Slot -> S], NEW h \in Slot, NEW t \in Slot, h # t
    PROVE  /\ SeqOf(s, h, t) # <<>>
           /\ SeqOf(s, Next1(h), t) = Tail(SeqOf(s, h, t))
           /\ Head(SeqOf(s, h, t)) = s[h]
<1>0. ASSUME NEW u \in Slot
      PROVE  /\ SeqOf(s, u, t) \in Seq(S) /\ Len(SeqOf(s, u, t)) = Count(u, t)
             /\ Count(u, t) \in Nat
             /\ \A i \in 1 .. Count(u, t) : SeqOf(s, u, t)[i] = s[At(u, i)]
  <2>1. SeqOf(s, u, t) \in Seq(S)
    BY SeqOfTyped
  <2>2. Len(SeqOf(s, u, t)) = Count(u, t)
    BY SeqOfTyped
  <2>3. Count(u, t) \in Nat
    BY SeqOfTyped
  <2>4. \A i \in 1 .. Count(u, t) : SeqOf(s, u, t)[i] = s[At(u, i)]
    BY DEF SeqOf
  <2> QED
    BY <2>1, <2>2, <2>3, <2>4
<1> DEFINE n == Count(h, t)
<1> DEFINE q == SeqOf(s, h, t)
<1> DEFINE r == SeqOf(s, Next1(h), t)
<1>1. Count(Next1(h), t) = n - 1 /\ n > 0 /\ At(h, 1) = h
      /\ \A i \in 1 .. n - 1 : At(Next1(h), i) = At(h, i + 1)
  BY CountAdvance
<1>2. Next1(h) \in Slot
  BY Next1Value, RingAssumption DEF Slot
<1>3. q \in Seq(S) /\ Len(q) = n /\ n \in Nat /\ \A i \in 1 .. n : q[i] = s[At(h, i)]
  BY SeqOfTyped
<1>4. r \in Seq(S) /\ Len(r) = n - 1 /\ \A i \in 1 .. n - 1 : r[i] = s[At(Next1(h), i)]
  <2>1. /\ r \in Seq(S) /\ Len(r) = Count(Next1(h), t)
        /\ \A i \in 1 .. Count(Next1(h), t) : r[i] = s[At(Next1(h), i)]
    BY <1>0, <1>2
  <2> HIDE DEF r, n
  <2> QED
    BY <1>1, <2>1
<1> HIDE DEF n, q, r
<1>5. q # <<>>
  BY <1>1, <1>3, EmptySeq
<1>6. /\ Tail(q) \in Seq(S) /\ Len(Tail(q)) = n - 1
      /\ \A i \in 1 .. n - 1 : Tail(q)[i] = q[i + 1]
  BY <1>3, <1>5, HeadTailProperties
<1>7. ASSUME NEW i \in 1 .. n - 1 PROVE r[i] = Tail(q)[i]
  <2>1. i + 1 \in 1 .. n
    BY <1>3
  <2>2. q[i + 1] = s[At(h, i + 1)]
    BY <1>3, <2>1
  <2> QED
    BY <1>1, <1>4, <1>6, <2>2
<1>8. r = Tail(q)
  BY <1>4, <1>6, <1>7, SeqEqual
<1>9. Head(q) = s[h]
  BY <1>1, <1>3, <1>5
<1> QED
  BY <1>5, <1>8, <1>9 DEF q, r

\* What the refinement calls the queue, in a state and in the next one.
LEMMA RingIsSeqOf ==
    /\ TypeOK => RingAsSeq = IF ppc = "init" THEN <<>> ELSE SeqOf(slots, head, tail)
    /\ TypeOK' => RingAsSeq' = IF ppc' = "init" THEN <<>> ELSE SeqOf(slots', head', tail')
<1> DEFINE Held(p, h, t) == IF p = "init" THEN {} ELSE Between(h, t)
<1>1. ASSUME NEW p, NEW s, NEW h \in Slot, NEW t \in Slot
      PROVE  [i \in 1 .. Cardinality(Held(p, h, t)) |-> s[(h + i - 1) % BufferSize]] =
                 IF p = "init" THEN <<>> ELSE SeqOf(s, h, t)
  <2>1. CASE p = "init"
    <3>1. Cardinality(Held(p, h, t)) = 0
      BY <2>1, FS_EmptySet
    <3> HIDE DEF Held
    <3> QED
      BY <2>1, <3>1
  <2>2. CASE p # "init"
    <3>1. Cardinality(Held(p, h, t)) = Count(h, t)
      BY <2>2, CardinalityBetween
    <3> HIDE DEF Held
    <3> QED
      BY <2>2, <3>1 DEF SeqOf, At
  <2> QED
    BY <2>1, <2>2
<1>2. Pending = Held(ppc, head, tail) /\ Pending' = Held(ppc', head', tail')
  BY DEF Pending
<1> HIDE DEF Held
<1>3. ASSUME TypeOK
      PROVE  RingAsSeq = IF ppc = "init" THEN <<>> ELSE SeqOf(slots, head, tail)
  <2>1. head \in Slot /\ tail \in Slot
    BY <1>3 DEF TypeOK
  <2> QED
    BY <1>1, <1>2, <2>1 DEF RingAsSeq
<1>4. ASSUME TypeOK'
      PROVE  RingAsSeq' = IF ppc' = "init" THEN <<>> ELSE SeqOf(slots', head', tail')
  <2>1. head' \in Slot /\ tail' \in Slot
    BY <1>4 DEF TypeOK
  <2> QED
    BY <1>1, <1>2, <2>1 DEF RingAsSeq
<1> QED
  BY <1>3, <1>4

LEMMA TakenAppend ==
    ASSUME NEW S, NEW b \in Seq(S), b # <<>>
    PROVE  b = Append(SubSeq(b, 1, Len(b) - 1), b[Len(b)])
<1> DEFINE n == Len(b)
<1>1. n \in Nat \ {0} /\ \A i \in 1 .. n : b[i] \in S
  BY EmptySeq, ElementOfSeq
<1> DEFINE c == SubSeq(b, 1, n - 1)
<1>2. c \in Seq(S) /\ Len(c) = n - 1 /\ \A i \in 1 .. n - 1 : c[i] = b[i]
  <2>1. \A i \in 1 .. n - 1 : b[i] \in S
    BY <1>1
  <2>2. c \in Seq(S) /\ Len(c) = (IF 1 <= n - 1 THEN n - 1 - 1 + 1 ELSE 0)
        /\ \A i \in 1 .. n - 1 - 1 + 1 : c[i] = b[1 + i - 1]
    BY <1>1, <2>1, SubSeqProperties
  <2> HIDE DEF c, n
  <2>3. Len(c) = n - 1 /\ n - 1 - 1 + 1 = n - 1
    BY <1>1, <2>2
  <2>4. ASSUME NEW i \in 1 .. n - 1 PROVE c[i] = b[i]
    <3>1. 1 + i - 1 = i
      BY <1>1
    <3> QED
      BY <2>2, <2>3, <3>1
  <2> QED
    BY <2>2, <2>3, <2>4
<1>3. b[n] \in S
  BY <1>1
<1> HIDE DEF c
<1>4. /\ Append(c, b[n]) \in Seq(S) /\ Len(Append(c, b[n])) = n
      /\ \A i \in 1 .. n - 1 : Append(c, b[n])[i] = c[i]
      /\ Append(c, b[n])[n] = b[n]
  <2>1. /\ Append(c, b[n]) \in Seq(S) /\ Len(Append(c, b[n])) = Len(c) + 1
        /\ \A i \in 1 .. Len(c) : Append(c, b[n])[i] = c[i]
        /\ Append(c, b[n])[Len(c) + 1] = b[n]
    BY <1>2, <1>3, AppendProperties
  <2>2. Len(c) + 1 = n
    BY <1>1, <1>2
  <2> QED
    BY <1>1, <1>2, <2>1, <2>2
<1>5. \A i \in 1 .. n : b[i] = Append(c, b[n])[i]
  BY <1>1, <1>2, <1>4
<1> QED
  BY <1>4, <1>5, SeqEqual DEF c

\* Every step of the two processes is a step of the bounded FIFO or invisible.
LEMMA QueueStep ==
    ASSUME RingInv, RingInv', [Next]_vars
    PROVE  [Queue!QNext]_(Queue!qvars)
<1> DEFINE Val == Msg \cup {Empty, Torn}
<1>0. TypeOK /\ TypeOK'
  BY DEF RingInv
<1>a. RingAsSeq = IF ppc = "init" THEN <<>> ELSE SeqOf(slots, head, tail)
  BY <1>0, RingIsSeqOf
<1>b. RingAsSeq' = IF ppc' = "init" THEN <<>> ELSE SeqOf(slots', head', tail')
  BY <1>0, RingIsSeqOf
<1>c. head \in Slot /\ tail \in Slot /\ head' \in Slot /\ tail' \in Slot
      /\ slots \in [Slot -> Val] /\ slots' \in [Slot -> Val] /\ batch \in Seq(Val)
  BY <1>0 DEF TypeOK
<1> DEFINE up == ppc \notin {"down", "init"}
<1>d. orderly /\ orderly'
  BY DEF RingInv
<1> USE <1>d DEF shared, prod, cons, hist, Record
\* Steps that leave queue, list and output as they are.
<1>1. ASSUME UNCHANGED <<head, tail, batch, delivered>>, cpc = "advance" <=> cpc' = "advance",
             \A i \in Pending : slots'[i] = slots[i],
             ppc = "init" <=> ppc' = "init", up' <=> up
      PROVE  UNCHANGED (Queue!qvars)
  <2>1. TakenSeq' = TakenSeq
    BY <1>1 DEF TakenSeq
  <2>2. RingAsSeq' = RingAsSeq
    <3>1. CASE ppc = "init"
      BY <1>1, <1>a, <1>b, <3>1
    <3>2. CASE ppc # "init"
      BY <1>1, <1>a, <1>b, <1>c, <3>2, SeqOfSame DEF Pending
    <3> QED
      BY <3>1, <3>2
  <2>3. up' = up
    BY <1>1
  <2> QED
    BY <1>1, <2>1, <2>2, <2>3 DEF Queue!qvars
<1>2. CASE WriteFull \/ WriteBegin \/ LoadHead \/ ReadEnter \/ LoadIndex \/ ReadCopyFirst
           \/ UNCHANGED vars
  <2>1. /\ UNCHANGED <<slots, head, tail, batch, delivered>>
        /\ cpc = "advance" <=> cpc' = "advance"
        /\ ppc = "init" <=> ppc' = "init"
        /\ up' <=> up
    BY <1>2 DEF WriteFull, WriteBegin, LoadHead, ReadEnter, LoadIndex, ReadCopyFirst, vars
  <2> QED
    BY <1>1, <2>1
<1>3. CASE WriteCopyFirst \/ WriteCopyLast
  <2>1. tail \notin Pending /\ tailVal = tail
    BY <1>c, <1>3, BetweenPublish DEF WriteCopyFirst, WriteCopyLast, RingInv, ProducerInv, Pending
  <2>2. \A i \in Pending : slots'[i] = slots[i]
    BY <1>c, <1>3, <2>1, PendingInSlot DEF WriteCopyFirst, WriteCopyLast
  <2>3. /\ UNCHANGED <<head, tail, batch, delivered>>
        /\ cpc = "advance" <=> cpc' = "advance"
        /\ ppc = "init" <=> ppc' = "init"
        /\ up' <=> up
    BY <1>3 DEF WriteCopyFirst, WriteCopyLast
  <2> QED
    BY <1>1, <2>2, <2>3
<1>4. CASE WritePublish
  <2>1. tailVal = tail /\ Next1(tail) # head /\ slots[tail] = cur /\ cur \in Msg
    BY <1>0, <1>4, TypeOfRing
       DEF WritePublish, RingInv, ProducerInv, TypeInv, TypeOK, Copying
  <2>2. RingAsSeq' = Append(RingAsSeq, cur) /\ Len(RingAsSeq) < BufferSize - 1
    BY <1>4, <1>a, <1>b, <1>c, <2>1, SeqOfPublish DEF WritePublish
  <2>3. up /\ up' /\ TakenSeq' = TakenSeq /\ delivered' = delivered
    BY <1>4 DEF WritePublish, TakenSeq
  <2>4. Queue!Put(cur)
    BY <2>2, <2>3 DEF Queue!Put
  <2> QED
    BY <2>1, <2>4 DEF Queue!QNext, Queue!FifoNext
<1>5. CASE StoreHead
  <2>1. head # tail /\ headIndex = head /\ batch # <<>> /\ batch[Len(batch)] = slots[head]
        /\ cpc = "advance" /\ ppc # "init"
    BY <1>5 DEF StoreHead, RingInv, ConsumerInv, ProducerInv
  <2>2. RingAsSeq # <<>> /\ RingAsSeq' = Tail(RingAsSeq) /\ Head(RingAsSeq) = slots[head]
    BY <1>5, <1>a, <1>b, <1>c, <2>1, SeqOfAdvance DEF StoreHead
  <2>3. TakenSeq' = Append(TakenSeq, slots[head])
    BY <1>c, <1>5, <2>1, TakenAppend DEF StoreHead, TakenSeq
  <2>4. Queue!Take
    BY <1>5, <2>2, <2>3 DEF Queue!Take, StoreHead
  <2> QED
    BY <2>4 DEF Queue!QNext, Queue!FifoNext
<1>6. CASE ReadCopyLast
  <2>1. headIndex = head /\ copy = slots[head]
    BY <1>6 DEF ReadCopyLast, RingInv, ConsumerInv
  <2>2. slots[head] \in Val /\ batch' = Append(batch, slots[head])
    BY <1>c, <1>6, <2>1 DEF ReadCopyLast
  <2>3. TakenSeq' = TakenSeq
    <3>1. TakenSeq = batch /\ TakenSeq' = SubSeq(batch', 1, Len(batch') - 1)
      BY <1>6 DEF ReadCopyLast, TakenSeq
    <3>2. /\ batch' \in Seq(Val) /\ Len(batch') = Len(batch) + 1 /\ Len(batch) \in Nat
          /\ batch' # <<>> /\ batch'[Len(batch')] = slots[head]
      BY <1>c, <2>2, AppendProperties, LenProperties
    <3>3. batch' = Append(SubSeq(batch', 1, Len(batch') - 1), batch'[Len(batch')])
      BY <3>2, TakenAppend
    <3>4. SubSeq(batch', 1, Len(batch') - 1) \in Seq(Val)
      <4>1. \A i \in 1 .. Len(batch') - 1 : batch'[i] \in Val
        BY <3>2, ElementOfSeq
      <4> QED
        BY <3>2, <4>1, SubSeqProperties
    <3> QED
      BY <1>c, <2>2, <3>1, <3>2, <3>3, <3>4, AppendInjective
  <2>4. RingAsSeq' = RingAsSeq /\ up' = up /\ delivered' = delivered
    BY <1>6, <1>a, <1>b DEF ReadCopyLast
  <2> QED
    BY <2>3, <2>4 DEF Queue!qvars
<1>7. CASE ReadReturn
  <2>1. TakenSeq = batch /\ TakenSeq' = <<>> /\ delivered' = delivered \o batch
    BY <1>7 DEF ReadReturn, TakenSeq
  <2>2. RingAsSeq' = RingAsSeq /\ up' = up
    BY <1>7, <1>a, <1>b DEF ReadReturn
  <2>3. Queue!Return
    BY <2>1, <2>2 DEF Queue!Return
  <2> QED
    BY <2>3 DEF Queue!QNext, Queue!FifoNext
<1>8. CASE Construct
  <2>1. RingAsSeq' = <<>> /\ ~up /\ ~up' /\ TakenSeq' = TakenSeq /\ delivered' = delivered
    BY <1>8, <1>b DEF Construct, TakenSeq
  <2>2. Queue!Clear
    BY <2>1 DEF Queue!Clear
  <2> QED
    BY <2>2 DEF Queue!QNext, Queue!FifoNext
<1>9. CASE Destruct
  <2>1. RingAsSeq' = <<>>
    BY <1>9, <1>b, <1>c, SeqOfEmpty DEF Destruct
  <2>2. up /\ ~up' /\ TakenSeq' = TakenSeq /\ delivered' = delivered
    BY <1>9 DEF Destruct, TakenSeq
  <2>3. Queue!Stop
    BY <2>1, <2>2 DEF Queue!Stop
  <2> QED
    BY <2>3 DEF Queue!QNext, Queue!FifoNext
<1>10. CASE Crash
  <2>1. RingAsSeq' = RingAsSeq
    BY <1>10, <1>a, <1>b DEF Crash
  <2>2. up /\ ~up' /\ TakenSeq' = TakenSeq /\ delivered' = delivered
    BY <1>10 DEF Crash, RingInv, TypeOK, TakenSeq
  <2>3. Queue!Stop
    BY <2>1, <2>2 DEF Queue!Stop
  <2> QED
    BY <2>3 DEF Queue!QNext, Queue!FifoNext
<1>11. CASE \E x \in {"head", "tail"} : InitIndex(x)
  <2>1. PICK x \in {"head", "tail"} : InitIndex(x)
    BY <1>11
  <2>2. initLeft' = {} => head' = 0 /\ tail' = 0
    BY <1>0, <2>1 DEF InitIndex, RingInv, ProducerInv, TypeOK
  <2>3. RingAsSeq = <<>> /\ RingAsSeq' = <<>>
    <3>1. CASE initLeft' = {}
      BY <1>a, <1>b, <1>c, <2>1, <2>2, <3>1, SeqOfEmpty DEF InitIndex
    <3>2. CASE initLeft' # {}
      BY <1>a, <1>b, <2>1, <3>2 DEF InitIndex
    <3> QED
      BY <3>1, <3>2
  <2>4. ~up /\ TakenSeq' = TakenSeq /\ delivered' = delivered /\ up' \in BOOLEAN
    BY <2>1 DEF InitIndex, TakenSeq
  <2>5. CASE up'
    <3>1. Queue!Start
      BY <2>3, <2>4, <2>5 DEF Queue!Start
    <3> QED
      BY <3>1 DEF Queue!QNext, Queue!FifoNext
  <2>6. CASE ~up'
    BY <2>3, <2>4, <2>6 DEF Queue!qvars
  <2> QED
    BY <2>5, <2>6
<1>12. CASE ConsumerDies
  <2>1. TakenSeq' = <<>> /\ RingAsSeq' = RingAsSeq /\ up' = up /\ delivered' = delivered
    BY <1>12, <1>a, <1>b DEF ConsumerDies, TakenSeq
  <2>2. Queue!LoseTaken
    BY <2>1 DEF Queue!LoseTaken
  <2> QED
    BY <2>2 DEF Queue!QNext, Queue!FifoNext
<1> QED
  BY <1>2, <1>3, <1>4, <1>5, <1>6, <1>7, <1>8, <1>9, <1>10, <1>11, <1>12
     DEF Next, Producer, ConsumerSteps

\* The channel is sound again and empty.
LEMMA QueueRestored ==
    ASSUME TypeInv, DisturbedInv, ~orderly, orderly', [Next]_vars
    PROVE  Queue!QNext
<1>1. TypeOK'
  BY TypeStep DEF TypeInv
<1>2. ReadReturn /\ head = tail /\ ppc # "init"
  BY DEF Next, Producer, ConsumerSteps, vars, shared, prod, cons, hist, Record,
         Construct, InitIndex, WriteFull, WriteBegin, WriteCopyFirst, WriteCopyLast, WritePublish,
         Destruct, Crash, LoadHead, ReadReturn, ReadEnter, LoadIndex, ReadCopyFirst,
         ReadCopyLast, StoreHead, ConsumerDies
<1>3. delivered' = <<>> /\ TakenSeq' = <<>>
  BY <1>2, EmptySeq DEF ReadReturn, Record, TakenSeq, DisturbedInv, Unrecorded
<1>4. UNCHANGED <<slots, head, tail, ppc>>
  BY <1>2 DEF ReadReturn, shared, prod
<1>5. head' = tail' /\ head' \in Slot /\ ppc' # "init"
  BY <1>1, <1>2, <1>4 DEF TypeOK
<1>6. RingAsSeq' = <<>>
  BY <1>1, <1>5, RingIsSeqOf, SeqOfEmpty
<1> QED
  BY <1>3, <1>4, <1>6 DEF Queue!QNext, Queue!Restore

\* The ring keeps the promise of a bounded FIFO, for every ring size: what two
\* unsynchronised processes do to slots and indices is, step by step, what
\* IpcQueue allows, the ends and starts of either process included; a start or
\* end that cuts into a read suspends the promise until the ring is empty again.
THEOREM QueueImplemented == Spec => ImplementsQueue
<1>1. Init => Queue!QInit
  <2> SUFFICES ASSUME Init PROVE Queue!QInit
    OBVIOUS
  <2>1. TypeOK
    BY TypeInit DEF TypeInv
  <2>2. 0 \in Slot /\ ppc # "init" /\ head = 0 /\ tail = 0
    BY RingAssumption DEF Init, Slot
  <2>3. RingAsSeq = <<>>
    BY <2>1, <2>2, RingIsSeqOf, SeqOfEmpty
  <2> QED
    BY <2>3 DEF Init, Queue!QInit, TakenSeq
<1>2. ASSUME TypeInv, DisturbedInv, TypeInv', DisturbedInv', [Next]_vars
      PROVE  [Queue!QNext]_(Queue!qvars)
  <2>1. CASE ~orderly'
    BY <2>1 DEF Queue!QNext
  <2>2. CASE orderly' /\ orderly
    BY <1>2, <2>2, QueueStep DEF DisturbedInv
  <2>3. CASE orderly' /\ ~orderly
    BY <1>2, <2>3, QueueRestored
  <2> QED
    BY <2>1, <2>2, <2>3
<1>3. TypeInv /\ DisturbedInv /\ TypeInv' /\ DisturbedInv' /\ [Next]_vars
          => [Queue!QNext]_(Queue!qvars)
  BY <1>2
<1> QED
  BY <1>1, <1>3, DisturbedInit, DisturbedStep, PTL DEF Spec, ImplementsQueue, Queue!QSpec

====
