--------------------------- MODULE RwQueueProofs ----------------------------
(***************************************************************************)
(* The inter-thread queue for every block size, every size it is           *)
(* constructed for and any number of calls: producer and consumer never    *)
(* meet on a slot, the library's assertions hold, an item is refused only  *)
(* when the promised number is in the queue, and the queue is a FIFO.      *)
(***************************************************************************)
EXTENDS RwQueue, SequenceTheorems, FiniteSetTheorems, TLAPS

-----------------------------------------------------------------------------
(* The inductive invariant.                                                *)

\* What the constructor leaves behind.
ShapeInv ==
    /\ blocks \in Nat \ {0} /\ blockSize \in Nat /\ blockSize >= 2
    /\ blocks = 1 => blockSize - 1 >= size
    /\ blocks > 1 => (blocks - 1) * (blockSize - 1) >= size

\* The blocks from the front block to the tail block.
Inside(b) == IF frontBlock <= tailBlock THEN frontBlock <= b /\ b <= tailBlock
             ELSE frontBlock <= b \/ b <= tailBlock
Full(b) == NextSlot(tail[b]) = front[b]

\* Blocks between front and tail block are full and those outside are empty,
\* but for the one the producer is about to make its tail block.
BlocksInv ==
    /\ \A b \in Blocks : Inside(b) /\ b # frontBlock /\ b # tailBlock => Full(b)
    /\ frontBlock # tailBlock => front[tailBlock] # tail[tailBlock]
    /\ \A b \in Blocks : ~Inside(b) =>
          IF ppc = "advance_tail" /\ b = NextBlock(tailBlock)
          THEN tail[b] = NextSlot(front[b]) ELSE tail[b] = front[b]

\* The producer's copy of a front is not ahead of it, a slot it decided to write
\* is free, and a block it found full stays full unless the consumer is in it.
ProducerInv ==
    /\ \/ localFront[tailBlock] = front[tailBlock]
       \/ localFront[tailBlock] \notin Used(tailBlock) \cup {tail[tailBlock]}
    /\ ppc \in {"write", "publish"} => NextSlot(tail[tailBlock]) # localFront[tailBlock]
    /\ ppc \in {"full", "advance", "write_next", "publish_next", "advance_tail"} =>
          frontBlock = tailBlock \/ Full(tailBlock)
    /\ ppc \in {"advance", "write_next", "publish_next", "advance_tail"} =>
          NextBlock(tailBlock) # frontBlock
    /\ ppc \in {"write_next", "publish_next", "advance_tail"} =>
          localFront[NextBlock(tailBlock)] = front[NextBlock(tailBlock)]
    /\ ppc = "full" => sawFull \/ NextBlock(tailBlock) # frontBlock
    /\ ppc = "refused" => sawFull

\* The consumer's copy of a tail is not ahead of it, it moves on only from an
\* empty block that the producer has left, and it reads only where an item is.
ConsumerInv ==
    /\ localTail[frontBlock] \in Used(frontBlock) \cup {tail[frontBlock]}
    /\ cpc \in {"empty", "recheck", "next", "advance"} => frontBlock # tailBlock
    /\ cpc \in {"next", "advance"} => front[frontBlock] = tail[frontBlock]
    /\ cpc = "advance" =>
          /\ localTail[NextBlock(frontBlock)] # front[NextBlock(frontBlock)]
          /\ localTail[NextBlock(frontBlock)] \in
                Used(NextBlock(frontBlock)) \cup {tail[NextBlock(frontBlock)]}
    /\ cpc \in {"read", "release"} => front[frontBlock] # localTail[frontBlock]
    /\ cpc = "release" => result = data[frontBlock][front[frontBlock]]

\* Items stored, and whether the last of them is still to be signalled.
Unsignalled == IF ppc \in {"advance_tail", "signal"} THEN 1 ELSE 0
Posts == m_sema + (IF ppc = "post" THEN 1 ELSE 0)

\* The count is the number of items in the queue, less the one the consumer
\* waits for or has claimed; a post is under way exactly when a signal met a
\* consumer that counted itself as sleeping.
SemaInv ==
    /\ CASE cpc \in {"idle", "wait"} ->
              m_count + Unsignalled = Cardinality(Live) /\ m_count >= 0 /\ Posts = 0
         [] cpc = "take" ->
              m_count + Unsignalled = Cardinality(Live) /\ m_count >= 1 /\ Posts = 0
         [] cpc = "again" ->
              m_count + Unsignalled = Cardinality(Live) /\ m_count >= 1 /\ Posts = 1
         [] cpc \in {"sleep", "restore"} ->
              /\ m_count + 1 + Unsignalled = Cardinality(Live) /\ m_count >= -1
              /\ Posts = IF m_count >= 0 THEN 1 ELSE 0
         [] cpc = "try_wait" ->
              m_count + 1 + Unsignalled = Cardinality(Live) /\ m_count >= 0 /\ Posts = 1
         [] OTHER ->
              m_count + 1 + Unsignalled = Cardinality(Live) /\ m_count >= 0 /\ Posts = 0
    /\ Cardinality(Live) +
          (IF ppc \in {"idle", "advance_tail", "signal", "post"} THEN 0 ELSE 1) <= item

\* The order in which the consumer comes to two slots.
Far(x, from, n) == IF x >= from THEN x - from ELSE x - from + n
Before(b, i, c, j) ==
    \/ Far(b, frontBlock, blocks) < Far(c, frontBlock, blocks)
    \/ b = c /\ Far(i, front[b], blockSize) < Far(j, front[b], blockSize)

\* The item the producer has published in a block it has not yet made its tail.
Ahead == IF ppc = "advance_tail" THEN {item} ELSE {}
Bound == IF ppc \in {"idle", "advance_tail", "signal", "post"} THEN item ELSE item - 1

\* The items in the queue are those taken in and not yet out, in their order;
\* a slot that is about to be published holds the producer's item.
DataInv ==
    /\ \A b, c \in Blocks : \A i \in Used(b), j \in Used(c) :
          Before(b, i, c, j) => data[b][i] < data[c][j]
    /\ \A b \in Blocks : \A i \in Used(b) :
          data[b][i] \in Ahead \/ \E k \in Len(out) + 1 .. Len(accepted) : data[b][i] = accepted[k]
    /\ \A k \in Len(out) + 1 .. Len(accepted) :
          \E b \in Blocks : \E i \in Used(b) : data[b][i] = accepted[k]
    /\ \A k, l \in 1 .. Len(accepted) : k < l => accepted[k] < accepted[l]
    /\ \A k \in 1 .. Len(accepted) : accepted[k] <= Bound /\ accepted[k] \notin Ahead
    /\ ppc = "publish" => data[tailBlock][tail[tailBlock]] = item
    /\ ppc = "publish_next" => data[NextBlock(tailBlock)][tail[NextBlock(tailBlock)]] = item
    /\ ppc = "advance_tail" => data[NextBlock(tailBlock)][front[NextBlock(tailBlock)]] = item
    /\ ppc # "idle" => item \in Items

FifoInv ==
    /\ TypeOK /\ ShapeInv /\ BlocksInv /\ ProducerInv /\ ConsumerInv /\ SemaInv /\ DataInv

-----------------------------------------------------------------------------
(* The constructor.                                                        *)

\* What is left of a division: the blocks hold the size and one block more.
LEMMA DivisionCovers ==
    ASSUME NEW n \in Nat \ {0}, NEW d \in Nat \ {0}
    PROVE  LET q == (n + 2 * d - 1) \div d
           IN  q \in Nat \ {0} /\ q > 1 /\ (q - 1) * d >= n
<1> DEFINE q == (n + 2 * d - 1) \div d
<1>1. q \in Int /\ n + 2 * d - 1 = d * q + ((n + 2 * d - 1) % d)
  OBVIOUS
<1>2. (n + 2 * d - 1) % d \in 0 .. d - 1
  OBVIOUS
<1> HIDE DEF q
<1>3. d * q >= n + d
  BY <1>1, <1>2
<1>4. d * q - d = d * (q - 1) /\ d * (q - 1) = (q - 1) * d
  BY <1>1
<1>5. (q - 1) * d >= n
  BY <1>1, <1>3, <1>4
<1>6. q - 1 > 0
  <2>1. q - 1 <= 0 => (q - 1) * d <= 0
    BY <1>1
  <2> QED
    BY <1>1, <1>5, <2>1
<1> QED
  BY <1>1, <1>5, <1>6 DEF q

LEMMA ShapeBuilt == Init => ShapeInv
<1> SUFFICES ASSUME Init PROVE ShapeInv
  OBVIOUS
<1> DEFINE c == ceilToPow2(size + 1)
<1>1. size \in Nat \ {0} /\ MaxBlockSize \in Nat /\ MaxBlockSize >= 2
  BY RwQueueAssumption DEF Init
<1>2. c \in Pow2 /\ c >= size + 1
  BY PowersAssumption DEF Init, ceilToPow2
<1>3. c \in Nat
  BY <1>2, RwQueueAssumption DEF Pow2
<1>4. CASE c <= 2 * MaxBlockSize
  <2>1. blocks = 1 /\ blockSize = c
    BY <1>4 DEF Init, initialBlockCount, largestBlockSize
  <2> HIDE DEF c
  <2> QED
    BY <1>1, <1>2, <1>3, <2>1 DEF ShapeInv
<1>5. CASE ~(c <= 2 * MaxBlockSize)
  <2> DEFINE d == MaxBlockSize - 1
  <2>1. blocks = (size + 2 * MaxBlockSize - 3) \div d /\ blockSize = MaxBlockSize
    BY <1>5 DEF Init, initialBlockCount, largestBlockSize
  <2>2. d \in Nat \ {0} /\ size + 2 * MaxBlockSize - 3 = size + 2 * d - 1
    BY <1>1
  <2> HIDE DEF d
  <2>3. blocks \in Nat \ {0} /\ blocks > 1 /\ (blocks - 1) * d >= size
    BY <1>1, <2>1, <2>2, DivisionCovers
  <2>4. blockSize - 1 = d
    BY <2>1 DEF d
  <2> QED
    BY <1>1, <2>1, <2>3, <2>4 DEF ShapeInv
<1> QED
  BY <1>4, <1>5

-----------------------------------------------------------------------------
(* Slots and blocks as rings.                                              *)

LEMMA NextSlotValue ==
    ASSUME ShapeInv, NEW i \in Slots
    PROVE  NextSlot(i) \in Slots /\ NextSlot(i) = IF i = blockSize - 1 THEN 0 ELSE i + 1
<1>1. CASE i = blockSize - 1
  BY <1>1 DEF ShapeInv, Slots, NextSlot
<1>2. CASE i # blockSize - 1
  BY <1>2 DEF ShapeInv, Slots, NextSlot
<1> QED
  BY <1>1, <1>2

LEMMA NextBlockValue ==
    ASSUME ShapeInv, NEW b \in Blocks
    PROVE  NextBlock(b) \in Blocks /\ NextBlock(b) = IF b = blocks - 1 THEN 0 ELSE b + 1
<1>1. CASE b = blocks - 1
  BY <1>1 DEF ShapeInv, Blocks, NextBlock
<1>2. CASE b # blocks - 1
  BY <1>2 DEF ShapeInv, Blocks, NextBlock
<1> QED
  BY <1>1, <1>2

\* The slots from f up to t in a ring of n.
Span(f, t, n) == {i \in 0 .. n - 1 : IF f <= t THEN f <= i /\ i < t ELSE f <= i \/ i < t}
After(i, n) == IF i = n - 1 THEN 0 ELSE i + 1

LEMMA SpanEmpty ==
    ASSUME NEW n \in Nat, NEW f \in 0 .. n - 1
    PROVE  Span(f, f, n) = {}
BY DEF Span

LEMMA SpanPush ==
    ASSUME NEW n \in Nat, NEW f \in 0 .. n - 1, NEW t \in 0 .. n - 1, After(t, n) # f
    PROVE  /\ Span(f, After(t, n), n) = Span(f, t, n) \cup {t}
           /\ t \notin Span(f, t, n)
BY DEF Span, After

LEMMA SpanPop ==
    ASSUME NEW n \in Nat, NEW f \in 0 .. n - 1, NEW t \in 0 .. n - 1, f # t
    PROVE  /\ Span(After(f, n), t, n) = Span(f, t, n) \ {f}
           /\ f \in Span(f, t, n)
BY DEF Span, After

LEMMA SpanFull ==
    ASSUME NEW n \in Nat, n >= 2, NEW f \in 0 .. n - 1, NEW t \in 0 .. n - 1,
           After(t, n) = f
    PROVE  Span(f, t, n) = (0 .. n - 1) \ {t}
BY DEF Span, After

\* The blocks from f to t, and how they change with either end.
Arc(f, t, b) == IF f <= t THEN f <= b /\ b <= t ELSE f <= b \/ b <= t

LEMMA ArcGrows ==
    ASSUME NEW n \in Nat, NEW f \in 0 .. n - 1, NEW t \in 0 .. n - 1, After(t, n) # f
    PROVE  /\ ~Arc(f, t, After(t, n)) /\ After(t, n) # t
           /\ \A b \in 0 .. n - 1 : Arc(f, After(t, n), b) <=> Arc(f, t, b) \/ b = After(t, n)
BY DEF Arc, After

LEMMA ArcShrinks ==
    ASSUME NEW n \in Nat, NEW f \in 0 .. n - 1, NEW t \in 0 .. n - 1, f # t
    PROVE  \A b \in 0 .. n - 1 : Arc(After(f, n), t, b) <=> Arc(f, t, b) /\ b # f
BY DEF Arc, After

\* What the type invariant says of the indices, and how they move.
Geometry ==
    /\ blocks \in Nat \ {0} /\ blockSize \in Nat /\ blockSize >= 2
    /\ Blocks = 0 .. blocks - 1 /\ Slots = 0 .. blockSize - 1
    /\ frontBlock \in Blocks /\ tailBlock \in Blocks
    /\ front \in [Blocks -> Slots] /\ tail \in [Blocks -> Slots]
    /\ localFront \in [Blocks -> Slots] /\ localTail \in [Blocks -> Slots]
    /\ \A i \in Slots : NextSlot(i) \in Slots /\ NextSlot(i) = After(i, blockSize)
    /\ \A b \in Blocks : NextBlock(b) \in Blocks /\ NextBlock(b) = After(b, blocks)
    /\ \A b \in Blocks : Used(b) = Span(front[b], tail[b], blockSize)

LEMMA GeometryHolds == TypeOK /\ ShapeInv => Geometry
<1> SUFFICES ASSUME TypeOK, ShapeInv PROVE Geometry
  OBVIOUS
<1>1. \A i \in Slots : NextSlot(i) \in Slots /\ NextSlot(i) = After(i, blockSize)
  BY NextSlotValue DEF After
<1>2. \A b \in Blocks : NextBlock(b) \in Blocks /\ NextBlock(b) = After(b, blocks)
  BY NextBlockValue DEF After
<1>3. \A b \in Blocks : Used(b) = Span(front[b], tail[b], blockSize)
  BY DEF Used, Span, Slots
<1>4. /\ front \in [Blocks -> Slots] /\ tail \in [Blocks -> Slots]
      /\ localFront \in [Blocks -> Slots] /\ localTail \in [Blocks -> Slots]
  BY DEF TypeOK
<1> QED
  BY <1>1, <1>2, <1>3, <1>4 DEF Geometry, TypeOK, ShapeInv, Blocks, Slots

\* The ring itself never changes.
ShapeKept ==
    /\ size' = size /\ blocks' = blocks /\ blockSize' = blockSize
    /\ Blocks' = Blocks /\ Slots' = Slots
    /\ \A i : NextSlot(i)' = NextSlot(i)
    /\ \A b : NextBlock(b)' = NextBlock(b)

LEMMA ShapeStep == [Next]_vars => ShapeKept
<1> SUFFICES ASSUME [Next]_vars PROVE ShapeKept
  OBVIOUS
<1>1. UNCHANGED shape
  BY DEF Next, EnqueueGoesOn, Consume, vars, try_enqueue, WriteSlot, Publish, TailBlockFull,
         Refused, ReadNextFront, WriteNextSlot, PublishNext, AdvanceTail, signal, Post, Spin,
         TakeOne, waitWithPartialSpinning, Wake, TimeOut, Restore, Again, TryWait, try_dequeue,
         FrontBlockEmpty, Recheck, ReadNextTail, AdvanceFront, ReadSlot, Release
<1> QED
  BY <1>1 DEF ShapeKept, shape, Blocks, Slots, NextSlot, NextBlock

\* The steps that move no index.
Quiet ==
    /\ UNCHANGED <<frontBlock, tailBlock, front, tail>>
    /\ ppc' = ppc \/ (ppc # "advance_tail" /\ ppc' # "advance_tail")

LEMMA QuietSteps ==
    [Next]_vars => Quiet \/ Publish \/ PublishNext \/ AdvanceTail \/ AdvanceFront \/ Release
<1> SUFFICES ASSUME [Next]_vars
             PROVE  Quiet \/ Publish \/ PublishNext \/ AdvanceTail \/ AdvanceFront \/ Release
  OBVIOUS
<1> USE DEF Quiet, PGoto, CGoto, shape, inner, producer, consumer, sema, history
<1>1. CASE try_enqueue
  BY <1>1 DEF try_enqueue
<1>2. CASE EnqueueGoesOn
  BY <1>2 DEF EnqueueGoesOn, WriteSlot, TailBlockFull, Refused, ReadNextFront, WriteNextSlot,
              signal, Post
<1>3. CASE Consume
  BY <1>3 DEF Consume, Spin, TakeOne, waitWithPartialSpinning, Wake, TimeOut, Restore, Again,
              TryWait, try_dequeue, FrontBlockEmpty, Recheck, ReadNextTail, ReadSlot
<1>4. CASE UNCHANGED vars
  BY <1>4 DEF vars
<1> QED
  BY <1>1, <1>2, <1>3, <1>4 DEF Next

LEMMA QuietKept ==
    ASSUME ShapeKept, Quiet
    PROVE  /\ \A b : Used(b)' = Used(b) /\ Full(b)' = Full(b) /\ Inside(b)' = Inside(b)
           /\ Live' = Live
           /\ NextBlock(tailBlock)' = NextBlock(tailBlock)
           /\ NextBlock(frontBlock)' = NextBlock(frontBlock)
           /\ (NextSlot(tail[tailBlock]))' = NextSlot(tail[tailBlock])
<1> USE DEF ShapeKept, Quiet
<1>1. \A b : Used(b)' = Used(b)
  BY DEF Used
<1>2. \A b : Full(b)' = Full(b)
  BY DEF Full, NextSlot
<1>3. \A b : Inside(b)' = Inside(b)
  BY DEF Inside
<1>4. Live' = Live
  BY <1>1 DEF Live
<1> QED
  BY <1>1, <1>2, <1>3, <1>4 DEF NextBlock, NextSlot

\* A slot the producer decided to write is not the last free one of its block.
LEMMA RoomLeft ==
    ASSUME Geometry, ProducerInv, ppc \in {"write", "publish"}
    PROVE  NextSlot(tail[tailBlock]) # front[tailBlock]
<1>1. ASSUME NextSlot(tail[tailBlock]) = front[tailBlock] PROVE FALSE
  <2>1. Used(tailBlock) = Slots \ {tail[tailBlock]}
    <3>1. /\ front[tailBlock] \in 0 .. blockSize - 1 /\ tail[tailBlock] \in 0 .. blockSize - 1
          /\ After(tail[tailBlock], blockSize) = front[tailBlock]
          /\ Used(tailBlock) = Span(front[tailBlock], tail[tailBlock], blockSize)
      BY <1>1 DEF Geometry
    <3> QED
      BY <3>1, SpanFull DEF Geometry
  <2>2. localFront[tailBlock] = front[tailBlock]
    BY <2>1 DEF Geometry, ProducerInv
  <2> QED
    BY <1>1, <2>2 DEF ProducerInv
<1> QED
  BY <1>1

\* The block behind the tail block, when the consumer is not in it.
LEMMA BeyondTail ==
    ASSUME Geometry, NextBlock(tailBlock) # frontBlock
    PROVE  /\ NextBlock(tailBlock) \in Blocks /\ NextBlock(tailBlock) # tailBlock
           /\ ~Inside(NextBlock(tailBlock))
           /\ \A b \in Blocks : Arc(frontBlock, NextBlock(tailBlock), b)
                                  <=> Inside(b) \/ b = NextBlock(tailBlock)
<1>1. /\ NextBlock(tailBlock) = After(tailBlock, blocks) /\ NextBlock(tailBlock) \in Blocks
      /\ frontBlock \in 0 .. blocks - 1 /\ tailBlock \in 0 .. blocks - 1
      /\ Blocks = 0 .. blocks - 1 /\ blocks \in Nat
  BY DEF Geometry
<1>2. \A b : Inside(b) <=> Arc(frontBlock, tailBlock, b)
  BY DEF Inside, Arc
<1> QED
  BY <1>1, <1>2, ArcGrows

LEMMA BeyondFront ==
    ASSUME Geometry, frontBlock # tailBlock
    PROVE  \A b \in Blocks : Arc(NextBlock(frontBlock), tailBlock, b)
                              <=> Inside(b) /\ b # frontBlock
<1>1. /\ NextBlock(frontBlock) = After(frontBlock, blocks)
      /\ frontBlock \in 0 .. blocks - 1 /\ tailBlock \in 0 .. blocks - 1
      /\ Blocks = 0 .. blocks - 1 /\ blocks \in Nat
  BY DEF Geometry
<1>2. \A b : Inside(b) <=> Arc(frontBlock, tailBlock, b)
  BY DEF Inside, Arc
<1> QED
  BY <1>1, <1>2, ArcShrinks

LEMMA BlocksStep ==
    ASSUME Geometry, BlocksInv, ProducerInv, ConsumerInv, ShapeKept, [Next]_vars
    PROVE  BlocksInv'
<1>1. CASE Quiet
  BY <1>1, QuietKept DEF BlocksInv, ShapeKept, Quiet
<1>2. CASE Publish
  <2>1. /\ UNCHANGED <<frontBlock, tailBlock, front>> /\ ppc = "publish" /\ ppc' = "signal"
        /\ tail' = [tail EXCEPT ![tailBlock] = NextSlot(tail[tailBlock])]
    BY <1>2 DEF Publish, PGoto
  <2>2. \A b : Inside(b)' = Inside(b)
    BY <2>1 DEF Inside
  <2>3. \A b \in Blocks : b # tailBlock => tail'[b] = tail[b] /\ Full(b)' = Full(b)
    BY <2>1 DEF Full, NextSlot, ShapeKept, Geometry
  <2>4. Inside(tailBlock)
    BY DEF Inside, Geometry
  <2>5. tail'[tailBlock] # front[tailBlock]
    BY <2>1, RoomLeft DEF Geometry
  <2> QED
    BY <2>1, <2>2, <2>3, <2>4, <2>5 DEF BlocksInv, ShapeKept
<1>3. CASE PublishNext
  <2> DEFINE n == NextBlock(tailBlock)
  <2>1. /\ UNCHANGED <<frontBlock, tailBlock, front>>
        /\ ppc = "publish_next" /\ ppc' = "advance_tail"
        /\ tail' = [tail EXCEPT ![n] = NextSlot(tail[n])]
    BY <1>3 DEF PublishNext, PGoto
  <2>2. /\ \A b : Inside(b)' = Inside(b)
        /\ NextBlock(tailBlock)' = n
    BY <2>1 DEF Inside, NextBlock, ShapeKept
  <2>3. \A b \in Blocks : b # n => tail'[b] = tail[b] /\ Full(b)' = Full(b)
    BY <2>1 DEF Full, NextSlot, ShapeKept, Geometry
  <2>4. n \in Blocks /\ n # frontBlock /\ ~Inside(n)
    BY <2>1, BeyondTail DEF ProducerInv
  <2>5. n # tailBlock
    BY <2>4, BeyondTail
  <2>6. tail'[n] = NextSlot(front[n])
    BY <2>1, <2>4 DEF BlocksInv, Geometry
  <2>7. (NextSlot(front[n]))' = NextSlot(front[n])
    BY <2>1, <2>2 DEF NextSlot, ShapeKept
  <2> HIDE DEF n
  <2>8. \A b \in Blocks : b = n => tail'[b] = (NextSlot(front[b]))'
    BY <2>1, <2>6 DEF NextSlot, ShapeKept
  <2> QED
    BY <2>1, <2>2, <2>3, <2>4, <2>5, <2>8 DEF BlocksInv, ShapeKept
<1>4. CASE AdvanceTail
  <2> DEFINE n == NextBlock(tailBlock)
  <2>1. /\ UNCHANGED <<frontBlock, tail, front>> /\ tailBlock' = n
        /\ ppc = "advance_tail" /\ ppc' = "signal"
    BY <1>4 DEF AdvanceTail, PGoto
  <2>2. n \in Blocks /\ n # frontBlock /\ ~Inside(n)
    BY <2>1, BeyondTail DEF ProducerInv
  <2>3. \A b \in Blocks : Inside(b)' <=> Inside(b) \/ b = n
    <3>1. \A b : Inside(b)' <=> Arc(frontBlock, n, b)
      BY <2>1 DEF Inside, Arc
    <3> QED
      BY <2>2, <3>1, BeyondTail
  <2>4. \A b : Full(b)' = Full(b)
    BY <2>1 DEF Full, NextSlot, ShapeKept
  <2>5. tail[n] # front[n]
    <3>1. tail[n] = NextSlot(front[n])
      BY <2>1, <2>2 DEF BlocksInv
    <3>2. /\ front[n] \in 0 .. blockSize - 1 /\ NextSlot(front[n]) = After(front[n], blockSize)
          /\ blockSize \in Nat /\ blockSize >= 2
      BY <2>2 DEF Geometry
    <3> QED
      BY <3>1, <3>2 DEF After
  <2>6. frontBlock # tailBlock => Full(tailBlock)
    BY <2>1 DEF ProducerInv
  <2> HIDE DEF n
  <2> QED
    BY <2>1, <2>2, <2>3, <2>4, <2>5, <2>6 DEF BlocksInv, ShapeKept
<1>5. CASE AdvanceFront
  <2> DEFINE n == NextBlock(frontBlock)
  <2>1. /\ UNCHANGED <<tailBlock, tail, front, ppc>> /\ frontBlock' = n /\ cpc = "advance"
    BY <1>5 DEF AdvanceFront, producer
  <2>2. frontBlock # tailBlock /\ tail[frontBlock] = front[frontBlock]
    BY <2>1 DEF ConsumerInv
  <2>3. \A b \in Blocks : Inside(b)' <=> Inside(b) /\ b # frontBlock
    <3>1. \A b : Inside(b)' <=> Arc(n, tailBlock, b)
      BY <2>1 DEF Inside, Arc
    <3> QED
      BY <2>2, <3>1, BeyondFront
  <2>4. \A b : Full(b)' = Full(b)
    BY <2>1 DEF Full, NextSlot, ShapeKept
  <2>5. NextBlock(tailBlock)' = NextBlock(tailBlock)
    BY <2>1 DEF NextBlock, ShapeKept
  <2>6. ppc = "advance_tail" => NextBlock(tailBlock) # frontBlock
    BY DEF ProducerInv
  <2>7. \A b \in Blocks : (NextSlot(front[b]))' = NextSlot(front[b])
    BY <2>1 DEF NextSlot, ShapeKept
  <2> HIDE DEF n
  <2> QED
    BY <2>1, <2>2, <2>3, <2>4, <2>5, <2>6, <2>7 DEF BlocksInv, ShapeKept, Geometry
<1>6. CASE Release
  <2>1. /\ UNCHANGED <<frontBlock, tailBlock, tail, ppc>>
        /\ front' = [front EXCEPT ![frontBlock] = NextSlot(front[frontBlock])]
    BY <1>6 DEF Release, producer
  <2>2. \A b : Inside(b)' = Inside(b)
    BY <2>1 DEF Inside
  <2>3. \A b \in Blocks : b # frontBlock =>
           /\ front'[b] = front[b] /\ Full(b)' = Full(b)
           /\ (NextSlot(front[b]))' = NextSlot(front[b])
    BY <2>1 DEF Full, NextSlot, ShapeKept, Geometry
  <2>4. Inside(frontBlock)
    BY DEF Inside, Geometry
  <2>5. NextBlock(tailBlock)' = NextBlock(tailBlock)
    BY <2>1 DEF NextBlock, ShapeKept
  <2> QED
    BY <2>1, <2>2, <2>3, <2>4, <2>5 DEF BlocksInv, ShapeKept, Geometry
<1> QED
  BY <1>1, <1>2, <1>3, <1>4, <1>5, <1>6, QuietSteps

\* How the slots in use change: what a store of a tail adds and of a front takes.
LEMMA UsedPush ==
    ASSUME Geometry, NEW b \in Blocks, NextSlot(tail[b]) # front[b]
    PROVE  /\ Span(front[b], NextSlot(tail[b]), blockSize) = Used(b) \cup {tail[b]}
           /\ tail[b] \notin Used(b) /\ tail[b] \in Slots
<1>1. /\ front[b] \in 0 .. blockSize - 1 /\ tail[b] \in 0 .. blockSize - 1 /\ tail[b] \in Slots
      /\ NextSlot(tail[b]) = After(tail[b], blockSize) /\ blockSize \in Nat
      /\ Used(b) = Span(front[b], tail[b], blockSize)
  BY DEF Geometry
<1> QED
  BY <1>1, SpanPush

LEMMA UsedPop ==
    ASSUME Geometry, NEW b \in Blocks, front[b] # tail[b]
    PROVE  /\ Span(NextSlot(front[b]), tail[b], blockSize) = Used(b) \ {front[b]}
           /\ front[b] \in Used(b)
<1>1. /\ front[b] \in 0 .. blockSize - 1 /\ tail[b] \in 0 .. blockSize - 1
      /\ NextSlot(front[b]) = After(front[b], blockSize) /\ blockSize \in Nat
      /\ Used(b) = Span(front[b], tail[b], blockSize)
  BY DEF Geometry
<1> QED
  BY <1>1, SpanPop

LEMMA UsedEmpty ==
    ASSUME Geometry, NEW b \in Blocks
    PROVE  /\ tail[b] \notin Used(b) /\ Used(b) \subseteq Slots
           /\ front[b] = tail[b] <=> Used(b) = {}
<1>1. /\ front[b] \in 0 .. blockSize - 1 /\ tail[b] \in 0 .. blockSize - 1 /\ blockSize \in Nat
      /\ Used(b) = Span(front[b], tail[b], blockSize) /\ Slots = 0 .. blockSize - 1
  BY DEF Geometry
<1>2. tail[b] \notin Used(b) /\ Used(b) \subseteq Slots
  BY <1>1 DEF Span
<1> QED
  BY <1>1, <1>2, SpanEmpty, SpanPop

\* The effect of the steps that move an index on the slots in use.
LEMMA UsedMoves ==
    ASSUME Geometry, ShapeKept
    PROVE  \A b \in Blocks : Used(b)' = Span(front'[b], tail'[b], blockSize)
BY DEF Used, Span, ShapeKept, Geometry

LEMMA TailMoves ==
    ASSUME Geometry, ShapeKept, UNCHANGED front, NEW n \in Blocks,
           NextSlot(tail[n]) # front[n], tail' = [tail EXCEPT ![n] = NextSlot(tail[n])]
    PROVE  /\ Used(n)' = Used(n) \cup {tail[n]} /\ tail[n] \notin Used(n)
           /\ \A b \in Blocks : b # n => Used(b)' = Used(b) /\ tail'[b] = tail[b]
           /\ tail'[n] = NextSlot(tail[n])
<1>1. tail'[n] = NextSlot(tail[n]) /\ \A b \in Blocks : b # n => tail'[b] = tail[b]
  BY DEF Geometry
<1>2. /\ Span(front[n], NextSlot(tail[n]), blockSize) = Used(n) \cup {tail[n]}
      /\ tail[n] \notin Used(n)
  BY UsedPush
<1>3. \A b \in Blocks : Used(b) = Span(front[b], tail[b], blockSize)
  BY DEF Geometry
<1> QED
  BY <1>1, <1>2, <1>3, UsedMoves

LEMMA FrontMoves ==
    ASSUME Geometry, ShapeKept, UNCHANGED tail, NEW n \in Blocks,
           front[n] # tail[n], front' = [front EXCEPT ![n] = NextSlot(front[n])]
    PROVE  /\ Used(n)' = Used(n) \ {front[n]} /\ front[n] \in Used(n)
           /\ \A b \in Blocks : b # n => Used(b)' = Used(b) /\ front'[b] = front[b]
           /\ front'[n] = NextSlot(front[n])
<1>1. front'[n] = NextSlot(front[n]) /\ \A b \in Blocks : b # n => front'[b] = front[b]
  BY DEF Geometry
<1>2. /\ Span(NextSlot(front[n]), tail[n], blockSize) = Used(n) \ {front[n]}
      /\ front[n] \in Used(n)
  BY UsedPop
<1>3. \A b \in Blocks : Used(b) = Span(front[b], tail[b], blockSize)
  BY DEF Geometry
<1> QED
  BY <1>1, <1>2, <1>3, UsedMoves

\* The consumer reads only from a block that holds an item.
LEMMA ItemThere ==
    ASSUME Geometry, ConsumerInv, cpc \in {"read", "release"}
    PROVE  front[frontBlock] # tail[frontBlock]
BY UsedEmpty DEF ConsumerInv, Geometry

LEMMA NextBlockInjective ==
    ASSUME Geometry, NEW b \in Blocks, NEW c \in Blocks, b # c
    PROVE  NextBlock(b) # NextBlock(c)
<1>1. /\ NextBlock(b) = After(b, blocks) /\ NextBlock(c) = After(c, blocks)
      /\ b \in 0 .. blocks - 1 /\ c \in 0 .. blocks - 1 /\ blocks \in Nat
  BY DEF Geometry
<1> QED
  BY <1>1 DEF After

-----------------------------------------------------------------------------
(* A refused item finds as many items in the queue as were promised.       *)

\* A block that is full holds one item less than it has slots.
LEMMA FullHolds ==
    ASSUME Geometry, NEW F \in SUBSET Blocks, \A b \in F : Full(b)
    PROVE  /\ IsFiniteSet(Live) /\ Cardinality(Live) \in Nat /\ IsFiniteSet(F)
           /\ Cardinality(Live) >= Cardinality(F) * (blockSize - 1)
<1> DEFINE G == {<<b, tail[b]>> : b \in F}
<1> DEFINE P == F \X Slots
<1> DEFINE H == P \ G
<1>1. /\ IsFiniteSet(Blocks) /\ IsFiniteSet(Slots) /\ Cardinality(Slots) = blockSize
  BY FS_Interval DEF Geometry
<1>2. IsFiniteSet(F) /\ Cardinality(F) \in Nat
  BY <1>1, FS_Subset, FS_CardinalityType
<1>3. IsFiniteSet(Live) /\ Cardinality(Live) \in Nat
  <2>1. IsFiniteSet(Blocks \X Slots)
    BY <1>1, FS_Product
  <2>2. Live \subseteq Blocks \X Slots
    BY DEF Live
  <2> QED
    BY <2>1, <2>2, FS_Subset, FS_CardinalityType
<1>4. IsFiniteSet(P) /\ Cardinality(P) = Cardinality(F) * blockSize
  BY <1>1, <1>2, FS_Product
<1>5. IsFiniteSet(G) /\ Cardinality(G) = Cardinality(F)
  <2> DEFINE f == [b \in F |-> <<b, tail[b]>>]
  <2>1. f \in [F -> G] /\ \A t \in G : \E b \in F : f[b] = t
    OBVIOUS
  <2>2. ASSUME NEW b \in F, NEW c \in F, f[b] = f[c] PROVE b = c
    <3>1. <<b, tail[b]>> = <<c, tail[c]>>
      BY <2>2
    <3> QED
      BY <3>1
  <2>3. f \in Bijection(F, G)
    <3> HIDE DEF f, G
    <3> QED
      BY <2>1, <2>2 DEF Bijection, Injection, Surjection, IsInjective
  <2> HIDE DEF f
  <2> QED
    BY <1>2, <2>3, FS_Bijection DEF ExistsBijection
<1>6. G \subseteq P
  BY DEF Geometry
<1>7. IsFiniteSet(H) /\ Cardinality(H) = Cardinality(F) * blockSize - Cardinality(F)
  <2>1. P \cap G = G
    BY <1>6
  <2> HIDE DEF G, P
  <2>2. IsFiniteSet(P \ G) /\ Cardinality(P \ G) = Cardinality(P) - Cardinality(P \cap G)
    BY <1>4, FS_Difference, Zenon
  <2>3. IsFiniteSet(H) /\ Cardinality(H) = Cardinality(P) - Cardinality(G)
    BY <2>1, <2>2, Zenon
  <2> HIDE DEF H
  <2> QED
    BY <1>4, <1>5, <2>3
<1>8. H \subseteq Live
  <2> SUFFICES ASSUME NEW b \in F, NEW i \in Slots, i # tail[b] PROVE <<b, i>> \in Live
    OBVIOUS
  <2>1. /\ front[b] \in 0 .. blockSize - 1 /\ tail[b] \in 0 .. blockSize - 1
        /\ After(tail[b], blockSize) = front[b] /\ blockSize \in Nat /\ blockSize >= 2
        /\ Used(b) = Span(front[b], tail[b], blockSize) /\ Slots = 0 .. blockSize - 1
    BY DEF Geometry, Full
  <2>2. Used(b) = Slots \ {tail[b]}
    BY <2>1, SpanFull
  <2> QED
    BY <2>2 DEF Live, Geometry
<1>9. Cardinality(H) <= Cardinality(Live)
  BY <1>3, <1>8, FS_Subset
<1> HIDE DEF H, G, P
<1>10. Cardinality(F) * blockSize - Cardinality(F) = Cardinality(F) * (blockSize - 1)
  BY <1>2 DEF Geometry
<1> QED
  BY <1>2, <1>3, <1>7, <1>9, <1>10

LEMMA PromiseKept ==
    ASSUME Geometry, ShapeInv, BlocksInv, TypeOK,
           Full(tailBlock), NextBlock(tailBlock) = frontBlock
    PROVE  Cardinality(Live) >= size
<1>0. size \in Nat /\ IsFiniteSet(Blocks) /\ Cardinality(Blocks) = blocks
  BY RwQueueAssumption, FS_Interval DEF TypeOK, Geometry
<1>1. CASE blocks = 1
  <2>1. Cardinality({tailBlock}) = 1 /\ {tailBlock} \in SUBSET Blocks
    BY FS_Singleton DEF Geometry
  <2>2. Cardinality(Live) >= 1 * (blockSize - 1) /\ Cardinality(Live) \in Nat
    BY <2>1, FullHolds
  <2> QED
    BY <1>0, <1>1, <2>2 DEF ShapeInv
<1>2. CASE blocks > 1
  <2> DEFINE F == Blocks \ {frontBlock}
  <2>1. \A b \in F : Full(b)
    <3> SUFFICES ASSUME NEW b \in F, b # tailBlock PROVE Full(b)
      OBVIOUS
    <3>1. /\ frontBlock = After(tailBlock, blocks) /\ blocks \in Nat
          /\ frontBlock \in 0 .. blocks - 1 /\ tailBlock \in 0 .. blocks - 1
          /\ b \in 0 .. blocks - 1
      BY DEF Geometry
    <3>2. Inside(b)
      BY <3>1 DEF Inside, After
    <3> QED
      BY <3>2 DEF BlocksInv
  <2>2. Cardinality(F) = blocks - 1 /\ F \in SUBSET Blocks
    <3>1. frontBlock \in Blocks
      BY DEF Geometry
    <3> QED
      BY <1>0, <3>1, FS_RemoveElement
  <2> HIDE DEF F
  <2>3. Cardinality(Live) >= (blocks - 1) * (blockSize - 1) /\ Cardinality(Live) \in Nat
    BY <2>1, <2>2, FullHolds
  <2>4. (blocks - 1) * (blockSize - 1) \in Int
    BY DEF Geometry
  <2> QED
    BY <1>0, <1>2, <2>3, <2>4 DEF ShapeInv
<1> QED
  BY <1>1, <1>2 DEF Geometry

-----------------------------------------------------------------------------
(* Steps of the producer and of the consumer on the indices.               *)

\* A consumer step that moves no index leaves the producer's view alone.
LEMMA ProducerQuiet ==
    ASSUME Geometry, ProducerInv, ShapeKept, Quiet, UNCHANGED <<localFront, ppc, sawFull>>
    PROVE  ProducerInv'
BY QuietKept DEF ProducerInv, Quiet

LEMMA ProducerMoves ==
    ASSUME Geometry, BlocksInv, ProducerInv, ShapeKept, EnqueueGoesOn
    PROVE  ProducerInv'
<1> DEFINE n == NextBlock(tailBlock)
<1>1. CASE WriteSlot \/ TailBlockFull \/ Refused \/ WriteNextSlot \/ signal \/ Post
  <2>1. Quiet /\ UNCHANGED <<localFront, sawFull>>
    BY <1>1 DEF WriteSlot, TailBlockFull, Refused, WriteNextSlot, signal, Post, PGoto, Quiet, inner
  <2>2. \/ ppc' = ppc
        \/ ppc = "write" /\ ppc' = "publish"
        \/ ppc = "full" /\ ppc' = "advance" /\ n # frontBlock
        \/ ppc = "full" /\ ppc' = "refused" /\ n = frontBlock
        \/ ppc = "write_next" /\ ppc' = "publish_next"
        \/ ppc' \in {"idle", "post"}
    BY <1>1 DEF WriteSlot, TailBlockFull, Refused, WriteNextSlot, signal, Post, PGoto
  <2> QED
    BY <2>1, <2>2, QuietKept DEF ProducerInv, Quiet
<1>2. CASE ReadNextFront
  <2>1. /\ Quiet /\ sawFull' = sawFull /\ ppc = "advance" /\ ppc' = "write_next"
        /\ localFront' = [localFront EXCEPT ![n] = front[n]]
    BY <1>2 DEF ReadNextFront, PGoto, Quiet
  <2>2. n \in Blocks /\ n # tailBlock /\ n # frontBlock
    BY <2>1, BeyondTail DEF ProducerInv
  <2>3. localFront'[n] = front[n] /\ localFront'[tailBlock] = localFront[tailBlock]
    BY <2>1, <2>2 DEF Geometry
  <2> HIDE DEF n
  <2>4. NextBlock(tailBlock)' = n
    BY <2>1, QuietKept DEF n
  <2> QED
    BY <2>1, <2>2, <2>3, <2>4, QuietKept DEF ProducerInv, Quiet
<1>3. CASE Publish
  <2>1. /\ UNCHANGED <<frontBlock, tailBlock, front, localFront>>
        /\ ppc = "publish" /\ ppc' = "signal"
        /\ tail' = [tail EXCEPT ![tailBlock] = NextSlot(tail[tailBlock])]
    BY <1>3 DEF Publish, PGoto
  <2>2. /\ Used(tailBlock)' = Used(tailBlock) \cup {tail[tailBlock]}
        /\ tail'[tailBlock] = NextSlot(tail[tailBlock])
    <3>1. PICK t \in Blocks : t = tailBlock
      BY DEF Geometry
    <3>2. Used(t)' = Used(t) \cup {tail[t]} /\ tail'[t] = NextSlot(tail[t])
      BY <2>1, <3>1, RoomLeft, TailMoves
    <3> QED
      BY <2>1, <3>1, <3>2
  <2> QED
    BY <2>1, <2>2 DEF ProducerInv
<1>4. CASE PublishNext
  <2>1. /\ UNCHANGED <<frontBlock, tailBlock, front, localFront, sawFull>>
        /\ ppc = "publish_next" /\ ppc' = "advance_tail"
        /\ tail' = [tail EXCEPT ![n] = NextSlot(tail[n])]
    BY <1>4 DEF PublishNext, PGoto
  <2>2. n \in Blocks /\ n # tailBlock /\ n # frontBlock
    BY <2>1, BeyondTail DEF ProducerInv
  <2>3. tail'[tailBlock] = tail[tailBlock]
    BY <2>1, <2>2 DEF Geometry
  <2>4. Used(tailBlock)' = Used(tailBlock) /\ Full(tailBlock)' = Full(tailBlock)
    BY <2>1, <2>3 DEF Used, Full, NextSlot, ShapeKept
  <2> HIDE DEF n
  <2>5. NextBlock(tailBlock)' = n
    BY <2>1 DEF n, NextBlock, ShapeKept
  <2> QED
    BY <2>1, <2>2, <2>3, <2>4, <2>5 DEF ProducerInv, n
<1>5. CASE AdvanceTail
  BY <1>5 DEF AdvanceTail, PGoto, ProducerInv
<1> QED
  BY <1>1, <1>2, <1>3, <1>4, <1>5 DEF EnqueueGoesOn

LEMMA ProducerStep ==
    ASSUME TypeOK, ShapeInv, Geometry, BlocksInv, ProducerInv, ConsumerInv, ShapeKept, [Next]_vars
    PROVE  ProducerInv'
<1>1. CASE try_enqueue
  <2>1. Quiet /\ ppc = "idle" /\ ppc' \in {"write", "full"}
    BY <1>1 DEF try_enqueue, Quiet
  <2>2. CASE NextSlot(tail[tailBlock]) # localFront[tailBlock]
    <3>1. ppc' = "write" /\ UNCHANGED localFront
      BY <1>1, <2>2 DEF try_enqueue
    <3>2. (NextSlot(tail[tailBlock]))' = NextSlot(tail[tailBlock])
      BY <2>1 DEF Quiet, NextSlot, ShapeKept
    <3> QED
      BY <2>1, <2>2, <3>1, <3>2, QuietKept DEF ProducerInv, Quiet
  <2>3. CASE NextSlot(tail[tailBlock]) = localFront[tailBlock]
    <3>1. /\ localFront' = [localFront EXCEPT ![tailBlock] = front[tailBlock]]
          /\ ppc' = IF NextSlot(tail[tailBlock]) # front[tailBlock] THEN "write" ELSE "full"
          /\ sawFull' = (Cardinality(Live) >= size)
      BY <1>1, <2>3 DEF try_enqueue
    <3>2. (NextSlot(tail[tailBlock]))' = NextSlot(tail[tailBlock])
      BY <2>1 DEF Quiet, NextSlot, ShapeKept
    <3>3. localFront'[tailBlock] = front[tailBlock]
      BY <3>1 DEF Geometry
    <3>4. ppc' = "full" => Full(tailBlock) /\ (sawFull' \/ NextBlock(tailBlock) # frontBlock)
      BY <3>1, PromiseKept DEF Full
    <3>5. ppc' = "write" => NextSlot(tail[tailBlock]) # front[tailBlock]
      BY <3>1
    <3>6. Full(tailBlock)' = Full(tailBlock)
      BY <2>1, <3>2 DEF Full, Quiet
    <3> QED
      BY <2>1, <3>2, <3>3, <3>4, <3>5, <3>6, QuietKept DEF ProducerInv, Quiet
  <2> QED
    BY <2>2, <2>3
<1>2. CASE EnqueueGoesOn
  BY <1>2, ProducerMoves
<1>3. CASE AdvanceFront
  <2>1. /\ UNCHANGED <<tailBlock, tail, front, localFront, ppc, sawFull>>
        /\ frontBlock' = NextBlock(frontBlock) /\ cpc = "advance"
    BY <1>3 DEF AdvanceFront, producer
  <2>2. frontBlock # tailBlock
    BY <2>1 DEF ConsumerInv
  <2>3. NextBlock(tailBlock) # NextBlock(frontBlock)
    BY <2>2, NextBlockInjective DEF Geometry
  <2>4. NextBlock(tailBlock)' = NextBlock(tailBlock)
    BY <2>1 DEF NextBlock, ShapeKept
  <2>5. \A b : Used(b)' = Used(b) /\ Full(b)' = Full(b)
    BY <2>1 DEF Used, Full, NextSlot, ShapeKept
  <2>6. (NextSlot(tail[tailBlock]))' = NextSlot(tail[tailBlock])
    BY <2>1 DEF NextSlot, ShapeKept
  <2> QED
    BY <2>1, <2>2, <2>3, <2>4, <2>5, <2>6 DEF ProducerInv
<1>4. CASE Release
  <2>1. /\ UNCHANGED <<frontBlock, tailBlock, tail, localFront, ppc, sawFull>>
        /\ front' = [front EXCEPT ![frontBlock] = NextSlot(front[frontBlock])]
        /\ cpc = "release"
    BY <1>4 DEF Release, producer
  <2>2. PICK f \in Blocks : f = frontBlock
    BY DEF Geometry
  <2>3. front[f] # tail[f]
    BY <2>1, <2>2, ItemThere
  <2>4. /\ Used(f)' = Used(f) \ {front[f]}
        /\ \A b \in Blocks : b # f => Used(b)' = Used(b) /\ front'[b] = front[b]
    BY <2>1, <2>2, <2>3, FrontMoves
  <2>5. \A b \in Blocks : b # f => Full(b)' = Full(b)
    BY <2>1, <2>4 DEF Full, NextSlot, ShapeKept
  <2>6. NextBlock(tailBlock)' = NextBlock(tailBlock) /\ NextBlock(tailBlock) \in Blocks
    BY <2>1 DEF NextBlock, ShapeKept, Geometry
  <2>7. (NextSlot(tail[tailBlock]))' = NextSlot(tail[tailBlock])
    BY <2>1 DEF NextSlot, ShapeKept
  <2>8. PICK t \in Blocks : t = tailBlock
    BY DEF Geometry
  <2>9. \/ localFront[t] = front'[t]
        \/ localFront[t] \notin Used(t)' \cup {tail[t]}
    <3>1. \/ localFront[t] = front[t] \/ localFront[t] \notin Used(t) \cup {tail[t]}
      BY <2>8 DEF ProducerInv
    <3> QED
      BY <3>1, <2>3, <2>4
  <2>10. /\ \/ localFront[tailBlock] = front[tailBlock]
            \/ localFront[tailBlock] \notin Used(tailBlock) \cup {tail[tailBlock]}
         /\ ppc \in {"full", "advance", "write_next", "publish_next", "advance_tail"} =>
               frontBlock = tailBlock \/ Full(tailBlock)
    BY DEF ProducerInv
  <2>11. (\/ localFront[tailBlock] = front[tailBlock]
          \/ localFront[tailBlock] \notin Used(tailBlock) \cup {tail[tailBlock]})'
    BY <2>1, <2>8, <2>9
  <2>12. (ppc \in {"full", "advance", "write_next", "publish_next", "advance_tail"} =>
               frontBlock = tailBlock \/ Full(tailBlock))'
    BY <2>1, <2>2, <2>5, <2>8, <2>10
  <2> QED
    BY <2>1, <2>2, <2>4, <2>6, <2>7, <2>11, <2>12 DEF ProducerInv
<1>5. CASE Consume /\ ~AdvanceFront /\ ~Release
  <2>1. Quiet /\ UNCHANGED <<localFront, ppc, sawFull>>
    BY <1>5 DEF Consume, Spin, TakeOne, waitWithPartialSpinning, Wake, TimeOut, Restore, Again,
                TryWait, try_dequeue, FrontBlockEmpty, Recheck, ReadNextTail, ReadSlot,
                Quiet, inner, producer
  <2> QED
    BY <2>1, ProducerQuiet
<1>6. CASE UNCHANGED vars
  <2>1. Quiet /\ UNCHANGED <<localFront, ppc, sawFull>>
    BY <1>6 DEF vars, inner, producer, Quiet
  <2> QED
    BY <2>1, ProducerQuiet
<1> QED
  BY <1>1, <1>2, <1>3, <1>4, <1>5, <1>6 DEF Next

\* A claimed item that is not in the front block is in a later one.
LEMMA ClaimIsLater ==
    ASSUME TypeOK, Geometry, BlocksInv, ProducerInv, SemaInv, cpc = "dequeue",
           front[frontBlock] = tail[frontBlock]
    PROVE  frontBlock # tailBlock
<1> SUFFICES ASSUME frontBlock = tailBlock PROVE FALSE
  OBVIOUS
<1> DEFINE n == NextBlock(tailBlock)
<1>1. m_count + 1 + Unsignalled = Cardinality(Live) /\ m_count >= 0 /\ m_count \in Int
  <2>1. m_count \in Int
    BY DEF TypeOK
  <2> QED
    BY <2>1 DEF SemaInv
<1>2. \A b \in Blocks : b # frontBlock => ~Inside(b)
  BY DEF Inside, Geometry
<1>3. \A b \in Blocks : ~(ppc = "advance_tail" /\ b = n) => Used(b) = {}
  BY <1>2, UsedEmpty DEF BlocksInv
<1>4. CASE ppc # "advance_tail"
  <2>1. Live = {}
    BY <1>3, <1>4 DEF Live
  <2>2. Cardinality(Live) = 0
    BY <2>1, FS_EmptySet
  <2> QED
    BY <1>1, <2>2 DEF Unsignalled
<1>5. CASE ppc = "advance_tail"
  <2>1. n \in Blocks /\ n # frontBlock /\ tail[n] = NextSlot(front[n])
    BY <1>2, <1>5 DEF BlocksInv, ProducerInv, Geometry
  <2>2. Used(n) \subseteq {front[n]}
    <3>1. /\ front[n] \in 0 .. blockSize - 1 /\ blockSize \in Nat
          /\ Used(n) = Span(front[n], After(front[n], blockSize), blockSize)
      BY <2>1 DEF Geometry
    <3> HIDE DEF n
    <3> QED
      BY <3>1 DEF Span, After
  <2>3. Live \subseteq {<<n, front[n]>>}
    BY <1>3, <1>5, <2>2 DEF Live
  <2> HIDE DEF n
  <2>4. Cardinality(Live) <= 1 /\ Cardinality(Live) \in Nat
    <3>1. IsFiniteSet({<<n, front[n]>>}) /\ Cardinality({<<n, front[n]>>}) = 1
      BY FS_Singleton
    <3>2. IsFiniteSet(Live) /\ Cardinality(Live) <= Cardinality({<<n, front[n]>>})
      BY <2>3, <3>1, FS_Subset
    <3> QED
      BY <3>1, <3>2, FS_CardinalityType
  <2>5. Unsignalled = 1
    BY <1>5 DEF Unsignalled
  <2> QED
    BY <1>1, <2>4, <2>5
<1> QED
  BY <1>4, <1>5

\* The part of ConsumerInv that a producer step may touch.
LEMMA ConsumerQuiet ==
    ASSUME Geometry, ConsumerInv, ShapeKept, Quiet, UNCHANGED <<localTail, cpc, result>>,
           cpc = "release" => data'[frontBlock][front[frontBlock]] = data[frontBlock][front[frontBlock]]
    PROVE  ConsumerInv'
BY QuietKept DEF ConsumerInv, Quiet

LEMMA ConsumerMoves ==
    ASSUME TypeOK, Geometry, BlocksInv, ProducerInv, ConsumerInv, ShapeKept, EnqueueGoesOn
    PROVE  ConsumerInv'
<1> DEFINE n == NextBlock(tailBlock)
<1>0. UNCHANGED <<localTail, cpc, result>>
  BY DEF EnqueueGoesOn, WriteSlot, Publish, TailBlockFull, Refused, ReadNextFront, WriteNextSlot,
         PublishNext, AdvanceTail, signal, Post, inner, consumer
<1>1. CASE TailBlockFull \/ Refused \/ ReadNextFront \/ signal \/ Post
  <2>1. Quiet /\ UNCHANGED data
    BY <1>1 DEF TailBlockFull, Refused, ReadNextFront, signal, Post, PGoto, Quiet, inner
  <2> QED
    BY <1>0, <2>1, ConsumerQuiet
<1>2. CASE WriteSlot
  <2>1. Quiet /\ data' = [data EXCEPT ![tailBlock][tail[tailBlock]] = item]
    BY <1>2 DEF WriteSlot, PGoto, Quiet
  <2>2. cpc = "release" => data'[frontBlock][front[frontBlock]] = data[frontBlock][front[frontBlock]]
    BY <2>1, ItemThere DEF TypeOK, Geometry
  <2> QED
    BY <1>0, <2>1, <2>2, ConsumerQuiet
<1>3. CASE WriteNextSlot
  <2>1. Quiet /\ data' = [data EXCEPT ![n][tail[n]] = item] /\ ppc = "write_next"
    BY <1>3 DEF WriteNextSlot, PGoto, Quiet
  <2>2. n # frontBlock
    BY <2>1 DEF ProducerInv
  <2>3. data'[frontBlock] = data[frontBlock]
    BY <2>1, <2>2 DEF TypeOK
  <2> QED
    BY <1>0, <2>1, <2>3, ConsumerQuiet
<1>4. CASE Publish
  <2>1. /\ UNCHANGED <<frontBlock, tailBlock, front, data>> /\ ppc = "publish"
        /\ tail' = [tail EXCEPT ![tailBlock] = NextSlot(tail[tailBlock])]
    BY <1>4 DEF Publish
  <2>2. PICK t \in Blocks : t = tailBlock
    BY DEF Geometry
  <2>3. /\ Used(t)' = Used(t) \cup {tail[t]}
        /\ \A b \in Blocks : b # t => Used(b)' = Used(b) /\ tail'[b] = tail[b]
    BY <2>1, <2>2, RoomLeft, TailMoves
  <2>4. \A b \in Blocks : localTail[b] \in Used(b) \cup {tail[b]}
                             => localTail[b] \in Used(b)' \cup {tail'[b]}
    BY <2>3
  <2>5. NextBlock(frontBlock)' = NextBlock(frontBlock) /\ NextBlock(frontBlock) \in Blocks
    BY <2>1 DEF NextBlock, ShapeKept, Geometry
  <2>6. PICK f \in Blocks : f = frontBlock
    BY DEF Geometry
  <2>7. PICK m \in Blocks : m = NextBlock(frontBlock)
    BY <2>5
  <2>8. localTail[f] \in Used(f)' \cup {tail'[f]}
    BY <2>4, <2>6 DEF ConsumerInv
  <2>9. cpc = "advance" => localTail[m] \in Used(m)' \cup {tail'[m]} /\ localTail[m] # front[m]
    BY <2>4, <2>7 DEF ConsumerInv
  <2>10. cpc \in {"next", "advance"} => front[f] = tail'[f]
    BY <2>2, <2>3, <2>6 DEF ConsumerInv
  <2> QED
    BY <1>0, <2>1, <2>5, <2>6, <2>7, <2>8, <2>9, <2>10 DEF ConsumerInv
<1>5. CASE PublishNext
  <2>1. /\ UNCHANGED <<frontBlock, tailBlock, front, data>> /\ ppc = "publish_next"
        /\ tail' = [tail EXCEPT ![n] = NextSlot(tail[n])]
    BY <1>5 DEF PublishNext
  <2>2. n \in Blocks /\ n # frontBlock
    BY <2>1 DEF ProducerInv, Geometry
  <2>3. \A b \in Blocks : b # n => tail'[b] = tail[b] /\ Used(b)' = Used(b)
    BY <2>1, <2>2 DEF Used, ShapeKept, Geometry
  <2>4. NextBlock(frontBlock)' = NextBlock(frontBlock) /\ NextBlock(frontBlock) \in Blocks
    BY <2>1 DEF NextBlock, ShapeKept, Geometry
  <2>5. cpc = "advance" => NextBlock(frontBlock) # n
    BY NextBlockInjective DEF ConsumerInv, Geometry
  <2> HIDE DEF n
  <2>6. Used(frontBlock)' = Used(frontBlock) /\ tail'[frontBlock] = tail[frontBlock]
    <3>1. PICK f \in Blocks : f = frontBlock
      BY DEF Geometry
    <3> QED
      BY <2>1, <2>2, <2>3, <3>1
  <2>7. PICK m \in Blocks : m = NextBlock(frontBlock)
    BY <2>4
  <2>8. cpc = "advance" => localTail[m] \in Used(m)' \cup {tail'[m]} /\ localTail[m] # front[m]
    BY <2>3, <2>5, <2>7 DEF ConsumerInv
  <2> QED
    BY <1>0, <2>1, <2>4, <2>6, <2>7, <2>8 DEF ConsumerInv
<1>6. CASE AdvanceTail
  <2>1. /\ UNCHANGED <<frontBlock, front, tail, data>> /\ tailBlock' = n /\ ppc = "advance_tail"
    BY <1>6 DEF AdvanceTail
  <2>2. n # frontBlock
    BY <2>1 DEF ProducerInv
  <2>3. NextBlock(frontBlock)' = NextBlock(frontBlock) /\ \A b : Used(b)' = Used(b)
    BY <2>1 DEF NextBlock, ShapeKept, Used
  <2> QED
    BY <1>0, <2>1, <2>2, <2>3 DEF ConsumerInv
<1> QED
  BY <1>1, <1>2, <1>3, <1>4, <1>5, <1>6 DEF EnqueueGoesOn

LEMMA ConsumerStep ==
    ASSUME TypeOK, Geometry, BlocksInv, ProducerInv, ConsumerInv, SemaInv, ShapeKept, [Next]_vars
    PROVE  ConsumerInv'
<1> DEFINE n == NextBlock(frontBlock)
<1>1. CASE try_enqueue
  <2>1. Quiet /\ UNCHANGED <<localTail, cpc, result, data>>
    BY <1>1 DEF try_enqueue, Quiet, consumer
  <2> QED
    BY <2>1, ConsumerQuiet
<1>2. CASE EnqueueGoesOn
  BY <1>2, ConsumerMoves
<1>3. CASE \/ Spin \/ TakeOne \/ waitWithPartialSpinning \/ Wake \/ TimeOut
           \/ Restore \/ Again \/ TryWait
  <2>1. /\ Quiet /\ UNCHANGED <<localTail, data>>
        /\ cpc' \in {"take", "wait", "dequeue", "sleep", "restore", "idle", "again", "try_wait"}
    BY <1>3 DEF Spin, TakeOne, waitWithPartialSpinning, Wake, TimeOut, Restore, Again, TryWait,
                CGoto, Quiet, inner, producer
  <2> QED
    BY <2>1, QuietKept DEF ConsumerInv, Quiet
<1>4. CASE try_dequeue \/ Recheck
  <2>1. Quiet /\ UNCHANGED <<result, data>>
    BY <1>4 DEF try_dequeue, Recheck, CGoto, Quiet, producer
  <2>2. CASE cpc = "dequeue" /\ front[frontBlock] # localTail[frontBlock]
    <3>1. cpc' = "read" /\ UNCHANGED localTail
      BY <1>4, <2>2 DEF try_dequeue, Recheck, CGoto
    <3> QED
      BY <2>1, <2>2, <3>1, QuietKept DEF ConsumerInv, Quiet
  <2>3. CASE ~(cpc = "dequeue" /\ front[frontBlock] # localTail[frontBlock])
    <3>1. /\ localTail' = [localTail EXCEPT ![frontBlock] = tail[frontBlock]]
          /\ cpc' = IF front[frontBlock] # tail[frontBlock] THEN "read"
                    ELSE IF cpc = "dequeue" THEN "empty" ELSE "next"
          /\ cpc \in {"dequeue", "recheck"}
      BY <1>4, <2>3 DEF try_dequeue, Recheck, CGoto
    <3>2. localTail'[frontBlock] = tail[frontBlock]
      BY <3>1 DEF Geometry
    <3>3. cpc' \in {"empty", "next"} => frontBlock # tailBlock
      BY <3>1, ClaimIsLater DEF ConsumerInv
    <3>4. cpc' = "next" => front[frontBlock] = tail[frontBlock]
      BY <3>1
    <3>5. cpc' \in {"read", "empty", "next"} /\ (cpc' = "read" => front[frontBlock] # tail[frontBlock])
      BY <3>1
    <3> QED
      BY <2>1, <3>2, <3>3, <3>4, <3>5, QuietKept DEF ConsumerInv, Quiet
  <2> QED
    BY <2>2, <2>3
<1>5. CASE FrontBlockEmpty
  <2>1. Quiet /\ UNCHANGED <<localTail, data>> /\ cpc = "empty" /\ cpc' \in {"recheck", "nothing"}
    BY <1>5 DEF FrontBlockEmpty, CGoto, Quiet, inner, producer
  <2> QED
    BY <2>1, QuietKept DEF ConsumerInv, Quiet
<1>6. CASE ReadNextTail
  <2>1. /\ Quiet /\ UNCHANGED <<data, result>> /\ cpc = "next" /\ cpc' = "advance"
        /\ localTail' = [localTail EXCEPT ![n] = tail[n]]
    BY <1>6 DEF ReadNextTail, CGoto, Quiet, producer
  <2>2. frontBlock # tailBlock /\ n \in Blocks
    BY <2>1 DEF ConsumerInv, Geometry
  <2>3. n # frontBlock /\ Inside(n)
    <3>1. /\ n = After(frontBlock, blocks) /\ blocks \in Nat
          /\ frontBlock \in 0 .. blocks - 1 /\ tailBlock \in 0 .. blocks - 1
      BY DEF Geometry
    <3> HIDE DEF n
    <3> QED
      BY <2>2, <3>1 DEF After, Inside
  <2>4. tail[n] # front[n]
    <3>1. CASE n = tailBlock
      BY <2>2, <3>1 DEF BlocksInv
    <3>2. CASE n # tailBlock
      <4>1. NextSlot(tail[n]) = front[n]
        BY <2>2, <2>3, <3>2 DEF BlocksInv, Full
      <4>2. /\ NextSlot(tail[n]) = After(tail[n], blockSize) /\ tail[n] \in 0 .. blockSize - 1
            /\ blockSize \in Nat /\ blockSize >= 2
        BY <2>2 DEF Geometry
      <4> QED
        BY <4>1, <4>2 DEF After
    <3> QED
      BY <3>1, <3>2
  <2>5. localTail'[n] = tail[n] /\ localTail'[frontBlock] = localTail[frontBlock]
    BY <2>1, <2>2, <2>3 DEF Geometry
  <2> HIDE DEF n
  <2>6. NextBlock(frontBlock)' = n
    BY <2>1, QuietKept DEF n
  <2> QED
    BY <2>1, <2>2, <2>4, <2>5, <2>6, QuietKept DEF ConsumerInv, Quiet
<1>7. CASE AdvanceFront
  <2>1. /\ UNCHANGED <<tailBlock, front, tail, localTail>> /\ frontBlock' = n
        /\ cpc = "advance" /\ cpc' = "read"
    BY <1>7 DEF AdvanceFront, CGoto
  <2>2. \A b : Used(b)' = Used(b)
    BY <2>1 DEF Used, ShapeKept
  <2>3. localTail[n] \in Used(n) \cup {tail[n]} /\ front[n] # localTail[n]
    BY <2>1 DEF ConsumerInv
  <2> HIDE DEF n
  <2> QED
    BY <2>1, <2>2, <2>3 DEF ConsumerInv
<1>8. CASE ReadSlot
  <2>1. /\ Quiet /\ UNCHANGED <<localTail, data>> /\ cpc = "read" /\ cpc' = "release"
        /\ result' = data[frontBlock][front[frontBlock]]
    BY <1>8 DEF ReadSlot, Quiet, inner, producer
  <2> QED
    BY <2>1, QuietKept DEF ConsumerInv, Quiet
<1>9. CASE Release
  <2>1. /\ UNCHANGED <<frontBlock, tailBlock, tail, localTail>> /\ cpc = "release" /\ cpc' = "idle"
        /\ front' = [front EXCEPT ![frontBlock] = NextSlot(front[frontBlock])]
    BY <1>9 DEF Release
  <2>2. PICK f \in Blocks : f = frontBlock
    BY DEF Geometry
  <2>3. Used(f)' = Used(f) \ {front[f]}
    BY <2>1, <2>2, ItemThere, FrontMoves
  <2>4. localTail[f] \in Used(f)' \cup {tail[f]}
    BY <2>1, <2>2, <2>3 DEF ConsumerInv
  <2> QED
    BY <2>1, <2>2, <2>4 DEF ConsumerInv
<1>10. CASE UNCHANGED vars
  <2>1. Quiet /\ UNCHANGED <<localTail, cpc, result, data>>
    BY <1>10 DEF vars, inner, producer, consumer, Quiet
  <2> QED
    BY <2>1, ConsumerQuiet
<1> QED
  BY <1>1, <1>2, <1>3, <1>4, <1>5, <1>6, <1>7, <1>8, <1>9, <1>10 DEF Next, Consume

-----------------------------------------------------------------------------
(* The semaphore counts the items.                                         *)

LEMMA LiveFinite ==
    ASSUME Geometry
    PROVE  IsFiniteSet(Live) /\ Cardinality(Live) \in Nat
<1>1. \A b \in {} : Full(b)
  OBVIOUS
<1>2. {} \in SUBSET Blocks
  OBVIOUS
<1> QED
  BY <1>1, <1>2, FullHolds

LEMMA LiveKept ==
    ASSUME ShapeKept, UNCHANGED <<front, tail>>
    PROVE  Live' = Live /\ \A b : Used(b)' = Used(b)
BY DEF Live, Used, ShapeKept

LEMMA LiveGrows ==
    ASSUME Geometry, ShapeKept, UNCHANGED front, NEW n \in Blocks,
           NextSlot(tail[n]) # front[n], tail' = [tail EXCEPT ![n] = NextSlot(tail[n])]
    PROVE  Cardinality(Live') = Cardinality(Live) + 1
<1>1. /\ Used(n)' = Used(n) \cup {tail[n]} /\ tail[n] \notin Used(n)
      /\ \A b \in Blocks : b # n => Used(b)' = Used(b)
  BY TailMoves
<1>2. tail[n] \in Slots
  BY DEF Geometry
<1>3. Live' = Live \cup {<<n, tail[n]>>} /\ <<n, tail[n]>> \notin Live
  BY <1>1, <1>2 DEF Live, ShapeKept
<1> QED
  BY <1>3, LiveFinite, FS_AddElement

LEMMA LiveShrinks ==
    ASSUME Geometry, ShapeKept, UNCHANGED tail, NEW n \in Blocks,
           front[n] # tail[n], front' = [front EXCEPT ![n] = NextSlot(front[n])]
    PROVE  Cardinality(Live') = Cardinality(Live) - 1
<1>1. /\ Used(n)' = Used(n) \ {front[n]} /\ front[n] \in Used(n)
      /\ \A b \in Blocks : b # n => Used(b)' = Used(b)
  BY FrontMoves
<1>2. front[n] \in Slots
  BY DEF Geometry
<1>3. Live' = Live \ {<<n, front[n]>>} /\ <<n, front[n]>> \in Live
  BY <1>1, <1>2 DEF Live, ShapeKept
<1> QED
  BY <1>3, LiveFinite, FS_RemoveElement

LEMMA SemaStep ==
    ASSUME TypeOK, Geometry, BlocksInv, ProducerInv, ConsumerInv, SemaInv, ShapeKept, [Next]_vars
    PROVE  SemaInv'
<1> DEFINE L == Cardinality(Live)
<1> DEFINE M == Cardinality(Live')
<1>0. /\ L \in Nat /\ m_count \in Int /\ m_sema \in Nat /\ item \in Nat
      /\ cpc \in {"idle", "take", "wait", "sleep", "restore", "again", "try_wait", "dequeue",
                  "empty", "recheck", "next", "advance", "read", "release"}
  BY LiveFinite, RwQueueAssumption DEF TypeOK
<1>1. Cardinality(Live)' = M
  OBVIOUS
<1>2. ASSUME UNCHANGED <<front, tail>> PROVE M = L
  BY <1>2, LiveKept
<1>3. CASE try_enqueue
  <2>1. /\ M = L /\ ppc = "idle" /\ ppc' \in {"write", "full"} /\ item' = item + 1
        /\ UNCHANGED <<cpc, m_count, m_sema>>
    BY <1>2, <1>3 DEF try_enqueue, consumer, sema
  <2> HIDE DEF L, M
  <2> QED
    BY <1>0, <1>1, <2>1 DEF SemaInv, Unsignalled, Posts, L
<1>4. CASE EnqueueGoesOn /\ ~signal /\ ~Post
  <2>1. UNCHANGED <<cpc, m_count, m_sema, item>>
    BY <1>4 DEF EnqueueGoesOn, WriteSlot, Publish, TailBlockFull, Refused, ReadNextFront,
                WriteNextSlot, PublishNext, AdvanceTail, PGoto, consumer, sema
  <2>2. CASE Publish \/ PublishNext
    <3>1. /\ ppc \in {"publish", "publish_next"} /\ ppc' \in {"signal", "advance_tail"}
      BY <2>2 DEF Publish, PublishNext, PGoto
    <3>2. M = L + 1
      <4>1. CASE Publish
        <5>1. /\ tail' = [tail EXCEPT ![tailBlock] = NextSlot(tail[tailBlock])]
              /\ UNCHANGED front /\ ppc = "publish" /\ tailBlock \in Blocks
          BY <4>1 DEF Publish, Geometry
        <5> QED
          BY <5>1, RoomLeft, LiveGrows
      <4>2. CASE PublishNext
        <5>1. /\ tail' = [tail EXCEPT ![NextBlock(tailBlock)] = NextSlot(tail[NextBlock(tailBlock)])]
              /\ UNCHANGED front /\ ppc = "publish_next"
          BY <4>2 DEF PublishNext
        <5>2. PICK n \in Blocks : n = NextBlock(tailBlock)
          BY DEF Geometry
        <5>3. n # frontBlock /\ ~Inside(n)
          BY <5>1, <5>2, BeyondTail DEF ProducerInv
        <5>4. tail[n] = front[n]
          BY <5>1, <5>3 DEF BlocksInv
        <5>5. NextSlot(tail[n]) # front[n]
          <6>1. /\ NextSlot(tail[n]) = After(tail[n], blockSize) /\ tail[n] \in 0 .. blockSize - 1
                /\ blockSize \in Nat /\ blockSize >= 2
            BY DEF Geometry
          <6> QED
            BY <5>4, <6>1 DEF After
        <5> QED
          BY <5>1, <5>2, <5>5, LiveGrows
      <4> QED
        BY <2>2, <4>1, <4>2
    <3> HIDE DEF L, M
    <3> QED
      BY <1>0, <1>1, <2>1, <3>1, <3>2 DEF SemaInv, Unsignalled, Posts, L
  <2>3. CASE ~Publish /\ ~PublishNext
    <3>1. UNCHANGED <<front, tail>>
      BY <1>4, <2>3 DEF EnqueueGoesOn, WriteSlot, TailBlockFull, Refused, ReadNextFront,
                        WriteNextSlot, AdvanceTail, inner
    <3>2. \/ /\ ppc \in {"write", "full", "refused", "advance", "write_next"}
             /\ ppc' \in {"publish", "advance", "refused", "write_next", "publish_next", "idle"}
          \/ ppc = "advance_tail" /\ ppc' = "signal"
      BY <1>4, <2>3 DEF EnqueueGoesOn, WriteSlot, TailBlockFull, Refused, ReadNextFront,
                        WriteNextSlot, AdvanceTail, PGoto
    <3>3. M = L
      BY <1>2, <3>1
    <3> HIDE DEF L, M
    <3> QED
      BY <1>0, <1>1, <2>1, <3>2, <3>3 DEF SemaInv, Unsignalled, Posts, L
  <2> QED
    BY <2>2, <2>3
<1>5. CASE signal
  <2>1. /\ M = L /\ ppc = "signal" /\ m_count' = m_count + 1
        /\ ppc' = (IF m_count < 0 THEN "post" ELSE "idle") /\ UNCHANGED <<cpc, m_sema, item>>
    BY <1>2, <1>5 DEF signal, PGoto, consumer, inner
  <2> HIDE DEF L, M
  <2> QED
    BY <1>0, <1>1, <2>1 DEF SemaInv, Unsignalled, Posts, L
<1>6. CASE Post
  <2>1. M = L /\ ppc = "post" /\ ppc' = "idle" /\ m_sema' = m_sema + 1 /\ UNCHANGED <<cpc, m_count, item>>
    BY <1>2, <1>6 DEF Post, PGoto, consumer, inner
  <2> HIDE DEF L, M
  <2> QED
    BY <1>0, <1>1, <2>1 DEF SemaInv, Unsignalled, Posts, L
<1>7. CASE Consume /\ ~Release
  <2>1. UNCHANGED <<front, tail, ppc, item>>
    BY <1>7 DEF Consume, Spin, TakeOne, waitWithPartialSpinning, Wake, TimeOut, Restore, Again,
                TryWait, try_dequeue, FrontBlockEmpty, Recheck, ReadNextTail, AdvanceFront,
                ReadSlot, inner, producer
  <2>2. M = L
    BY <1>2, <2>1
  <2>3. CASE Spin \/ TakeOne \/ waitWithPartialSpinning \/ Wake \/ TimeOut
    <3> HIDE DEF L, M
    <3> QED
      BY <1>0, <1>1, <2>1, <2>2, <2>3
      DEF SemaInv, Unsignalled, Posts, L, Spin, TakeOne, waitWithPartialSpinning, Wake, TimeOut,
          CGoto, sema
  <2>4. CASE Restore \/ Again \/ TryWait
    <3> HIDE DEF L, M
    <3> QED
      BY <1>0, <1>1, <2>1, <2>2, <2>4
      DEF SemaInv, Unsignalled, Posts, L, Restore, Again, TryWait, CGoto
  <2>5. CASE try_dequeue \/ FrontBlockEmpty \/ Recheck \/ ReadNextTail \/ AdvanceFront \/ ReadSlot
    <3>1. /\ cpc \in {"dequeue", "empty", "recheck", "next", "advance", "read"}
          /\ cpc' \in {"read", "empty", "recheck", "nothing", "next", "advance", "release"}
          /\ UNCHANGED <<m_count, m_sema>>
      BY <2>5 DEF try_dequeue, FrontBlockEmpty, Recheck, ReadNextTail, AdvanceFront, ReadSlot,
                  CGoto, sema
    <3> HIDE DEF L, M
    <3> QED
      BY <1>0, <1>1, <2>1, <2>2, <3>1 DEF SemaInv, Unsignalled, Posts, L
  <2> QED
    BY <1>7, <2>3, <2>4, <2>5 DEF Consume
<1>8. CASE Release
  <2>1. /\ UNCHANGED <<tail, ppc, item, m_count, m_sema>> /\ cpc = "release" /\ cpc' = "idle"
        /\ front' = [front EXCEPT ![frontBlock] = NextSlot(front[frontBlock])]
        /\ frontBlock \in Blocks
    BY <1>8 DEF Release, producer, sema, Geometry
  <2>2. M = L - 1
    BY <2>1, ItemThere, LiveShrinks
  <2> HIDE DEF L, M
  <2> QED
    BY <1>0, <1>1, <2>1, <2>2 DEF SemaInv, Unsignalled, Posts, L
<1>9. CASE UNCHANGED vars
  <2>1. M = L /\ UNCHANGED <<ppc, item, cpc, m_count, m_sema>>
    BY <1>2, <1>9 DEF vars, inner, producer, consumer, sema
  <2> HIDE DEF L, M
  <2> QED
    BY <1>0, <1>1, <2>1 DEF SemaInv, Unsignalled, Posts, L
<1> QED
  BY <1>3, <1>4, <1>5, <1>6, <1>7, <1>8, <1>9 DEF Next

-----------------------------------------------------------------------------
(* The order of the items.                                                 *)

\* The slots in use lie in the blocks from front to tail, but for the item the
\* producer is about to hand over in the next block.
LEMMA UsedInside ==
    ASSUME Geometry, BlocksInv, NEW b \in Blocks, Used(b) # {}
    PROVE  Inside(b) \/ (ppc = "advance_tail" /\ b = NextBlock(tailBlock))
BY UsedEmpty DEF BlocksInv

LEMMA SpanFar ==
    ASSUME NEW n \in Nat, NEW f \in 0 .. n - 1, NEW t \in 0 .. n - 1, NEW i \in Span(f, t, n)
    PROVE  Far(i, f, n) < Far(t, f, n) /\ Far(t, f, n) \in Nat /\ Far(i, f, n) \in Nat
BY DEF Span, Far

LEMMA ArcFar ==
    ASSUME NEW n \in Nat, NEW f \in 0 .. n - 1, NEW t \in 0 .. n - 1, NEW b \in 0 .. n - 1
    PROVE  /\ Arc(f, t, b) => Far(b, f, n) <= Far(t, f, n)
           /\ Far(b, f, n) \in Nat /\ Far(t, f, n) \in Nat
           /\ Arc(f, t, b) /\ After(t, n) # f => Far(b, f, n) < Far(After(t, n), f, n)
           /\ Far(After(t, n), f, n) \in Nat
BY DEF Arc, Far, After

\* A slot at the tail comes after every slot in use.
LEMMA TailIsLast ==
    ASSUME Geometry, BlocksInv, ppc # "advance_tail",
           NEW c \in Blocks, NEW j \in Used(c)
    PROVE  /\ ~Before(tailBlock, tail[tailBlock], c, j)
           /\ NextBlock(tailBlock) # frontBlock =>
                 ~Before(NextBlock(tailBlock), tail[NextBlock(tailBlock)], c, j)
<1> DEFINE n == NextBlock(tailBlock)
<1>1. Arc(frontBlock, tailBlock, c)
  BY UsedInside DEF Inside, Arc
<1>2. /\ blocks \in Nat /\ frontBlock \in 0 .. blocks - 1 /\ tailBlock \in 0 .. blocks - 1
      /\ c \in 0 .. blocks - 1 /\ n = After(tailBlock, blocks) /\ tailBlock \in Blocks
  BY DEF Geometry
<1>3. ~(Far(tailBlock, frontBlock, blocks) < Far(c, frontBlock, blocks))
  BY <1>1, <1>2, ArcFar
<1>4. n # frontBlock => Far(c, frontBlock, blocks) < Far(n, frontBlock, blocks)
  BY <1>1, <1>2, ArcFar
<1>5. Far(c, frontBlock, blocks) \in Nat /\ Far(n, frontBlock, blocks) \in Nat
  BY <1>2, ArcFar
<1>6. c = tailBlock => ~(Far(tail[tailBlock], front[tailBlock], blockSize)
                            < Far(j, front[tailBlock], blockSize))
  <2> SUFFICES ASSUME c = tailBlock
               PROVE  ~(Far(tail[c], front[c], blockSize) < Far(j, front[c], blockSize))
    OBVIOUS
  <2>1. /\ blockSize \in Nat /\ front[c] \in 0 .. blockSize - 1 /\ tail[c] \in 0 .. blockSize - 1
        /\ j \in Span(front[c], tail[c], blockSize)
    BY DEF Geometry
  <2> QED
    BY <2>1, SpanFar
<1> HIDE DEF n
<1> QED
  BY <1>3, <1>4, <1>5, <1>6 DEF Before, n

\* The slot at the front comes before every other slot in use.
LEMMA FrontIsFirst ==
    ASSUME Geometry, NEW c \in Blocks, NEW j \in Used(c),
           ~(c = frontBlock /\ j = front[frontBlock])
    PROVE  Before(frontBlock, front[frontBlock], c, j)
<1>1. /\ blocks \in Nat /\ frontBlock \in 0 .. blocks - 1 /\ c \in 0 .. blocks - 1
      /\ blockSize \in Nat /\ front[frontBlock] \in 0 .. blockSize - 1
      /\ j \in 0 .. blockSize - 1
  BY UsedEmpty DEF Geometry
<1>2. c # frontBlock => Far(frontBlock, frontBlock, blocks) < Far(c, frontBlock, blocks)
  BY <1>1 DEF Far
<1>3. j # front[frontBlock] => Far(front[frontBlock], front[frontBlock], blockSize)
                                  < Far(j, front[frontBlock], blockSize)
  BY <1>1 DEF Far
<1> QED
  BY <1>2, <1>3 DEF Before

\* The order of the remaining slots does not change when the consumer moves on.
LEMMA FarShifts ==
    ASSUME NEW n \in Nat, NEW f \in 0 .. n - 1, NEW b \in 0 .. n - 1, b # f
    PROVE  Far(b, After(f, n), n) = Far(b, f, n) - 1 /\ Far(b, f, n) \in Nat
BY DEF Far, After

LEMMA BeforeKept ==
    ASSUME ShapeKept, UNCHANGED <<frontBlock, front>>
    PROVE  \A b, i, c, j : Before(b, i, c, j)' = Before(b, i, c, j)
BY DEF Before, ShapeKept

LEMMA BeforeNextBlock ==
    ASSUME Geometry, ShapeKept, frontBlock' = NextBlock(frontBlock), UNCHANGED front,
           NEW b \in Blocks, NEW c \in Blocks, b # frontBlock, c # frontBlock, NEW i, NEW j
    PROVE  Before(b, i, c, j)' <=> Before(b, i, c, j)
<1>1. /\ blocks \in Nat /\ frontBlock \in 0 .. blocks - 1 /\ b \in 0 .. blocks - 1
      /\ c \in 0 .. blocks - 1 /\ frontBlock' = After(frontBlock, blocks)
  BY DEF Geometry
<1>2. /\ Far(b, frontBlock', blocks) = Far(b, frontBlock, blocks) - 1
      /\ Far(c, frontBlock', blocks) = Far(c, frontBlock, blocks) - 1
      /\ Far(b, frontBlock, blocks) \in Nat /\ Far(c, frontBlock, blocks) \in Nat
  BY <1>1, FarShifts
<1> QED
  BY <1>2 DEF Before, ShapeKept

LEMMA BeforeNextSlot ==
    ASSUME Geometry, ShapeKept, UNCHANGED frontBlock,
           front' = [front EXCEPT ![frontBlock] = NextSlot(front[frontBlock])],
           NEW b \in Blocks, NEW c \in Blocks, NEW i \in Slots, NEW j \in Slots,
           ~(b = frontBlock /\ i = front[frontBlock]), ~(c = frontBlock /\ j = front[frontBlock])
    PROVE  Before(b, i, c, j)' <=> Before(b, i, c, j)
<1>1. CASE b = c /\ b = frontBlock
  <2>1. /\ blockSize \in Nat /\ front[b] \in 0 .. blockSize - 1 /\ i \in 0 .. blockSize - 1
        /\ j \in 0 .. blockSize - 1 /\ front'[b] = After(front[b], blockSize)
        /\ i # front[b] /\ j # front[b]
    BY <1>1 DEF Geometry
  <2>2. /\ Far(i, front'[b], blockSize) = Far(i, front[b], blockSize) - 1
        /\ Far(j, front'[b], blockSize) = Far(j, front[b], blockSize) - 1
        /\ Far(i, front[b], blockSize) \in Nat /\ Far(j, front[b], blockSize) \in Nat
    BY <2>1, FarShifts
  <2> QED
    BY <2>2 DEF Before, ShapeKept
<1>2. CASE b # c
  BY <1>2 DEF Before, ShapeKept
<1>3. CASE b # frontBlock
  <2>1. front'[b] = front[b]
    BY <1>3 DEF Geometry
  <2> QED
    BY <2>1 DEF Before, ShapeKept
<1> QED
  BY <1>1, <1>2, <1>3

LEMMA AheadThere ==
    ASSUME Geometry, BlocksInv, ProducerInv, ppc = "advance_tail"
    PROVE  /\ NextBlock(tailBlock) \in Blocks /\ NextBlock(tailBlock) # frontBlock
           /\ front[NextBlock(tailBlock)] \in Used(NextBlock(tailBlock))
<1> DEFINE n == NextBlock(tailBlock)
<1>1. n \in Blocks /\ n # frontBlock /\ ~Inside(n)
  BY BeyondTail DEF ProducerInv
<1>2. tail[n] = NextSlot(front[n])
  BY <1>1 DEF BlocksInv
<1>3. /\ front[n] \in 0 .. blockSize - 1 /\ NextSlot(front[n]) = After(front[n], blockSize)
      /\ blockSize \in Nat /\ blockSize >= 2
  BY <1>1 DEF Geometry
<1>4. front[n] # tail[n]
  BY <1>2, <1>3 DEF After
<1> QED
  BY <1>1, <1>4, UsedPop

\* The item the consumer hands over is the oldest one that was taken in.
LEMMA FirstOut ==
    ASSUME TypeOK, Geometry, BlocksInv, ProducerInv, ConsumerInv, DataInv, cpc = "release"
    PROVE  /\ Len(out) < Len(accepted) /\ result = accepted[Len(out) + 1] /\ result \in Items
           /\ \A b \in Blocks : \A i \in Used(b) :
                 ~(b = frontBlock /\ i = front[frontBlock]) => result < data[b][i]
<1>1. /\ frontBlock \in Blocks /\ front[frontBlock] \in Used(frontBlock)
      /\ result = data[frontBlock][front[frontBlock]]
  BY ItemThere, UsedPop DEF ConsumerInv, Geometry
<1>2. \A b \in Blocks : \A i \in Used(b) :
         ~(b = frontBlock /\ i = front[frontBlock]) => result < data[b][i]
  BY <1>1, FrontIsFirst DEF DataInv
<1>3. result \notin Ahead
  <2>1. CASE ppc = "advance_tail"
    <3>1. result < item
      BY <1>2, <2>1, AheadThere DEF DataInv
    <3>2. item \in Int
      BY DEF TypeOK
    <3> QED
      BY <3>1, <3>2 DEF Ahead
  <2> QED
    BY <2>1 DEF Ahead
<1>4. PICK k \in Len(out) + 1 .. Len(accepted) : result = accepted[k]
  BY <1>1, <1>3 DEF DataInv
<1>5. Len(out) \in Nat /\ Len(accepted) \in Nat /\ \A l \in 1 .. Len(accepted) : accepted[l] \in Items
  BY DEF TypeOK
<1>6. Len(out) + 1 \in Len(out) + 1 .. Len(accepted) /\ Len(out) + 1 \in 1 .. Len(accepted)
      /\ k \in 1 .. Len(accepted)
  BY <1>4, <1>5
<1>7. PICK b \in Blocks : \E i \in Used(b) : data[b][i] = accepted[Len(out) + 1]
  BY <1>6 DEF DataInv
<1>8. PICK i \in Used(b) : data[b][i] = accepted[Len(out) + 1]
  BY <1>7
<1>9. result = accepted[Len(out) + 1]
  <2>1. CASE b = frontBlock /\ i = front[frontBlock]
    BY <1>1, <1>8, <2>1
  <2>2. CASE ~(b = frontBlock /\ i = front[frontBlock])
    <3>1. accepted[k] < accepted[Len(out) + 1]
      BY <1>2, <1>4, <1>8, <2>2
    <3>2. k = Len(out) + 1 \/ accepted[Len(out) + 1] < accepted[k]
      BY <1>4, <1>5, <1>6 DEF DataInv
    <3>3. accepted[k] \in Int /\ accepted[Len(out) + 1] \in Int
      BY <1>5, <1>6, RwQueueAssumption DEF Items
    <3> QED
      BY <3>1, <3>2, <3>3
  <2> QED
    BY <2>1, <2>2
<1> QED
  BY <1>2, <1>5, <1>6, <1>9

\* Steps that change neither the items nor their places.
LEMMA DataQuiet ==
    ASSUME TypeOK, Geometry, DataInv, ShapeKept, Quiet, UNCHANGED <<data, accepted, out>>,
           Bound <= Bound', item' \in Int, ppc' # "idle" => item' \in Items,
           ppc' \in {"publish", "publish_next", "advance_tail"} => ppc' = ppc /\ item' = item,
           ppc' = ppc \/ ppc # "advance_tail"
    PROVE  DataInv'
<1>1. Ahead' = Ahead
  BY DEF Ahead, Quiet
<1>2. \A b, i, c, j : Before(b, i, c, j)' = Before(b, i, c, j)
  BY BeforeKept DEF Quiet
<1>3. /\ \A b : Used(b)' = Used(b)
      /\ NextBlock(tailBlock)' = NextBlock(tailBlock) /\ UNCHANGED <<front, tail, tailBlock>>
  BY QuietKept DEF Quiet
<1>4. \A k \in 1 .. Len(accepted) : accepted[k] <= Bound'
  <2>1. Bound \in Int /\ Bound' \in Int
    BY RwQueueAssumption DEF Bound, TypeOK, Items
  <2>2. \A k \in 1 .. Len(accepted) : accepted[k] \in Int /\ accepted[k] <= Bound
    BY RwQueueAssumption DEF DataInv, TypeOK, Items
  <2> QED
    BY <2>1, <2>2
<1> QED
  BY <1>1, <1>2, <1>3, <1>4 DEF DataInv, ShapeKept

LEMMA DataEnqueue ==
    ASSUME TypeOK, Geometry, BlocksInv, ProducerInv, DataInv, ShapeKept,
           try_enqueue \/ EnqueueGoesOn
    PROVE  DataInv'
<1> DEFINE n == NextBlock(tailBlock)
<1>0. /\ Len(accepted) \in Nat /\ Len(out) \in Nat /\ item \in Int
      /\ accepted \in Seq(Items) /\ Len(out) <= Len(accepted)
      /\ \A k \in 1 .. Len(accepted) : accepted[k] \in Int
      /\ \A b \in Blocks : \A i \in Slots : data[b][i] \in Int
      /\ Items = 1 .. MaxItems /\ MaxItems \in Nat
  BY RwQueueAssumption DEF TypeOK, Items, None
<1>00. UNCHANGED out
  BY DEF try_enqueue, EnqueueGoesOn, WriteSlot, Publish, TailBlockFull, Refused, ReadNextFront,
         WriteNextSlot, PublishNext, AdvanceTail, signal, Post, history
<1>1. CASE try_enqueue \/ TailBlockFull \/ Refused \/ ReadNextFront \/ signal \/ Post
  <2>1. /\ Quiet /\ UNCHANGED <<data, accepted, out>>
        /\ \/ ppc = "idle" /\ ppc' \in {"write", "full"} /\ item' = item + 1 /\ item < MaxItems
           \/ ppc \in {"full", "advance"} /\ ppc' \in {"advance", "refused", "write_next"} /\ item' = item
           \/ ppc \in {"refused", "signal", "post"} /\ ppc' \in {"idle", "post"} /\ item' = item
    BY <1>1 DEF try_enqueue, TailBlockFull, Refused, ReadNextFront, signal, Post, PGoto, Quiet,
                inner, history
  <2>2. Bound <= Bound' /\ item' \in Int
    BY <1>0, <2>1 DEF Bound
  <2>3. ppc' # "idle" => item' \in Items
    <3>1. item \in 0 .. MaxItems /\ (ppc # "idle" => item \in Items)
      BY DEF DataInv, TypeOK
    <3> QED
      BY <1>0, <2>1, <3>1
  <2> QED
    BY <2>1, <2>2, <2>3, DataQuiet
<1>2. ASSUME NEW t \in Blocks, ppc \in {"write", "write_next"},
             data' = [data EXCEPT ![t][tail[t]] = item],
             Quiet, UNCHANGED <<accepted, item>>,
             \/ ppc = "write" /\ ppc' = "publish" /\ t = tailBlock
             \/ ppc = "write_next" /\ ppc' = "publish_next" /\ t = n
      PROVE  DataInv'
  <2>1. /\ \A b : Used(b)' = Used(b)
        /\ NextBlock(tailBlock)' = NextBlock(tailBlock) /\ UNCHANGED <<front, tail, tailBlock>>
    BY <1>2, QuietKept DEF Quiet
  <2>2. \A b, i, c, j : Before(b, i, c, j)' = Before(b, i, c, j)
    BY <1>2, BeforeKept DEF Quiet
  <2>3. \A b \in Blocks : \A i \in Used(b) : data'[b][i] = data[b][i]
    BY <1>2, UsedEmpty DEF TypeOK, Geometry
  <2>4. data'[t][tail[t]] = item
    BY <1>2 DEF TypeOK, Geometry
  <2>5. Ahead' = Ahead /\ Bound' = Bound
    BY <1>2 DEF Ahead, Bound
  <2> QED
    BY <1>00, <1>2, <2>1, <2>2, <2>3, <2>4, <2>5 DEF DataInv, ShapeKept
<1>3. CASE WriteSlot
  BY <1>2, <1>3 DEF WriteSlot, PGoto, Quiet, history, Geometry
<1>4. CASE WriteNextSlot
  BY <1>2, <1>4 DEF WriteNextSlot, PGoto, Quiet, history, Geometry
\* A slot behind all the others comes into use with the producer's item.
<1>5. ASSUME NEW t \in Blocks, NextSlot(tail[t]) # front[t], ppc \in {"publish", "publish_next"},
             tail' = [tail EXCEPT ![t] = NextSlot(tail[t])], data[t][tail[t]] = item,
             UNCHANGED <<frontBlock, front, data, item>>,
             \A c \in Blocks : \A j \in Used(c) : ~Before(t, tail[t], c, j)
      PROVE  /\ Used(t)' = Used(t) \cup {tail[t]}
             /\ \A b \in Blocks : b # t => Used(b)' = Used(b)
             /\ (\A b, c \in Blocks : \A i \in Used(b), j \in Used(c) :
                    Before(b, i, c, j) => data[b][i] < data[c][j])'
  <2>1. /\ Used(t)' = Used(t) \cup {tail[t]}
        /\ \A b \in Blocks : b # t => Used(b)' = Used(b)
    BY <1>5, TailMoves
  <2>2. \A b, i, c, j : Before(b, i, c, j)' = Before(b, i, c, j)
    BY <1>5, BeforeKept
  <2>3. \A b \in Blocks : \A i \in Used(b) : data[b][i] < item
    <3> SUFFICES ASSUME NEW b \in Blocks, NEW i \in Used(b) PROVE data[b][i] < item
      OBVIOUS
    <3>1. Ahead = {} /\ Bound = item - 1
      BY <1>5 DEF Ahead, Bound
    <3>2. PICK k \in Len(out) + 1 .. Len(accepted) : data[b][i] = accepted[k]
      BY <3>1 DEF DataInv
    <3>3. k \in 1 .. Len(accepted)
      BY <1>0
    <3>4. accepted[k] <= item - 1
      BY <3>1, <3>3 DEF DataInv
    <3> QED
      BY <1>0, <3>2, <3>3, <3>4
  <2>4. ~Before(t, tail[t], t, tail[t])
    <3>1. /\ blocks \in Nat /\ t \in 0 .. blocks - 1 /\ frontBlock \in 0 .. blocks - 1
          /\ blockSize \in Nat /\ front[t] \in 0 .. blockSize - 1 /\ tail[t] \in 0 .. blockSize - 1
      BY DEF Geometry
    <3> QED
      BY <3>1 DEF Before, Far
  <2>5. ASSUME NEW b \in Blocks, NEW c \in Blocks, NEW i \in Used(b)', NEW j \in Used(c)',
               Before(b, i, c, j)'
        PROVE  data[b][i] < data[c][j]
    <3>1. /\ i \in Used(b) \/ (b = t /\ i = tail[t])
          /\ j \in Used(c) \/ (c = t /\ j = tail[t])
      BY <2>1, <2>5
    <3>2. Before(b, i, c, j)
      BY <2>2, <2>5
    <3>3. ~(b = t /\ i = tail[t])
      BY <1>5, <2>4, <3>1, <3>2
    <3> QED
      BY <1>5, <2>3, <3>1, <3>2, <3>3 DEF DataInv
  <2> QED
    BY <1>5, <2>1, <2>5 DEF ShapeKept
<1>6. CASE Publish
  <2>1. /\ UNCHANGED <<frontBlock, tailBlock, front, data, item>>
        /\ ppc = "publish" /\ ppc' = "signal" /\ accepted' = Append(accepted, item)
        /\ tail' = [tail EXCEPT ![tailBlock] = NextSlot(tail[tailBlock])]
    BY <1>6 DEF Publish, PGoto
  <2>2. PICK t \in Blocks : t = tailBlock
    BY DEF Geometry
  <2>3. \A c \in Blocks : \A j \in Used(c) : ~Before(t, tail[t], c, j)
    BY <2>1, <2>2, TailIsLast
  <2>4. NextSlot(tail[t]) # front[t] /\ data[t][tail[t]] = item /\ item \in Items
    BY <2>1, <2>2, RoomLeft DEF DataInv
  <2>5. /\ Used(t)' = Used(t) \cup {tail[t]}
        /\ \A b \in Blocks : b # t => Used(b)' = Used(b)
        /\ (\A b, c \in Blocks : \A i \in Used(b), j \in Used(c) :
                Before(b, i, c, j) => data[b][i] < data[c][j])'
    BY <1>5, <2>1, <2>2, <2>3, <2>4
  <2>6. Ahead = {} /\ Ahead' = {} /\ Bound = item - 1 /\ Bound' = item
    BY <2>1 DEF Ahead, Bound
  <2>7. /\ Len(accepted') = Len(accepted) + 1 /\ accepted'[Len(accepted) + 1] = item
        /\ \A k \in 1 .. Len(accepted) : accepted'[k] = accepted[k]
    BY <1>0, <2>1, <2>4
  <2>8. (\A b \in Blocks : \A i \in Used(b) :
            data[b][i] \in Ahead \/ \E k \in Len(out) + 1 .. Len(accepted) : data[b][i] = accepted[k])'
    <3> SUFFICES ASSUME NEW b \in Blocks, NEW i \in Used(b)'
                 PROVE  \E k \in Len(out) + 1 .. Len(accepted) + 1 : data[b][i] = accepted'[k]
      BY <1>00, <2>1, <2>7 DEF ShapeKept
    <3>1. CASE i \in Used(b)
      <4>1. PICK k \in Len(out) + 1 .. Len(accepted) : data[b][i] = accepted[k]
        BY <2>6, <3>1 DEF DataInv
      <4>2. k \in 1 .. Len(accepted) /\ k \in Len(out) + 1 .. Len(accepted) + 1
        BY <1>0
      <4> QED
        BY <2>7, <4>1, <4>2
    <3>2. CASE b = t /\ i = tail[t]
      <4>1. Len(accepted) + 1 \in Len(out) + 1 .. Len(accepted) + 1
        BY <1>0
      <4> QED
        BY <2>4, <2>7, <3>2, <4>1
    <3> QED
      BY <2>5, <3>1, <3>2
  <2>9. (\A k \in Len(out) + 1 .. Len(accepted) :
            \E b \in Blocks : \E i \in Used(b) : data[b][i] = accepted[k])'
    <3> SUFFICES ASSUME NEW k \in Len(out) + 1 .. Len(accepted) + 1
                 PROVE  \E b \in Blocks : \E i \in Used(b)' : data[b][i] = accepted'[k]
      BY <1>00, <2>1, <2>7 DEF ShapeKept
    <3>1. CASE k = Len(accepted) + 1
      BY <2>4, <2>5, <2>7, <3>1
    <3>2. CASE k # Len(accepted) + 1
      <4>1. k \in Len(out) + 1 .. Len(accepted) /\ k \in 1 .. Len(accepted)
        BY <1>0, <3>2
      <4>2. PICK b \in Blocks : \E i \in Used(b) : data[b][i] = accepted[k]
        BY <4>1 DEF DataInv
      <4> QED
        BY <2>5, <2>7, <4>1, <4>2
    <3> QED
      BY <3>1, <3>2
  <2>10. \A k \in 1 .. Len(accepted) : accepted[k] < item
    BY <1>0, <2>6 DEF DataInv
  <2>11. \A k, l \in 1 .. Len(accepted') : k < l => accepted'[k] < accepted'[l]
    <3>1. ASSUME NEW k \in 1 .. Len(accepted) + 1, NEW l \in 1 .. Len(accepted) + 1, k < l
          PROVE  accepted'[k] < accepted'[l]
      <4>1. k \in 1 .. Len(accepted) /\ (l = Len(accepted) + 1 \/ l \in 1 .. Len(accepted))
        BY <1>0, <3>1
      <4>2. l \in 1 .. Len(accepted) => accepted[k] < accepted[l]
        BY <3>1, <4>1 DEF DataInv
      <4> QED
        BY <2>7, <2>10, <4>1, <4>2
    <3> QED
      BY <2>7, <3>1
  <2>12. (\A k, l \in 1 .. Len(accepted) : k < l => accepted[k] < accepted[l])'
    BY <2>11
  <2>13. (\A k \in 1 .. Len(accepted) : accepted[k] <= Bound /\ accepted[k] \notin Ahead)'
    <3> SUFFICES ASSUME NEW k \in 1 .. Len(accepted')
                 PROVE  accepted'[k] <= Bound' /\ accepted'[k] \notin Ahead'
      OBVIOUS
    <3>0. k = Len(accepted) + 1 \/ k \in 1 .. Len(accepted)
      BY <1>0, <2>7
    <3>1. accepted'[k] <= item
      BY <1>0, <2>7, <2>10, <3>0
    <3> QED
      BY <2>6, <3>1
  <2> QED
    BY <2>1, <2>4, <2>5, <2>8, <2>9, <2>12, <2>13 DEF DataInv
<1>7. CASE PublishNext
  <2>1. /\ UNCHANGED <<frontBlock, tailBlock, front, data, item, accepted>>
        /\ ppc = "publish_next" /\ ppc' = "advance_tail"
        /\ tail' = [tail EXCEPT ![n] = NextSlot(tail[n])]
    BY <1>7 DEF PublishNext, PGoto, history
  <2>2. PICK t \in Blocks : t = NextBlock(tailBlock)
    BY DEF Geometry
  <2>3. t # frontBlock /\ ~Inside(t) /\ tail[t] = front[t]
    <3>1. t # frontBlock /\ ~Inside(t)
      BY <2>1, <2>2, BeyondTail DEF ProducerInv
    <3> QED
      BY <2>1, <3>1 DEF BlocksInv
  <2>4. \A c \in Blocks : \A j \in Used(c) : ~Before(t, tail[t], c, j)
    BY <2>1, <2>2, <2>3, TailIsLast
  <2>5. NextSlot(tail[t]) # front[t] /\ data[t][tail[t]] = item /\ item \in Items
    <3>1. /\ NextSlot(tail[t]) = After(tail[t], blockSize) /\ tail[t] \in 0 .. blockSize - 1
          /\ blockSize \in Nat /\ blockSize >= 2
      BY DEF Geometry
    <3>2. NextSlot(tail[t]) # front[t]
      BY <2>3, <3>1 DEF After
    <3> QED
      BY <2>1, <2>2, <3>2 DEF DataInv
  <2>6. /\ Used(t)' = Used(t) \cup {tail[t]}
        /\ \A b \in Blocks : b # t => Used(b)' = Used(b)
        /\ (\A b, c \in Blocks : \A i \in Used(b), j \in Used(c) :
                Before(b, i, c, j) => data[b][i] < data[c][j])'
    BY <1>5, <2>1, <2>2, <2>4, <2>5
  <2>7. Ahead = {} /\ Ahead' = {item} /\ Bound = item - 1 /\ Bound' = item
    BY <2>1 DEF Ahead, Bound
  <2>8. (\A b \in Blocks : \A i \in Used(b) :
            data[b][i] \in Ahead \/ \E k \in Len(out) + 1 .. Len(accepted) : data[b][i] = accepted[k])'
    BY <1>00, <2>1, <2>5, <2>6, <2>7 DEF DataInv, ShapeKept
  <2>9. (\A k \in Len(out) + 1 .. Len(accepted) :
            \E b \in Blocks : \E i \in Used(b) : data[b][i] = accepted[k])'
    <3> SUFFICES ASSUME NEW k \in Len(out) + 1 .. Len(accepted)
                 PROVE  \E b \in Blocks : \E i \in Used(b)' : data[b][i] = accepted[k]
      BY <1>00, <2>1 DEF ShapeKept
    <3>1. PICK b \in Blocks : \E i \in Used(b) : data[b][i] = accepted[k]
      BY DEF DataInv
    <3> QED
      BY <2>6, <3>1
  <2>10. \A k \in 1 .. Len(accepted) : accepted[k] <= item /\ accepted[k] # item
    BY <1>0, <2>7 DEF DataInv
  <2>11. NextBlock(tailBlock)' = t /\ data[t][front[t]] = item
    BY <2>1, <2>2, <2>3, <2>5 DEF NextBlock, ShapeKept
  <2>12. \A k, l \in 1 .. Len(accepted) : k < l => accepted[k] < accepted[l]
    BY DEF DataInv
  <2> QED
    BY <2>1, <2>5, <2>6, <2>7, <2>8, <2>9, <2>10, <2>11, <2>12 DEF DataInv
<1>8. CASE AdvanceTail
  <2>1. /\ UNCHANGED <<frontBlock, front, tail, data, item>>
        /\ ppc = "advance_tail" /\ ppc' = "signal" /\ accepted' = Append(accepted, item)
    BY <1>8 DEF AdvanceTail, PGoto
  <2>2. /\ n \in Blocks /\ front[n] \in Used(n) /\ data[n][front[n]] = item /\ item \in Items
    BY <2>1, AheadThere DEF DataInv
  <2>3. (\A b : Used(b)' = Used(b)) /\ \A b, i, c, j : Before(b, i, c, j)' = Before(b, i, c, j)
    BY <2>1, LiveKept, BeforeKept
  <2>4. Ahead = {item} /\ Ahead' = {} /\ Bound = item /\ Bound' = item
    BY <2>1 DEF Ahead, Bound
  <2>5. /\ Len(accepted') = Len(accepted) + 1 /\ accepted'[Len(accepted) + 1] = item
        /\ \A k \in 1 .. Len(accepted) : accepted'[k] = accepted[k]
    BY <1>0, <2>1, <2>2
  <2>6. (\A b \in Blocks : \A i \in Used(b) :
            data[b][i] \in Ahead \/ \E k \in Len(out) + 1 .. Len(accepted) : data[b][i] = accepted[k])'
    <3> SUFFICES ASSUME NEW b \in Blocks, NEW i \in Used(b)
                 PROVE  \E k \in Len(out) + 1 .. Len(accepted) + 1 : data[b][i] = accepted'[k]
      BY <1>00, <2>1, <2>3, <2>5 DEF ShapeKept
    <3>1. CASE data[b][i] = item
      <4>1. Len(accepted) + 1 \in Len(out) + 1 .. Len(accepted) + 1
        BY <1>0
      <4> QED
        BY <2>5, <3>1, <4>1
    <3>2. CASE data[b][i] # item
      <4>1. PICK k \in Len(out) + 1 .. Len(accepted) : data[b][i] = accepted[k]
        BY <2>4, <3>2 DEF DataInv
      <4>2. k \in 1 .. Len(accepted) /\ k \in Len(out) + 1 .. Len(accepted) + 1
        BY <1>0
      <4> QED
        BY <2>5, <4>1, <4>2
    <3> QED
      BY <3>1, <3>2
  <2>7. (\A k \in Len(out) + 1 .. Len(accepted) :
            \E b \in Blocks : \E i \in Used(b) : data[b][i] = accepted[k])'
    <3> SUFFICES ASSUME NEW k \in Len(out) + 1 .. Len(accepted) + 1
                 PROVE  \E b \in Blocks : \E i \in Used(b) : data[b][i] = accepted'[k]
      BY <1>00, <2>1, <2>3, <2>5 DEF ShapeKept
    <3>1. CASE k = Len(accepted) + 1
      BY <2>2, <2>5, <3>1
    <3>2. CASE k # Len(accepted) + 1
      <4>1. k \in Len(out) + 1 .. Len(accepted) /\ k \in 1 .. Len(accepted)
        BY <1>0, <3>2
      <4>2. PICK b \in Blocks : \E i \in Used(b) : data[b][i] = accepted[k]
        BY <4>1 DEF DataInv
      <4> QED
        BY <2>5, <4>1, <4>2
    <3> QED
      BY <3>1, <3>2
  <2>8. \A k \in 1 .. Len(accepted) : accepted[k] < item
    BY <1>0, <2>4 DEF DataInv
  <2>9. \A k, l \in 1 .. Len(accepted') : k < l => accepted'[k] < accepted'[l]
    <3>1. ASSUME NEW k \in 1 .. Len(accepted) + 1, NEW l \in 1 .. Len(accepted) + 1, k < l
          PROVE  accepted'[k] < accepted'[l]
      <4>1. k \in 1 .. Len(accepted) /\ (l = Len(accepted) + 1 \/ l \in 1 .. Len(accepted))
        BY <1>0, <3>1
      <4>2. l \in 1 .. Len(accepted) => accepted[k] < accepted[l]
        BY <3>1, <4>1 DEF DataInv
      <4> QED
        BY <2>5, <2>8, <4>1, <4>2
    <3> QED
      BY <2>5, <3>1
  <2>10. (\A b, c \in Blocks : \A i \in Used(b), j \in Used(c) :
                Before(b, i, c, j) => data[b][i] < data[c][j])'
    BY <2>1, <2>3 DEF DataInv, ShapeKept
  <2>11. (\A k, l \in 1 .. Len(accepted) : k < l => accepted[k] < accepted[l])'
    BY <2>9
  <2>12. (\A k \in 1 .. Len(accepted) : accepted[k] <= Bound /\ accepted[k] \notin Ahead)'
    <3> SUFFICES ASSUME NEW k \in 1 .. Len(accepted')
                 PROVE  accepted'[k] <= Bound' /\ accepted'[k] \notin Ahead'
      OBVIOUS
    <3>0. k = Len(accepted) + 1 \/ k \in 1 .. Len(accepted)
      BY <1>0, <2>5
    <3>1. accepted'[k] <= item
      BY <1>0, <2>5, <2>8, <3>0
    <3> QED
      BY <2>4, <3>1
  <2> QED
    BY <2>1, <2>2, <2>6, <2>7, <2>10, <2>11, <2>12 DEF DataInv
<1> QED
  BY <1>1, <1>3, <1>4, <1>6, <1>7, <1>8 DEF EnqueueGoesOn

LEMMA DataStep ==
    ASSUME TypeOK, Geometry, BlocksInv, ProducerInv, ConsumerInv, DataInv, ShapeKept, [Next]_vars
    PROVE  DataInv'
<1>0. /\ Len(accepted) \in Nat /\ Len(out) \in Nat /\ item \in Int
      /\ out \in Seq(Items) /\ Len(out) <= Len(accepted)
      /\ \A k \in 1 .. Len(accepted) : accepted[k] \in Int
      /\ frontBlock \in Blocks
  BY RwQueueAssumption DEF TypeOK, Items
<1>1. CASE try_enqueue \/ EnqueueGoesOn
  BY <1>1, DataEnqueue
<1>2. CASE (Consume /\ ~AdvanceFront /\ ~Release) \/ UNCHANGED vars
  <2>1. Quiet /\ UNCHANGED <<data, accepted, out, ppc, item>>
    BY <1>2 DEF Consume, Spin, TakeOne, waitWithPartialSpinning, Wake, TimeOut, Restore, Again,
                TryWait, try_dequeue, FrontBlockEmpty, Recheck, ReadNextTail, ReadSlot,
                Quiet, inner, producer, history, vars
  <2>2. Bound <= Bound' /\ item' \in Int
    BY <1>0, <2>1 DEF Bound
  <2>3. ppc' # "idle" => item' \in Items
    BY <2>1 DEF DataInv
  <2> QED
    BY <2>1, <2>2, <2>3, DataQuiet
<1>3. CASE AdvanceFront
  <2>1. /\ UNCHANGED <<tailBlock, front, tail, data, accepted, out, ppc, item>>
        /\ frontBlock' = NextBlock(frontBlock) /\ cpc = "advance"
    BY <1>3 DEF AdvanceFront, producer, history
  <2>2. Used(frontBlock) = {}
    BY <1>0, <2>1, UsedEmpty DEF ConsumerInv
  <2>3. (\A b : Used(b)' = Used(b)) /\ NextBlock(tailBlock)' = NextBlock(tailBlock)
    BY <2>1, LiveKept DEF NextBlock, ShapeKept
  <2>4. ASSUME NEW b \in Blocks, NEW c \in Blocks, NEW i \in Used(b), NEW j \in Used(c),
               Before(b, i, c, j)'
        PROVE  data[b][i] < data[c][j]
    <3>1. b # frontBlock /\ c # frontBlock
      BY <2>2, <2>4
    <3>2. Before(b, i, c, j)
      BY <2>1, <2>4, <3>1, BeforeNextBlock
    <3> QED
      BY <3>2 DEF DataInv
  <2>5. (\A b, c \in Blocks : \A i \in Used(b), j \in Used(c) :
                Before(b, i, c, j) => data[b][i] < data[c][j])'
    BY <2>1, <2>3, <2>4 DEF ShapeKept
  <2>6. Ahead' = Ahead /\ Bound' = Bound
    BY <2>1 DEF Ahead, Bound
  <2> QED
    BY <2>1, <2>3, <2>5, <2>6 DEF DataInv, ShapeKept
<1>4. CASE Release
  <2>1. /\ UNCHANGED <<frontBlock, tailBlock, tail, data, accepted, ppc, item>>
        /\ front' = [front EXCEPT ![frontBlock] = NextSlot(front[frontBlock])]
        /\ cpc = "release" /\ out' = Append(out, result)
    BY <1>4 DEF Release, producer
  <2>2. PICK f \in Blocks : f = frontBlock
    BY <1>0
  <2>3. /\ Used(f)' = Used(f) \ {front[f]}
        /\ \A b \in Blocks : b # f => Used(b)' = Used(b) /\ front'[b] = front[b]
    BY <2>1, <2>2, ItemThere, FrontMoves
  <2>4. /\ Len(out) < Len(accepted) /\ result = accepted[Len(out) + 1] /\ result \in Items
        /\ \A b \in Blocks : \A i \in Used(b) : ~(b = f /\ i = front[f]) => result < data[b][i]
    BY <2>1, <2>2, FirstOut
  <2>5. Len(out') = Len(out) + 1 /\ result \in Int
    BY <1>0, <2>1, <2>4, RwQueueAssumption DEF Items
  <2>6. \A b \in Blocks : \A i \in Used(b)' : i \in Used(b) /\ i \in Slots /\ ~(b = f /\ i = front[f])
    BY <2>3, UsedEmpty
  <2>7. ASSUME NEW b \in Blocks, NEW c \in Blocks, NEW i \in Used(b)', NEW j \in Used(c)',
               Before(b, i, c, j)'
        PROVE  data[b][i] < data[c][j]
    <3>1. Before(b, i, c, j)
      BY <2>1, <2>2, <2>6, <2>7, BeforeNextSlot
    <3> QED
      BY <2>6, <3>1 DEF DataInv
  <2>8. (\A b, c \in Blocks : \A i \in Used(b), j \in Used(c) :
                Before(b, i, c, j) => data[b][i] < data[c][j])'
    BY <2>1, <2>7 DEF ShapeKept
  <2>9. Ahead' = Ahead /\ Bound' = Bound
    BY <2>1 DEF Ahead, Bound
  <2>10. (\A b \in Blocks : \A i \in Used(b) :
            data[b][i] \in Ahead \/ \E k \in Len(out) + 1 .. Len(accepted) : data[b][i] = accepted[k])'
    <3> SUFFICES ASSUME NEW b \in Blocks, NEW i \in Used(b)', data[b][i] \notin Ahead
                 PROVE  \E k \in Len(out) + 2 .. Len(accepted) : data[b][i] = accepted[k]
      BY <1>0, <2>1, <2>5, <2>9 DEF ShapeKept
    <3>1. PICK k \in Len(out) + 1 .. Len(accepted) : data[b][i] = accepted[k]
      BY <2>6 DEF DataInv
    <3>2. result < data[b][i]
      BY <2>4, <2>6
    <3>3. k # Len(out) + 1
      BY <2>4, <2>5, <3>1, <3>2
    <3> QED
      BY <1>0, <3>1, <3>3
  <2>11. (\A k \in Len(out) + 1 .. Len(accepted) :
            \E b \in Blocks : \E i \in Used(b) : data[b][i] = accepted[k])'
    <3> SUFFICES ASSUME NEW k \in Len(out) + 2 .. Len(accepted)
                 PROVE  \E b \in Blocks : \E i \in Used(b)' : data[b][i] = accepted[k]
      BY <1>0, <2>1, <2>5 DEF ShapeKept
    <3>1. k \in Len(out) + 1 .. Len(accepted) /\ k \in 1 .. Len(accepted) /\ Len(out) + 1 < k
          /\ Len(out) + 1 \in 1 .. Len(accepted)
      BY <1>0
    <3>2. PICK b \in Blocks : \E i \in Used(b) : data[b][i] = accepted[k]
      BY <3>1 DEF DataInv
    <3>3. PICK i \in Used(b) : data[b][i] = accepted[k]
      BY <3>2
    <3>4. result < accepted[k]
      BY <2>4, <3>1 DEF DataInv
    <3>5. ~(b = f /\ i = front[f])
      <4>1. data[f][front[f]] = result
        BY <2>1, <2>2 DEF ConsumerInv
      <4> QED
        BY <1>0, <2>5, <3>1, <3>3, <3>4, <4>1
    <3> QED
      BY <2>3, <3>3, <3>5
  <2>12. ppc = "advance_tail" => NextBlock(tailBlock) # f /\ NextBlock(tailBlock) \in Blocks
    BY <2>2 DEF ProducerInv, Geometry
  <2>13. NextBlock(tailBlock)' = NextBlock(tailBlock)
    BY <2>1 DEF NextBlock, ShapeKept
  <2>14. (ppc = "advance_tail" => data[NextBlock(tailBlock)][front[NextBlock(tailBlock)]] = item)'
    BY <2>1, <2>3, <2>12, <2>13 DEF DataInv
  <2> QED
    BY <2>1, <2>8, <2>9, <2>10, <2>11, <2>13, <2>14 DEF DataInv
<1> QED
  BY <1>1, <1>2, <1>3, <1>4 DEF Next

-----------------------------------------------------------------------------
(* The invariant and what follows from it.                                 *)

\* The type invariant but for the semaphore, whose range follows from SemaInv.
IndexOK ==
    /\ size \in Sizes /\ blocks \in Nat /\ blockSize \in Nat
    /\ frontBlock \in Blocks /\ tailBlock \in Blocks
    /\ {front, tail, localFront, localTail} \subseteq [Blocks -> Slots]
    /\ data \in [Blocks -> [Slots -> Items \cup {None}]]
    /\ item \in 0 .. MaxItems /\ result \in Items \cup {None} /\ sawFull \in BOOLEAN
    /\ ppc \in {"idle", "write", "publish", "full", "refused", "advance", "write_next",
                "publish_next", "advance_tail", "signal", "post"}
    /\ cpc \in {"idle", "take", "wait", "sleep", "restore", "again", "try_wait", "dequeue",
                "empty", "recheck", "next", "advance", "read", "release"}
    /\ m_count \in Int /\ m_sema \in Nat
    /\ accepted \in Seq(Items) /\ out \in Seq(Items) /\ Len(out) <= Len(accepted)

LEMMA IndexStep ==
    ASSUME TypeOK, Geometry, BlocksInv, ProducerInv, ConsumerInv, DataInv, ShapeKept, [Next]_vars
    PROVE  IndexOK'
<1>0. /\ front \in [Blocks -> Slots] /\ tail \in [Blocks -> Slots]
      /\ localFront \in [Blocks -> Slots] /\ localTail \in [Blocks -> Slots]
      /\ NextBlock(tailBlock) \in Blocks /\ NextBlock(frontBlock) \in Blocks
      /\ \A b \in Blocks : NextSlot(tail[b]) \in Slots /\ NextSlot(front[b]) \in Slots
      /\ ppc # "idle" => item \in Items
      /\ MaxItems \in Nat /\ Items = 1 .. MaxItems
  BY RwQueueAssumption DEF Geometry, DataInv, Items
<1> USE DEF TypeOK, IndexOK, ShapeKept
<1>1. CASE try_enqueue
  <2>1. localFront' \in [Blocks -> Slots]
    <3>1. \/ localFront' = localFront
          \/ localFront' = [localFront EXCEPT ![tailBlock] = front[tailBlock]]
      BY <1>1 DEF try_enqueue
    <3> QED
      BY <1>0, <3>1
  <2>2. ppc' \in {"write", "full"} /\ item' \in 0 .. MaxItems
    BY <1>0, <1>1 DEF try_enqueue
  <2>3. sawFull' \in BOOLEAN
    <3>1. sawFull' = FALSE \/ sawFull' = (Cardinality(Live) >= size)
      BY <1>1 DEF try_enqueue
    <3>2. (Cardinality(Live) >= size) \in BOOLEAN
      OBVIOUS
    <3> QED
      BY <3>1, <3>2, Zenon
  <2> QED
    BY <1>0, <1>1, <2>1, <2>2, <2>3 DEF try_enqueue, consumer, sema, history
<1>2. CASE WriteSlot
  BY <1>0, <1>2 DEF WriteSlot, PGoto, consumer, sema, history
<1>3. CASE Publish
  <2>1. accepted' \in Seq(Items) /\ Len(accepted') = Len(accepted) + 1
    BY <1>0, <1>3 DEF Publish
  <2>2. Len(out) <= Len(accepted')
    BY <2>1
  <2> QED
    BY <1>0, <1>3, <2>1, <2>2 DEF Publish, PGoto, consumer, sema
<1>4. CASE TailBlockFull \/ Refused
  BY <1>0, <1>4 DEF TailBlockFull, Refused, PGoto, inner, consumer, sema, history
<1>5. CASE ReadNextFront
  BY <1>0, <1>5 DEF ReadNextFront, PGoto, consumer, sema, history
<1>6. CASE WriteNextSlot
  BY <1>0, <1>6 DEF WriteNextSlot, PGoto, consumer, sema, history
<1>7. CASE PublishNext
  BY <1>0, <1>7 DEF PublishNext, PGoto, consumer, sema, history
<1>8. CASE AdvanceTail
  <2>1. accepted' \in Seq(Items) /\ Len(accepted') = Len(accepted) + 1
    BY <1>0, <1>8 DEF AdvanceTail
  <2>2. Len(out) <= Len(accepted')
    BY <2>1
  <2> QED
    BY <1>0, <1>8, <2>1, <2>2 DEF AdvanceTail, PGoto, consumer, sema
<1>9. CASE signal \/ Post
  BY <1>0, <1>9 DEF signal, Post, PGoto, inner, consumer, history
<1>10. CASE Spin \/ TakeOne \/ waitWithPartialSpinning \/ Wake \/ TimeOut
  BY <1>0, <1>10 DEF Spin, TakeOne, waitWithPartialSpinning, Wake, TimeOut, CGoto, inner, producer,
                     sema, history
<1>11. CASE Restore \/ Again \/ TryWait
  BY <1>0, <1>11 DEF Restore, Again, TryWait, CGoto, inner, producer, history
<1>12. CASE try_dequeue \/ Recheck \/ ReadNextTail
  <2>1. localTail' \in [Blocks -> Slots]
    <3>1. \/ localTail' = localTail
          \/ localTail' = [localTail EXCEPT ![frontBlock] = tail[frontBlock]]
          \/ localTail' = [localTail EXCEPT ![NextBlock(frontBlock)] = tail[NextBlock(frontBlock)]]
      BY <1>12 DEF try_dequeue, Recheck, ReadNextTail
    <3> QED
      BY <1>0, <3>1
  <2>2. cpc' \in {"read", "empty", "next", "advance"}
    BY <1>12 DEF try_dequeue, Recheck, ReadNextTail, CGoto
  <2> QED
    BY <1>0, <1>12, <2>1, <2>2
    DEF try_dequeue, Recheck, ReadNextTail, CGoto, producer, sema, history
<1>13. CASE FrontBlockEmpty
  BY <1>0, <1>13 DEF FrontBlockEmpty, CGoto, inner, producer, sema, history, ConsumerInv
<1>14. CASE AdvanceFront
  BY <1>0, <1>14 DEF AdvanceFront, CGoto, producer, sema, history
<1>15. CASE ReadSlot
  BY <1>0, <1>15 DEF ReadSlot, inner, producer, sema, history
<1>16. CASE Release
  <2>1. Len(out) < Len(accepted) /\ result \in Items
    BY <1>16, FirstOut DEF Release
  <2>2. out' \in Seq(Items) /\ Len(out') <= Len(accepted)
    BY <1>16, <2>1 DEF Release
  <2> QED
    BY <1>0, <1>16, <2>2 DEF Release, producer, sema
<1>17. CASE UNCHANGED vars
  BY <1>0, <1>17 DEF vars, inner, producer, consumer, sema, history
<1> QED
  BY <1>1, <1>2, <1>3, <1>4, <1>5, <1>6, <1>7, <1>8, <1>9, <1>10, <1>11, <1>12, <1>13, <1>14,
     <1>15, <1>16, <1>17 DEF Next, EnqueueGoesOn, Consume

LEMMA FifoInit == Init => FifoInv
<1> SUFFICES ASSUME Init PROVE FifoInv
  OBVIOUS
<1>1. ShapeInv
  BY ShapeBuilt
<1>2. 0 \in Blocks /\ 0 \in Slots
  BY <1>1 DEF ShapeInv, Blocks, Slots
<1>3. TypeOK
  BY <1>1, <1>2, RwQueueAssumption DEF Init, TypeOK, ShapeInv, None
<1>4. Geometry
  BY <1>1, <1>3, GeometryHolds
<1>5. \A b \in Blocks : Used(b) = {}
  BY <1>4, UsedEmpty DEF Init
<1>6. Live = {} /\ Cardinality(Live) = 0
  BY <1>5, FS_EmptySet DEF Live
<1>7. BlocksInv
  BY <1>2 DEF Init, BlocksInv, Inside, Blocks
<1>8. ProducerInv /\ ConsumerInv
  BY <1>2, <1>5 DEF Init, ProducerInv, ConsumerInv
<1>9. SemaInv
  BY <1>6 DEF Init, SemaInv, Unsignalled, Posts
<1>10. DataInv
  BY <1>5 DEF Init, DataInv
<1> QED
  BY <1>1, <1>3, <1>7, <1>8, <1>9, <1>10 DEF FifoInv

LEMMA FifoStep ==
    ASSUME FifoInv, [Next]_vars
    PROVE  FifoInv'
<1> USE DEF FifoInv
<1>1. Geometry /\ ShapeKept
  BY GeometryHolds, ShapeStep
<1>2. ShapeInv'
  BY <1>1 DEF ShapeInv, ShapeKept
<1>3. BlocksInv' /\ ProducerInv' /\ ConsumerInv' /\ SemaInv' /\ DataInv'
  BY <1>1, BlocksStep, ProducerStep, ConsumerStep, SemaStep, DataStep
<1>4. IndexOK'
  BY <1>1, IndexStep
<1>5. Cardinality(Live)' \in Nat
  <2>1. IsFiniteSet(Live')
    <3>1. /\ IsFiniteSet(Blocks) /\ IsFiniteSet(Slots)
      BY <1>1, FS_Interval DEF Geometry
    <3>2. IsFiniteSet(Blocks \X Slots)
      BY <3>1, FS_Product
    <3>3. Live' \subseteq Blocks \X Slots
      BY <1>1 DEF Live, ShapeKept
    <3> QED
      BY <3>2, <3>3, FS_Subset
  <2> QED
    BY <2>1, FS_CardinalityType
<1>6. m_count' \in -1 .. MaxItems + 1 /\ m_sema' \in 0 .. 1
  <2>1. m_count' \in Int /\ m_sema' \in Nat /\ item' \in 0 .. MaxItems /\ MaxItems \in Nat
    BY <1>4, RwQueueAssumption DEF IndexOK
  <2>2. PICK n \in Nat : n = Cardinality(Live)'
    BY <1>5
  <2>3. PICK u \in Nat : u = Unsignalled' /\ u <= 1
    BY DEF Unsignalled
  <2>4. Posts' \in {0, 1} /\ m_sema' <= Posts'
    BY <1>3, <2>1 DEF SemaInv, Posts
  <2>5. n <= item'
    BY <1>3, <2>1, <2>2 DEF SemaInv
  <2>6. (m_count' + u = n \/ m_count' + 1 + u = n) /\ m_count' >= -1
    BY <1>3, <2>1, <2>2, <2>3 DEF SemaInv
  <2>7. m_sema' \in 0 .. 1
    BY <2>1, <2>4
  <2>8. PICK c \in Int : c = m_count'
    BY <2>1
  <2>9. PICK i \in 0 .. MaxItems : i = item'
    BY <2>1
  <2>10. (c + u = n \/ c + 1 + u = n) /\ c >= -1 /\ n <= i
    BY <2>5, <2>6, <2>8, <2>9
  <2>11. c \in -1 .. MaxItems + 1
    BY <2>1, <2>2, <2>3, <2>8, <2>9, <2>10
  <2> QED
    BY <2>7, <2>8, <2>11
<1>7. TypeOK'
  BY <1>4, <1>6 DEF IndexOK, TypeOK
<1> QED
  BY <1>2, <1>3, <1>7

LEMMA FifoInvariant == Spec => []FifoInv
<1>1. FifoInv /\ [Next]_vars => FifoInv'
  BY FifoStep
<1> QED
  BY FifoInit, <1>1, PTL DEF Spec

\* The two threads never meet on a slot; the library's assertions hold, a wait
\* that succeeded finds an item whatever timeouts and signals met, and indices
\* and counts stay in range; an item is refused only when as many as promised
\* are in the queue.
THEOREM QueueCorrect == Spec => [](NoSlotRace /\ QueueInv /\ RefusedOnlyWhenFull)
<1>1. FifoInv => NoSlotRace
  <2> SUFFICES ASSUME FifoInv PROVE NoSlotRace
    OBVIOUS
  <2>1. Geometry
    BY GeometryHolds DEF FifoInv
  <2>2. cpc = "read" => front[frontBlock] # tail[frontBlock]
    BY <2>1, ItemThere DEF FifoInv
  <2>3. ppc = "write_next" => NextBlock(tailBlock) # frontBlock
    BY DEF FifoInv, ProducerInv
  <2> QED
    BY <2>2, <2>3 DEF NoSlotRace, PSlot, CSlot
<1>2. FifoInv => QueueInv
  <2> SUFFICES ASSUME FifoInv PROVE QueueInv
    OBVIOUS
  <2>1. Geometry
    BY GeometryHolds DEF FifoInv
  <2>2. ppc = "write_next" => localFront[NextBlock(tailBlock)] = tail[NextBlock(tailBlock)]
    <3> SUFFICES ASSUME ppc = "write_next"
                 PROVE  localFront[NextBlock(tailBlock)] = tail[NextBlock(tailBlock)]
      OBVIOUS
    <3>1. NextBlock(tailBlock) \in Blocks /\ ~Inside(NextBlock(tailBlock))
      BY <2>1, BeyondTail DEF FifoInv, ProducerInv
    <3> QED
      BY <3>1 DEF FifoInv, BlocksInv, ProducerInv
  <2>3. m_count >= -1 /\ cpc # "nothing"
    BY RwQueueAssumption DEF FifoInv, TypeOK
  <2>4. cpc = "advance" => front[NextBlock(frontBlock)] # localTail[NextBlock(frontBlock)]
    BY DEF FifoInv, ConsumerInv
  <2> QED
    BY <2>2, <2>3, <2>4 DEF FifoInv, QueueInv, AssertionsHold
<1>3. FifoInv => RefusedOnlyWhenFull
  BY DEF FifoInv, ProducerInv, RefusedOnlyWhenFull
<1> QED
  BY FifoInvariant, <1>1, <1>2, <1>3, PTL

-----------------------------------------------------------------------------
(* The blocks implement a FIFO.                                            *)

LEMMA Rest ==
    ASSUME NEW S, NEW a \in Seq(S), NEW o \in Nat, o <= Len(a)
    PROVE  /\ SubSeq(a, o + 1, Len(a)) \in Seq(S)
           /\ Len(SubSeq(a, o + 1, Len(a))) = Len(a) - o
           /\ \A i \in 1 .. Len(a) - o : SubSeq(a, o + 1, Len(a))[i] = a[o + i]
<1>1. \A i \in o + 1 .. Len(a) : a[i] \in S
  OBVIOUS
<1>2. /\ SubSeq(a, o + 1, Len(a)) \in Seq(S)
      /\ Len(SubSeq(a, o + 1, Len(a))) = IF o + 1 <= Len(a) THEN Len(a) - (o + 1) + 1 ELSE 0
      /\ \A i \in 1 .. Len(a) - (o + 1) + 1 : SubSeq(a, o + 1, Len(a))[i] = a[o + 1 + i - 1]
  BY <1>1, SubSeqProperties
<1> QED
  BY <1>2

LEMMA RestAppend ==
    ASSUME NEW S, NEW a \in Seq(S), NEW o \in Nat, o <= Len(a), NEW x \in S
    PROVE  SubSeq(Append(a, x), o + 1, Len(Append(a, x)))
              = Append(SubSeq(a, o + 1, Len(a)), x)
<1> DEFINE b == Append(a, x)
<1> DEFINE r == SubSeq(a, o + 1, Len(a))
<1> DEFINE s == SubSeq(b, o + 1, Len(b))
<1>1. /\ b \in Seq(S) /\ Len(b) = Len(a) + 1 /\ b[Len(a) + 1] = x
      /\ \A i \in 1 .. Len(a) : b[i] = a[i]
  BY AppendProperties
<1>2. r \in Seq(S) /\ Len(r) = Len(a) - o /\ \A i \in 1 .. Len(a) - o : r[i] = a[o + i]
  BY Rest
<1> HIDE DEF b, r
<1>3. s \in Seq(S) /\ Len(s) = Len(b) - o
  BY <1>1, Rest
<1>4. \A i \in 1 .. Len(b) - o : s[i] = b[o + i]
  BY <1>1, Rest
<1> HIDE DEF s
<1>5. /\ Append(r, x) \in Seq(S) /\ Len(Append(r, x)) = Len(r) + 1
      /\ Append(r, x)[Len(r) + 1] = x /\ \A i \in 1 .. Len(r) : Append(r, x)[i] = r[i]
  BY <1>2, AppendProperties
<1>6. ASSUME NEW i \in 1 .. Len(s) PROVE s[i] = Append(r, x)[i]
  <2>1. CASE i = Len(a) - o + 1
    BY <1>1, <1>2, <1>3, <1>4, <1>5, <2>1
  <2>2. CASE i # Len(a) - o + 1
    <3>1. i \in 1 .. Len(a) - o /\ o + i \in 1 .. Len(a) /\ i \in 1 .. Len(b) - o
      BY <1>1, <1>3, <2>2
    <3> QED
      BY <1>1, <1>2, <1>4, <1>5, <3>1
  <2> QED
    BY <2>1, <2>2
<1>7. Len(s) = Len(Append(r, x))
  BY <1>1, <1>2, <1>3, <1>5
<1>8. s = Append(r, x)
  BY <1>3, <1>5, <1>6, <1>7, SeqEqual
<1> QED
  BY <1>8 DEF s, r, b

LEMMA RestTail ==
    ASSUME NEW S, NEW a \in Seq(S), NEW o \in Nat, o < Len(a)
    PROVE  /\ SubSeq(a, o + 1, Len(a)) # <<>>
           /\ Head(SubSeq(a, o + 1, Len(a))) = a[o + 1]
           /\ SubSeq(a, o + 2, Len(a)) = Tail(SubSeq(a, o + 1, Len(a)))
<1> DEFINE r == SubSeq(a, o + 1, Len(a))
<1> DEFINE s == SubSeq(a, o + 2, Len(a))
<1>1. r \in Seq(S) /\ Len(r) = Len(a) - o /\ \A i \in 1 .. Len(a) - o : r[i] = a[o + i]
  BY Rest
<1>2. /\ s \in Seq(S) /\ Len(s) = Len(a) - o - 1
      /\ \A i \in 1 .. Len(a) - o - 1 : s[i] = a[o + 1 + i]
  <2>1. \A i \in o + 2 .. Len(a) : a[i] \in S
    OBVIOUS
  <2>2. /\ s \in Seq(S)
        /\ Len(s) = IF o + 2 <= Len(a) THEN Len(a) - (o + 2) + 1 ELSE 0
        /\ \A i \in 1 .. Len(a) - (o + 2) + 1 : s[i] = a[o + 2 + i - 1]
    BY <2>1, SubSeqProperties
  <2> HIDE DEF s
  <2> QED
    BY <2>2
<1> HIDE DEF r, s
<1>3. r # <<>>
  BY <1>1, EmptySeq
<1>4. /\ Tail(r) \in Seq(S) /\ Len(Tail(r)) = Len(r) - 1
      /\ \A i \in 1 .. Len(Tail(r)) : Tail(r)[i] = r[i + 1]
  BY <1>1, <1>3, HeadTailProperties
<1>5. ASSUME NEW i \in 1 .. Len(s) PROVE s[i] = Tail(r)[i]
  <2>1. i \in 1 .. Len(Tail(r)) /\ i + 1 \in 1 .. Len(a) - o /\ i \in 1 .. Len(a) - o - 1
    BY <1>1, <1>2, <1>4
  <2>2. s[i] = a[o + 1 + i] /\ Tail(r)[i] = r[i + 1] /\ r[i + 1] = a[o + (i + 1)]
    BY <1>1, <1>2, <1>4, <2>1
  <2> QED
    BY <2>1, <2>2
<1>6. s = Tail(r)
  BY <1>1, <1>2, <1>4, <1>5, SeqEqual
<1>7. Head(r) = a[o + 1]
  BY <1>1, <1>3
<1> QED
  BY <1>3, <1>6, <1>7 DEF r, s

LEMMA FifoMoves ==
    ASSUME FifoInv, [Next]_vars
    PROVE  [Fifo!QNext]_(Fifo!qvars)
<1>0. Geometry
  BY GeometryHolds DEF FifoInv
<1>1. accepted \in Seq(Items) /\ out \in Seq(Items) /\ Len(out) \in Nat /\ Len(out) <= Len(accepted)
  BY DEF FifoInv, TypeOK
<1>2. CASE Publish \/ AdvanceTail
  <2>1. accepted' = Append(accepted, item) /\ UNCHANGED out /\ ppc # "idle"
    BY <1>2 DEF Publish, AdvanceTail
  <2>2. item \in Items
    BY <2>1 DEF FifoInv, DataInv
  <2>3. Waiting' = Append(Waiting, item)
    BY <1>1, <2>1, <2>2, RestAppend DEF Waiting
  <2> QED
    BY <2>1, <2>2, <2>3 DEF Fifo!QNext, Fifo!Put
<1>3. CASE Release
  <2>1. accepted' = accepted /\ out' = Append(out, result) /\ cpc = "release"
    BY <1>3 DEF Release
  <2>2. Len(out) < Len(accepted) /\ result = accepted[Len(out) + 1] /\ result \in Items
    BY <1>0, <2>1, FirstOut DEF FifoInv
  <2>3. Len(out') + 1 = Len(out) + 2
    BY <1>1, <2>1, <2>2
  <2>4. Waiting # <<>> /\ Head(Waiting) = result /\ Waiting' = Tail(Waiting)
    BY <1>1, <2>1, <2>2, <2>3, RestTail DEF Waiting
  <2> QED
    BY <2>1, <2>4 DEF Fifo!QNext, Fifo!Get
<1>4. CASE UNCHANGED <<accepted, out>>
  BY <1>4 DEF Fifo!qvars, Waiting
<1>5. Publish \/ AdvanceTail \/ Release \/ UNCHANGED <<accepted, out>>
  BY DEF Next, EnqueueGoesOn, Consume, vars, try_enqueue, WriteSlot, TailBlockFull,
         Refused, ReadNextFront, WriteNextSlot, PublishNext, signal, Post, Spin,
         TakeOne, waitWithPartialSpinning, Wake, TimeOut, Restore, Again, TryWait, try_dequeue,
         FrontBlockEmpty, Recheck, ReadNextTail, AdvanceFront, ReadSlot, history
<1> QED
  BY <1>2, <1>3, <1>4, <1>5

\* Every step of the two threads on blocks, slots and copied indices is a step of
\* a FIFO or none: what try_enqueue took in comes out in order, each item once.
THEOREM FifoImplemented == Spec => ImplementsFifo
<1>1. Init => Fifo!QInit
  <2> SUFFICES ASSUME Init PROVE Fifo!QInit
    OBVIOUS
  <2>1. Waiting = <<>>
    BY SubSeqEmpty DEF Init, Waiting
  <2> QED
    BY <2>1 DEF Init, Fifo!QInit
<1>2. FifoInv /\ [Next]_vars => [Fifo!QNext]_(Fifo!qvars)
  BY FifoMoves
<1> QED
  BY <1>1, <1>2, FifoInvariant, PTL DEF Spec, ImplementsFifo, Fifo!QSpec
=============================================================================
