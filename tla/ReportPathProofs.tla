-------------------------- MODULE ReportPathProofs --------------------------
(***************************************************************************)
(* Proofs about the way of a result to Redis, for every set of pings,      *)
(* number of destinations, size of the ring and, where not said otherwise, *)
(* number of workers.                                                      *)
(***************************************************************************)
EXTENDS ReportPath, SequenceTheorems, WellFoundedInduction, TLAPS

-----------------------------------------------------------------------------
(* The inductive invariant.                                                *)

Entry == [ts_start : Nat, ts_end : Nat, pings : SUBSET Pings]
Windows == UNION {[D -> Entry] : D \in SUBSET Dsts}

\* What the variables may hold, beyond TypeOK.
ReportTypes ==
    /\ dstip2result \in Windows /\ made \in Seq(Windows)
    /\ ring \in Seq(Nat) /\ msgs \in Seq(Nat)
    /\ job \in [Workers -> Nat] /\ todo \in [Workers -> SUBSET Dsts]
    /\ curr_ts_end \in [Workers -> Int] /\ redis \in [Dsts -> Int]

\* A worker is at lines of its report.
JobInv ==
    \A w \in Workers : wpc[w] # "recv" =>
        job[w] \in DOMAIN made /\ todo[w] \subseteq DOMAIN made[job[w]]

PathInv == ReportTypes /\ TypeOK /\ JobInv /\ CountedOnce

\* A report that was written is somewhere; the one the sender waits for was sent.
Taken == {job[w] : w \in {v \in Workers : wpc[v] # "recv"}}
OnItsWay == inbox \cup Taken \cup replied
NothingVanishes ==
    DOMAIN made \subseteq ToSet(ring) \cup ToSet(msgs) \cup OnItsWay \cup lost
SentInv == spc = "wait" => Head(msgs) \in OnItsWay

\* For a single worker: what it has read is still what Redis has.
SeenInv == \A s \in seen : \E r \in DOMAIN made : \E d \in DOMAIN made[r] : s = <<r, d>>
ReadInv == \A w \in Workers : wpc[w] = "set" => curr_ts_end[w] = redis[Line(w)]
ShownInv == SeenInv /\ ReadInv /\ ShownIsNewest

-----------------------------------------------------------------------------
(* The line a worker is at.                                                *)

Below == {p \in Nat \X Nat : p[1] < p[2]}

LEMMA BelowWellFounded == IsWellFoundedOn(Below, Nat)
<1>1. OpToRel(<, Nat) = Below
  BY DEF OpToRel, Below
<1> QED
  BY <1>1, NatLessThanWellFounded

LEMMA Least ==
    ASSUME NEW S, S \subseteq Nat, S # {}
    PROVE  \E d \in S : \A e \in S : d <= e
<1>1. PICK d \in S : \A e \in S : ~(<<e, d>> \in Below)
  BY BelowWellFounded, WFMin
<1>2. ASSUME NEW e \in S PROVE d <= e
  <2>1. e \in Nat /\ d \in Nat /\ <<e, d>> \notin Below
    BY <1>1
  <2>2. <<e, d>> \in Nat \X Nat /\ <<e, d>>[1] = e /\ <<e, d>>[2] = d
    BY <2>1
  <2>3. ~(e < d)
    BY <2>1, <2>2 DEF Below
  <2> QED
    BY <2>1, <2>3
<1> QED
  BY <1>1, <1>2

LEMMA LineIsTodo ==
    ASSUME ReportTypes, NEW w \in Workers, todo[w] # {}
    PROVE  Line(w) \in todo[w]
<1>1. todo[w] \subseteq Nat
  BY ReportAssumption DEF ReportTypes, Dsts
<1>2. \E d \in todo[w] : \A e \in todo[w] : d <= e
  BY <1>1, Least
<1> QED
  BY <1>2 DEF Line

-----------------------------------------------------------------------------
(* Types.                                                                  *)

LEMMA WindowTyped ==
    ASSUME NEW f
    PROVE  f \in Windows <=> f \in [DOMAIN f -> Entry] /\ DOMAIN f \subseteq Dsts
BY DEF Windows

LEMMA SetOfSeq ==
    ASSUME NEW S, NEW s \in Seq(S)
    PROVE  /\ ToSet(s) = {s[i] : i \in 1 .. Len(s)} /\ DOMAIN s = 1 .. Len(s) /\ Len(s) \in Nat
BY LenProperties DEF ToSet

LEMMA SetOfAppend ==
    ASSUME NEW S, NEW s \in Seq(S), NEW e \in S
    PROVE  ToSet(Append(s, e)) = ToSet(s) \cup {e}
<1> DEFINE t == Append(s, e)
<1>1. /\ t \in Seq(S) /\ Len(t) = Len(s) + 1 /\ t[Len(s) + 1] = e
      /\ \A i \in 1 .. Len(s) : t[i] = s[i]
  BY AppendProperties
<1> HIDE DEF t
<1>2. /\ ToSet(s) = {s[i] : i \in 1 .. Len(s)} /\ Len(s) \in Nat
      /\ ToSet(t) = {t[i] : i \in 1 .. Len(t)}
  BY <1>1, SetOfSeq
<1>3. 1 .. Len(t) = 1 .. Len(s) \cup {Len(s) + 1}
  BY <1>1, <1>2
<1> HIDE DEF ToSet
<1>4. ToSet(t) = ToSet(s) \cup {e}
  BY <1>1, <1>2, <1>3
<1> QED
  BY <1>4 DEF t

LEMMA SetOfTail ==
    ASSUME NEW S, NEW s \in Seq(S), s # <<>>
    PROVE  /\ ToSet(s) = ToSet(Tail(s)) \cup {Head(s)} /\ Tail(s) \in Seq(S) /\ Head(s) \in S
           /\ Tail(s) = <<>> <=> Len(s) = 1
<1> DEFINE t == Tail(s)
<1>1. /\ t \in Seq(S) /\ Len(t) = Len(s) - 1 /\ Head(s) \in S
      /\ \A i \in 1 .. Len(t) : t[i] = s[i + 1]
  BY HeadTailProperties
<1>2. Len(s) \in Nat \ {0} /\ Head(s) = s[1]
  BY EmptySeq, LenProperties
<1> HIDE DEF t
<1>3. ToSet(s) = {s[i] : i \in 1 .. Len(s)} /\ ToSet(t) = {t[i] : i \in 1 .. Len(t)}
  BY <1>1, SetOfSeq
<1>4. t = <<>> <=> Len(s) = 1
  BY <1>1, <1>2, EmptySeq
<1> HIDE DEF ToSet
<1>5. ASSUME NEW x \in ToSet(s) PROVE x \in ToSet(t) \cup {s[1]}
  <2>1. PICK i \in 1 .. Len(s) : x = s[i]
    BY <1>3, <1>5
  <2>2. CASE i = 1
    BY <2>1, <2>2
  <2>3. CASE i # 1
    <3>1. i - 1 \in 1 .. Len(t) /\ (i - 1) + 1 = i
      BY <1>1, <1>2, <2>3
    <3>2. t[i - 1] = s[i]
      BY <1>1, <3>1
    <3> QED
      BY <1>3, <2>1, <3>1, <3>2
  <2> QED
    BY <2>2, <2>3
<1>6. ASSUME NEW x \in ToSet(t) PROVE x \in ToSet(s)
  <2>1. PICK i \in 1 .. Len(t) : x = t[i]
    BY <1>3, <1>6
  <2>2. i + 1 \in 1 .. Len(s) /\ t[i] = s[i + 1]
    BY <1>1, <1>2
  <2> QED
    BY <1>3, <2>1, <2>2
<1>7. s[1] \in ToSet(s)
  <2>1. 1 \in 1 .. Len(s)
    BY <1>2
  <2> QED
    BY <1>3, <2>1
<1>8. ToSet(s) = ToSet(t) \cup {s[1]}
  BY <1>5, <1>6, <1>7
<1> QED
  BY <1>1, <1>2, <1>4, <1>8 DEF t

\* Count adds a ping to the line of its destination.
CountedLine(i) ==
    IF DstOf(i) \in DOMAIN dstip2result THEN dstip2result[DstOf(i)]
    ELSE [ts_start |-> i, ts_end |-> i, pings |-> {}]
CountedWindow(i) ==
    [x \in DOMAIN dstip2result \cup {DstOf(i)} |->
        IF x = DstOf(i) THEN [CountedLine(i) EXCEPT !.ts_end = i, !.pings = @ \cup {i}]
        ELSE dstip2result[x]]

LEMMA CountWindow ==
    ASSUME ReportTypes, NEW i \in Pings
    PROVE  /\ CountedWindow(i) \in Windows
           /\ PingsOf(CountedWindow(i)) = PingsOf(dstip2result) \cup {i}
<1> DEFINE d == DstOf(i)
<1> DEFINE info == CountedLine(i)
<1> DEFINE g == CountedWindow(i)
<1>1. dstip2result \in [DOMAIN dstip2result -> Entry] /\ DOMAIN dstip2result \subseteq Dsts
  BY WindowTyped DEF ReportTypes
<1>2. i \in Nat /\ d \in Dsts
  <2>1. i \in Nat /\ NumDst \in Nat \ {0}
    BY ReportAssumption
  <2>2. i % NumDst \in 0 .. NumDst - 1
    BY <2>1
  <2> QED
    BY <2>1, <2>2 DEF DstOf, Dsts
<1> HIDE DEF d
<1>3. info \in Entry
  BY <1>1, <1>2 DEF Entry, CountedLine, d
<1>4. PICK e : e = [info EXCEPT !.ts_end = i, !.pings = @ \cup {i}]
  OBVIOUS
<1>5. e \in Entry /\ e.pings = info.pings \cup {i}
  BY <1>2, <1>3, <1>4 DEF Entry
<1>6. DOMAIN g = DOMAIN dstip2result \cup {d} /\ g[d] = e /\ g = [x \in DOMAIN g |-> g[x]]
      /\ \A x \in DOMAIN dstip2result : x # d => g[x] = dstip2result[x]
  BY <1>4 DEF CountedWindow, d
<1> HIDE DEF g
<1>7. g \in Windows
  <2>1. \A x \in DOMAIN g : g[x] \in Entry
    BY <1>1, <1>5, <1>6
  <2>2. g \in [DOMAIN g -> Entry] /\ DOMAIN g \subseteq Dsts
    BY <1>1, <1>2, <1>6, <2>1
  <2> QED
    BY <2>2, WindowTyped
<1>8. ASSUME NEW x PROVE x \in PingsOf(g) <=> x \in PingsOf(dstip2result) \cup {i}
  <2>1. x \in PingsOf(g) <=> \E c \in DOMAIN g : x \in g[c].pings
    BY DEF PingsOf
  <2>2. x \in PingsOf(dstip2result)
          <=> \E c \in DOMAIN dstip2result : x \in dstip2result[c].pings
    BY DEF PingsOf
  <2>3. info.pings = IF d \in DOMAIN dstip2result THEN dstip2result[d].pings ELSE {}
    BY DEF CountedLine, d
  <2>4. x \in g[d].pings <=> x \in info.pings \/ x = i
    BY <1>5, <1>6
  <2> QED
    BY <1>6, <2>1, <2>2, <2>3, <2>4
<1> QED
  BY <1>7, <1>8 DEF g

-----------------------------------------------------------------------------
(* What a step does.                                                       *)

\* Count takes a ping to the window.
LEMMA CountMoves ==
    ASSUME ReportTypes, pending \subseteq Pings, Count
    PROVE  /\ dstip2result' \in Windows
           /\ \E i \in pending : /\ pending' = pending \ {i}
                                 /\ PingsOf(dstip2result') = PingsOf(dstip2result) \cup {i}
<1>1. PICK i \in pending :
          LET d == DstOf(i)
              info == IF d \in DOMAIN dstip2result THEN dstip2result[d]
                      ELSE [ts_start |-> i, ts_end |-> i, pings |-> {}]
          IN  /\ dstip2result' = [x \in DOMAIN dstip2result \cup {d} |->
                     IF x = d THEN [info EXCEPT !.ts_end = i, !.pings = @ \cup {i}]
                     ELSE dstip2result[x]]
              /\ pending' = pending \ {i}
  BY DEF Count
<1>2. dstip2result' = CountedWindow(i) /\ pending' = pending \ {i}
  BY <1>1 DEF CountedWindow, CountedLine
<1> QED
  BY <1>2, CountWindow

\* Steps that touch no report.
LoopSteps == Stop \/ CheckThread \/ StartThread \/ Flap

LEMMA ClientMoves ==
    ASSUME [Next]_vars
    PROVE  Count \/ Report \/ UNCHANGED client
BY DEF Next, SenderSteps, LoopSteps, WorkerSteps, read_messages, Send, GetReply, TimeOut,
   SendFails, Stop, CheckThread, StartThread, Flap,
       Receive, redis_get, redis_set, LineFails, Reply, vars, client

\* Reports stay as they were written.
Grows ==
    /\ Len(made) <= Len(made')
    /\ \A r \in DOMAIN made : r \in DOMAIN made' /\ made'[r] = made[r]

LEMMA MadeGrows ==
    ASSUME ReportTypes, TypeOK, [Next]_vars
    PROVE  /\ Grows /\ made' \in Seq(Windows) /\ dstip2result' \in Windows
           /\ DOMAIN made = 1 .. Len(made) /\ DOMAIN made' = 1 .. Len(made')
<1>1. made \in Seq(Windows) /\ Len(made) \in Nat /\ DOMAIN made = 1 .. Len(made)
      /\ dstip2result \in Windows
  BY LenProperties DEF ReportTypes
<1>2. CASE Report
  <2>1. made' = Append(made, dstip2result) /\ dstip2result' = <<>>
    BY <1>2 DEF Report
  <2>2. /\ made' \in Seq(Windows) /\ Len(made') = Len(made) + 1
        /\ \A r \in 1 .. Len(made) : made'[r] = made[r]
    BY <1>1, <2>1, AppendProperties
  <2>3. DOMAIN made' = 1 .. Len(made')
    BY <2>2, LenProperties
  <2>4. <<>> \in Windows
    <3>1. DOMAIN <<>> = {} /\ <<>> \in [{} -> Entry]
      OBVIOUS
    <3> QED
      BY <3>1, WindowTyped
  <2> QED
    BY <1>1, <2>1, <2>2, <2>3, <2>4 DEF Grows
<1>3. CASE Count
  <2>1. made' = made
    BY <1>3 DEF Count
  <2> QED
    BY <1>1, <1>3, <2>1, CountMoves DEF Grows, TypeOK
<1>4. CASE UNCHANGED client
  BY <1>1, <1>4 DEF client, Grows
<1> QED
  BY <1>2, <1>3, <1>4, ClientMoves

LEMMA TypesStep ==
    ASSUME ReportTypes, TypeOK, JobInv, [Next]_vars
    PROVE  ReportTypes'
<1> USE DEF client, sender, mainLoop, link, agent, collector, bounds
<1>1. made' \in Seq(Windows) /\ dstip2result' \in Windows
  BY MadeGrows
<1>2. ring \in Seq(Nat) /\ msgs \in Seq(Nat) /\ made \in Seq(Windows)
      /\ job \in [Workers -> Nat] /\ todo \in [Workers -> SUBSET Dsts]
      /\ curr_ts_end \in [Workers -> Int] /\ redis \in [Dsts -> Int]
  BY DEF ReportTypes
<1>3. CASE Count
  BY <1>1, <1>2, <1>3 DEF Count, ReportTypes
<1>4. CASE Report
  <2>1. PICK n \in Nat : n = Len(made) + 1
    BY <1>2, LenProperties
  <2>2. ring' = ring \/ ring' = Append(ring, n)
    BY <1>4, <2>1 DEF Report
  <2>3. ring' \in Seq(Nat)
    <3>1. Append(ring, n) \in Seq(Nat)
      BY <1>2, AppendProperties
    <3>2. CASE ring' = ring
      BY <1>2, <3>2
    <3>3. CASE ring' = Append(ring, n)
      BY <3>1, <3>3
    <3> QED
      BY <2>2, <3>2, <3>3
  <2> QED
    BY <1>1, <1>2, <1>4, <2>3 DEF Report, ReportTypes
<1>5. CASE read_messages
  BY <1>1, <1>2, <1>5 DEF read_messages, ReportTypes
<1>6. CASE Send \/ LoopSteps
  BY <1>1, <1>2, <1>6 DEF Send, LoopSteps, Stop, CheckThread, StartThread, Flap, ReportTypes
<1>7. CASE GetReply \/ TimeOut \/ SendFails
  <2>1. msgs # <<>>
    BY <1>7 DEF GetReply, TimeOut, SendFails, TypeOK
  <2>2. msgs' \in Seq(Nat)
    <3>1. msgs' = Tail(msgs) \/ msgs' = <<>>
      BY <1>7 DEF GetReply, TimeOut, SendFails, NextMessage, Die
    <3>2. Tail(msgs) \in Seq(Nat) /\ <<>> \in Seq(Nat)
      BY <1>2, <2>1, SetOfTail
    <3> QED
      BY <3>1, <3>2
  <2>3. UNCHANGED <<client, ring, collector>>
    BY <1>7 DEF GetReply, TimeOut, SendFails
  <2> QED
    BY <1>1, <1>2, <2>2, <2>3 DEF ReportTypes
<1>8. ASSUME NEW w \in Workers, Receive(w) PROVE ReportTypes'
  <2>1. PICK r \in inbox : /\ job' = [job EXCEPT ![w] = r]
                           /\ todo' = [todo EXCEPT ![w] = DOMAIN made[r]]
    BY <1>8 DEF Receive
  <2>2. r \in DOMAIN made /\ DOMAIN made = 1 .. Len(made)
    BY MadeGrows DEF TypeOK
  <2>3. r \in Nat /\ made[r] \in Windows
    BY <1>2, <2>2, ElementOfSeq
  <2>4. DOMAIN made[r] \subseteq Dsts
    BY <2>3, WindowTyped
  <2> QED
    BY <1>1, <1>2, <1>8, <2>1, <2>3, <2>4 DEF Receive, ReportTypes
<1>9. ASSUME NEW w \in Workers, redis_get(w) PROVE ReportTypes'
  <2>1. Line(w) \in Dsts
    BY <1>2, <1>9, LineIsTodo DEF redis_get
  <2> QED
    BY <1>1, <1>2, <1>9, <2>1 DEF redis_get, ReportTypes
<1>10. ASSUME NEW w \in Workers, redis_set(w) PROVE ReportTypes'
  <2>1. PICK d : d = Line(w)
    OBVIOUS
  <2>2. wpc[w] = "set" /\ todo[w] # {}
    BY <1>10 DEF redis_set, TypeOK
  <2>3. d \in todo[w] /\ d \in Dsts
    BY <1>2, <2>1, <2>2, LineIsTodo
  <2>4. job[w] \in DOMAIN made /\ d \in DOMAIN made[job[w]]
    BY <2>2, <2>3 DEF JobInv
  <2>5. made[job[w]] \in Windows
    BY <1>2, <2>4, MadeGrows, ElementOfSeq
  <2>6. made[job[w]][d] \in Entry
    BY <2>4, <2>5, WindowTyped
  <2>7. made[job[w]][d].ts_end \in Int
    BY <2>6 DEF Entry
  <2>8. /\ redis' = IF curr_ts_end[w] < made[job[w]][d].ts_end
                    THEN [redis EXCEPT ![d] = made[job[w]][d].ts_end] ELSE redis
        /\ todo' = [todo EXCEPT ![w] = @ \ {d}]
    BY <1>10, <2>1 DEF redis_set
  <2>9. redis' \in [Dsts -> Int] /\ todo' \in [Workers -> SUBSET Dsts]
    BY <1>2, <2>3, <2>7, <2>8
  <2> QED
    BY <1>1, <1>2, <1>10, <2>9 DEF redis_set, ReportTypes
<1>11. ASSUME NEW w \in Workers, LineFails(w) \/ Reply(w) PROVE ReportTypes'
  BY <1>1, <1>2, <1>11 DEF LineFails, Reply, ReportTypes
<1>12. CASE UNCHANGED vars
  BY <1>1, <1>2, <1>12 DEF vars, ReportTypes
<1> QED
  BY <1>3, <1>4, <1>5, <1>6, <1>7, <1>8, <1>9, <1>10, <1>11, <1>12
     DEF Next, SenderSteps, LoopSteps, WorkerSteps

\* The numbers of reports under way.
Under == ToSet(ring) \cup ToSet(msgs) \cup inbox \cup late \cup replied \cup lost

LEMMA UnderStep ==
    ASSUME ReportTypes, TypeOK, JobInv, [Next]_vars
    PROVE  Under' \subseteq DOMAIN made' /\ Len(ring') <= RingSize
<1> USE DEF client, sender, mainLoop, link, agent, collector, bounds
<1>1. Under \subseteq DOMAIN made /\ Len(ring) <= RingSize
  BY DEF TypeOK, Under
<1>2. DOMAIN made \subseteq DOMAIN made' /\ DOMAIN made = 1 .. Len(made) /\ DOMAIN made' = 1 .. Len(made')
  BY MadeGrows DEF Grows
<1>3. ring \in Seq(Nat) /\ Len(ring) \in Nat /\ msgs \in Seq(Nat) /\ RingSize \in Nat
      /\ Len(made) \in Nat /\ made \in Seq(Windows)
  BY LenProperties, ReportAssumption DEF ReportTypes
<1> HIDE DEF ToSet
<1>4. CASE Report
  <2>1. Len(made') = Len(made) + 1
    BY <1>3, <1>4, AppendProperties DEF Report, ReportTypes
  <2>2. Len(made) + 1 \in DOMAIN made' /\ Len(made) + 1 \in Nat
    BY <1>2, <1>3, <2>1
  <2>3. UNCHANGED <<msgs, inbox, late, replied>>
    BY <1>4 DEF Report
  <2>4. CASE Len(ring) < RingSize
    <3>1. ring' = Append(ring, Len(made) + 1) /\ lost' = lost
      BY <1>4, <2>4 DEF Report
    <3>2. ToSet(ring') = ToSet(ring) \cup {Len(made) + 1} /\ Len(ring') = Len(ring) + 1
      BY <1>3, <2>2, <3>1, SetOfAppend, AppendProperties
    <3> QED
      BY <1>1, <1>2, <1>3, <2>2, <2>3, <2>4, <3>1, <3>2 DEF Under
  <2>5. CASE ~(Len(ring) < RingSize)
    <3>1. ring' = ring /\ lost' = lost \cup {Len(made) + 1}
      BY <1>4, <2>5 DEF Report
    <3> QED
      BY <1>1, <1>2, <2>2, <2>3, <3>1 DEF Under
  <2> QED
    BY <2>4, <2>5
<1>5. CASE read_messages
  <2>1. msgs' = ring /\ ring' = <<>> /\ UNCHANGED <<inbox, late, replied, lost>>
    BY <1>5 DEF read_messages
  <2>2. ToSet(<<>>) = {} /\ Len(<<>>) = 0
    BY DEF ToSet
  <2> QED
    BY <1>1, <1>2, <1>3, <2>1, <2>2 DEF Under
<1>6. CASE Send \/ GetReply \/ TimeOut \/ SendFails
  <2>1. msgs # <<>>
    BY <1>6 DEF Send, GetReply, TimeOut, SendFails, TypeOK
  <2>2. ToSet(msgs) = ToSet(Tail(msgs)) \cup {Head(msgs)}
    BY <1>3, <2>1, SetOfTail
  <2>3. ToSet(<<>>) = {}
    BY DEF ToSet
  <2>4. UNCHANGED <<ring, replied>>
    BY <1>6 DEF Send, GetReply, TimeOut, SendFails
  <2>5. /\ inbox' = inbox \/ inbox' = inbox \cup {Head(msgs)}
        /\ msgs' = msgs \/ msgs' = Tail(msgs) \/ msgs' = <<>>
        /\ lost' \subseteq lost \cup ToSet(msgs) /\ late' \subseteq late \cup {Head(msgs)}
    BY <1>6, <2>2 DEF Send, GetReply, TimeOut, SendFails, NextMessage, Die
  <2>6. ToSet(msgs') \subseteq ToSet(msgs)
    BY <2>2, <2>3, <2>5
  <2> QED
    BY <1>1, <1>2, <2>2, <2>4, <2>5, <2>6 DEF Under
<1>7. ASSUME NEW w \in Workers, WorkerSteps(w) PROVE Under' \subseteq DOMAIN made' /\ Len(ring') <= RingSize
  <2>1. UNCHANGED <<ring, msgs, late, lost>>
    BY <1>7 DEF WorkerSteps, Receive, redis_get, redis_set, LineFails, Reply
  <2>2. inbox' \subseteq inbox
    BY <1>7 DEF WorkerSteps, Receive, redis_get, redis_set, LineFails, Reply
  <2>3. replied' \subseteq DOMAIN made
    <3>1. CASE Reply(w)
      <4>1. job[w] \in DOMAIN made
        BY <3>1 DEF Reply, JobInv
      <4> QED
        BY <1>1, <3>1, <4>1 DEF Reply, Under
    <3>2. CASE replied' = replied
      BY <1>1, <3>2 DEF Under
    <3> QED
      BY <1>7, <3>1, <3>2 DEF WorkerSteps, Receive, redis_get, redis_set, LineFails
  <2> QED
    BY <1>1, <1>2, <2>1, <2>2, <2>3 DEF Under
<1>8. CASE Count \/ LoopSteps \/ UNCHANGED vars
  <2>1. UNCHANGED <<ring, msgs, inbox, late, replied, lost>>
    BY <1>8 DEF Count, LoopSteps, Stop, CheckThread, StartThread, Flap, vars
  <2> QED
    BY <1>1, <1>2, <2>1 DEF Under
<1> QED
  BY <1>4, <1>5, <1>6, <1>7, <1>8 DEF Next, SenderSteps, LoopSteps

LEMMA TypeOKStep ==
    ASSUME ReportTypes, TypeOK, JobInv, [Next]_vars
    PROVE  TypeOK'
<1> USE DEF client, sender, mainLoop, link, agent, collector, bounds
<1>1. pending' \subseteq Pings
  BY ClientMoves DEF Count, Report, TypeOK
<1>2. DOMAIN dstip2result' \subseteq Dsts
  BY MadeGrows, WindowTyped
<1>3. Under' \subseteq DOMAIN made' /\ Len(ring') <= RingSize
  BY UnderStep
<1>4. /\ spc' \in {"read", "send", "wait", "dead"}
      /\ spc' \in {"send", "wait"} <=> msgs' # <<>>
  <2>1. msgs \in Seq(Nat) /\ spc \in {"read", "send", "wait", "dead"}
        /\ (spc \in {"send", "wait"} <=> msgs # <<>>)
        /\ (~running => spc = "dead")
    BY DEF TypeOK, ReportTypes
  <2>2. ASSUME NextMessage, spc = "wait"
        PROVE  /\ spc' \in {"read", "send", "wait", "dead"}
               /\ spc' \in {"send", "wait"} <=> msgs' # <<>>
    <3>1. msgs # <<>>
      BY <2>1, <2>2
    <3>2. Tail(msgs) = <<>> <=> Len(msgs) = 1
      BY <2>1, <3>1, SetOfTail
    <3> QED
      BY <2>2, <3>2 DEF NextMessage
  <2>3. ASSUME NEW S, Die(S)
        PROVE  /\ spc' \in {"read", "send", "wait", "dead"}
               /\ spc' \in {"send", "wait"} <=> msgs' # <<>>
    BY <2>3 DEF Die
  <2>4. CASE GetReply \/ TimeOut \/ SendFails
    BY <2>2, <2>3, <2>4 DEF GetReply, TimeOut, SendFails
  <2>5. CASE read_messages \/ Send \/ LoopSteps
    BY <2>1, <2>5 DEF read_messages, Send, LoopSteps, Stop, CheckThread, StartThread, Flap
  <2>6. CASE UNCHANGED sender
    BY <2>1, <2>6
  <2> QED
    BY <2>4, <2>5, <2>6 DEF Next, SenderSteps, LoopSteps, WorkerSteps, Count, Report, Receive,
       redis_get,
       redis_set, LineFails, Reply, vars
<1>5. /\ wpc' \in [Workers -> {"recv", "get", "set"}]
      /\ \A w \in Workers : wpc'[w] = "set" => todo'[w] # {}
  <2>1. /\ wpc \in [Workers -> {"recv", "get", "set"}] /\ todo \in [Workers -> SUBSET Dsts]
        /\ \A w \in Workers : wpc[w] = "set" => todo[w] # {}
    BY DEF TypeOK, ReportTypes
  <2>2. ASSUME NEW w \in Workers, NEW p \in {"recv", "get", "set"}, NEW t,
               wpc' = [wpc EXCEPT ![w] = p], todo' = [todo EXCEPT ![w] = t], p = "set" => t # {}
        PROVE  /\ wpc' \in [Workers -> {"recv", "get", "set"}]
               /\ \A v \in Workers : wpc'[v] = "set" => todo'[v] # {}
    BY <2>1, <2>2
  <2>3. ASSUME NEW w \in Workers, redis_get(w) \/ Reply(w)
        PROVE  /\ wpc' \in [Workers -> {"recv", "get", "set"}]
               /\ \A v \in Workers : wpc'[v] = "set" => todo'[v] # {}
    BY <2>1, <2>3 DEF redis_get, Reply
  <2>4. ASSUME NEW w \in Workers, Receive(w) \/ redis_set(w) \/ LineFails(w)
        PROVE  /\ wpc' \in [Workers -> {"recv", "get", "set"}]
               /\ \A v \in Workers : wpc'[v] = "set" => todo'[v] # {}
    <3>1. PICK t : todo' = [todo EXCEPT ![w] = t]
      BY <2>4 DEF Receive, redis_set, LineFails
    <3>2. wpc' = [wpc EXCEPT ![w] = "get"]
      BY <2>4 DEF Receive, redis_set, LineFails
    <3> QED
      BY <2>2, <3>1, <3>2
  <2>5. CASE UNCHANGED collector
    BY <2>1, <2>5
  <2> QED
    BY <2>3, <2>4, <2>5 DEF Next, SenderSteps, LoopSteps, WorkerSteps, Count, Report,
       read_messages, Send,
       GetReply, TimeOut, SendFails, Stop, CheckThread, StartThread, Flap, vars
<1>6. {up, running, stop_event}' \subseteq BOOLEAN /\ (~running' => spc' = "dead")
  <2>1. up \in BOOLEAN /\ running \in BOOLEAN /\ stop_event \in BOOLEAN /\ (~running => spc = "dead")
    BY DEF TypeOK
  <2>2. CASE LoopSteps
    <3>1. up' \in BOOLEAN /\ running' \in BOOLEAN /\ stop_event' \in BOOLEAN
      BY <2>1, <2>2 DEF LoopSteps, Stop, CheckThread, StartThread, Flap
    <3>2. ~running' => spc' = "dead"
      BY <2>1, <2>2 DEF LoopSteps, Stop, CheckThread, StartThread, Flap
    <3> QED
      BY <3>1, <3>2
  <2>3. CASE UNCHANGED <<up, running, stop_event>> /\ (spc = "dead" => spc' = "dead")
    BY <2>1, <2>3
  <2>4. CASE GetReply \/ TimeOut \/ SendFails \/ read_messages \/ Send
    BY <2>3, <2>4 DEF GetReply, TimeOut, SendFails, read_messages, Send
  <2>5. CASE UNCHANGED agent
    BY <2>3, <2>5
  <2> QED
    BY <2>2, <2>4, <2>5 DEF Next, SenderSteps, LoopSteps, WorkerSteps, Count, Report, Receive,
       redis_get, redis_set, LineFails, Reply, vars
<1> QED
  BY <1>1, <1>2, <1>3, <1>4, <1>5, <1>6 DEF TypeOK, Under

LEMMA JobStep ==
    ASSUME ReportTypes, TypeOK, JobInv, [Next]_vars
    PROVE  JobInv'
<1> USE DEF client, sender, mainLoop, link, agent, collector, bounds
<1>1. /\ job \in [Workers -> Nat] /\ todo \in [Workers -> SUBSET Dsts]
      /\ wpc \in [Workers -> {"recv", "get", "set"}]
  BY DEF ReportTypes, TypeOK
<1>2. \A r \in DOMAIN made : r \in DOMAIN made' /\ made'[r] = made[r]
  BY MadeGrows DEF Grows
<1>3. ASSUME NEW v \in Workers, wpc[v] # "recv", job'[v] = job[v], todo'[v] \subseteq todo[v]
      PROVE  job'[v] \in DOMAIN made' /\ todo'[v] \subseteq DOMAIN made'[job'[v]]
  BY <1>2, <1>3 DEF JobInv
<1>4. ASSUME NEW w \in Workers, Receive(w) PROVE JobInv'
  <2>1. PICK r \in inbox : /\ job' = [job EXCEPT ![w] = r]
                           /\ todo' = [todo EXCEPT ![w] = DOMAIN made[r]]
    BY <1>4 DEF Receive
  <2>2. r \in DOMAIN made
    BY DEF TypeOK
  <2>3. ASSUME NEW v \in Workers, wpc'[v] # "recv"
        PROVE  job'[v] \in DOMAIN made' /\ todo'[v] \subseteq DOMAIN made'[job'[v]]
    <3>1. CASE v = w
      BY <1>1, <1>2, <2>1, <2>2, <3>1
    <3>2. CASE v # w
      <4>1. job'[v] = job[v] /\ todo'[v] = todo[v]
        BY <1>1, <2>1, <3>2
      <4>2. wpc'[v] = wpc[v]
        BY <1>1, <1>4, <3>2 DEF Receive
      <4> QED
        BY <1>3, <2>3, <4>1, <4>2
    <3> QED
      BY <3>1, <3>2
  <2> QED
    BY <2>3 DEF JobInv
<1>5. ASSUME \A v \in Workers : wpc'[v] # "recv" =>
                wpc[v] # "recv" /\ job'[v] = job[v] /\ todo'[v] \subseteq todo[v]
      PROVE  JobInv'
  BY <1>3, <1>5 DEF JobInv
<1>6. ASSUME NEW w \in Workers, redis_get(w) \/ Reply(w) PROVE JobInv'
  BY <1>1, <1>5, <1>6 DEF redis_get, Reply
<1>7. ASSUME NEW w \in Workers, redis_set(w) \/ LineFails(w) PROVE JobInv'
  <2>1. PICK t \in SUBSET todo[w] : todo' = [todo EXCEPT ![w] = t]
    BY <1>1, <1>7 DEF redis_set, LineFails
  <2>2. wpc' = [wpc EXCEPT ![w] = "get"] /\ wpc[w] # "recv" /\ job' = job
    BY <1>7 DEF redis_set, LineFails
  <2> QED
    BY <1>1, <1>5, <2>1, <2>2
<1>8. CASE UNCHANGED collector
  BY <1>5, <1>8
<1> QED
  BY <1>4, <1>6, <1>7, <1>8 DEF Next, SenderSteps, LoopSteps, WorkerSteps, Count, Report,
     read_messages, Send,
     GetReply, TimeOut, SendFails, Stop, CheckThread, StartThread, Flap, vars

-----------------------------------------------------------------------------
(* Results are counted once.                                               *)

\* CountedOnce, of a window f, reports ms and pings p that have not been taken.
CountedIn(f, ms, p) ==
    /\ PingsOf(f) \cup UNION {PingsOf(ms[r]) : r \in DOMAIN ms} = Pings \ p
    /\ \A r \in DOMAIN ms :
          /\ PingsOf(ms[r]) \cap PingsOf(f) = {}
          /\ \A q \in DOMAIN ms : q # r => PingsOf(ms[r]) \cap PingsOf(ms[q]) = {}

\* One more ping in the window.
LEMMA CountKeeps ==
    ASSUME NEW f, NEW ms, NEW p, p \subseteq Pings, CountedIn(f, ms, p), NEW i \in p,
           NEW g, PingsOf(g) = PingsOf(f) \cup {i}
    PROVE  CountedIn(g, ms, p \ {i})
<1> DEFINE U == UNION {PingsOf(ms[r]) : r \in DOMAIN ms}
<1>1. PingsOf(f) \cup U = Pings \ p
  BY DEF CountedIn
<1>2. \A r \in DOMAIN ms : PingsOf(ms[r]) \subseteq U
  OBVIOUS
<1> HIDE DEF U
<1>3. i \notin U /\ i \in Pings
  BY <1>1
<1>4. PingsOf(g) \cup U = Pings \ (p \ {i})
  BY <1>1, <1>3
<1>5. \A r \in DOMAIN ms : PingsOf(ms[r]) \cap PingsOf(g) = {}
  BY <1>2, <1>3 DEF CountedIn
<1> QED
  BY <1>4, <1>5 DEF CountedIn, U

\* The window becomes a report.
LEMMA ReportKeeps ==
    ASSUME NEW ms \in Seq(Windows), NEW f \in Windows, NEW p, CountedIn(f, ms, p)
    PROVE  CountedIn(<<>>, Append(ms, f), p)
<1> DEFINE ns == Append(ms, f)
<1>1. /\ Len(ns) = Len(ms) + 1 /\ ns \in Seq(Windows) /\ ns[Len(ms) + 1] = f
      /\ \A r \in 1 .. Len(ms) : ns[r] = ms[r]
  BY AppendProperties
<1> HIDE DEF ns
<1>2. /\ DOMAIN ms = 1 .. Len(ms) /\ DOMAIN ns = 1 .. Len(ns) /\ Len(ms) \in Nat
  BY <1>1, LenProperties
<1>3. DOMAIN ns = DOMAIN ms \cup {Len(ms) + 1} /\ Len(ms) + 1 \notin DOMAIN ms
  BY <1>1, <1>2
<1>4. PingsOf(<<>>) = {}
  BY DEF PingsOf
<1>5. PICK n : n = Len(ms) + 1
  OBVIOUS
<1>6. DOMAIN ns = DOMAIN ms \cup {n} /\ n \notin DOMAIN ms /\ ns[n] = f
      /\ \A r \in DOMAIN ms : ns[r] = ms[r]
  BY <1>1, <1>2, <1>3, <1>5
<1>7. PingsOf(f) \cup UNION {PingsOf(ms[r]) : r \in DOMAIN ms} = Pings \ p
  BY DEF CountedIn
<1>8. UNION {PingsOf(ns[r]) : r \in DOMAIN ns} = Pings \ p
  <2>1. ASSUME NEW x PROVE x \in UNION {PingsOf(ns[r]) : r \in DOMAIN ns} <=> x \in Pings \ p
    <3>1. x \in UNION {PingsOf(ns[r]) : r \in DOMAIN ns} <=> \E r \in DOMAIN ns : x \in PingsOf(ns[r])
      OBVIOUS
    <3>2. (\E r \in DOMAIN ns : x \in PingsOf(ns[r]))
            <=> x \in PingsOf(f) \/ \E r \in DOMAIN ms : x \in PingsOf(ms[r])
      BY <1>6
    <3>3. x \in UNION {PingsOf(ms[r]) : r \in DOMAIN ms} <=> \E r \in DOMAIN ms : x \in PingsOf(ms[r])
      OBVIOUS
    <3> QED
      BY <1>7, <3>1, <3>2, <3>3
  <2> QED
    BY <2>1
<1>9. ASSUME NEW r \in DOMAIN ns, NEW q \in DOMAIN ns, q # r
      PROVE  PingsOf(ns[r]) \cap PingsOf(ns[q]) = {}
  <2>1. CASE r # n /\ q # n
    BY <1>6, <1>9, <2>1 DEF CountedIn
  <2>2. CASE r = n /\ q # n
    BY <1>6, <1>9, <2>2 DEF CountedIn
  <2>3. CASE r # n /\ q = n
    BY <1>6, <1>9, <2>3 DEF CountedIn
  <2> QED
    BY <1>9, <2>1, <2>2, <2>3
<1> QED
  BY <1>4, <1>8, <1>9 DEF CountedIn, ns

LEMMA CountedStep ==
    ASSUME ReportTypes, TypeOK, CountedOnce, [Next]_vars
    PROVE  CountedOnce'
<1>1. CountedIn(dstip2result, made, pending) /\ pending \subseteq Pings
  BY DEF CountedOnce, CountedIn, TypeOK
<1>2. SUFFICES CountedIn(dstip2result', made', pending')
  BY DEF CountedOnce, CountedIn, PingsOf
<1>3. CASE Count
  <2>1. PICK i \in pending : /\ pending' = pending \ {i}
                             /\ PingsOf(dstip2result') = PingsOf(dstip2result) \cup {i}
    BY <1>1, <1>3, CountMoves
  <2>2. made' = made
    BY <1>3 DEF Count
  <2> QED
    BY <1>1, <2>1, <2>2, CountKeeps
<1>4. CASE Report
  <2>1. made' = Append(made, dstip2result) /\ dstip2result' = <<>> /\ pending' = pending
    BY <1>4 DEF Report
  <2>2. made \in Seq(Windows) /\ dstip2result \in Windows
    BY DEF ReportTypes
  <2>3. CountedIn(<<>>, Append(made, dstip2result), pending)
    BY <1>1, <2>2, ReportKeeps
  <2> QED
    BY <2>1, <2>3
<1>5. CASE UNCHANGED client
  BY <1>1, <1>5 DEF client
<1> QED
  BY <1>3, <1>4, <1>5, ClientMoves

-----------------------------------------------------------------------------
(* No report vanishes.                                                     *)

LEMMA OnItsWayStep ==
    ASSUME ReportTypes, TypeOK, [Next]_vars
    PROVE  /\ OnItsWay \subseteq OnItsWay'
           /\ Send => Head(msgs) \in OnItsWay'
<1> USE DEF client, sender, mainLoop, link, agent, collector, bounds
<1>1. job \in [Workers -> Nat] /\ wpc \in [Workers -> {"recv", "get", "set"}]
  BY DEF ReportTypes, TypeOK
<1>2. ASSUME inbox \subseteq inbox', UNCHANGED collector PROVE OnItsWay \subseteq OnItsWay'
  <2>1. Taken' = Taken
    BY <1>2 DEF Taken
  <2> QED
    BY <1>2, <2>1 DEF OnItsWay
<1>3. CASE Send
  <2>1. inbox' = inbox \cup {Head(msgs)} /\ UNCHANGED collector
    BY <1>3 DEF Send
  <2> QED
    BY <1>2, <2>1 DEF OnItsWay
<1>4. ASSUME Count \/ Report \/ read_messages \/ GetReply \/ TimeOut \/ SendFails \/ LoopSteps
             \/ UNCHANGED vars
      PROVE  OnItsWay \subseteq OnItsWay'
  BY <1>2, <1>4 DEF Count, Report, read_messages, GetReply, TimeOut, SendFails, LoopSteps, Stop,
     CheckThread, StartThread, Flap, vars
<1>5. ASSUME NEW w \in Workers, Receive(w) PROVE OnItsWay \subseteq OnItsWay'
  <2>1. PICK r \in inbox : inbox' = inbox \ {r} /\ job' = [job EXCEPT ![w] = r]
    BY <1>5 DEF Receive
  <2>2. wpc[w] = "recv" /\ wpc' = [wpc EXCEPT ![w] = "get"] /\ replied' = replied
    BY <1>5 DEF Receive
  <2>3. r \in Taken'
    <3>1. wpc'[w] # "recv" /\ job'[w] = r
      BY <1>1, <2>1, <2>2
    <3> QED
      BY <3>1 DEF Taken
  <2>4. ASSUME NEW v \in Workers, wpc[v] # "recv" PROVE job[v] \in Taken'
    <3>1. wpc'[v] # "recv" /\ job'[v] = job[v]
      BY <1>1, <2>1, <2>2, <2>4
    <3> QED
      BY <3>1 DEF Taken
  <2>5. Taken \subseteq Taken'
    BY <2>4 DEF Taken
  <2> QED
    BY <2>1, <2>2, <2>3, <2>5 DEF OnItsWay
<1>6. ASSUME NEW w \in Workers, Reply(w) PROVE OnItsWay \subseteq OnItsWay'
  <2>1. /\ replied' = replied \cup {job[w]} /\ wpc' = [wpc EXCEPT ![w] = "recv"]
        /\ job' = job /\ inbox' = inbox
    BY <1>6 DEF Reply
  <2>2. ASSUME NEW v \in Workers, wpc[v] # "recv" PROVE job[v] \in Taken' \cup replied'
    <3>1. CASE v = w
      BY <2>1, <3>1
    <3>2. CASE v # w
      <4>1. wpc'[v] # "recv" /\ job'[v] = job[v]
        BY <1>1, <2>1, <2>2, <3>2
      <4> QED
        BY <4>1 DEF Taken
    <3> QED
      BY <3>1, <3>2
  <2>3. Taken \subseteq Taken' \cup replied'
    BY <2>2 DEF Taken
  <2> QED
    BY <2>1, <2>3 DEF OnItsWay
<1>7. ASSUME NEW w \in Workers, redis_get(w) \/ redis_set(w) \/ LineFails(w)
      PROVE  OnItsWay \subseteq OnItsWay'
  <2>1. PICK q \in {"get", "set"} : wpc' = [wpc EXCEPT ![w] = q]
    BY <1>7 DEF redis_get, redis_set, LineFails
  <2>2. job' = job /\ inbox' = inbox /\ replied' = replied
    BY <1>7 DEF redis_get, redis_set, LineFails
  <2>3. ASSUME NEW v \in Workers, wpc[v] # "recv" PROVE job[v] \in Taken'
    <3>1. wpc'[v] # "recv" /\ job'[v] = job[v]
      BY <1>1, <2>1, <2>2, <2>3
    <3> QED
      BY <3>1 DEF Taken
  <2>4. Taken \subseteq Taken'
    BY <2>3 DEF Taken
  <2> QED
    BY <2>2, <2>4 DEF OnItsWay
<1>8. ASSUME Send PROVE Head(msgs) \in OnItsWay'
  BY <1>8 DEF Send, OnItsWay
<1>9. OnItsWay \subseteq OnItsWay'
  BY <1>3, <1>4, <1>5, <1>6, <1>7 DEF Next, SenderSteps, LoopSteps, WorkerSteps
<1> QED
  BY <1>8, <1>9

LEMMA VanishStep ==
    ASSUME ReportTypes, TypeOK, SentInv, NothingVanishes, [Next]_vars
    PROVE  SentInv' /\ NothingVanishes'
<1> USE DEF client, sender, mainLoop, link, agent, collector, bounds
<1>1. OnItsWay \subseteq OnItsWay' /\ (Send => Head(msgs) \in OnItsWay')
  BY OnItsWayStep
<1>2. ring \in Seq(Nat) /\ msgs \in Seq(Nat) /\ made \in Seq(Windows) /\ Len(made) \in Nat
      /\ DOMAIN made = 1 .. Len(made) /\ DOMAIN made' = 1 .. Len(made')
  BY MadeGrows, LenProperties DEF ReportTypes
<1>3. DOMAIN made \subseteq ToSet(ring) \cup ToSet(msgs) \cup OnItsWay \cup lost
  BY DEF NothingVanishes
<1>4. ToSet(<<>>) = {}
  BY DEF ToSet
<1> HIDE DEF ToSet, OnItsWay
<1>5. SUFFICES /\ spc' = "wait" => Head(msgs') \in OnItsWay'
               /\ DOMAIN made' \subseteq ToSet(ring') \cup ToSet(msgs') \cup OnItsWay' \cup lost'
  BY DEF SentInv, NothingVanishes, ToSet
<1>6. ASSUME spc = "wait", msgs' = msgs PROVE Head(msgs') \in OnItsWay'
  BY <1>1, <1>6 DEF SentInv
<1>7. CASE Report
  <2>1. PICK n \in Nat : n = Len(made) + 1
    BY <1>2
  <2>2. made' = Append(made, dstip2result) /\ UNCHANGED sender
    BY <1>7 DEF Report
  <2>3. Len(made') = n
    BY <1>2, <2>1, <2>2, AppendProperties DEF ReportTypes
  <2>4. DOMAIN made' = DOMAIN made \cup {n}
    BY <1>2, <2>1, <2>3
  <2>5. ToSet(ring) \cup lost \cup {n} \subseteq ToSet(ring') \cup lost'
    <3>1. CASE ring' = Append(ring, n) /\ lost' = lost
      <4>1. ToSet(Append(ring, n)) = ToSet(ring) \cup {n}
        BY <1>2, SetOfAppend
      <4> QED
        BY <3>1, <4>1
    <3>2. CASE lost' = lost \cup {n} /\ ring' = ring
      BY <3>2
    <3> QED
      BY <1>7, <2>1, <3>1, <3>2 DEF Report
  <2> QED
    BY <1>1, <1>3, <1>6, <2>2, <2>4, <2>5
<1>8. CASE read_messages
  <2>1. spc = "read" /\ msgs' = ring /\ spc' = "send" /\ UNCHANGED <<made, lost>>
    BY <1>8 DEF read_messages
  <2>2. msgs = <<>>
    BY <2>1 DEF TypeOK
  <2> QED
    BY <1>1, <1>3, <1>4, <2>1, <2>2
<1>9. CASE Send
  <2>1. msgs' = msgs /\ UNCHANGED <<made, ring, lost>>
    BY <1>9 DEF Send
  <2> QED
    BY <1>1, <1>3, <1>9, <2>1
<1>10. CASE GetReply \/ TimeOut \/ SendFails
  <2>1. msgs # <<>> /\ UNCHANGED <<made, ring>>
    BY <1>10 DEF GetReply, TimeOut, SendFails, TypeOK
  <2>2. ToSet(msgs) = ToSet(Tail(msgs)) \cup {Head(msgs)}
    BY <1>2, <2>1, SetOfTail
  <2>3. spc' # "wait"
    BY <1>10 DEF GetReply, TimeOut, SendFails, NextMessage, Die
  <2>4. CASE spc = "wait" /\ msgs' = Tail(msgs) /\ lost' = lost
    <3>1. Head(msgs) \in OnItsWay
      BY <2>4 DEF SentInv
    <3> QED
      BY <1>1, <1>3, <2>1, <2>2, <2>3, <2>4, <3>1
  <2>5. CASE spc = "wait" /\ msgs' = <<>> /\ lost' = lost \cup ToSet(Tail(msgs))
    <3>1. Head(msgs) \in OnItsWay
      BY <2>5 DEF SentInv
    <3> QED
      BY <1>1, <1>3, <2>1, <2>2, <2>3, <2>5, <3>1
  <2>6. CASE msgs' = <<>> /\ lost' = lost \cup ToSet(msgs)
    BY <1>1, <1>3, <2>1, <2>3, <2>6
  <2> QED
    BY <1>10, <2>4, <2>5, <2>6 DEF GetReply, TimeOut, SendFails, NextMessage, Die
<1>11. CASE LoopSteps
  BY <1>1, <1>3, <1>6, <1>11 DEF LoopSteps, Stop, CheckThread, StartThread, Flap
<1>12. CASE UNCHANGED <<made, ring, sender, lost>>
  BY <1>1, <1>3, <1>6, <1>12
<1> QED
  BY <1>7, <1>8, <1>9, <1>10, <1>11, <1>12 DEF Next, SenderSteps, LoopSteps, WorkerSteps, Count,
     Receive,
     redis_get, redis_set, LineFails, Reply, vars

-----------------------------------------------------------------------------
(* What Redis shows, with a single worker.                                 *)

LEMMA SeenStep ==
    ASSUME ReportTypes, TypeOK, JobInv, SeenInv, [Next]_vars
    PROVE  SeenInv'
<1> USE DEF client, sender, mainLoop, link, agent, collector, bounds
<1>1. Grows
  BY MadeGrows
<1>2. SUFFICES ASSUME NEW s \in seen'
               PROVE  \E r \in DOMAIN made' : \E d \in DOMAIN made'[r] : s = <<r, d>>
  BY DEF SeenInv
<1>3. CASE s \in seen
  <2>1. PICK r \in DOMAIN made : \E d \in DOMAIN made[r] : s = <<r, d>>
    BY <1>3 DEF SeenInv
  <2> QED
    BY <1>1, <2>1 DEF Grows
<1>4. ASSUME NEW w \in Workers, redis_set(w), s \notin seen
      PROVE  \E r \in DOMAIN made' : \E d \in DOMAIN made'[r] : s = <<r, d>>
  <2>1. wpc[w] = "set" /\ todo[w] # {} /\ s = <<job[w], Line(w)>>
    BY <1>4 DEF redis_set, TypeOK
  <2>2. Line(w) \in todo[w]
    BY <2>1, LineIsTodo
  <2>3. job[w] \in DOMAIN made /\ Line(w) \in DOMAIN made[job[w]]
    BY <2>1, <2>2 DEF JobInv
  <2>4. job[w] \in DOMAIN made' /\ Line(w) \in DOMAIN made'[job[w]]
    BY <1>1, <2>3 DEF Grows
  <2> QED
    BY <2>1, <2>4
<1> QED
  BY <1>3, <1>4 DEF Next, SenderSteps, LoopSteps, WorkerSteps, Count, Report, read_messages,
     Send, GetReply,
     TimeOut, SendFails, Stop, CheckThread, StartThread, Flap, Receive, redis_get, LineFails,
     Reply, vars

LEMMA ReadStep ==
    ASSUME ReportTypes, TypeOK, ReadInv, [Next]_vars, \A v, w \in Workers : v = w
    PROVE  ReadInv'
<1> USE DEF client, sender, mainLoop, link, agent, collector, bounds
<1>1. SUFFICES ASSUME NEW v \in Workers, wpc'[v] = "set"
               PROVE  curr_ts_end'[v] = redis'[Line(v)']
  BY DEF ReadInv
<1>2. wpc \in [Workers -> {"recv", "get", "set"}] /\ curr_ts_end \in [Workers -> Int]
  BY DEF ReportTypes, TypeOK
<1>3. ASSUME NEW w \in Workers, redis_get(w) PROVE curr_ts_end'[v] = redis'[Line(v)']
  <2>1. v = w /\ todo' = todo /\ redis' = redis
        /\ curr_ts_end' = [curr_ts_end EXCEPT ![w] = redis[Line(w)]]
    BY <1>3 DEF redis_get
  <2>2. Line(v)' = Line(w)
    BY <2>1 DEF Line
  <2> QED
    BY <1>2, <2>1, <2>2
<1>4. ASSUME NEW w \in Workers, Receive(w) \/ redis_set(w) \/ LineFails(w) \/ Reply(w)
      PROVE  FALSE
  BY <1>1, <1>2, <1>4 DEF Receive, redis_set, LineFails, Reply
<1>5. CASE UNCHANGED collector
  <2>1. Line(v)' = Line(v)
    BY <1>5 DEF Line
  <2> QED
    BY <1>1, <1>5, <2>1 DEF ReadInv
<1> QED
  BY <1>3, <1>4, <1>5 DEF Next, SenderSteps, LoopSteps, WorkerSteps, Count, Report,
     read_messages, Send,
     GetReply, TimeOut, SendFails, Stop, CheckThread, StartThread, Flap, vars

\* A line of Redis is only replaced by a newer one.
LEMMA RedisGrows ==
    ASSUME ReportTypes, TypeOK, JobInv, ReadInv, [Next]_vars
    PROVE  /\ \A d \in Dsts : redis'[d] >= redis[d]
           /\ \A s \in seen' : s \in seen \/
                 (s[1] \in DOMAIN made /\ s[2] \in DOMAIN made[s[1]]
                    /\ redis'[s[2]] >= made[s[1]][s[2]].ts_end)
<1> USE DEF client, sender, mainLoop, link, agent, collector, bounds
<1>1. redis \in [Dsts -> Int] /\ made \in Seq(Windows) /\ DOMAIN made = 1 .. Len(made)
  BY MadeGrows DEF ReportTypes
<1>2. CASE UNCHANGED <<redis, seen>>
  BY <1>1, <1>2
<1>3. ASSUME NEW w \in Workers, redis_set(w)
      PROVE  /\ \A d \in Dsts : redis'[d] >= redis[d]
             /\ \A s \in seen' : s \in seen \/
                   (s[1] \in DOMAIN made /\ s[2] \in DOMAIN made[s[1]]
                      /\ redis'[s[2]] >= made[s[1]][s[2]].ts_end)
  <2>1. wpc[w] = "set" /\ todo[w] # {}
    BY <1>3 DEF redis_set, TypeOK
  <2>2. PICK r : r = job[w]
    OBVIOUS
  <2>3. PICK e \in todo[w] : e = Line(w)
    BY <2>1, LineIsTodo
  <2>4. r \in DOMAIN made /\ e \in DOMAIN made[r] /\ e \in Dsts
    BY <2>1, <2>2, <2>3 DEF JobInv, ReportTypes
  <2>5. made[r] \in Windows
    BY <1>1, <2>4, ElementOfSeq
  <2>6. made[r][e] \in Entry
    BY <2>4, <2>5, WindowTyped
  <2>7. PICK t \in Nat : t = made[r][e].ts_end
    BY <2>6 DEF Entry
  <2>8. curr_ts_end[w] = redis[e]
    BY <2>1, <2>3 DEF ReadInv
  <2>9. /\ redis' = IF redis[e] < t THEN [redis EXCEPT ![e] = t] ELSE redis
        /\ seen' = seen \cup {<<r, e>>}
    BY <1>3, <2>2, <2>3, <2>7, <2>8 DEF redis_set
  <2>10. /\ \A d \in Dsts : redis'[d] >= redis[d]
         /\ redis'[e] >= t
    BY <1>1, <2>4, <2>9
  <2>11. ASSUME NEW s \in seen', s \notin seen
         PROVE  s[1] \in DOMAIN made /\ s[2] \in DOMAIN made[s[1]]
                  /\ redis'[s[2]] >= made[s[1]][s[2]].ts_end
    <3>1. s = <<r, e>>
      BY <2>9, <2>11
    <3>2. s[1] = r /\ s[2] = e
      BY <3>1
    <3> QED
      BY <2>4, <2>7, <2>10, <3>2
  <2> QED
    BY <2>10, <2>11
<1> QED
  BY <1>2, <1>3 DEF Next, SenderSteps, LoopSteps, WorkerSteps, Count, Report, read_messages,
     Send, GetReply,
     TimeOut, SendFails, Stop, CheckThread, StartThread, Flap, Receive, redis_get, LineFails,
     Reply, vars

LEMMA ShownStep ==
    ASSUME ReportTypes, ReportTypes', TypeOK, JobInv, SeenInv, ReadInv, ShownIsNewest, [Next]_vars
    PROVE  ShownIsNewest'
<1>1. SUFFICES ASSUME NEW s \in seen' PROVE redis'[s[2]] >= made'[s[1]][s[2]].ts_end
  BY DEF ShownIsNewest
<1>2. Grows
  BY MadeGrows
<1>3. CASE s \in seen
  <2>0. PICK r \in DOMAIN made : \E d \in DOMAIN made[r] : s = <<r, d>>
    BY <1>3 DEF SeenInv
  <2>1. PICK d \in DOMAIN made[r] : s = <<r, d>>
    BY <2>0
  <2>2. s[1] = r /\ s[2] = d
    BY <2>1
  <2>3. made[r] \in Windows /\ made'[r] = made[r]
    BY <1>2, MadeGrows, ElementOfSeq DEF Grows, ReportTypes
  <2>4. d \in Dsts /\ made[r][d] \in Entry
    BY <2>3, WindowTyped
  <2>5. made[r][d].ts_end \in Int /\ redis[d] \in Int /\ redis'[d] \in Int
    BY <2>4 DEF Entry, ReportTypes
  <2>6. redis[d] >= made[r][d].ts_end
    BY <1>3, <2>2 DEF ShownIsNewest
  <2>7. redis'[d] >= redis[d]
    BY <2>4, RedisGrows
  <2> QED
    BY <2>2, <2>3, <2>5, <2>6, <2>7
<1>4. CASE s \notin seen
  <2>1. s[1] \in DOMAIN made /\ redis'[s[2]] >= made[s[1]][s[2]].ts_end
    BY <1>4, RedisGrows
  <2> QED
    BY <1>2, <2>1 DEF Grows
<1> QED
  BY <1>3, <1>4

-----------------------------------------------------------------------------
(* The theorems.                                                           *)

LEMMA PathInit == Init => PathInv /\ SentInv /\ NothingVanishes /\ ShownInv
<1> SUFFICES ASSUME Init PROVE PathInv /\ SentInv /\ NothingVanishes /\ ShownInv
  OBVIOUS
<1>1. /\ dstip2result = <<>> /\ made = <<>> /\ ring = <<>> /\ msgs = <<>> /\ spc = "dead"
      /\ late = {} /\ running = FALSE /\ stop_event = FALSE /\ up = TRUE
      /\ inbox = {} /\ replied = {} /\ lost = {} /\ seen = {} /\ pending = Pings
      /\ wpc = [w \in Workers |-> "recv"]
  BY DEF Init
<1>2. DOMAIN made = {} /\ DOMAIN dstip2result = {} /\ ToSet(ring) = {} /\ ToSet(msgs) = {}
      /\ Len(ring) = 0
  BY <1>1 DEF ToSet
<1>3. ReportTypes
  <2>1. dstip2result \in Windows
    <3>1. dstip2result \in [{} -> Entry]
      BY <1>1
    <3> QED
      BY <1>2, <3>1, WindowTyped
  <2>2. made \in Seq(Windows) /\ ring \in Seq(Nat) /\ msgs \in Seq(Nat)
    BY <1>1
  <2>3. /\ job \in [Workers -> Nat] /\ todo \in [Workers -> SUBSET Dsts]
        /\ curr_ts_end \in [Workers -> Int] /\ redis \in [Dsts -> Int]
    BY DEF Init, NoTime
  <2> QED
    BY <2>1, <2>2, <2>3 DEF ReportTypes
<1> HIDE DEF ToSet
<1>4. TypeOK
  <2>1. {up, running, stop_event} \subseteq BOOLEAN
    BY <1>1
  <2> QED
    BY <1>1, <1>2, <2>1, ReportAssumption DEF TypeOK
<1>5. JobInv
  BY <1>1 DEF JobInv
<1>6. CountedOnce
  <2>1. PingsOf(dstip2result) = {} /\ UNION {PingsOf(made[r]) : r \in DOMAIN made} = {}
    BY <1>2 DEF PingsOf
  <2> QED
    BY <1>1, <1>2, <2>1 DEF CountedOnce
<1>7. SentInv /\ NothingVanishes
  BY <1>1, <1>2 DEF SentInv, NothingVanishes
<1>8. ShownInv
  BY <1>1 DEF ShownInv, SeenInv, ReadInv, ShownIsNewest
<1> QED
  BY <1>3, <1>4, <1>5, <1>6, <1>7, <1>8 DEF PathInv

\* The inductive invariant, which no step of client, sender or collector breaks.
THEOREM PathInvariant == Spec => [](PathInv /\ SentInv /\ NothingVanishes)
<1>1. PathInv /\ SentInv /\ NothingVanishes /\ [Next]_vars
        => (PathInv /\ SentInv /\ NothingVanishes)'
  <2> SUFFICES ASSUME PathInv, SentInv, NothingVanishes, [Next]_vars
               PROVE  PathInv' /\ SentInv' /\ NothingVanishes'
    OBVIOUS
  <2>1. ReportTypes /\ TypeOK /\ JobInv /\ CountedOnce
    BY DEF PathInv
  <2>2. ReportTypes' /\ TypeOK' /\ JobInv' /\ CountedOnce'
    BY <2>1, TypesStep, TypeOKStep, JobStep, CountedStep
  <2>3. SentInv' /\ NothingVanishes'
    BY <2>1, VanishStep
  <2> QED
    BY <2>2, <2>3 DEF PathInv
<1> QED
  BY PathInit, <1>1, PTL DEF Spec

\* Every result that was taken is in the window or in exactly one report, also
\* when the ring was full (the result threads); and sender and workers are only
\* at reports that were written.
THEOREM ReportCorrect == Spec => []ReportInv
<1>1. PathInv => ReportInv
  BY DEF PathInv, ReportInv
<1> QED
  BY PathInvariant, <1>1, PTL

\* A report that was written is in the ring, with the sender, on its way, with a
\* worker or answered, unless it was lost to a full ring or to a sender thread
\* that ended (send_result_to_http, send_result_to_zmq).
THEOREM ReportsAccounted == Spec => []NothingVanishes
BY PathInvariant, PTL

\* With one worker, as over HTTP, Redis shows the newest of the lines that were
\* compared (process_collected_message), for any number of destinations.
THEOREM ShownCorrect ==
    ASSUME \A v, w \in Workers : v = w
    PROVE  Spec => []ShownIsNewest
<1>1. PathInv /\ PathInv' /\ ShownInv /\ [Next]_vars => ShownInv'
  <2> SUFFICES ASSUME PathInv, PathInv', ShownInv, [Next]_vars PROVE ShownInv'
    OBVIOUS
  <2>1. /\ ReportTypes /\ TypeOK /\ JobInv /\ ReportTypes'
        /\ SeenInv /\ ReadInv /\ ShownIsNewest
    BY DEF PathInv, ShownInv
  <2>2. SeenInv' /\ ReadInv' /\ ShownIsNewest'
    BY <2>1, SeenStep, ReadStep, ShownStep
  <2> QED
    BY <2>2 DEF ShownInv
<1>2. ShownInv => ShownIsNewest
  BY DEF ShownInv
<1> QED
  BY PathInit, PathInvariant, <1>1, <1>2, PTL DEF Spec
=============================================================================
