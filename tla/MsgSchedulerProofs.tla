------------------------- MODULE MsgSchedulerProofs -------------------------
(***************************************************************************)
(* Proofs about MsgScheduler, for files of any length, any interval and    *)
(* any delay: the list a load makes has everyone it must have, once; it is *)
(* never older than MaxRetryLoad loads; and nobody on it is left out       *)
(* between two loads if a turn fits between them.                          *)
(*                                                                         *)
(* The first part is about data, the loops of load_address_info.  An       *)
(* induction over such a loop is done with the least counterexample.       *)
(***************************************************************************)
EXTENDS MsgScheduler, FiniteSets, SequenceTheorems, NaturalsInduction, WellFoundedInduction, TLAPS

\* A list is from the last load that could read the files, and every load since
\* then has been counted as a failure.
AgeIsCounted == addressInfo # <<>> => age <= load_yaml_retry_cnt

IndexInv == addressInfo # <<>> => addr_idx < Len(addressInfo)

FilesRead == from = <<>> \/ from \in Pinglists \X Stores

\* While a turn is not done, the ones before addr_idx were pinged, each at most
\* one interval and one delay after the one before.
Turn == inter_ping_interval_us + Late

TurnInv ==
    \/ ToSet(addressInfo) \subseteq served
    \/ /\ \A j \in 1 .. addr_idx : addressInfo[j] \in served
       /\ sinceLoad <= addr_idx * Turn + sincePing

PaceInv ==
    addressInfo # <<>> => sincePing + sleep <= inter_ping_interval_us + overslept

LoadInv == TypeOK /\ AgeIsCounted /\ IndexInv /\ FilesRead /\ ListIsRight

-----------------------------------------------------------------------------
(* Induction.                                                              *)

Below == {p \in Nat \X Nat : p[1] < p[2]}

LEMMA BelowWellFounded == IsWellFoundedOn(Below, Nat)
<1>1. OpToRel(<, Nat) = Below
  BY DEF OpToRel, Below
<1> QED
  BY <1>1, NatLessThanWellFounded

\* Every number is in S, if 0 is and S is closed under successors.
LEMMA Induction ==
    ASSUME NEW S, 0 \in S, \A n \in Nat : n \in S => n + 1 \in S
    PROVE  \A n \in Nat : n \in S
<1> SUFFICES ASSUME Nat \ S # {} PROVE FALSE
  OBVIOUS
<1>1. PICK d \in Nat \ S : \A e \in Nat \ S : ~(<<e, d>> \in Below)
  BY BelowWellFounded, WFMin
<1>2. d # 0 /\ d - 1 \in Nat
  BY <1>1
<1>3. d - 1 \in S
  <2>1. <<d - 1, d>> \in Nat \X Nat /\ <<d - 1, d>>[1] < <<d - 1, d>>[2]
    BY <1>1, <1>2
  <2>2. <<d - 1, d>> \in Below
    BY <2>1 DEF Below
  <2> QED
    BY <1>1, <1>2, <2>2
<1>4. (d - 1) + 1 = d
  BY <1>1
<1> QED
  BY <1>1, <1>2, <1>3, <1>4

-----------------------------------------------------------------------------
(* Deduplicated.                                                           *)

\* f has the lists after 0, 1, ... N turns of the loop.
Turns(s, N, f) ==
    f = [n \in 0 .. N |->
            IF n = 0 THEN <<>>
            ELSE IF Contains(f[n - 1], s[n]) THEN f[n - 1] ELSE Append(f[n - 1], s[n])]

LEMMA TurnsExist ==
    ASSUME NEW s
    PROVE  \A N \in Nat : \E f : Turns(s, N, f)
<1> DEFINE Done == {N \in Nat : \E f : Turns(s, N, f)}
<1>1. 0 \in Done
  <2>1. Turns(s, 0, [n \in 0 .. 0 |-> <<>>])
    BY DEF Turns
  <2> QED
    BY <2>1
<1>2. ASSUME NEW N \in Nat, N \in Done PROVE N + 1 \in Done
  <2>1. PICK f : Turns(s, N, f)
    BY <1>2
  <2> DEFINE more == IF Contains(f[N], s[N + 1]) THEN f[N] ELSE Append(f[N], s[N + 1])
  <2> DEFINE g == [n \in 0 .. N + 1 |-> IF n = N + 1 THEN more ELSE f[n]]
  <2>2. g[N + 1] = more /\ \A n \in 0 .. N : g[n] = f[n]
    OBVIOUS
  <2>3. ASSUME NEW n \in 0 .. N + 1
        PROVE  g[n] = IF n = 0 THEN <<>>
                      ELSE IF Contains(g[n - 1], s[n]) THEN g[n - 1] ELSE Append(g[n - 1], s[n])
    <3>1. CASE n = N + 1
      <4>1. g[n - 1] = f[N] /\ n # 0
        BY <3>1, <2>2
      <4> QED
        BY <4>1, <3>1, <2>2
    <3>2. CASE n \in 0 .. N
      <4>1. f[n] = IF n = 0 THEN <<>>
                   ELSE IF Contains(f[n - 1], s[n]) THEN f[n - 1] ELSE Append(f[n - 1], s[n])
        BY <2>1, <3>2 DEF Turns
      <4>2. n # 0 => g[n - 1] = f[n - 1]
        BY <3>2, <2>2
      <4> QED
        BY <4>1, <4>2, <3>2, <2>2
    <3> QED
      BY <3>1, <3>2
  <2>4. g = [n \in 0 .. N + 1 |-> g[n]]
    OBVIOUS
  <2> HIDE DEF g, more
  <2>5. Turns(s, N + 1, g)
    BY <2>3, <2>4 DEF Turns
  <2> QED
    BY <2>5
<1> HIDE DEF Done
<1>3. \A N \in Nat : N \in Done
  BY <1>1, <1>2, Induction
<1> QED
  BY <1>3 DEF Done

\* What the list is after n turns: everyone of the first n, once.
Collected(s, n, l) ==
    /\ \A x : Contains(l, x) <=> \E j \in 1 .. n : s[j] = x
    /\ \A i, j \in 1 .. Len(l) : l[i] = l[j] => i = j

LEMMA CollectedStep ==
    ASSUME NEW S, NEW s \in Seq(S), NEW n \in 1 .. Len(s), NEW l \in Seq(S),
           Collected(s, n - 1, l)
    PROVE  LET m == IF Contains(l, s[n]) THEN l ELSE Append(l, s[n])
           IN  m \in Seq(S) /\ Collected(s, n, m)
<1>1. s[n] \in S /\ \A x : (\E j \in 1 .. n : s[j] = x) <=> (s[n] = x \/ \E j \in 1 .. n - 1 : s[j] = x)
  OBVIOUS
<1>2. CASE Contains(l, s[n])
  <2>1. \A x : Contains(l, x) <=> \E j \in 1 .. n : s[j] = x
    BY <1>1, <1>2 DEF Collected
  <2> QED
    BY <1>2, <2>1 DEF Collected
<1>3. CASE ~Contains(l, s[n])
  <2> DEFINE m == Append(l, s[n])
  <2>1. /\ m \in Seq(S) /\ Len(m) = Len(l) + 1 /\ m[Len(l) + 1] = s[n]
        /\ \A i \in 1 .. Len(l) : m[i] = l[i]
    BY <1>1
  <2> HIDE DEF m
  <2>2. \A x : Contains(m, x) <=> (Contains(l, x) \/ x = s[n])
    BY <2>1 DEF Contains
  <2>3. \A x : Contains(m, x) <=> \E j \in 1 .. n : s[j] = x
    BY <1>1, <2>2 DEF Collected
  <2>4. \A i \in 1 .. Len(l) : l[i] # s[n]
    BY <1>3 DEF Contains
  <2>5. \A i, j \in 1 .. Len(m) : m[i] = m[j] => i = j
    <3> SUFFICES ASSUME NEW i \in 1 .. Len(m), NEW j \in 1 .. Len(m), m[i] = m[j] PROVE i = j
      OBVIOUS
    <3>1. CASE i \in 1 .. Len(l) /\ j \in 1 .. Len(l)
      BY <3>1, <2>1 DEF Collected
    <3>2. CASE i \notin 1 .. Len(l) \/ j \notin 1 .. Len(l)
      BY <3>2, <2>1, <2>4
    <3> QED
      BY <3>1, <3>2
  <2>6. Collected(s, n, m)
    BY <2>3, <2>5 DEF Collected
  <2> QED
    BY <1>3, <2>1, <2>6 DEF m
<1> QED
  BY <1>2, <1>3

LEMMA TurnsCollect ==
    ASSUME NEW S, NEW s \in Seq(S), NEW f, Turns(s, Len(s), f)
    PROVE  f[Len(s)] \in Seq(S) /\ Collected(s, Len(s), f[Len(s)])
<1> DEFINE Good == {n \in Nat : n <= Len(s) => f[n] \in Seq(S) /\ Collected(s, n, f[n])}
<1>0. Len(s) \in Nat
  OBVIOUS
<1>1. 0 \in Good
  <2>1. f[0] = <<>>
    BY <1>0 DEF Turns
  <2>2. <<>> \in Seq(S) /\ Collected(s, 0, <<>>)
    BY DEF Collected, Contains
  <2> QED
    BY <2>1, <2>2
<1>2. ASSUME NEW n \in Nat, n \in Good PROVE n + 1 \in Good
  <2>1. SUFFICES ASSUME n + 1 <= Len(s)
                 PROVE  f[n + 1] \in Seq(S) /\ Collected(s, n + 1, f[n + 1])
    OBVIOUS
  <2>2. f[n] \in Seq(S) /\ Collected(s, n, f[n])
    BY <1>0, <1>2, <2>1
  <2>3. n + 1 \in 1 .. Len(s) /\ n + 1 \in 0 .. Len(s) /\ (n + 1) - 1 = n /\ n + 1 # 0
    BY <1>0, <2>1
  <2>4. f[n + 1] = IF Contains(f[n], s[n + 1]) THEN f[n] ELSE Append(f[n], s[n + 1])
    BY <2>3 DEF Turns
  <2> QED
    BY <2>2, <2>3, <2>4, CollectedStep
<1> HIDE DEF Good
<1>3. Len(s) \in Good
  BY <1>0, <1>1, <1>2, Induction
<1> QED
  BY <1>0, <1>3 DEF Good

LEMMA DeduplicatedIsRight ==
    ASSUME NEW S, NEW s \in Seq(S)
    PROVE  /\ Deduplicated(s) \in Seq(S)
           /\ ToSet(Deduplicated(s)) = ToSet(s)
           /\ IsInjective(Deduplicated(s))
<1> DEFINE f == CHOOSE f : Turns(s, Len(s), f)
<1>1. Turns(s, Len(s), f)
  BY TurnsExist
<1>2. Deduplicated(s) = f[Len(s)]
  BY DEF Deduplicated, Turns
<1> HIDE DEF f
<1>3. Deduplicated(s) \in Seq(S) /\ Collected(s, Len(s), Deduplicated(s))
  BY <1>1, <1>2, TurnsCollect
<1>4. PICK l \in Seq(S) : l = Deduplicated(s)
  BY <1>3
<1>5. \A x : (x \in ToSet(l) <=> Contains(l, x)) /\ (x \in ToSet(s) <=> \E j \in 1 .. Len(s) : s[j] = x)
  BY DEF ToSet, Contains
<1>6. ToSet(l) = ToSet(s)
  BY <1>3, <1>4, <1>5 DEF Collected
<1>7. IsInjective(l)
  BY <1>3, <1>4 DEF Collected, IsInjective
<1> QED
  BY <1>4, <1>6, <1>7

-----------------------------------------------------------------------------
(* FlattenSeq, as the loops over groups and over the address store use it. *)

\* f has the concatenations of the first 1, 2, ... N parts.
Joins(ps, N, f) ==
    f = [i \in 1 .. N |-> IF i = 1 THEN ps[i] ELSE f[i - 1] \o ps[i]]

LEMMA JoinsExist ==
    ASSUME NEW ps
    PROVE  \A N \in Nat : \E f : Joins(ps, N, f)
<1> DEFINE Done == {N \in Nat : \E f : Joins(ps, N, f)}
<1>1. 0 \in Done
  <2>1. Joins(ps, 0, [n \in 1 .. 0 |-> <<>>])
    BY DEF Joins
  <2> QED
    BY <2>1
<1>2. ASSUME NEW N \in Nat, N \in Done PROVE N + 1 \in Done
  <2>1. PICK f : Joins(ps, N, f)
    BY <1>2
  <2> DEFINE more == IF N = 0 THEN ps[N + 1] ELSE f[N] \o ps[N + 1]
  <2> DEFINE g == [n \in 1 .. N + 1 |-> IF n = N + 1 THEN more ELSE f[n]]
  <2>2. g[N + 1] = more /\ \A n \in 1 .. N : g[n] = f[n]
    <3> HIDE DEF more
    <3>1. N + 1 \in 1 .. N + 1 /\ \A n \in 1 .. N : n \in 1 .. N + 1 /\ n # N + 1
      OBVIOUS
    <3> QED
      BY <3>1
  <2>3. ASSUME NEW n \in 1 .. N + 1
        PROVE  g[n] = IF n = 1 THEN ps[n] ELSE g[n - 1] \o ps[n]
    <3>1. CASE n = N + 1
      <4>1. n # 1 => g[n - 1] = f[N]
        BY <3>1, <2>2
      <4> QED
        BY <4>1, <3>1, <2>2
    <3>2. CASE n \in 1 .. N
      <4>1. f[n] = IF n = 1 THEN ps[n] ELSE f[n - 1] \o ps[n]
        BY <2>1, <3>2 DEF Joins
      <4>2. n # 1 => g[n - 1] = f[n - 1]
        BY <3>2, <2>2
      <4> QED
        BY <4>1, <4>2, <3>2, <2>2
    <3> QED
      BY <3>1, <3>2
  <2>4. g = [n \in 1 .. N + 1 |-> g[n]]
    OBVIOUS
  <2> HIDE DEF g, more
  <2>5. Joins(ps, N + 1, g)
    BY <2>3, <2>4 DEF Joins
  <2> QED
    BY <2>5
<1> HIDE DEF Done
<1>3. \A N \in Nat : N \in Done
  BY <1>1, <1>2, Induction
<1> QED
  BY <1>3 DEF Done

\* Concatenation has the elements of both.
LEMMA ContainsConcat ==
    ASSUME NEW S, NEW s \in Seq(S), NEW t \in Seq(S)
    PROVE  /\ s \o t \in Seq(S)
           /\ \A x : Contains(s \o t, x) <=> Contains(s, x) \/ Contains(t, x)
<1>1. /\ s \o t \in Seq(S) /\ Len(s \o t) = Len(s) + Len(t)
      /\ \A i \in 1 .. Len(s) : (s \o t)[i] = s[i]
      /\ \A i \in 1 .. Len(t) : (s \o t)[Len(s) + i] = t[i]
  OBVIOUS
<1>2. Len(s) \in Nat /\ Len(t) \in Nat
  OBVIOUS
<1>3. PICK u \in Seq(S) : u = s \o t
  BY <1>1
<1>4. ASSUME NEW x, Contains(u, x) PROVE Contains(s, x) \/ Contains(t, x)
  <2>1. PICK i \in 1 .. Len(u) : u[i] = x
    BY <1>4 DEF Contains
  <2>2. CASE i <= Len(s)
    BY <2>1, <2>2, <1>1, <1>2, <1>3 DEF Contains
  <2>3. CASE i > Len(s)
    <3>1. i - Len(s) \in 1 .. Len(t) /\ Len(s) + (i - Len(s)) = i
      BY <2>3, <1>1, <1>2, <1>3
    <3>2. t[i - Len(s)] = x
      BY <3>1, <1>1, <1>3, <2>1
    <3> QED
      BY <3>1, <3>2 DEF Contains
  <2> QED
    BY <2>2, <2>3, <1>2
<1>5. ASSUME NEW x, Contains(s, x) \/ Contains(t, x) PROVE Contains(u, x)
  <2>1. CASE Contains(s, x)
    <3>1. PICK i \in 1 .. Len(s) : s[i] = x
      BY <2>1 DEF Contains
    <3>2. i \in 1 .. Len(u) /\ u[i] = x
      BY <3>1, <1>1, <1>2, <1>3
    <3> QED
      BY <3>2 DEF Contains
  <2>2. CASE Contains(t, x)
    <3>1. PICK i \in 1 .. Len(t) : t[i] = x
      BY <2>2 DEF Contains
    <3>2. Len(s) + i \in 1 .. Len(u) /\ u[Len(s) + i] = x
      BY <3>1, <1>1, <1>2, <1>3
    <3> QED
      BY <3>2 DEF Contains
  <2> QED
    BY <1>5, <2>1, <2>2
<1> QED
  BY <1>1, <1>3, <1>4, <1>5

LEMMA JoinsJoin ==
    ASSUME NEW S, NEW ps \in Seq(Seq(S)), NEW f, Joins(ps, Len(ps), f), Len(ps) # 0
    PROVE  /\ f[Len(ps)] \in Seq(S)
           /\ \A x : Contains(f[Len(ps)], x) <=> \E j \in 1 .. Len(ps) : Contains(ps[j], x)
<1> DEFINE Good == {n \in Nat : n + 1 <= Len(ps) =>
                       /\ f[n + 1] \in Seq(S)
                       /\ \A x : Contains(f[n + 1], x) <=> \E j \in 1 .. n + 1 : Contains(ps[j], x)}
<1>0. Len(ps) \in Nat /\ \A i \in 1 .. Len(ps) : ps[i] \in Seq(S)
  OBVIOUS
<1>1. 0 \in Good
  <2>1. f[1] = ps[1] /\ ps[1] \in Seq(S)
    BY <1>0 DEF Joins
  <2> QED
    BY <2>1
<1>2. ASSUME NEW n \in Nat, n \in Good PROVE n + 1 \in Good
  <2>1. SUFFICES ASSUME (n + 1) + 1 <= Len(ps)
                 PROVE  /\ f[(n + 1) + 1] \in Seq(S)
                        /\ \A x : Contains(f[(n + 1) + 1], x) <=>
                                  \E j \in 1 .. (n + 1) + 1 : Contains(ps[j], x)
    OBVIOUS
  <2>2. PICK m \in Nat : m = n + 2
    OBVIOUS
  <2>3. m = (n + 1) + 1 /\ m - 1 = n + 1 /\ m \in 1 .. Len(ps) /\ m # 1
    BY <1>0, <2>1, <2>2
  <2>4. /\ f[m - 1] \in Seq(S)
        /\ \A x : Contains(f[m - 1], x) <=> \E j \in 1 .. m - 1 : Contains(ps[j], x)
    BY <1>0, <1>2, <2>1, <2>3
  <2>5. f[m] = f[m - 1] \o ps[m]
    BY <2>3 DEF Joins
  <2>6. /\ f[m] \in Seq(S)
        /\ \A x : Contains(f[m], x) <=> Contains(f[m - 1], x) \/ Contains(ps[m], x)
    BY <1>0, <2>3, <2>4, <2>5, ContainsConcat
  <2>7. \A x : (\E j \in 1 .. m : Contains(ps[j], x)) <=>
               (Contains(ps[m], x) \/ \E j \in 1 .. m - 1 : Contains(ps[j], x))
    BY <2>3
  <2>8. \A x : Contains(f[m], x) <=> \E j \in 1 .. m : Contains(ps[j], x)
    BY <2>4, <2>6, <2>7
  <2> QED
    BY <2>3, <2>6, <2>8
<1> HIDE DEF Good
<1>3. Len(ps) - 1 \in Nat /\ (Len(ps) - 1) + 1 = Len(ps)
  BY <1>0
<1>4. Len(ps) - 1 \in Good
  BY <1>3, <1>1, <1>2, Induction
<1> QED
  BY <1>0, <1>3, <1>4 DEF Good

LEMMA FlattenIsRight ==
    ASSUME NEW S, NEW ps \in Seq(Seq(S))
    PROVE  /\ FlattenSeq(ps) \in Seq(S)
           /\ \A x : Contains(FlattenSeq(ps), x) <=> \E j \in 1 .. Len(ps) : Contains(ps[j], x)
<1>0. Len(ps) \in Nat
  OBVIOUS
<1>1. CASE Len(ps) = 0
  <2>1. FlattenSeq(ps) = ps
    BY <1>1 DEF FlattenSeq
  <2>2. ps = <<>>
    BY <1>1
  <2> QED
    BY <2>1, <2>2 DEF Contains
<1>2. CASE Len(ps) # 0
  <2> DEFINE f == CHOOSE f : Joins(ps, Len(ps), f)
  <2>1. Joins(ps, Len(ps), f)
    BY <1>0, JoinsExist
  <2>2. FlattenSeq(ps) = f[Len(ps)]
    BY <1>2 DEF FlattenSeq, Joins
  <2> HIDE DEF f
  <2> QED
    BY <1>2, <2>1, <2>2, JoinsJoin
<1> QED
  BY <1>1, <1>2

-----------------------------------------------------------------------------
(* The list of a load without errors.                                      *)

LEMMA SeqTyped ==
    ASSUME NEW S, NEW s \in Seq(S)
    PROVE  Len(s) \in Nat /\ DOMAIN s = 1 .. Len(s) /\ \A i \in 1 .. Len(s) : s[i] \in S
OBVIOUS

LEMMA FunctionIsSeq ==
    ASSUME NEW S, NEW n \in Nat, NEW f \in [1 .. n -> S]
    PROVE  f \in Seq(S) /\ Len(f) = n
OBVIOUS

LEMMA ContainsIsIn ==
    ASSUME NEW S, NEW s \in Seq(S)
    PROVE  \A x : Contains(s, x) <=> x \in ToSet(s)
BY DEF Contains, ToSet

InMesh(p) == UNION {ToSet(g) : g \in {h \in ToSet(p.mesh) : Me \in ToSet(h)}}
InArrow(p) == UNION {ToSet(g.dst) : g \in {h \in ToSet(p.arrow) : Me \in ToSet(h.src)}}

LEMMA MeshIpsAreRight ==
    ASSUME NEW p \in Pinglists
    PROVE  MeshIps(p) \in Seq(Addresses) /\ \A x : Contains(MeshIps(p), x) <=> x \in InMesh(p)
<1>1. p.mesh \in Seq(Seq(Addresses))
  BY SchedulerAssumption
<1>2. PICK m \in Seq(Seq(Addresses)) : m = p.mesh
  BY <1>1
<1> DEFINE ps == [i \in DOMAIN m |-> IF Contains(m[i], Me) THEN m[i] ELSE <<>>]
<1>3. /\ ps \in Seq(Seq(Addresses)) /\ Len(ps) = Len(m)
      /\ \A i \in 1 .. Len(m) : m[i] \in Seq(Addresses)
      /\ \A i \in 1 .. Len(m) : ps[i] = IF Contains(m[i], Me) THEN m[i] ELSE <<>>
  <2>1. Len(m) \in Nat /\ DOMAIN m = 1 .. Len(m) /\ \A i \in 1 .. Len(m) : m[i] \in Seq(Addresses)
    BY SeqTyped
  <2>2. \A i \in 1 .. Len(m) : (IF Contains(m[i], Me) THEN m[i] ELSE <<>>) \in Seq(Addresses)
    BY <2>1
  <2>3. ps \in [1 .. Len(m) -> Seq(Addresses)]
    BY <2>1, <2>2
  <2>4. \A i \in 1 .. Len(m) : ps[i] = IF Contains(m[i], Me) THEN m[i] ELSE <<>>
    BY <2>1
  <2> HIDE DEF ps
  <2> QED
    BY <2>1, <2>3, <2>4, FunctionIsSeq
<1>4. MeshIps(p) = FlattenSeq(ps)
  BY <1>2 DEF MeshIps
<1> HIDE DEF ps
<1>5. /\ MeshIps(p) \in Seq(Addresses)
      /\ \A x : Contains(MeshIps(p), x) <=> \E j \in 1 .. Len(m) : Contains(ps[j], x)
  BY <1>3, <1>4, FlattenIsRight
<1>6. \A x : ~Contains(<<>>, x)
  BY DEF Contains
<1>7. \A i \in 1 .. Len(m) : \A x : Contains(m[i], x) <=> x \in ToSet(m[i])
  BY <1>3, ContainsIsIn
<1>8. \A x : (\E j \in 1 .. Len(m) : Contains(ps[j], x))
             <=> \E j \in 1 .. Len(m) : Me \in ToSet(m[j]) /\ x \in ToSet(m[j])
  BY <1>3, <1>6, <1>7
<1>9. ToSet(m) = {m[j] : j \in 1 .. Len(m)}
  BY DEF ToSet
<1>10. \A x : x \in InMesh(p) <=> \E j \in 1 .. Len(m) : Me \in ToSet(m[j]) /\ x \in ToSet(m[j])
  BY <1>2, <1>9 DEF InMesh
<1> QED
  BY <1>5, <1>8, <1>10

LEMMA ArrowIpsAreRight ==
    ASSUME NEW p \in Pinglists
    PROVE  ArrowIps(p) \in Seq(Addresses) /\ \A x : Contains(ArrowIps(p), x) <=> x \in InArrow(p)
<1> DEFINE Group == [src : Seq(Addresses), dst : Seq(Addresses)]
<1>1. p.arrow \in Seq(Group)
  BY SchedulerAssumption
<1>2. PICK m \in Seq(Group) : m = p.arrow
  BY <1>1
<1>3. \A i \in 1 .. Len(m) : m[i].src \in Seq(Addresses) /\ m[i].dst \in Seq(Addresses)
  <2>1. \A i \in 1 .. Len(m) : m[i] \in Group
    <3> HIDE DEF Group
    <3> QED
      BY SeqTyped
  <2> QED
    BY <2>1
<1> DEFINE ps == [i \in DOMAIN m |-> IF Contains(m[i].src, Me) THEN m[i].dst ELSE <<>>]
<1>4. /\ ps \in Seq(Seq(Addresses)) /\ Len(ps) = Len(m)
      /\ \A i \in 1 .. Len(m) : ps[i] = IF Contains(m[i].src, Me) THEN m[i].dst ELSE <<>>
  <2>1. DOMAIN m = 1 .. Len(m) /\ Len(m) \in Nat
    <3> HIDE DEF Group
    <3> QED
      BY SeqTyped
  <2>2. \A i \in 1 .. Len(m) : (IF Contains(m[i].src, Me) THEN m[i].dst ELSE <<>>) \in Seq(Addresses)
    BY <1>3
  <2>3. ps \in [1 .. Len(m) -> Seq(Addresses)]
    BY <2>1, <2>2
  <2>4. \A i \in 1 .. Len(m) : ps[i] = IF Contains(m[i].src, Me) THEN m[i].dst ELSE <<>>
    BY <2>1
  <2> HIDE DEF Group, ps
  <2> QED
    BY <2>1, <2>3, <2>4, FunctionIsSeq
<1>5. ArrowIps(p) = FlattenSeq(ps)
  BY <1>2 DEF ArrowIps
<1> HIDE DEF ps
<1>6. /\ ArrowIps(p) \in Seq(Addresses)
      /\ \A x : Contains(ArrowIps(p), x) <=> \E j \in 1 .. Len(m) : Contains(ps[j], x)
  BY <1>4, <1>5, FlattenIsRight
<1>7. \A x : ~Contains(<<>>, x)
  BY DEF Contains
<1>8. \A i \in 1 .. Len(m) : /\ \A x : Contains(m[i].src, x) <=> x \in ToSet(m[i].src)
                             /\ \A x : Contains(m[i].dst, x) <=> x \in ToSet(m[i].dst)
  BY <1>3, ContainsIsIn
<1>9. \A x : (\E j \in 1 .. Len(m) : Contains(ps[j], x))
             <=> \E j \in 1 .. Len(m) : Me \in ToSet(m[j].src) /\ x \in ToSet(m[j].dst)
  BY <1>4, <1>7, <1>8
<1>10. ToSet(m) = {m[j] : j \in 1 .. Len(m)}
  BY DEF ToSet
<1>11. \A x : x \in InArrow(p) <=>
             \E j \in 1 .. Len(m) : Me \in ToSet(m[j].src) /\ x \in ToSet(m[j].dst)
  <2>1. InArrow(p) = UNION {ToSet(g.dst) : g \in {h \in ToSet(m) : Me \in ToSet(h.src)}}
    BY <1>2 DEF InArrow
  <2>2. \A x : x \in InArrow(p) <=> \E g \in ToSet(m) : Me \in ToSet(g.src) /\ x \in ToSet(g.dst)
    BY <2>1
  <2> QED
    BY <2>2, <1>10
<1> QED
  BY <1>6, <1>9, <1>11

LEMMA KnownAreRight ==
    ASSUME addressStore \in Stores, NEW ips \in Seq(Addresses)
    PROVE  /\ Known(ips) \in Seq(Addresses)
           /\ \A x : Contains(Known(ips), x) <=> x \in ToSet(addressStore.ips) /\ Contains(ips, x)
<1>1. addressStore.ips \in Seq(Addresses)
  BY SchedulerAssumption
<1>2. PICK m \in Seq(Addresses) : m = addressStore.ips
  BY <1>1
<1> DEFINE ps == [i \in DOMAIN m |-> IF Contains(ips, m[i]) THEN <<m[i]>> ELSE <<>>]
<1>3. /\ ps \in Seq(Seq(Addresses)) /\ Len(ps) = Len(m)
      /\ \A i \in 1 .. Len(m) : ps[i] = IF Contains(ips, m[i]) THEN <<m[i]>> ELSE <<>>
  <2>1. Len(m) \in Nat /\ DOMAIN m = 1 .. Len(m) /\ \A i \in 1 .. Len(m) : m[i] \in Addresses
    BY SeqTyped
  <2>2. \A i \in 1 .. Len(m) : (IF Contains(ips, m[i]) THEN <<m[i]>> ELSE <<>>) \in Seq(Addresses)
    BY <2>1
  <2>3. ps \in [1 .. Len(m) -> Seq(Addresses)]
    BY <2>1, <2>2
  <2>4. \A i \in 1 .. Len(m) : ps[i] = IF Contains(ips, m[i]) THEN <<m[i]>> ELSE <<>>
    BY <2>1
  <2> HIDE DEF ps
  <2> QED
    BY <2>1, <2>3, <2>4, FunctionIsSeq
<1>4. Known(ips) = FlattenSeq(ps)
  BY <1>2 DEF Known
<1> HIDE DEF ps
<1>5. /\ Known(ips) \in Seq(Addresses)
      /\ \A x : Contains(Known(ips), x) <=> \E j \in 1 .. Len(m) : Contains(ps[j], x)
  BY <1>3, <1>4, FlattenIsRight
<1>6. \A x : ~Contains(<<>>, x)
  BY DEF Contains
<1>7. \A x, y : Contains(<<y>>, x) <=> x = y
  BY DEF Contains
<1>8. \A x : (\E j \in 1 .. Len(m) : Contains(ps[j], x))
             <=> \E j \in 1 .. Len(m) : Contains(ips, m[j]) /\ x = m[j]
  <2>1. \A j \in 1 .. Len(m) : \A x : Contains(ps[j], x) <=> Contains(ips, m[j]) /\ x = m[j]
    <3> SUFFICES ASSUME NEW j \in 1 .. Len(m), NEW x
                 PROVE  Contains(ps[j], x) <=> Contains(ips, m[j]) /\ x = m[j]
      OBVIOUS
    <3>1. CASE Contains(ips, m[j])
      <4>1. ps[j] = <<m[j]>>
        BY <1>3, <3>1
      <4> QED
        BY <4>1, <3>1, <1>7
    <3>2. CASE ~Contains(ips, m[j])
      <4>1. ps[j] = <<>>
        BY <1>3, <3>2
      <4> QED
        BY <4>1, <3>2, <1>6
    <3> QED
      BY <3>1, <3>2
  <2> QED
    BY <2>1
<1>9. \A x : x \in ToSet(m) <=> \E j \in 1 .. Len(m) : x = m[j]
  BY DEF ToSet
<1> QED
  BY <1>2, <1>5, <1>8, <1>9

LEMMA TcpUdpIsRight ==
    ASSUME NEW p \in Pinglists, pinglist = p
    PROVE  /\ TcpUdpAddressInfo \in Seq(Addresses) /\ IsInjective(TcpUdpAddressInfo)
           /\ ToSet(TcpUdpAddressInfo) = InMesh(p) \cup InArrow(p)
<1>1. PICK a \in Seq(Addresses) : a = MeshIps(p) /\ \A x : Contains(a, x) <=> x \in InMesh(p)
  BY MeshIpsAreRight
<1>2. PICK b \in Seq(Addresses) : b = ArrowIps(p) /\ \A x : Contains(b, x) <=> x \in InArrow(p)
  BY ArrowIpsAreRight
<1>3. PICK c \in Seq(Addresses) :
         c = a \o b /\ \A x : Contains(c, x) <=> x \in InMesh(p) \/ x \in InArrow(p)
  BY <1>1, <1>2, ContainsConcat
<1>4. ToSet(c) = InMesh(p) \cup InArrow(p)
  BY <1>3, ContainsIsIn
<1>5. TcpUdpAddressInfo = Deduplicated(c)
  BY <1>1, <1>2, <1>3 DEF TcpUdpAddressInfo
<1> QED
  BY <1>4, <1>5, DeduplicatedIsRight

LEMMA RdmaIsRight ==
    ASSUME NEW p \in Pinglists, pinglist = p, NEW s \in Stores, addressStore = s
    PROVE  /\ RdmaAddressInfo \in Seq(Addresses) /\ IsInjective(RdmaAddressInfo)
           /\ p.meshOk /\ p.arrowOk =>
                 ToSet(RdmaAddressInfo) = {ip \in InMesh(p) \cup InArrow(p) : ip \in ToSet(s.ips)}
<1> DEFINE A(x) == x \in ToSet(s.ips) /\ x \in InMesh(p)
<1> DEFINE B(x) == x \in ToSet(s.ips) /\ x \in InArrow(p)
<1>0. <<>> \in Seq(Addresses)
  OBVIOUS
<1>1. MeshIps(p) \in Seq(Addresses) /\ \A x : Contains(MeshIps(p), x) <=> x \in InMesh(p)
  BY MeshIpsAreRight
<1>2. ArrowIps(p) \in Seq(Addresses) /\ \A x : Contains(ArrowIps(p), x) <=> x \in InArrow(p)
  BY ArrowIpsAreRight
<1>3. Known(MeshIps(p)) \in Seq(Addresses) /\ \A x : Contains(Known(MeshIps(p)), x) <=> A(x)
  BY <1>1, KnownAreRight
<1>4. Known(ArrowIps(p)) \in Seq(Addresses) /\ \A x : Contains(Known(ArrowIps(p)), x) <=> B(x)
  BY <1>2, KnownAreRight
<1>5. PICK a \in Seq(Addresses) : /\ a = IF p.meshOk THEN Known(MeshIps(p)) ELSE <<>>
                                  /\ p.meshOk => \A x : Contains(a, x) <=> A(x)
  BY <1>0, <1>3
<1>6. PICK b \in Seq(Addresses) : /\ b = IF p.arrowOk THEN Known(ArrowIps(p)) ELSE <<>>
                                  /\ p.arrowOk => \A x : Contains(b, x) <=> B(x)
  BY <1>0, <1>4
<1>7. PICK c \in Seq(Addresses) :
         c = a \o b /\ \A x : Contains(c, x) <=> Contains(a, x) \/ Contains(b, x)
  <2>1. /\ a \o b \in Seq(Addresses)
        /\ \A x : Contains(a \o b, x) <=> Contains(a, x) \/ Contains(b, x)
    BY ContainsConcat, Zenon
  <2> QED
    BY <2>1
<1>8. RdmaAddressInfo = Deduplicated(c)
  BY <1>5, <1>6, <1>7 DEF RdmaAddressInfo
<1>9. p.meshOk /\ p.arrowOk =>
         ToSet(c) = {ip \in InMesh(p) \cup InArrow(p) : ip \in ToSet(s.ips)}
  BY <1>5, <1>6, <1>7, ContainsIsIn
<1> QED
  BY <1>8, <1>9, DeduplicatedIsRight

LEMMA NewIsRight ==
    ASSUME TypeOK
    PROVE  /\ addressInfoNew \in Seq(Addresses) /\ IsInjective(addressInfoNew)
           /\ ~Incomplete => ToSet(addressInfoNew) = Targets(pinglist, addressStore)
<1>1. PICK p \in Pinglists : p = pinglist
  BY DEF TypeOK
<1>2. PICK s \in Stores : s = addressStore
  BY DEF TypeOK
<1>3. CASE rdma
  <2>1. addressInfoNew = RdmaAddressInfo
    BY <1>3 DEF addressInfoNew
  <2>2. Targets(pinglist, addressStore) = {ip \in InMesh(p) \cup InArrow(p) : ip \in ToSet(s.ips)}
    BY <1>1, <1>2, <1>3 DEF Targets, InMesh, InArrow
  <2>3. ~Incomplete => p.meshOk /\ p.arrowOk
    BY <1>1 DEF Incomplete
  <2> QED
    BY <1>1, <1>2, <2>1, <2>2, <2>3, RdmaIsRight
<1>4. CASE ~rdma
  <2>1. addressInfoNew = TcpUdpAddressInfo
    BY <1>4 DEF addressInfoNew
  <2>2. Targets(pinglist, addressStore) = InMesh(p) \cup InArrow(p)
    BY <1>1, <1>4 DEF Targets, InMesh, InArrow
  <2> QED
    BY <1>1, <2>1, <2>2, TcpUdpIsRight
<1> QED
  BY <1>3, <1>4

-----------------------------------------------------------------------------
(* What next does.                                                         *)

Loaded == IF Loads THEN load_address_info ELSE Keep
Due == sincePing >= Loaded.inter
Pings == Due /\ Len(Loaded.info) > 0
Index == IF Loads THEN 0 ELSE addr_idx

LEMMA LoadedTyped ==
    ASSUME TypeOK
    PROVE  /\ Loaded.info \in Seq(Addresses) /\ Loaded.inter \in Nat
           /\ Loaded.cnt \in 0 .. MaxRetryLoad - 1 /\ Loaded.new \in BOOLEAN
<1>1. PICK c \in 0 .. MaxRetryLoad - 1 : c = load_yaml_retry_cnt
  BY DEF TypeOK
<1>2. PICK a \in Seq(Addresses) : a = addressInfoNew
  BY NewIsRight
<1>3. PICK e \in Nat : e = IF a = <<>> THEN EmptyPace ELSE interval \div Len(a)
  <2>1. interval \in Nat /\ EmptyPace \in Nat
    BY SchedulerAssumption DEF TypeOK
  <2>2. a # <<>> => Len(a) \in Nat \ {0}
    OBVIOUS
  <2>3. \A i \in Nat, n \in Nat \ {0} : i \div n \in Nat
    OBVIOUS
  <2> QED
    BY <2>1, <2>2, <2>3
<1>4. PICK o \in Seq(Addresses) : o = addressInfo
  BY DEF TypeOK
<1>5. PICK i \in Nat : i = inter_ping_interval_us
  BY DEF TypeOK
<1>6. Keep = [info |-> o, inter |-> i, cnt |-> c, new |-> FALSE]
  BY <1>1, <1>4, <1>5 DEF Keep
<1>7. Renew = [info |-> a, inter |-> e, cnt |-> 0, new |-> TRUE]
  BY <1>2, <1>3 DEF Renew
<1> DEFINE Lists == [info : Seq(Addresses), inter : Nat, cnt : 0 .. MaxRetryLoad - 1, new : BOOLEAN]
<1>8. MaxRetryLoad \in Nat \ {0}
  BY SchedulerAssumption
<1>9. Keep \in Lists /\ Renew \in Lists
  BY <1>6, <1>7, <1>8
<1>10. \A l \in Lists : Failed(l) \in Lists
  <2> SUFFICES ASSUME NEW l \in Lists PROVE Failed(l) \in Lists
    OBVIOUS
  <2>1. /\ l = [info |-> l.info, inter |-> l.inter, cnt |-> l.cnt, new |-> l.new]
        /\ l.info \in Seq(Addresses) /\ l.inter \in Nat
        /\ l.cnt \in 0 .. MaxRetryLoad - 1 /\ l.new \in BOOLEAN
    OBVIOUS
  <2>2. CASE l.cnt + 1 >= MaxRetryLoad
    <3>1. Failed(l) = [info |-> <<>>, inter |-> l.inter, cnt |-> 0, new |-> l.new]
      BY <2>1, <2>2 DEF Failed
    <3> QED
      BY <2>1, <3>1, <1>8
  <2>3. CASE ~(l.cnt + 1 >= MaxRetryLoad)
    <3>1. Failed(l) = [info |-> l.info, inter |-> l.inter, cnt |-> l.cnt + 1, new |-> l.new]
      BY <2>1, <2>3 DEF Failed
    <3>2. l.cnt + 1 \in 0 .. MaxRetryLoad - 1
      BY <2>1, <2>3, <1>8
    <3> QED
      BY <2>1, <3>1, <3>2
  <2> QED
    BY <2>2, <2>3
<1>11. Loaded \in Lists
  BY <1>9, <1>10 DEF Loaded, load_address_info
<1> QED
  BY <1>11

\* A load either has read the files, or has counted a failure or cleared the list.
LEMMA LoadedIs ==
    ASSUME TypeOK
    PROVE  /\ Loaded.new => Loads
           /\ Loaded.new /\ ~Incomplete => Loaded.info = addressInfoNew
           /\ ~Loaded.new => Loaded.inter = inter_ping_interval_us
           /\ ~Loads => Loaded.info = addressInfo /\ Loaded.cnt = load_yaml_retry_cnt
           /\ Loads /\ ~Loaded.new =>
                 \/ Loaded.info = <<>>
                 \/ Loaded.info = addressInfo /\ Loaded.cnt = load_yaml_retry_cnt + 1
<1>1. /\ Keep.info = addressInfo /\ Keep.inter = inter_ping_interval_us
      /\ Keep.cnt = load_yaml_retry_cnt /\ Keep.new = FALSE
  BY DEF Keep
<1>2. Renew.info = addressInfoNew /\ Renew.new = TRUE
  BY DEF Renew
<1>3. /\ Failed(Keep).new = FALSE /\ Failed(Keep).inter = inter_ping_interval_us
      /\ \/ Failed(Keep).info = <<>>
         \/ Failed(Keep).info = addressInfo /\ Failed(Keep).cnt = load_yaml_retry_cnt + 1
  BY <1>1 DEF Failed, Keep
<1>4. Failed(Renew).new = TRUE
  BY <1>2 DEF Failed, Renew
<1>5. CASE ~Loads
  <2>1. Loaded = Keep
    BY <1>5 DEF Loaded
  <2> QED
    BY <1>1, <1>5, <2>1
<1>6. CASE Loads /\ Unreadable
  <2>1. Loaded = Failed(Keep)
    BY <1>6 DEF Loaded, load_address_info
  <2> QED
    BY <1>3, <1>6, <2>1
<1>7. CASE Loads /\ ~Unreadable /\ Incomplete
  <2>1. Loaded = Failed(Renew)
    BY <1>7 DEF Loaded, load_address_info
  <2> QED
    BY <1>4, <1>7, <2>1
<1>8. CASE Loads /\ ~Unreadable /\ ~Incomplete
  <2>1. Loaded = Renew
    BY <1>8 DEF Loaded, load_address_info
  <2> QED
    BY <1>2, <1>8, <2>1
<1> QED
  BY <1>5, <1>6, <1>7, <1>8

LEMMA NextSays ==
    ASSUME next
    PROVE  /\ sleep = 0
           /\ addressInfo' = Loaded.info /\ load_yaml_retry_cnt' = Loaded.cnt
           /\ inter_ping_interval_us' = Loaded.inter
           /\ addr_idx' = IF Pings THEN Advance(Index, Len(Loaded.info)) ELSE Index
           /\ served' = (IF Loads THEN {} ELSE served)
                        \cup (IF Pings THEN {Loaded.info[(Index % Len(Loaded.info)) + 1]} ELSE {})
           /\ age' = IF ~Loads THEN age ELSE IF Loaded.new THEN 0
                     ELSE IF age < MaxRetryLoad THEN age + 1 ELSE age
           /\ from' = IF ~Loads \/ (Loaded.info = addressInfo /\ ~Loaded.new) THEN from
                      ELSE IF Loaded.new /\ ~Incomplete THEN <<pinglist, addressStore>> ELSE <<>>
           /\ sinceLoad' = IF Loads THEN 0 ELSE sinceLoad
           /\ sincePing' = IF Due THEN 0 ELSE sincePing
           /\ sleep' = IF Pings THEN 0 ELSE IF ~Due THEN Loaded.inter - sincePing
                     ELSE IF rdma THEN EmptyPace ELSE EmptySleep
           /\ overslept' = 0
           /\ UNCHANGED <<setup, files>>
BY DEF next, Loaded, Due, Pings, Index

LEMMA IndexMoves ==
    ASSUME TypeOK, IndexInv, next
    PROVE  LET n == Len(Loaded.info)
           IN  /\ n \in Nat /\ Index \in Nat /\ (n > 0 => Index < n) /\ (n = 0 => Index = 0)
               /\ ~Pings => addr_idx' = Index
               /\ Pings => /\ addr_idx' = IF Index + 1 = n THEN 0 ELSE Index + 1
                           /\ Loaded.info[Index + 1] \in served'
<1>1. PICK a \in Seq(Addresses) : a = Loaded.info
  BY LoadedTyped
<1>2. PICK n \in Nat : n = Len(a)
  OBVIOUS
<1>3. PICK i \in Nat : i = Index
  BY DEF Index, TypeOK
<1>4. (n > 0 => i < n) /\ (n = 0 => i = 0)
  <2>1. CASE Loads
    BY <2>1, <1>2, <1>3 DEF Index
  <2>2. CASE ~Loads
    <3>1. a = addressInfo /\ i = addr_idx
      BY <2>2, <1>1, <1>3, LoadedIs DEF Index
    <3>2. n > 0 => a # <<>>
      BY <1>2
    <3> QED
      BY <3>1, <3>2, <1>2 DEF IndexInv, TypeOK
  <2> QED
    BY <2>1, <2>2
<1>5. ~Pings => addr_idx' = i
  BY <1>3, NextSays
<1>6. Pings => /\ addr_idx' = IF i + 1 = n THEN 0 ELSE i + 1
               /\ Loaded.info[i + 1] \in served'
  <2> SUFFICES ASSUME Pings PROVE /\ addr_idx' = IF i + 1 = n THEN 0 ELSE i + 1
                                  /\ Loaded.info[i + 1] \in served'
    OBVIOUS
  <2>1. n > 0
    BY <1>1, <1>2 DEF Pings
  <2>2. \A x, y \in Nat : x < y => x % y = x
    OBVIOUS
  <2>3. \A y \in Nat \ {0} : y % y = 0
    OBVIOUS
  <2>4. i % n = i /\ (i + 1) % n = IF i + 1 = n THEN 0 ELSE i + 1
    BY <2>1, <2>2, <2>3, <1>4
  <2>5. addr_idx' = (i + 1) % n /\ Loaded.info[(i % n) + 1] \in served'
    BY <1>1, <1>2, <1>3, NextSays DEF Advance
  <2> QED
    BY <2>4, <2>5
<1> QED
  BY <1>1, <1>2, <1>3, <1>4, <1>5, <1>6

LEMMA TypeStep ==
    ASSUME TypeOK, IndexInv, [Next]_vars
    PROVE  TypeOK' /\ IndexInv'
<1> USE DEF setup, files, list, time, history
<1>1. CASE next
  <2>1. PICK a \in Seq(Addresses) : a = Loaded.info
    BY LoadedTyped
  <2>2. addressInfo' = a
    BY <1>1, <2>1, NextSays
  <2>3. PICK n \in Nat : n = Len(a)
    OBVIOUS
  <2>4. addr_idx' \in 0 .. n /\ (n > 0 => addr_idx' < n)
    <3>1. PICK i \in Nat : i = Index
      BY <1>1, IndexMoves
    <3>2. (n > 0 => i < n) /\ (n = 0 => i = 0) /\ (~Pings => addr_idx' = i)
      BY <1>1, <2>1, <2>3, <3>1, IndexMoves
    <3>3. Pings => n > 0 /\ addr_idx' = IF i + 1 = n THEN 0 ELSE i + 1
      BY <1>1, <2>1, <2>3, <3>1, IndexMoves DEF Pings
    <3> QED
      BY <3>1, <3>2, <3>3
  <2>5. IndexInv'
    <3>1. a # <<>> => n > 0
      BY <2>3
    <3> QED
      BY <2>2, <2>3, <2>4, <3>1 DEF IndexInv
  <2>6. inter_ping_interval_us' \in Nat /\ load_yaml_retry_cnt' \in 0 .. MaxRetryLoad - 1
    BY <1>1, NextSays, LoadedTyped
  <2>7. sinceLoad' \in Nat /\ sincePing' \in Nat /\ overslept' \in 0 .. Late
    BY <1>1, NextSays, SchedulerAssumption DEF TypeOK
  <2>8. age' \in Nat
    BY <1>1, NextSays DEF TypeOK
  <2>9. sleep' \in Nat
    <3>1. sincePing \in Nat /\ Loaded.inter \in Nat /\ EmptyPace \in Nat /\ EmptySleep \in Nat
      BY LoadedTyped, SchedulerAssumption DEF TypeOK
    <3>2. ~Due => Loaded.inter - sincePing \in Nat
      BY <3>1 DEF Due
    <3> QED
      BY <1>1, <3>1, <3>2, NextSays
  <2>10. /\ rdma' \in BOOLEAN /\ interval' \in Intervals
         /\ pinglist' \in Pinglists /\ addressStore' \in Stores /\ changes' \in 0 .. MaxChanges
    BY <1>1, NextSays DEF TypeOK
  <2> QED
    BY <2>2, <2>3, <2>4, <2>5, <2>6, <2>7, <2>8, <2>9, <2>10 DEF TypeOK
<1>2. CASE Tick
  <2>1. sinceLoad' \in Nat /\ sincePing' \in Nat
    BY <1>2 DEF Tick, TypeOK
  <2>2. sleep' \in Nat /\ overslept' \in 0 .. Late
    BY <1>2, SchedulerAssumption DEF Tick, TypeOK
  <2> QED
    BY <1>2, <2>1, <2>2 DEF Tick, TypeOK, IndexInv
<1>3. CASE FilesChange
  BY <1>3, SchedulerAssumption DEF FilesChange, TypeOK, IndexInv
<1>4. CASE UNCHANGED vars
  BY <1>4 DEF vars, TypeOK, IndexInv
<1> QED
  BY <1>1, <1>2, <1>3, <1>4 DEF Next

LEMMA AgeStep ==
    ASSUME TypeOK, AgeIsCounted, [Next]_vars
    PROVE  AgeIsCounted'
<1> USE DEF setup, files, list, time, history
<1>1. CASE next
  <2>0. age \in Nat /\ load_yaml_retry_cnt \in Nat /\ Loaded.cnt \in Nat
    BY LoadedTyped, SchedulerAssumption DEF TypeOK
  <2>1. /\ addressInfo' = Loaded.info /\ load_yaml_retry_cnt' = Loaded.cnt
        /\ age' = IF ~Loads THEN age ELSE IF Loaded.new THEN 0
                  ELSE IF age < MaxRetryLoad THEN age + 1 ELSE age
    BY <1>1, NextSays
  <2>2. CASE ~Loads
    BY <2>1, <2>2, LoadedIs DEF AgeIsCounted
  <2>3. CASE Loads /\ Loaded.new
    BY <2>0, <2>1, <2>3 DEF AgeIsCounted
  <2>4. CASE Loads /\ ~Loaded.new
    <3>1. age' <= age + 1
      BY <2>0, <2>1, <2>4
    <3>2. \/ Loaded.info = <<>>
          \/ Loaded.info = addressInfo /\ Loaded.cnt = load_yaml_retry_cnt + 1
      BY <2>4, LoadedIs
    <3>3. age' \in Nat
      BY <2>0, <2>1
    <3> QED
      BY <2>0, <2>1, <3>1, <3>2, <3>3 DEF AgeIsCounted
  <2> QED
    BY <2>2, <2>3, <2>4, LoadedTyped
<1>2. CASE Tick
  BY <1>2 DEF Tick, AgeIsCounted
<1>3. CASE FilesChange
  BY <1>3 DEF FilesChange, AgeIsCounted
<1>4. CASE UNCHANGED vars
  BY <1>4 DEF vars, AgeIsCounted
<1> QED
  BY <1>1, <1>2, <1>3, <1>4 DEF Next

LEMMA ListStep ==
    ASSUME TypeOK, FilesRead, ListIsRight, [Next]_vars
    PROVE  FilesRead' /\ ListIsRight'
<1> USE DEF setup, files, list, time, history
<1>0. CASE from' = from /\ addressInfo' = addressInfo /\ rdma' = rdma
  BY <1>0 DEF FilesRead, ListIsRight, Targets
<1>1. CASE next
  <2>1. /\ addressInfo' = Loaded.info /\ rdma' = rdma
        /\ from' = IF ~Loads \/ (Loaded.info = addressInfo /\ ~Loaded.new) THEN from
                   ELSE IF Loaded.new /\ ~Incomplete THEN <<pinglist, addressStore>> ELSE <<>>
    BY <1>1, NextSays
  <2>2. CASE ~Loads \/ (Loaded.info = addressInfo /\ ~Loaded.new)
    BY <1>0, <2>1, <2>2, LoadedIs
  <2>3. CASE from' = <<>>
    BY <2>3 DEF FilesRead, ListIsRight
  <2>4. CASE Loaded.new /\ ~Incomplete /\ from' = <<pinglist, addressStore>>
    <3>1. pinglist \in Pinglists /\ addressStore \in Stores
      BY DEF TypeOK
    <3>2. from'[1] = pinglist /\ from'[2] = addressStore
      BY <2>4
    <3>3. Loaded.info = addressInfoNew
      BY <2>4, LoadedIs
    <3>4. ToSet(addressInfo') = Targets(pinglist, addressStore) /\ IsInjective(addressInfo')
      BY <2>1, <2>4, <3>3, NewIsRight
    <3>5. Targets(pinglist, addressStore) = Targets(from[1], from[2])'
      BY <2>1, <3>2 DEF Targets
    <3> QED
      BY <2>4, <3>1, <3>4, <3>5 DEF FilesRead, ListIsRight
  <2> QED
    BY <2>1, <2>2, <2>3, <2>4
<1>2. CASE Tick \/ FilesChange \/ UNCHANGED vars
  BY <1>0, <1>2 DEF Tick, FilesChange, vars
<1> QED
  BY <1>1, <1>2 DEF Next

-----------------------------------------------------------------------------
(* Pace and turns.                                                         *)

LEMMA PaceStep ==
    ASSUME TypeOK, PaceInv, [Next]_vars
    PROVE  PaceInv'
<1> USE DEF setup, files, list, time, history
<1>1. CASE next
  <2>1. SUFFICES ASSUME addressInfo' # <<>>
                 PROVE  sincePing' + sleep' <= inter_ping_interval_us' + overslept'
    BY DEF PaceInv
  <2>2. PICK a \in Seq(Addresses) : a = Loaded.info
    BY LoadedTyped
  <2>3. Len(a) > 0
    BY <1>1, <2>1, <2>2, NextSays
  <2>4. PICK e \in Nat : e = Loaded.inter
    BY LoadedTyped
  <2>5. sincePing \in Nat /\ inter_ping_interval_us' = e /\ overslept' = 0
    BY <1>1, <2>4, NextSays DEF TypeOK
  <2>6. CASE Due
    <3>1. sincePing' = 0 /\ sleep' = 0
      BY <1>1, <2>2, <2>3, <2>6, NextSays DEF Pings
    <3> QED
      BY <2>4, <2>5, <3>1
  <2>7. CASE ~Due
    <3>1. sincePing' = sincePing /\ sleep' = e - sincePing
      BY <1>1, <2>4, <2>7, NextSays DEF Pings
    <3> QED
      BY <2>4, <2>5, <3>1
  <2> QED
    BY <2>6, <2>7
<1>2. CASE Tick
  <2>1. SUFFICES ASSUME addressInfo # <<>>
                 PROVE  sincePing' + sleep' <= inter_ping_interval_us' + overslept'
    BY <1>2 DEF Tick, PaceInv
  <2>2. /\ sincePing \in Nat /\ sleep \in Nat /\ overslept \in Nat
        /\ inter_ping_interval_us \in Nat
    BY SchedulerAssumption DEF TypeOK
  <2>3. sincePing + sleep <= inter_ping_interval_us + overslept
    BY <2>1 DEF PaceInv
  <2>4. /\ sincePing' = sincePing + 1 /\ inter_ping_interval_us' = inter_ping_interval_us
        /\ \/ sleep' = sleep - 1 /\ overslept' = overslept
           \/ sleep = 0 /\ sleep' = 0 /\ overslept' = overslept + 1
    BY <1>2, <2>2 DEF Tick
  <2> QED
    BY <2>2, <2>3, <2>4
<1>3. CASE FilesChange \/ UNCHANGED vars
  BY <1>3 DEF FilesChange, vars, PaceInv
<1> QED
  BY <1>1, <1>2, <1>3 DEF Next

LEMMA Stretch == \A i, t \in Nat : (i + 1) * t = i * t + t
OBVIOUS

LEMMA TurnStep ==
    ASSUME TypeOK, IndexInv, PaceInv, TurnInv, [Next]_vars
    PROVE  TurnInv'
<1> USE DEF setup, files, list, time, history
<1>0. /\ sinceLoad \in Nat /\ sincePing \in Nat /\ sleep \in Nat /\ overslept \in 0 .. Late
      /\ Late \in Nat /\ inter_ping_interval_us \in Nat
  BY SchedulerAssumption DEF TypeOK
<1>1. CASE next
  <2>1. PICK a \in Seq(Addresses) : a = Loaded.info
    BY LoadedTyped
  <2>2. PICK n \in Nat : n = Len(a)
    OBVIOUS
  <2>3. PICK i \in Nat : i = Index
    BY <1>1, IndexMoves
  <2>4. /\ n > 0 => i < n
        /\ ~Pings => addr_idx' = i
        /\ Pings => /\ n > 0 /\ a[i + 1] \in served'
                    /\ addr_idx' = IF i + 1 = n THEN 0 ELSE i + 1
    BY <1>1, <2>1, <2>2, <2>3, IndexMoves DEF Pings
  <2>5. PICK t \in Nat : t = Loaded.inter + Late
    BY <1>0, LoadedTyped
  <2>6. addressInfo' = a /\ Turn' = t
    BY <1>1, <2>1, <2>5, NextSays DEF Turn
  <2>7. ToSet(a) = {a[j] : j \in 1 .. n}
    BY <2>2 DEF ToSet
  <2>8. CASE n = 0
    <3>1. ToSet(a) = {}
      BY <2>7, <2>8
    <3> QED
      BY <2>6, <3>1 DEF TurnInv
  <2>9. CASE n > 0 /\ Loads
    <3>1. i = 0 /\ sinceLoad' = 0 /\ sincePing' \in Nat
      BY <1>0, <1>1, <2>3, <2>9, NextSays DEF Index
    <3>2. PICK k \in Nat : k = addr_idx' /\ \A j \in 1 .. k : a[j] \in served'
      <4>1. CASE Pings
        BY <2>4, <3>1, <4>1
      <4>2. CASE ~Pings
        BY <2>4, <3>1, <4>2
      <4> QED
        BY <4>1, <4>2
    <3>3. k * t \in Nat
      OBVIOUS
    <3>4. sinceLoad' <= k * t + sincePing'
      <4>1. \A x, y \in Nat : 0 <= x + y
        OBVIOUS
      <4> QED
        BY <3>1, <3>3, <4>1
    <3> QED
      BY <2>6, <3>2, <3>4 DEF TurnInv
  <2>10. CASE n > 0 /\ ~Loads
    <3>1. a = addressInfo /\ i = addr_idx /\ sinceLoad' = sinceLoad /\ served \subseteq served'
      BY <1>1, <2>1, <2>3, <2>10, LoadedIs, NextSays DEF Index
    <3>2. Loaded.new => Loads
      BY LoadedIs
    <3>3. Loaded.inter = inter_ping_interval_us
      BY <2>10, <3>2, LoadedIs
    <3>4. Turn = t
      BY <2>5, <3>3 DEF Turn
    <3>5. CASE ToSet(addressInfo) \subseteq served
      BY <2>6, <3>1, <3>5 DEF TurnInv
    <3>6. CASE /\ \A j \in 1 .. i : a[j] \in served
               /\ sinceLoad <= i * t + sincePing
      <4>1. CASE Pings /\ i + 1 = n
        <5>1. \A j \in 1 .. n : a[j] \in served'
          BY <2>4, <3>1, <3>6, <4>1
        <5>2. ToSet(a) \subseteq served'
          BY <2>7, <5>1
        <5> QED
          BY <2>6, <5>2 DEF TurnInv
      <4>2. CASE Pings /\ i + 1 # n
        <5>1. addr_idx' = i + 1 /\ \A j \in 1 .. i + 1 : a[j] \in served'
          BY <2>4, <3>1, <3>6, <4>2
        <5>2. sincePing' = 0
          BY <1>1, <4>2, NextSays DEF Pings
        <5>3. a # <<>>
          BY <2>2, <2>10
        <5>4. sincePing <= t
          <6>1. sincePing + sleep <= inter_ping_interval_us + overslept
            BY <3>1, <5>3 DEF PaceInv
          <6>2. t = inter_ping_interval_us + Late
            BY <3>4 DEF Turn
          <6> QED
            BY <1>0, <6>1, <6>2
        <5>5. i * t \in Nat /\ (i + 1) * t \in Nat /\ (i + 1) * t = i * t + t
          BY Stretch
        <5>6. sinceLoad' <= (i + 1) * t + sincePing'
          BY <1>0, <3>1, <3>6, <5>2, <5>4, <5>5
        <5> QED
          BY <2>6, <5>1, <5>6 DEF TurnInv
      <4>3. CASE ~Pings
        <5>1. ~Due
          BY <2>1, <2>2, <2>10, <4>3 DEF Pings
        <5>2. sincePing' = sincePing /\ addr_idx' = i
          BY <1>1, <2>4, <4>3, <5>1, NextSays
        <5>3. \A j \in 1 .. i : a[j] \in served'
          BY <3>1, <3>6
        <5> QED
          BY <2>6, <3>1, <3>6, <5>2, <5>3 DEF TurnInv
      <4> QED
        BY <4>1, <4>2, <4>3
    <3> QED
      BY <3>1, <3>4, <3>5, <3>6 DEF TurnInv
  <2> QED
    BY <2>8, <2>9, <2>10
<1>2. CASE Tick
  <2>1. /\ addressInfo' = addressInfo /\ served' = served /\ addr_idx' = addr_idx
        /\ Turn' = Turn /\ sinceLoad' = sinceLoad + 1 /\ sincePing' = sincePing + 1
    BY <1>2 DEF Tick, Turn
  <2>2. PICK k \in Int : k = addr_idx * Turn
    BY <1>0 DEF Turn, TypeOK
  <2>3. sinceLoad <= k + sincePing => sinceLoad' <= k + sincePing'
    BY <1>0, <2>1
  <2>4. addr_idx' * Turn' = k
    BY <2>1, <2>2
  <2> QED
    BY <2>1, <2>2, <2>3, <2>4 DEF TurnInv
<1>3. CASE FilesChange \/ UNCHANGED vars
  BY <1>3 DEF FilesChange, vars, TurnInv, Turn
<1> QED
  BY <1>1, <1>2, <1>3 DEF Next

\* A load comes only after a turn that fits has ended.
LEMMA TurnEnds ==
    ASSUME TypeOK, IndexInv, PaceInv, TurnInv, TurnFits, sinceLoad > LoadEvery
    PROVE  ToSet(addressInfo) \subseteq served
<1>0. /\ sinceLoad \in Nat /\ sincePing \in Nat /\ sleep \in Nat /\ overslept \in 0 .. Late
      /\ Late \in Nat /\ inter_ping_interval_us \in Nat /\ LoadEvery \in Nat
  BY SchedulerAssumption DEF TypeOK
<1>1. PICK a \in Seq(Addresses) : a = addressInfo
  BY DEF TypeOK
<1>2. PICK n \in Nat : n = Len(a)
  OBVIOUS
<1>3. CASE n = 0
  <2>1. ToSet(a) = {}
    <3>1. DOMAIN a = 1 .. Len(a) /\ Len(a) = 0
      BY <1>2, <1>3, SeqTyped
    <3> QED
      BY <3>1 DEF ToSet
  <2> QED
    BY <1>1, <2>1
<1>4. CASE n > 0
  <2>1. a # <<>>
    BY <1>2, <1>4
  <2>2. PICK i \in Nat : i = addr_idx /\ i + 1 <= n
    BY <1>1, <1>2, <2>1 DEF IndexInv, TypeOK
  <2>3. PICK t \in Nat : t = Turn
    BY <1>0 DEF Turn
  <2>4. sincePing <= t
    <3>1. sincePing + sleep <= inter_ping_interval_us + overslept
      BY <1>1, <2>1 DEF PaceInv
    <3>2. t = inter_ping_interval_us + Late
      BY <2>3 DEF Turn
    <3> QED
      BY <1>0, <3>1, <3>2
  <2>5. n * t <= LoadEvery
    BY <1>1, <1>2, <2>3 DEF TurnFits, Turn
  <2>6. PICK d \in Nat : n = (i + 1) + d
    <3>1. n - (i + 1) \in Nat /\ n = (i + 1) + (n - (i + 1))
      BY <2>2
    <3> QED
      BY <3>1
  <2>7. n * t = ((i + 1) + d) * t /\ ((i + 1) + d) * t = (i + 1) * t + d * t
    BY <2>6
  <2>8. (i + 1) * t = i * t + t /\ d * t \in Nat /\ i * t \in Nat
    BY Stretch
  <2>9. i * t + t <= LoadEvery
    <3>1. PICK x \in Nat : x = i * t
      BY <2>8
    <3>2. PICK y \in Nat : y = d * t
      BY <2>8
    <3>3. n * t = x + t + y
      BY <2>7, <2>8, <3>1, <3>2
    <3> QED
      BY <1>0, <2>5, <3>1, <3>3
  <2>10. ~(sinceLoad <= i * t + sincePing)
    BY <1>0, <2>4, <2>8, <2>9
  <2> QED
    BY <2>2, <2>3, <2>10 DEF TurnInv
<1> QED
  BY <1>3, <1>4

-----------------------------------------------------------------------------
(* The theorems.                                                           *)

SchedulerIInv == LoadInv /\ PaceInv /\ TurnInv

LEMMA SchedulerInit == Init => SchedulerIInv
<1> SUFFICES ASSUME Init PROVE SchedulerIInv
  OBVIOUS
<1>1. TypeOK
  BY SchedulerAssumption DEF Init, TypeOK
<1>2. AgeIsCounted /\ IndexInv /\ FilesRead /\ ListIsRight /\ PaceInv
  BY DEF Init, AgeIsCounted, IndexInv, FilesRead, ListIsRight, PaceInv
<1>3. TurnInv
  <2>1. ToSet(<<>>) = {}
    BY DEF ToSet
  <2> QED
    BY <2>1 DEF Init, TurnInv
<1> QED
  BY <1>1, <1>2, <1>3 DEF SchedulerIInv, LoadInv

LEMMA SchedulerStep == SchedulerIInv /\ [Next]_vars => SchedulerIInv'
<1> SUFFICES ASSUME SchedulerIInv, [Next]_vars PROVE SchedulerIInv'
  OBVIOUS
<1>1. /\ TypeOK /\ AgeIsCounted /\ IndexInv /\ FilesRead /\ ListIsRight
      /\ PaceInv /\ TurnInv
  BY DEF SchedulerIInv, LoadInv
<1>2. TypeOK' /\ IndexInv' /\ AgeIsCounted' /\ FilesRead' /\ ListIsRight'
  BY <1>1, TypeStep, AgeStep, ListStep
<1>3. PaceInv' /\ TurnInv'
  BY <1>1, PaceStep, TurnStep
<1> QED
  BY <1>2, <1>3 DEF SchedulerIInv, LoadInv

\* The inductive invariant.
THEOREM SchedulerInvariant == Spec => []SchedulerIInv
BY SchedulerInit, SchedulerStep, PTL DEF Spec

\* The list is right after every load without errors, for files with any number
\* of groups (load_address_info), it is never older than MaxRetryLoad loads, and
\* index, pace and count of failures are in range (next).
THEOREM SchedulerCorrect == Spec => [](ListIsRight /\ SchedulerInv)
<1>1. SchedulerIInv => ListIsRight /\ SchedulerInv
  <2> SUFFICES ASSUME SchedulerIInv PROVE ListIsRight /\ SchedulerInv
    OBVIOUS
  <2>1. TypeOK /\ AgeIsCounted /\ ListIsRight
    BY DEF SchedulerIInv, LoadInv
  <2>2. ListIsFresh
    <3>1. /\ age \in Nat /\ MaxRetryLoad \in Nat \ {0}
          /\ load_yaml_retry_cnt \in 0 .. MaxRetryLoad - 1
      BY <2>1, SchedulerAssumption DEF TypeOK
    <3> QED
      BY <2>1, <3>1 DEF AgeIsCounted, ListIsFresh
  <2> QED
    BY <2>1, <2>2 DEF SchedulerInv
<1> QED
  BY SchedulerInvariant, <1>1, PTL

\* Between two loads next() has handed out everyone on the list, however long
\* the list and whatever the interval, if a turn fits between them.
THEOREM NobodyIsLeftOut == Spec => NobodyStarves
<1>1. SchedulerIInv /\ [Next]_vars =>
        [sinceLoad' = 0 /\ sinceLoad > 0 /\ TurnFits => ToSet(addressInfo) \subseteq served]_vars
  <2> SUFFICES ASSUME SchedulerIInv, [Next]_vars, sinceLoad' = 0, sinceLoad > 0, TurnFits
               PROVE  ToSet(addressInfo) \subseteq served
    OBVIOUS
  <2>1. TypeOK /\ IndexInv /\ PaceInv /\ TurnInv
    BY DEF SchedulerIInv, LoadInv
  <2>2. sinceLoad \in Nat
    BY <2>1 DEF TypeOK
  <2>3. next /\ Loads
    <3>1. CASE Tick
      BY <2>2, <3>1 DEF Tick
    <3>2. CASE FilesChange \/ UNCHANGED vars
      BY <2>2, <3>2 DEF FilesChange, vars, time
    <3>3. CASE next
      BY <2>2, <3>3, NextSays
    <3> QED
      BY <3>1, <3>2, <3>3 DEF Next
  <2> QED
    BY <2>1, <2>3, TurnEnds DEF Loads
<1> QED
  BY SchedulerInvariant, <1>1, PTL DEF Spec, NobodyStarves
=============================================================================
