---------------------------- MODULE MsgScheduler ----------------------------
(***************************************************************************)
(* Whom a client pings, and when.  The sending thread asks next() for a    *)
(* destination; next() loads the list from pinglist.yaml (for RDMA also    *)
(* from address_store.yaml) when the last load is long enough ago, hands   *)
(* out the destinations one after the other, paced so that a turn takes    *)
(* one interval, and otherwise says how long to sleep.                     *)
(*                                                                         *)
(* The files change under the scheduler.  Of a file the model keeps what   *)
(* the parsing loops see: groups of addresses, up to the node, if any,     *)
(* that makes an accessor throw.                                           *)
(***************************************************************************)
EXTENDS Integers, Sequences, SequencesExt

CONSTANTS
    Addresses,       \* IP addresses
    Me,              \* the address of this client
    Pinglists,       \* contents of pinglist.yaml
    Stores,          \* contents of address_store.yaml
    Intervals,       \* interval_send_ping_*_microsec, in ticks
    LoadEvery,       \* interval_sync_pinglist_sec, in ticks
    FirstPace,       \* inter_ping_interval_us before the first load
    EmptyPace,       \* inter_ping_interval_us when there is nobody to ping
    EmptySleep,      \* what TCP and UDP sleep then; RDMA sleeps EmptyPace
    MaxRetryLoad,    \* MAX_RETRY_LOAD_YAML
    Late,            \* bound: ticks a sleeping thread may wake too late
    MaxChanges       \* bound: changes of the files

ASSUME SchedulerAssumption ==
    /\ Intervals \subseteq Nat \ {0} /\ LoadEvery \in Nat
    /\ {FirstPace, EmptyPace, EmptySleep} \subseteq Nat \ {0}
    /\ MaxRetryLoad \in Nat \ {0} /\ Late \in Nat /\ MaxChanges \in Nat
    /\ Pinglists \subseteq [parses : BOOLEAN, mesh : Seq(Seq(Addresses)), meshOk : BOOLEAN,
                            arrow : Seq([src : Seq(Addresses), dst : Seq(Addresses)]),
                            arrowOk : BOOLEAN]
    /\ Stores \subseteq [parses : BOOLEAN, ips : Seq(Addresses), ok : BOOLEAN]

VARIABLES
    rdma,                    \* RdmaMsgScheduler or TcpUdpMsgScheduler
    interval,                \* of this client
    pinglist, addressStore,  \* the files
    addressInfo, addr_idx,
    inter_ping_interval_us, load_yaml_retry_cnt,
    sinceLoad, sincePing,    \* time since last_load_time and last_ping_time
    sleep, overslept,        \* what the thread still sleeps; how late it is
    served,                  \* history: pinged since the last load
    age,                     \* history: loads since addressInfo was read, up to MaxRetryLoad
    from,                    \* history: the files addressInfo was read from
    changes

setup == <<rdma, interval>>
files == <<pinglist, addressStore, changes>>
list == <<addressInfo, addr_idx, inter_ping_interval_us, load_yaml_retry_cnt>>
time == <<sinceLoad, sincePing, sleep, overslept>>
history == <<served, age, from>>
vars == <<setup, files, list, time, history>>

Init ==
    /\ rdma \in BOOLEAN /\ interval \in Intervals
    /\ pinglist \in Pinglists /\ addressStore \in Stores /\ changes = 0
    /\ addressInfo = <<>> /\ addr_idx = 0
    /\ inter_ping_interval_us = FirstPace /\ load_yaml_retry_cnt = 0
    /\ sinceLoad = 0 /\ sincePing = 0 /\ sleep = 0 /\ overslept = 0
    /\ served = {} /\ age = 0 /\ from = <<>>

-----------------------------------------------------------------------------
(* The list a load makes of the files.                                     *)

\* Mutant: nobody looks for duplicates.
Deduplicated_Not(s) == s

Deduplicated(s) ==
    LET ips[n \in 0 .. Len(s)] ==
            IF n = 0 THEN <<>>
            ELSE IF Contains(ips[n - 1], s[n]) THEN ips[n - 1] ELSE Append(ips[n - 1], s[n])
    IN  ips[Len(s)]

\* Everyone in a group with this client, itself included.
MeshIps(p) ==
    FlattenSeq([i \in DOMAIN p.mesh |-> IF Contains(p.mesh[i], Me) THEN p.mesh[i] ELSE <<>>])

\* The destinations of a group whose sources include this client.
ArrowIps(p) ==
    FlattenSeq([i \in DOMAIN p.arrow |->
                   IF Contains(p.arrow[i].src, Me) THEN p.arrow[i].dst ELSE <<>>])

\* TCP and UDP: what was found before an accessor threw stays.
TcpUdpAddressInfo == Deduplicated(MeshIps(pinglist) \o ArrowIps(pinglist))

\* RDMA: entries of the store, in its order; a category that throws adds none.
Known(ips) ==
    LET all == addressStore.ips
    IN  FlattenSeq([i \in DOMAIN all |-> IF Contains(ips, all[i]) THEN <<all[i]>> ELSE <<>>])
RdmaAddressInfo ==
    Deduplicated((IF pinglist.meshOk THEN Known(MeshIps(pinglist)) ELSE <<>>)
                 \o (IF pinglist.arrowOk THEN Known(ArrowIps(pinglist)) ELSE <<>>))

addressInfoNew == IF rdma THEN RdmaAddressInfo ELSE TcpUdpAddressInfo
Unreadable == ~pinglist.parses \/ (rdma /\ ~addressStore.parses)
Incomplete == ~pinglist.meshOk \/ ~pinglist.arrowOk \/ (rdma /\ ~addressStore.ok)

\* What the list must be: everyone that shares a group with this client or is
\* the destination of one that has it as source; for RDMA, if its address is
\* known.
Targets(p, s) ==
    LET inMesh == UNION {ToSet(g) : g \in {h \in ToSet(p.mesh) : Me \in ToSet(h)}}
        inArrow == UNION {ToSet(g.dst) : g \in {h \in ToSet(p.arrow) : Me \in ToSet(h.src)}}
    IN  {ip \in inMesh \cup inArrow : rdma => ip \in ToSet(s.ips)}

-----------------------------------------------------------------------------
(* load_address_info: the list, pace and count of failures after it, and    *)
(* whether the list is from the files as they are.                          *)

Keep == [info |-> addressInfo, inter |-> inter_ping_interval_us,
         cnt |-> load_yaml_retry_cnt, new |-> FALSE]
Renew == [info |-> addressInfoNew,
          inter |-> IF addressInfoNew = <<>> THEN EmptyPace
                    ELSE interval \div Len(addressInfoNew),
          cnt |-> 0, new |-> TRUE]

\* Mutant: the count is set to 0 whenever a file could be opened.
Failed_Resets(l) ==
    IF l.cnt + 1 >= MaxRetryLoad /\ pinglist.parses
    THEN [l EXCEPT !.info = <<>>, !.cnt = 0]
    ELSE [l EXCEPT !.cnt = 0]

\* The label failed: the list is cleared after MaxRetryLoad failures in a row.
Failed(l) ==
    IF l.cnt + 1 >= MaxRetryLoad
    THEN [l EXCEPT !.info = <<>>, !.cnt = 0]
    ELSE [l EXCEPT !.cnt = l.cnt + 1]

load_address_info ==
    CASE Unreadable -> Failed(Keep)
      [] ~Unreadable /\ Incomplete -> Failed(Renew)
      [] OTHER -> Renew

Loads == sinceLoad > LoadEvery

\* Mutant: the last destination of the list is left out.
Advance_Short(i, n) == IF i + 2 >= n THEN 0 ELSE i + 1

Advance(i, n) == (i + 1) % n

\* The thread calls next.  It loads when it is time, then pings if the last
\* ping is long enough ago.  After a ping next is called again at once.
next ==
    /\ sleep = 0
    /\ LET l == IF Loads THEN load_address_info ELSE Keep
           i == IF Loads THEN 0 ELSE addr_idx
           n == Len(l.info)
           due == sincePing >= l.inter
           pings == due /\ n > 0
       IN  /\ addressInfo' = l.info /\ load_yaml_retry_cnt' = l.cnt
           /\ inter_ping_interval_us' = l.inter
           /\ addr_idx' = IF pings THEN Advance(i, n) ELSE i
           /\ served' = (IF Loads THEN {} ELSE served)
                        \cup (IF pings THEN {l.info[(i % n) + 1]} ELSE {})
           /\ age' = IF ~Loads THEN age ELSE IF l.new THEN 0
                     ELSE IF age < MaxRetryLoad THEN age + 1 ELSE age
           /\ from' = IF ~Loads \/ (l.info = addressInfo /\ ~l.new) THEN from
                      ELSE IF l.new /\ ~Incomplete THEN <<pinglist, addressStore>> ELSE <<>>
           /\ sinceLoad' = IF Loads THEN 0 ELSE sinceLoad
           /\ sincePing' = IF due THEN 0 ELSE sincePing
           /\ sleep' = IF pings THEN 0 ELSE IF ~due THEN l.inter - sincePing
                     ELSE IF rdma THEN EmptyPace ELSE EmptySleep
           /\ overslept' = 0
    /\ UNCHANGED <<setup, files>>

-----------------------------------------------------------------------------
\* A tick passes while the thread sleeps, or before it runs again.
Tick ==
    /\ sleep > 0 \/ overslept < Late
    /\ sleep' = IF sleep > 0 THEN sleep - 1 ELSE 0
    /\ overslept' = IF sleep > 0 THEN overslept ELSE overslept + 1
    /\ sinceLoad' = sinceLoad + 1 /\ sincePing' = sincePing + 1
    /\ UNCHANGED <<setup, files, list, history>>

\* agent_fetcher writes the files.
FilesChange ==
    /\ changes < MaxChanges /\ changes' = changes + 1
    /\ pinglist' \in Pinglists /\ addressStore' \in Stores
    /\ UNCHANGED <<setup, list, time, history>>

Next == next \/ Tick \/ FilesChange

Spec == Init /\ [][Next]_vars

-----------------------------------------------------------------------------
(* Properties.                                                             *)

\* The type invariant.
TypeOK ==
    /\ rdma \in BOOLEAN /\ interval \in Intervals
    /\ pinglist \in Pinglists /\ addressStore \in Stores /\ changes \in 0 .. MaxChanges
    /\ addressInfo \in Seq(Addresses)
    /\ addr_idx \in 0 .. Len(addressInfo) /\ inter_ping_interval_us \in Nat
    /\ load_yaml_retry_cnt \in 0 .. MaxRetryLoad - 1
    /\ {sinceLoad, sincePing, sleep, age} \subseteq Nat /\ overslept \in 0 .. Late

\* After a load without errors the list has everyone it must have, once: one
\* who is in two groups is not pinged twice as often.
ListIsRight ==
    from # <<>> => /\ ToSet(addressInfo) = Targets(from[1], from[2])
                   /\ IsInjective(addressInfo)

\* The list a client works with is at most MaxRetryLoad loads old, although a
\* failure may replace it, and may set the count of failures to 0.
ListIsFresh == addressInfo # <<>> => age < MaxRetryLoad

\* Index, pace and count of failures in range, and the list not too old.
SchedulerInv == TypeOK /\ ListIsFresh

\* Every load starts the list at the front again; still nobody at its end is
\* left out: all were pinged between two loads, if a turn, with every ping as
\* late as it can be, fits between them.
TurnFits == Len(addressInfo) * (inter_ping_interval_us + Late) <= LoadEvery
NobodyStarves ==
    [][sinceLoad' = 0 /\ sinceLoad > 0 /\ TurnFits => ToSet(addressInfo) \subseteq served]_vars
=============================================================================
