----------------------------- MODULE ReportPath -----------------------------
(***************************************************************************)
(* The way of a result from a client process to Redis:                     *)
(*                                                                         *)
(*   result thread   counts results per destination and writes a report    *)
(*                   with one line per destination into the ring;          *)
(*   agent_sender    reads all reports of the ring and sends them one by   *)
(*                   one, over HTTP or ZeroMQ; the main loop replaces a    *)
(*                   thread that died, and stops it while the address of   *)
(*                   the ring is on no interface;                          *)
(*   collector       one event loop for HTTP, several worker threads for   *)
(*                   ZeroMQ; stores a line unless Redis has a newer one.   *)
(*                                                                         *)
(* The ring is the bounded queue of module IpcQueue, which IpcRing is      *)
(* shown to implement.                                                     *)
(***************************************************************************)
EXTENDS Integers, FiniteSets, SequencesExt

CONSTANTS
    Pings,           \* pings whose results reach client_queue; a number is also the
                     \* time the ping was sent
    NumDst,          \* destinations; ping i goes to i % NumDst
    RingSize,        \* reports the ring holds: BUFFER_SIZE - 1
    Zmq,             \* protocol_to_report_result = "zmq"
    Workers,         \* one for HTTP, num_workers for ZeroMQ
    MaxTimeouts,     \* bound: replies that come after more than three seconds
    MaxFails,        \* bound: reports that cannot be sent
    MaxFlaps,        \* bound: times the address comes or goes
    MaxErrors        \* bound: lines in which the collector meets an exception

ASSUME ReportAssumption ==
    /\ Pings \subseteq Nat /\ IsFiniteSet(Pings)
    /\ NumDst \in Nat \ {0} /\ RingSize \in Nat \ {0} /\ Zmq \in BOOLEAN
    /\ MaxTimeouts \in Nat /\ MaxFails \in Nat /\ MaxErrors \in Nat
    /\ MaxFlaps \in Nat

Dsts == 0 .. NumDst - 1
DstOf(i) == i % NumDst
NoTime == -1                 \* datetime.min, ts_start = 0

VARIABLES
    pending,         \* pings whose result the result thread has not taken
    dstip2result,    \* window of the result thread: dst -> [ts_start, ts_end, pings]
    made,            \* history: reports written so far, each dst -> entry
    ring,            \* numbers of reports in shared memory
    msgs, spc,       \* sender thread: reports it has read, where it is
    late,            \* reports it no longer waits for, whose reply may still come (ZeroMQ)
    running, stop_event,    \* main loop: the file is in files_running, the thread is to stop
    up,              \* the address is on an interface
    inbox,           \* reports on their way to a worker
    replied,         \* reports the collector has answered
    job, todo, curr_ts_end, wpc,   \* worker: its report, lines left, what it read, where it is
    redis,           \* dst -> ts_end of the line that is shown
    seen,            \* history: <<report, dst>> the collector has compared
    lost,            \* history: reports that never reach the collector
    timeouts, fails, flaps, errors

sender == <<msgs, spc, late>>
mainLoop == <<running, stop_event>>
link == <<up, flaps>>
agent == <<sender, mainLoop, link>>
client == <<pending, dstip2result, made>>
collector == <<job, todo, curr_ts_end, wpc, redis, seen, replied>>
bounds == <<timeouts, fails, errors>>
vars == <<client, ring, agent, inbox, collector, lost, bounds>>

Init ==
    /\ pending = Pings /\ dstip2result = <<>> /\ made = <<>> /\ ring = <<>>
    /\ msgs = <<>> /\ spc = "dead" /\ late = {}
    /\ running = FALSE /\ stop_event = FALSE /\ up = TRUE /\ flaps = 0
    /\ inbox = {} /\ replied = {}
    /\ job = [w \in Workers |-> 0] /\ todo = [w \in Workers |-> {}]
    /\ curr_ts_end = [w \in Workers |-> NoTime] /\ wpc = [w \in Workers |-> "recv"]
    /\ redis = [d \in Dsts |-> NoTime] /\ seen = {} /\ lost = {}
    /\ timeouts = 0 /\ fails = 0 /\ errors = 0

-----------------------------------------------------------------------------
(* Result thread.                                                          *)

\* A result is dequeued and counted.  Pings end in any order, so ts_end is the
\* send time of the ping that ended last, not of the one that was sent last.
Count ==
    /\ \E i \in pending :
          LET d == DstOf(i)
              info == IF d \in DOMAIN dstip2result THEN dstip2result[d]
                      ELSE [ts_start |-> i, ts_end |-> i, pings |-> {}]
          IN  /\ dstip2result' = [x \in DOMAIN dstip2result \cup {d} |->
                     IF x = d THEN [info EXCEPT !.ts_end = i, !.pings = @ \cup {i}]
                     ELSE dstip2result[x]]
              /\ pending' = pending \ {i}
    /\ UNCHANGED <<made, ring, agent, inbox, collector, lost, bounds>>

\* Mutant: the history is not cleared.
Report_NoClear ==
    /\ DOMAIN dstip2result # {} /\ Len(made) < 3
    /\ made' = Append(made, dstip2result)
    /\ IF Len(ring) < RingSize
       THEN ring' = Append(ring, Len(made) + 1) /\ UNCHANGED lost
       ELSE lost' = lost \cup {Len(made) + 1} /\ UNCHANGED ring
    /\ UNCHANGED <<pending, dstip2result, agent, inbox, collector, bounds>>

\* The report interval is over.  writeMessage ignores an empty report and
\* refuses one that finds the ring full; the history is cleared either way.
Report ==
    /\ DOMAIN dstip2result # {}
    /\ made' = Append(made, dstip2result)
    /\ IF Len(ring) < RingSize
       THEN ring' = Append(ring, Len(made) + 1) /\ UNCHANGED lost
       ELSE lost' = lost \cup {Len(made) + 1} /\ UNCHANGED ring
    /\ dstip2result' = <<>>
    /\ UNCHANGED <<pending, agent, inbox, collector, bounds>>

-----------------------------------------------------------------------------
(* Sender thread, and the main loop of agent_sender.                       *)

\* The head of the loop, unless the thread is to stop.
read_messages ==
    /\ spc = "read" /\ ~stop_event /\ ring # <<>>
    /\ msgs' = ring /\ ring' = <<>>
    /\ spc' = "send"
    /\ UNCHANGED <<client, late, mainLoop, link, inbox, collector, lost, bounds>>

Stop ==
    /\ spc = "read" /\ stop_event
    /\ spc' = "dead"
    /\ UNCHANGED <<client, ring, msgs, late, mainLoop, link, inbox, collector, lost, bounds>>

Send ==
    /\ spc = "send"
    /\ inbox' = inbox \cup {Head(msgs)}
    /\ spc' = "wait"
    /\ UNCHANGED <<client, ring, msgs, late, mainLoop, link, collector, lost, bounds>>

NextMessage ==
    /\ msgs' = Tail(msgs)
    /\ spc' = IF Len(msgs) = 1 THEN "read" ELSE "send"

\* send_latency is None, and comparing it with a number raises TypeError: the
\* thread ends with the reports it has read and not sent.
Die(unsent) ==
    /\ spc' = "dead" /\ msgs' = <<>>
    /\ lost' = lost \cup unsent

\* A reply.  Over ZeroMQ every report has a socket of its own with the same
\* identity: it may be the late reply to an earlier report, and the reply to
\* this one comes when the thread no longer waits for it.
GetReply ==
    /\ spc = "wait"
    /\ \/ Head(msgs) \in replied /\ UNCHANGED late
       \/ \E r \in late \cap replied : late' = (late \ {r}) \cup {Head(msgs)}
    /\ NextMessage
    /\ UNCHANGED <<client, ring, mainLoop, link, inbox, collector, lost, bounds>>

\* No reply for three seconds.  ZeroMQ goes on with the next report; HTTP
\* gives None.  The report is on its way in both cases.
TimeOut ==
    /\ spc = "wait" /\ Head(msgs) \notin replied
    /\ timeouts < MaxTimeouts /\ timeouts' = timeouts + 1
    /\ IF Zmq THEN NextMessage /\ late' = late \cup {Head(msgs)} /\ UNCHANGED lost
       ELSE Die(ToSet(Tail(msgs))) /\ UNCHANGED late
    /\ UNCHANGED <<client, ring, mainLoop, link, inbox, collector, fails, errors>>

\* The report cannot be sent at all.
SendFails ==
    /\ spc = "send"
    /\ fails < MaxFails /\ fails' = fails + 1
    /\ Die(ToSet(msgs))
    /\ UNCHANGED <<client, ring, late, mainLoop, link, inbox, collector, timeouts, errors>>

\* The main loop, part (1): a thread that died leaves files_running; the thread
\* of an address that is on no interface is told to stop.
CheckThread ==
    /\ running
    /\ running' = (spc # "dead")
    /\ stop_event' = (stop_event \/ ~up)
    /\ UNCHANGED <<client, ring, sender, link, inbox, collector, lost, bounds>>

\* Mutant: the new thread gets the event of the one before.
StartThread_OldEvent ==
    /\ ~running /\ up
    /\ running' = TRUE
    /\ spc' = "read"
    /\ UNCHANGED <<client, ring, msgs, late, stop_event, link, inbox, collector, lost, bounds>>

\* Part (2): a file without a thread gets one, with an event of its own, if its
\* address is on an interface.
StartThread ==
    /\ ~running /\ up
    /\ running' = TRUE /\ stop_event' = FALSE
    /\ spc' = "read"
    /\ UNCHANGED <<client, ring, msgs, late, link, inbox, collector, lost, bounds>>

\* The address comes or goes (check_ip_active).
Flap ==
    /\ flaps < MaxFlaps /\ flaps' = flaps + 1
    /\ up' = ~up
    /\ UNCHANGED <<client, ring, sender, mainLoop, inbox, collector, lost, bounds>>

-----------------------------------------------------------------------------
(* Collector.                                                              *)

Receive(w) ==
    /\ wpc[w] = "recv"
    /\ \E r \in inbox :
          /\ inbox' = inbox \ {r}
          /\ job' = [job EXCEPT ![w] = r]
          /\ todo' = [todo EXCEPT ![w] = DOMAIN made[r]]
    /\ wpc' = [wpc EXCEPT ![w] = "get"]
    /\ UNCHANGED <<client, ring, agent, curr_ts_end, redis, seen, replied, lost, bounds>>

Line(w) == CHOOSE d \in todo[w] : \A e \in todo[w] : d <= e

redis_get(w) ==
    /\ wpc[w] = "get" /\ todo[w] # {}
    /\ curr_ts_end' = [curr_ts_end EXCEPT ![w] = redis[Line(w)]]
    /\ wpc' = [wpc EXCEPT ![w] = "set"]
    /\ UNCHANGED <<client, ring, agent, inbox, job, todo, redis, seen, replied, lost, bounds>>

\* Mutant: the line is stored whatever is there.
redis_set_Always(w) ==
    /\ wpc[w] = "set"
    /\ LET d == Line(w)
       IN  /\ redis' = [redis EXCEPT ![d] = made[job[w]][d].ts_end]
           /\ seen' = seen \cup {<<job[w], d>>}
           /\ todo' = [todo EXCEPT ![w] = @ \ {d}]
    /\ wpc' = [wpc EXCEPT ![w] = "get"]
    /\ UNCHANGED <<client, ring, agent, inbox, job, curr_ts_end, replied, lost, bounds>>

\* A line is stored when it is newer than what was read.
redis_set(w) ==
    /\ wpc[w] = "set"
    /\ LET d == Line(w)
           new_ts_end == made[job[w]][d].ts_end
       IN  /\ redis' = IF curr_ts_end[w] < new_ts_end THEN [redis EXCEPT ![d] = new_ts_end]
                       ELSE redis
           /\ seen' = seen \cup {<<job[w], d>>}
           /\ todo' = [todo EXCEPT ![w] = @ \ {d}]
    /\ wpc' = [wpc EXCEPT ![w] = "get"]
    /\ UNCHANGED <<client, ring, agent, inbox, job, curr_ts_end, replied, lost, bounds>>

\* An exception in process_collected_message: the line and those behind it are
\* dropped; the caller ignores it.
LineFails(w) ==
    /\ wpc[w] \in {"get", "set"} /\ todo[w] # {}
    /\ errors < MaxErrors /\ errors' = errors + 1
    /\ todo' = [todo EXCEPT ![w] = {}]
    /\ wpc' = [wpc EXCEPT ![w] = "get"]
    /\ UNCHANGED <<client, ring, agent, inbox, job, curr_ts_end, redis, seen, replied, lost,
                   timeouts, fails>>

\* "Success.", also after an exception.
Reply(w) ==
    /\ wpc[w] = "get" /\ todo[w] = {}
    /\ replied' = replied \cup {job[w]}
    /\ wpc' = [wpc EXCEPT ![w] = "recv"]
    /\ UNCHANGED <<client, ring, agent, inbox, job, todo, curr_ts_end, redis, seen, lost, bounds>>

-----------------------------------------------------------------------------
SenderSteps == read_messages \/ Stop \/ Send \/ GetReply \/ TimeOut \/ SendFails
WorkerSteps(w) == Receive(w) \/ redis_get(w) \/ redis_set(w) \/ LineFails(w) \/ Reply(w)

Next ==
    \/ Count \/ Report \/ SenderSteps \/ CheckThread \/ StartThread \/ Flap
    \/ \E w \in Workers : WorkerSteps(w)

Spec == Init /\ [][Next]_vars

\* Every thread is scheduled, the main loop goes on, report intervals end.
\* Results need not come, and the address may stay away.
FairSpec ==
    /\ Spec
    /\ WF_vars(Report) /\ WF_vars(SenderSteps) 
    /\ WF_vars(CheckThread) /\ WF_vars(StartThread)
    /\ \A w \in Workers : WF_vars(WorkerSteps(w))

-----------------------------------------------------------------------------
(* Properties.                                                             *)

\* The type invariant; a file has one thread at most.
TypeOK ==
    /\ pending \subseteq Pings /\ DOMAIN dstip2result \subseteq Dsts
    /\ Len(ring) <= RingSize
    /\ ToSet(ring) \cup ToSet(msgs) \cup inbox \cup late
         \cup replied \cup lost \subseteq DOMAIN made
    /\ spc \in {"read", "send", "wait", "dead"} /\ (spc \in {"send", "wait"} <=> msgs # <<>>)
    /\ {up, running, stop_event} \subseteq BOOLEAN /\ (~running => spc = "dead")
    /\ wpc \in [Workers -> {"recv", "get", "set"}]
    /\ \A w \in Workers : wpc[w] = "set" => todo[w] # {}

\* Every result the result thread has taken is in the window or in exactly one
\* report, also when the ring was full.
PingsOf(window) == UNION {window[d].pings : d \in DOMAIN window}

CountedOnce ==
    /\ PingsOf(dstip2result) \cup UNION {PingsOf(made[r]) : r \in DOMAIN made} = Pings \ pending
    /\ \A r \in DOMAIN made :
          /\ PingsOf(made[r]) \cap PingsOf(dstip2result) = {}
          /\ \A q \in DOMAIN made : q # r => PingsOf(made[r]) \cap PingsOf(made[q]) = {}

\* Results, reports and the states of sender and workers fit together.
ReportInv == TypeOK /\ CountedOnce

\* Redis shows the newest of the lines the collector has compared ("To avoid
\* showing old data in redis, we catch the out-of-order POSTs by comparing the
\* 'ts_end' and ignore the old arrivals").
ShownIsNewest ==
    \A s \in seen : redis[s[2]] >= made[s[1]][s[2]].ts_end

\* Sending does not stop: a report is answered by the collector or lost, with a
\* full ring or with a sender thread that died, and the reports behind it go on.
\* That holds when the address comes back for good, however it came and went
\* before, and also if the thread was told to stop and has not ended yet; while it
\* is away, reports stay in the ring.
ReportIsSettled ==
    <>[]up => \A r \in 1 .. Cardinality(Pings) : (r \in DOMAIN made) ~> (r \in replied \cup lost)
=============================================================================
