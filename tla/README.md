# pingweave in TLA+

pingweave measures latency and loss between hosts with RoCE, InfiniBand, TCP
and UDP pings.  This directory models the parts of it in which several threads
or processes share state, checks them with TLC on small instances and proves
the central properties with TLAPS for every instance.

Paths are relative to the repository; the program itself is under `src/`.

## 1. The system

| part | files | state it keeps | operations | talks to |
|---|---|---|---|---|
| RDMA client process | `rdma_client.cpp` | ping table, `client_queue`, send and receive contexts, report window | threads tx_sched, tx_cqe, rx, result; a monitor that looks at their `alive` flags | server over RDMA, `agent_sender.py` over the ring, controller over HTTP (alarms) |
| RDMA ping table | `rdma_ping_info.hpp` | `map` (ping id -> entry), `keyList` (ids by age) | insert (with lazy expiry), update_ping_cqe_time, update_pong_info, update_ack_info, logging, remove | pushes results into `client_queue` |
| RDMA server process | `rdma_server.cpp`, `rdma_ping_msg.hpp` | `server_queue`, PingMsgMap, send buffers | rx, tx and tx_cqe threads, monitor | clients |
| verbs layer | `rdma_common.cpp` | contexts, buffers, address handles | init, post_recv, post_send, wait_for_cq_event, save_device_info | NIC |
| TCP/UDP clients and servers | `tcp_*.cpp`, `udp_*.cpp`, `tcpudp_common.cpp`, `tcpudp_ping_info.hpp` | ping table, `client_queue`, report window | tx, rx (UDP), result threads | each other, the ring |
| inter-thread queue | `libs/readerwriterqueue`, used by every C++ process | ring of blocks with an index pair each, a semaphore | try_enqueue, wait_dequeue_timed | one producer and one consumer thread |
| schedulers | `scheduler.hpp`, `rdma_scheduler.hpp`, `tcpudp_scheduler.hpp` | destination list, position, time of the last load and of the next ping, retry count | next, load_address_info | files written by `agent_fetcher.py` |
| ring | `ipc_producer.hpp`, `ipc_consumer.py` | `slots`, `head`, `tail` in POSIX shared memory | writeMessage, read_messages, constructor, destructor | two processes without a lock |
| sender | `agent_sender.py` | one thread per ring, batches | read_messages, parse, send over ZMQ or HTTP, restart dead threads | controller |
| fetcher | `agent_fetcher.py` | files on disk | fetch pinglist and address store, upload own address | controller |
| supervisor | `pingweave.py`, `pingweave_agent.py`, `pingweave_ctrl.py` | child processes, retry count | read the pinglist, end and start children, watch services | every process of a host, systemd |
| controller | `ctrl_collector_http.py`, `ctrl_collector_zmq.py`, `ctrl_consumer.py`, `ctrl_webserver.py`, `common.py` | address store, pinglist in memory, Redis | collect results, keep the newest per pair, serve lists | agents, Redis |
| plotter | `ctrl_heatmap_plotter.py` | figures | reads Redis, draws | browser |

A ping travels like this: tx_sched inserts it into the ping table and posts it;
the NIC reports its departure to tx_cqe (or tx_sched itself reads the clock);
the server's rx thread queues it, its tx thread stores it and answers with a
PONG, and its tx_cqe thread, told by the NIC that the PONG has left, answers
with an ACK that carries the server's delay; the client's rx thread records
both.  When the three records of a ping are there, or when it is too old, a
result goes to `client_queue`; the result thread counts the results of a window
per destination and writes one report into the ring; `agent_sender.py` takes
it from there to the controller, which keeps the newest one per pair in Redis.

### What is hard

* three threads complete one ping, in any order, while a fourth inserts the
  next one and expires old ones (`rdma_ping_info.hpp`);
* clocks that wrap around, are read at different instants, and by two
  different devices;
* a ring between two processes without a lock, whose ends are killed and
  started again by a supervisor (`ipc_producer.hpp`, `ipc_consumer.py`);
* one-shot completion events that are armed again after the poll;
* send buffers shared by pings whose ids agree modulo their number;
* bounded queues that drop when they are full;
* a detached thread per TCP ping, each of which inserts, expires and completes
  entries of one table (`tcp_client.cpp`, `tcpudp_common.cpp`);
* read-compare-write on Redis by several workers;
* retry counters that decide when an old list is given up, and three layers of
  loops that start each other again (services, children, main);
* a queue between threads whose indices are cached on both sides and whose
  wake-ups race the consumer's timeout;
* a list of destinations that starts from the front again at every load.

`PROJECT.json` lists these as `hazards`, each at its line, with the properties
that are about it.

## 2. The modules

| module | models | state ↔ code |
|---|---|---|
| `IpcRing` | `ipc_producer.hpp`, `ipc_consumer.py` | `head`, `tail`, slots of the shared segment; every load, store and half of a copy is a step; starts, stops and kills of both ends at any moment; `orderly` remembers whether a start or end of the producer has cut into a read |
| `IpcQueue` | what the ring promises: a bounded FIFO that loses reports only with a process, and promises nothing from a start that cuts into a read until a read finds it empty (`sound`) | abstract specification, `IpcRing` implements it (`ImplementsQueue`) |
| `RdmaClient` | `rdma_ping_info.hpp` and the threads of `rdma_client.cpp` that use it | `map` and `keyList` are the table, `queue` is `client_queue`, `txpc` the place of tx_sched; `wire`, `serving` and `acked` stand for network and server, `verdict` remembers what became of a ping |
| `RdmaServer` | `rdma_server.cpp`, `rdma_ping_msg.hpp`, `post_send` of `rdma_common.cpp` | `server_queue`, `map`/`keyList` (PingMsgMap), `buf` (send buffers), `sq`/`cqes` (send queue of the NIC), `txpc` and `cqpc` (places of tx and tx_cqe: the two halves of the copy into the buffer, the post and the removal are steps, because `post_send` has no lock), `rxEvent` and `cqEvent` (armed, event, polling, off: a thread sleeps until an event, as in `CqNotify`); `overlapped` remembers the pings that were answered from one buffer at the same time |
| `TcpUdpClient` | `tcpudp_ping_info.hpp`, the threads of `tcp_client.cpp` and `udp_client.cpp`, send and receive of `tcpudp_common.cpp`, the loop of `udp_server.cpp` | `map`/`keyList` (the table), `stage` (how far the sending of each ping is: one UDP thread, or one TCP thread per ping), `window` (`dstip2result`), `reported` (all that was handed to `writeMessage`) |
| `PingLedger` | what a ping table promises: a ping ends once, and well only if it was answered | abstract specification, `TcpUdpClient` and `RdmaClient` implement it (`ImplementsLedger`) |
| `MCTcpUdpClient` | `TcpUdpClient` with interchangeable destinations, for TLC | |
| `CqNotify` | `wait_for_cq_event`, the two ways of polling and `ibv_req_notify_cq` | `notify` (armed, fired, off), `waiting` completions, one of them followed by `mark` |
| `ReportPath` | result thread → ring → `agent_sender.py` → collectors → Redis | `dstip2result`, `ring`, `msgs` (what the sender has read), `running`/`stop_event` (`files_running` and the event of the thread), `up` (`check_ip_active`), `late` (reports whose reply the thread no longer waits for), `job`/`todo`/`curr_ts_end` (a worker), `redis` |
| `AddressPath` | server → upload file → fetcher → webserver → fetcher → download file → scheduler | `upload`, `address_store`, `checkpoint`, `download`, `addressInfo`, both retry counts |
| `RwQueue` | `readerwriterqueue.h`, `atomicops.h`: `try_enqueue` and `wait_dequeue_timed` as the project calls them | blocks with `front`, `tail` and the copies `localFront`, `localTail`; `m_count` and `m_sema` (the semaphore); every access to a location both threads use is a step; `accepted` remembers what was taken in |
| `MsgQueue` | what the queue promises: a FIFO | abstract specification, `RwQueue` implements it (`ImplementsFifo`) |
| `MsgScheduler` | `scheduler.hpp`, `rdma_scheduler.hpp`, `tcpudp_scheduler.hpp` | `addressInfo`, `addr_idx`, `inter_ping_interval_us`, `load_yaml_retry_cnt`; the files are groups of addresses, up to the node that makes an accessor throw; `sinceLoad`, `sincePing` and `sleep` are the clock of the sending thread |
| `MCMsgScheduler` | the contents of the files for TLC | |
| `Supervisor` | `pingweave.py`, `pingweave_agent.py`, `pingweave_ctrl.py`, systemd | `proc` (`running_processes`), `cntr` (the retry count), `services` of agent and controller, `control_host` (an address of this host that is up, one that is down, or another host) and main's copy of it, `orphans` and `stray`: what runs without a parent that knows it |
| `*Proofs` | the theorems about each module; `HostProofs` has those about `CqNotify`, `AddressPath` and `Supervisor`, whose names are disjoint for that reason | |

`PROJECT.json` gives, under `map`, the source lines of every definition.  A
definition with a suffix (`Erase_MapOnly`) and the comment "Mutant" is the
definition it stands beside with a plausible bug; it is used by no
specification and only shows that the property it is listed with can fail.

What the modules abstract from:

* addresses and payloads: a ping is its number, a report the set of results in
  it, an address the number of its queue pair;
* memory order of the inter-thread queue: the fences of the library are taken to do
  their work, so its steps interleave;
* in the clients and the server that queue is a sequence that refuses at its size.
  `RwQueue` shows what this stands for: the real one refuses only with at least
  that many items in it, keeps their order, and hands each over once;
* a mutex: code under one lock is one step, except `insert` of the two
  ping tables, in whose loop the result thread may run (it takes no lock);
* time: small integers that move on their own (`Tick`).  The modulus of the
  delay arithmetic is kept, with a small value, and the runs start the clock
  just before it wraps;
* the NIC: it executes sends in order, reads a buffer when it sends it, and adds
  a completion; the network loses, delays and reorders.

## 3. Runs

Passing runs:

| run | what it shows |
|---|---|
| `ipc_ring` | reader and writer never touch a slot together (`NoSlotRace`); reports come out in order, once and whole (`DeliveredInOrder`); none vanishes except with a process (`NothingVanishes`); all three until a start or end of the producer cuts into a read, and again from the first read that ends on an empty ring, which always comes (`OrderReturns`); the ring implements `IpcQueue` (`ImplementsQueue`); what was accepted is delivered or lost with a process (`AcceptedIsDelivered`) |
| `rdma_client` | with and without NIC timestamps: list and map agree, oldest first (`ListMatchesMap`); every ping is in the table or has one fate (`EachPingOnePlace`) that is final (`FateIsFinal`); a success has the ACK of the server (`SuccessIsAnswered`); with NIC timestamps the delays of a success fit into the time that passed (`NicDelaysFit`); the client implements `PingLedger` (`ImplementsLedger`) |
| `tcpudp_client` | the same of the table of the TCP and UDP clients (`TableInv`, `ExpiryIsComplete`), into which TCP threads insert in any order; a delay is no longer than the time that passed, also over a wrap of the clock (`DelayFits`); for each destination, reported, counted and queued results add up to the pings that ended (`CountsAreTrue`); the clients implement `PingLedger` (`ImplementsLedger`) |
| `rdma_server` | an answer carries the id of another ping only if the two were answered at the same time from the same buffer (`SoleAnswerIsOwn`); the ACK of a ping that was not carries the time the server took (`DelayIsServerTime`); the table keeps only pings that are on their way or failed (`NoLeakedEntry`, in `ServerInv`); `post_send` ends the process only for want of an address handle or when more pings are answered than there are buffers (`StaysAlive`); when nothing moves any more, every ping was answered or has a reason, and the only one that is not final is a completion that came between poll and arming (`NoPingForgotten`) |
| `cq_notify` | an event finds a completion (`NoEmptyPoll`), and every completion is handled (`CqeIsHandled`), unless all work requests have completed before the thread armed the notification (`Stalled`) |
| `report_path` | a result is in exactly one report (`CountedOnce`, in `ReportInv`); Redis shows the newest line compared (`ShownIsNewest`, HTTP); a report is answered or lost, and those behind it go on, when the address of the host comes back for good (`ReportIsSettled`) |
| `address_path` | a dead host leaves the answers of the controller in time (`DeadHostLeaves`, in `AddressInv`); a client ends up with the address its peer has now (`AddressArrives`) |
| `rw_queue` | no slot is written while it is read (`NoSlotRace`); the library's assertions, which the build keeps, hold (`AssertionsHold`, in `QueueInv`); an item is refused only when the promised number was in the queue (`RefusedOnlyWhenFull`); the blocks implement `MsgQueue` (`ImplementsFifo`); no wake-up is lost when a timeout meets a signal (`EnqueuedIsDequeued`) |
| `msg_scheduler` | after a load without errors the list has everyone it must have, once (`ListIsRight`); it is never older than the failures that clear it allow (`ListIsFresh`, in `SchedulerInv`); everyone is pinged between two loads if a turn fits (`NobodyStarves`) |
| `supervisor` | no child and no sender runs twice, also after main or a service has died (`OneOfEach`, in `SupervisorInv`); when faults and changes end, the host runs what its pinglist asks for (`Converges`) |

An invariant that ends in `Inv` is the named property together with the type
invariant of its module.

Runs that show a disagreement between the code and what it says of itself
(`findings` quotes the lines):

| run | what happens |
|---|---|
| `rdma_server_overlay` | without inline sends, two pings whose ids agree modulo 256: a client gets the PONG of another client |
| `report_path_race` | two ZeroMQ workers read, compare and store: the older line wins |

Known limits of the code that the models show too, with the change of a run that
makes TLC find them:

* `ipc_ring` with the invariant `orderly`: a producer that starts or ends while
  `read_messages` runs stores both indices under the reader
  (`ipc_producer.hpp:126`), and so does one that starts after a constructor was cut
  short.  A report may then be handed over twice, out of order or not at all.  The
  properties of the ring promise nothing from there until a read ends on an empty
  ring.
* `rdma_server` with the invariant `AnswerIsOwn`: also with inline sends, tx and tx_cqe
  copy into one buffer before either posts (`rdma_common.cpp:574`), and an answer
  leaves with the id of another ping, or with half of each message.
* `rdma_client` with `Stampers = {"host"}` and a modulus of 8, invariant `DelaysFit`:
  without NIC timestamps the clock is read after `post_send` has returned
  (`rdma_client.cpp:396`); a PONG handled before that gives a delay that wraps.
* `cq_notify` with the invariant `~Stalled`: completions that arrive between poll and
  arming, or that a batch of 16 left behind, raise no event
  (`rdma_server.cpp:158`); when they are all the work requests there are, the
  thread sleeps for good.
* `supervisor` with the invariant `mainpc # "ended"` and `MaxDeaths = 0`: a pinglist that
  cannot be read for more than ten rounds ends main (`pingweave.py:156`), although
  `pingweave.py:125` says "Use empty pinglist".  With the invariant
  `orphans[Ctrl] = 0`: a controller that is killed because the control host moved
  (`pingweave.py:149`) leaves its services, which hold the ports of the next one.
* `msg_scheduler`: a file that parses but stops in the middle replaces the list and
  sets the count of failures to 0 (`rdma_scheduler.hpp:240`), so "clear if
  successively failed >= MAX_RETRY_LOAD_YAML times" never happens to it.  When a
  turn over the list does not fit between two loads (`TurnFits` is false), the
  end of the list is never pinged.
* The monitors of the C++ processes ("Restarted: ..." alarms) never restart a thread:
  the exception that clears an `alive` flag is thrown again and ends the process.
  The model has this as the end of a child (`ChildDies`).

### Bounds

Every bound is a constant with "bound" in its comment.

* `ipc_ring`: a ring of 3 slots holds 2 reports, so full, empty and wrap-around
  all occur; 5 reports go around more than once; two stops of the producer and
  one end of the reader reach a restart on a ring in every position, at any
  moment of a read, and a second one before order has returned.
* `rdma_client`: 2 pings, two repeated messages, 2 ticks and a queue of one make late and
  duplicate answers, expiry and a full queue meet.  With a modulus of 4 both
  clocks pass it.  (3 ticks and one repeated message pass too, in twice the time.)
  An insert that could leave an expired entry behind a fresh one takes 3 pings, which
  is beyond the run (3.6 million states with one tick and one repeated message); that
  it leaves none is the theorem `ExpiryCorrect`, for every number of pings.
* `tcpudp_client`: 3 pings, 2 ticks against a threshold of 1, a queue of one and a
  repeated datagram, for a clock that wraps at 4; 2 destinations so that counts
  could be mixed up.  Destinations are interchangeable (`SYMMETRY`).
* `rdma_server`: 3 pings on 2 buffers reach the full send queue and two pings that
  share a buffer at every pair of places of tx and tx_cqe; a queue of one,
  one failing send and one tick (with a threshold of one) reach a dropped ping,
  a leftover entry and an expired one.  The clock wraps with that tick.
* `cq_notify`: 8 work requests and batches of 3, and as many completions between poll
  and arming as there are work requests, so `Window` restricts nothing.
* `report_path`: 3 results for 2 destinations, a ring of 2, two late replies, one
  failing send, one exception; the address goes, comes back and goes (3 changes),
  so a thread that was told to stop meets the address when it is back.
* `address_path`: 2 starts of the server, 2 faults, retry limits of 1 and 2 instead
  of 3, and 5 ticks against an expiry of 2, so that an entry can expire.
* `rw_queue`: `MaxBlockSize = 2` stands for 512; a queue of size 2 is one block of four
  slots, one of size 4 a ring of five blocks of two, so both layouts the
  constructor knows occur; 9 items go around each.  (Blocks of four, sizes 3 and 8
  and 12 items pass too.)  A timeout may come at any wait.
* `msg_scheduler`: five pinglists (groups that overlap, unreadable, cut off in either
  category, one destination) and three address stores, 3 changes; two intervals,
  one whose turn of four fits between two loads and one whose turn does not; a
  thread may wake one tick late each time.
* `supervisor`: 2 C++ processes, agent and controller, a retry limit of 2 instead of
  10, 3 changes of pinglist or control host (which may move, or lose and regain its interface), 2 deaths or failing starts.  In
  `rw_queue`, `msg_scheduler`, `address_path`, `ipc_ring` and `supervisor` deadlock is
  checked.

`CHECK_DEADLOCK FALSE` is given where the bounded environment may run out of pings,
results or ticks and everything is idle, and in `cq_notify`, where the
thread may stall.

### Fairness

Weak fairness of a thread's steps: the threads are loops without a condition to
end, scheduled by the system, and each blocks only on what the step's guard says.
`RdmaServer` has none: two of its threads sleep until an event, and a completion
between poll and arming raises none, so that a ping is answered in the end does not
follow from the scheduling.  `NoPingForgotten` states instead how the server may come
to rest.  `CqNotify` adds traffic: as long as a work request is posted, another
completion comes, because clients ping forever.  `ReportPath` adds the report interval and
the main loop of `agent_sender.py`, which runs once a second; a new thread is
started only while the address is on an interface, so `ReportIsSettled` has
`<>[]up` as its premise.  `AddressPath` adds the loops of fetchers and scheduler; faults
are bounded in number, so requests succeed in the end.  `RwQueue`: the consumer loops on `wait_dequeue_timed`, the producer ends a call it
has begun.  `Supervisor`: main and the watching loops of agent and controller run about
once a second, and `scripts/pingweave.service` has `Restart=always`; deaths and changes
are bounded in number.  Clocks, results, starts and faults have no fairness.

## 4. Proofs

TLAPS checks the theorems for every value of the constants that satisfies the
module's `ASSUME`; a hypothesis beyond that is part of the theorem and named
below.  Every safety property and every refinement that a passing run checks is
also a theorem.  For each module: the results, then what the inductive
invariant adds to them and why.

* `IpcRingProofs`: `TypeCorrect` (`TypeOK`), `RingCorrect` (`NoSlotRace`,
  `DeliveredInOrder`, `NothingVanishes`) and `QueueImplemented` (`ImplementsQueue`)
  for every ring size and every number of reports and restarts, at any moment; no
  hypothesis on the constants.  `RingInv`, which holds while the ring is `orderly`,
  adds where each side is inside its operation, that what lies between head and tail
  is exactly what was accepted and not delivered, and how the reader's private
  copies relate to the indices: none of the three properties implies itself one
  step later without that.  `DisturbedInv` says what is left when a start has cut
  into a read (types, a writer that knows its slot, and empty histories), and that a read that ends on an
  empty ring with no constructor at work restores `RingInv`.  The same invariant names
  the contents of the abstract queue.
* `RwQueueProofs`: `QueueCorrect` (`NoSlotRace`, `QueueInv` with the assertions of the
  library, `RefusedOnlyWhenFull`) and `FifoImplemented` (`ImplementsFifo`) for every
  block size, every size the constructor is asked for and any number of
  calls.  `FifoInv` says that the blocks between front and tail block are full
  and the others empty, but for the one the producer is about to enter
  (`BlocksInv`); that each side's copy of the other's index is not ahead of it
  and what each side has decided on the strength of it (`ProducerInv`,
  `ConsumerInv`); that the count of the semaphore is the number of items less
  the one the consumer claims, through every meeting of a timeout and a signal
  (`SemaInv`); and that the slots in use hold the accepted items that are not
  out yet, in order (`DataInv`).
* `RdmaClientProofs`: `TableCorrect` (`TypeOK`, `ListMatchesMap`, `EachPingOnePlace`,
  `SuccessIsAnswered`), `FateCorrect` (`FateIsFinal`), `ExpiryCorrect`
  (`ExpiryIsComplete`) and `LedgerImplemented` (`ImplementsLedger`) for every number
  of pings, threshold, clock and queue size.  `ClientInv` adds that a ping in the
  table has no fate yet, that an entry marked with an ACK and an ACK under way
  were sent by the server, that no entry is younger than the clock, and which
  ping tx_sched works on; `SentInv` that only inserted pings are under way.
  `YoungDelaysCorrect` (`NicDelaysFit`): the delays of a success fit
  into the time since the insert.  `NicInv` says what the fields of an entry
  hold after any subset of completion, PONG and ACK (a stamp, or the difference
  of two), as long as none of them was recorded twice (`Clean`: the count that
  `logging` looks at tells), and that the stamps still under way fit to them, in
  the order send, arrival, reading of the clock.  The subtractions are modulo
  `PINGWEAVE_TIME_CALC_MODULO` (4.3 seconds), so the hypothesis is that no entry
  of the table gets that old (`[]Young`): a comment in `macro.hpp:61` asks for an
  expiry below 2 seconds for this reason, but an entry is expired only by the
  next insert.  The clocks may wrap any number of times.
* `TcpUdpClientProofs`: `ClientCorrect` (`TableInv`, `DelayFits`, `CountsAreTrue`),
  `ExpiryCorrect` (`ExpiryIsComplete`) and `LedgerImplemented` (`ImplementsLedger`) for
  both protocols, any number of pings, threads and destinations, every threshold, queue
  size and width of the clock.  `ClientInv` adds which pings a thread may still
  insert, that the entry of a ping has its destination and insert time, and that
  what is under way was sent after the insert.
* `RdmaServerProofs`: `ServerCorrect` (`ServerInv`, `StaysAlive`) and `AnswerCorrect`
  (`SoleAnswerIsOwn`) for every number of pings, buffers and queue places, with inline
  sends or without; with NIC stamps (`HwTs`) `DelayModuloCorrect` (the delay of an ACK is the
  time in the server modulo the modulus, however long the server runs) and
  `DelayCorrect` (`DelayIsServerTime`: exactly that time for a ping that stayed for less
  than the modulus, however often the clocks wrapped).  `PathInv` says
  that a ping is in one place of the way from arrival to ACK (`OnePlace`): the
  limit of the send queue, the entries that somebody will still remove, and the
  stamps in the messages all rest on it.  `AnswerInv` says that the buffer of a ping
  that overlapped with no other holds, from the first half of the copy to the moment
  the NIC reads it, what that ping's thread copied.
* `ReportPathProofs`: `ReportCorrect` (`ReportInv`), `ReportsAccounted` (a report that
  was written is somewhere on its way, answered, or lost for a named reason) and,
  for one worker, `ShownCorrect` (`ShownIsNewest`), for any number of pings and
  destinations, every ring size, and an address that comes and goes at any moment.  `report_path_race` shows that the last one needs its
  hypothesis.
* `MsgSchedulerProofs`: `SchedulerCorrect` (`ListIsRight`, `SchedulerInv`) and
  `NobodyIsLeftOut` (`NobodyStarves`) for files with any number of groups, any
  interval and any delay of the thread.  What the loops of `load_address_info`
  compute is proved by induction over the data: the lemma `Induction` takes the
  least counterexample of a set of numbers, which the provers can instantiate.
  `TurnInv` counts, while a turn is not done, the time since the load against the
  destinations already served.
* `HostProofs`: `NotifyCorrect` (`TypeOK`, `NoEmptyPoll`) for every batch size and
  depth; `NotifyInv` adds that an event in the channel, or a round that has just
  begun, comes with a completion, and that the notification is off while the
  thread works.  `AddressCorrect` (`AddressInv`) for every expiry, interval and
  retry limit; `AddressStrong` adds that nothing on the way is newer than the
  server's queue pair, and that an entry that outlived the last check was not too
  old then, which bounds its age at the next request.  `SupervisorCorrect`
  (`SupervisorInv`) for every set of processes; the invariant is inductive as it
  stands, because main never kills the agent.

Only model-checked: what must eventually happen (`AcceptedIsDelivered`, `OrderReturns`,
`EnqueuedIsDequeued`, `CqeIsHandled`, `ReportIsSettled`, `AddressArrives`, `Converges`)
and how the server comes to rest (`NoPingForgotten`), because fairness and ENABLED are
outside the prover.  The proofs say nothing of the host-stamped client's delays
(`DelaysFit` without NIC timestamps, which is false, see section 3), of the reports of
a ring that is not `orderly`, nor of the answers to pings that overlapped in a buffer.

## 5. Not modelled

* set-up and threads of the TCP and UDP servers, which keep no state;
* restarts of a client seen by its peers: its ping ids start again at 0 and nothing in
  a message tells the two processes apart, so an answer to the earlier one can
  complete a ping of the later one; no property of the answers holds there;
* the data race on `ah_map` (`rdma_common.cpp:225`), which the tx and tx_cqe threads of
  the server share without a lock, as far as it does not end the process: `AhFails`
  covers a handle that cannot be created and a crash; a handle that belongs to
  another destination, or was destroyed and is still used, is not modelled;
* an entry of the address store that is a list but too short is treated like one that is
  no list; a control host that moves between two addresses of one host;
* the other operations of the inter-thread queue (`enqueue`, which allocates, `peek`,
  `pop`, moves): nothing calls them;
* `ctrl_consumer.py`, which reads a Redis stream and does nothing with it yet;
* statistics, formatting, parsing, the plotter, the pages of the webserver, logging,
  the ini file: pure functions and output, with no state another part relies on;
* opening devices and creating queue pairs; a failure there ends the process
  before any thread runs;
* the experiments under `src/test_*`, and the vendored libraries other than the queue: the
  YAML parser (`libs/fkyaml`, 13,500 lines), the logger with its formatter
  (`libs/spdlog`, 26,000 lines) and the styles of the web pages.  They make up
  more than two thirds of the lines of the repository and none of its own logic; the
  models stand on what the code asks of them: a file parses or throws, and where.

## 6. Plan

What is left, in this order:

1. Client and server composed: `ServerPong` and `ServerAck` of `RdmaClient` refined by
   `RdmaServer`.
2. `Young` from a lower bound on the pace of tx_sched: an insert at least every so often
   keeps every entry younger than the modulus.
3. The safety half of the liveness properties: where a thread waits, what it waits for
   is there or on its way.
