------------------------------ MODULE CqNotify ------------------------------
(***************************************************************************)
(* How a thread of an RDMA process (rx and tx_cqe of client and server)    *)
(* learns of completions: it blocks in wait_for_cq_event, polls the        *)
(* completion queue, and only then arms the notification again.  The       *)
(* notification is one-shot: it fires on the next completion that is       *)
(* ADDED, not on one that is already there.                                *)
(***************************************************************************)
EXTENDS Integers

CONSTANTS
    Batches,         \* how threads poll: up to BATCH_CQE completions with ibv_poll_cq, or,
                     \* for 0, ibv_start_poll .. ibv_next_poll until the queue is empty
    Depth,           \* completions that can be outstanding: posted work requests
    Window           \* bound: completions added between the last poll and the arming

ASSUME NotifyAssumption ==
    Batches \subseteq Nat /\ Depth \in Nat \ {0} /\ Window \in Nat

VARIABLES
    batch,           \* how this thread polls: rnic_hw_ts of its context
    waiting,         \* completions in the queue
    mark,            \* position of one of them that is followed, 0 for none
    notify,          \* "armed" (ibv_req_notify_cq is in force), "fired" (an event is
                     \* in the completion channel) or "off"
    pc,              \* the thread: "poll" before and "more" after its first completion
    late             \* completions added since the last poll of this round

vars == <<batch, waiting, mark, notify, pc, late>>

\* ibv_req_notify_cq before the loop; nothing was sent or received yet.
Init ==
    /\ batch \in Batches
    /\ waiting = 0 /\ mark = 0 /\ notify = "armed"
    /\ pc = "wait" /\ late = 0

\* The NIC adds a completion.
Arrive(follow) ==
    /\ waiting < Depth
    /\ pc = "arm" => late < Window
    /\ waiting' = waiting + 1
    /\ mark' = IF follow /\ mark = 0 THEN waiting + 1 ELSE mark
    /\ notify' = IF notify = "armed" THEN "fired" ELSE notify
    /\ late' = IF pc = "arm" THEN late + 1 ELSE late
    /\ UNCHANGED <<batch, pc>>

\* Mutant: the notification is armed before the poll.
GetEvent_ArmFirst ==
    /\ pc = "wait" /\ notify = "fired"
    /\ notify' = "armed"
    /\ pc' = "poll"
    /\ UNCHANGED <<batch, waiting, mark, late>>

\* wait_for_cq_event.
GetEvent ==
    /\ pc = "wait" /\ notify = "fired"
    /\ notify' = "off"
    /\ pc' = "poll"
    /\ UNCHANGED <<batch, waiting, mark, late>>

\* n completions are taken from the front and handled.
Handle(n) ==
    /\ waiting' = waiting - n
    /\ mark' = IF mark > n THEN mark - n ELSE 0

\* One turn of the loop of the extended poll.
PollNext ==
    /\ batch = 0 /\ pc \in {"poll", "more"} /\ waiting > 0
    /\ Handle(1)
    /\ pc' = "more"
    /\ UNCHANGED <<batch, notify, late>>

\* The extended poll finds the queue empty.  An empty first poll throws, and
\* the exception leaves the thread function, which ends the process; the tx_cqe
\* thread of the client returns instead, without arming.
PollEnd ==
    /\ batch = 0 /\ pc \in {"poll", "more"} /\ waiting = 0
    /\ pc' = IF pc = "more" THEN "arm" ELSE "empty"
    /\ late' = 0
    /\ UNCHANGED <<batch, waiting, mark, notify>>

\* ibv_poll_cq, up to batch completions at once.
PollBatch ==
    /\ batch > 0 /\ pc = "poll"
    /\ pc' = IF waiting = 0 THEN "empty" ELSE "arm"
    /\ Handle(IF waiting < batch THEN waiting ELSE batch)
    /\ late' = 0
    /\ UNCHANGED <<batch, notify>>

\* Mutant: the thread goes back to waiting without arming.
Arm_Not ==
    /\ pc = "arm"
    /\ pc' = "wait"
    /\ UNCHANGED <<batch, waiting, mark, notify, late>>

\* ibv_ack_cq_events and ibv_req_notify_cq; an event in the channel stays there.
Arm ==
    /\ pc = "arm"
    /\ notify' = IF notify = "fired" THEN "fired" ELSE "armed"
    /\ pc' = "wait"
    /\ UNCHANGED <<batch, waiting, mark, late>>

Thread == GetEvent \/ PollNext \/ PollEnd \/ PollBatch \/ Arm

Next == Thread \/ \E follow \in BOOLEAN : Arrive(follow)

Spec == Init /\ [][Next]_vars

\* The thread is scheduled, and traffic goes on: tx_sched pings forever, and so
\* do the clients of a server, as long as a work request is posted for it.
FairSpec ==
    /\ Spec
    /\ WF_vars(Thread)
    /\ WF_vars(\E follow \in BOOLEAN : Arrive(follow))

-----------------------------------------------------------------------------
\* The type invariant: positions and counts in range, the states of thread and notification.
TypeOK ==
    /\ batch \in Batches
    /\ waiting \in 0 .. Depth /\ mark \in 0 .. waiting /\ late \in 0 .. Window
    /\ notify \in {"armed", "fired", "off"}
    /\ pc \in {"wait", "poll", "more", "arm", "empty"}

\* An event always finds a completion ("CQE poll receives nothing" is never
\* logged): the order poll, then arm, gives no event for a completion that was
\* polled already.
NoEmptyPoll == pc # "empty"

\* The inductive invariant: an event, and the round it starts, comes with a
\* completion, and the notification is off while the thread works.
NotifyInv ==
    /\ TypeOK /\ NoEmptyPoll
    /\ notify = "fired" => waiting > 0
    /\ notify # "off" => pc = "wait"
    /\ pc = "poll" => waiting > 0

\* The thread waits for an event, and none can come: all work requests have
\* completed and their completions are in the queue.
Stalled == pc = "wait" /\ notify = "armed" /\ waiting = Depth

\* A completion is handled, though it may have to wait for the next one ("Wait
\* for the next CQE", says the loop of every thread), unless the thread stalls.
CqeIsHandled == mark # 0 ~> (mark = 0 \/ Stalled)
=============================================================================
