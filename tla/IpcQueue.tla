------------------------------ MODULE IpcQueue ------------------------------
(***************************************************************************)
(* What the shared-memory channel between a ping client (C++) and          *)
(* agent_sender.py promises: a bounded FIFO whose reader keeps a private   *)
(* batch.  The writer may refuse a report; a report that was accepted is   *)
(* either handed over, in order and once, or lost as a whole prefix when   *)
(* the writer re-creates the channel or the reader dies.  A writer that    *)
(* starts or ends while the reader is at work makes the channel unsound:   *)
(* it promises nothing until it is found empty.                            *)
(***************************************************************************)
EXTENDS Naturals, Sequences

CONSTANTS
    Capacity,           \* reports the channel can hold
    Reports             \* what is sent over it

VARIABLES
    sound,              \* the promise holds
    up,                 \* the writer runs
    queue,              \* accepted, not yet taken by the reader
    taken,              \* taken by the reader, not yet returned to its caller
    out                 \* reports returned to agent_sender, in order

qvars == <<sound, up, queue, taken, out>>

QInit == sound = TRUE /\ ~up /\ queue = <<>> /\ taken = <<>> /\ out = <<>>

Put(m) ==
    /\ up /\ Len(queue) < Capacity
    /\ queue' = Append(queue, m)
    /\ UNCHANGED <<up, taken, out>>

Take ==
    /\ queue # <<>>
    /\ taken' = Append(taken, Head(queue))
    /\ queue' = Tail(queue)
    /\ UNCHANGED <<up, out>>

Return ==
    /\ out' = out \o taken
    /\ taken' = <<>>
    /\ UNCHANGED <<up, queue>>

\* The writer ends: killed, and the channel keeps what it holds, or by its
\* destructor, which empties it.
Stop ==
    /\ up /\ up' = FALSE
    /\ queue' \in {queue, <<>>}
    /\ UNCHANGED <<taken, out>>

\* A new writer empties the channel before it runs.
Clear == ~up /\ queue' = <<>> /\ UNCHANGED <<up, taken, out>>
Start == ~up /\ queue = <<>> /\ up' = TRUE /\ UNCHANGED <<queue, taken, out>>

\* The reader dies with the batch it had not returned.
LoseTaken == taken' = <<>> /\ UNCHANGED <<up, queue, out>>

FifoNext ==
    \/ \E m \in Reports : Put(m)
    \/ Take
    \/ Return
    \/ Stop \/ Clear \/ Start
    \/ LoseTaken

\* The channel is found empty, and what went over it before is forgotten.
Restore ==
    /\ ~sound /\ sound'
    /\ queue' = <<>> /\ taken' = <<>> /\ out' = <<>>
    /\ UNCHANGED up

QNext ==
    \/ sound /\ sound' /\ FifoNext
    \/ ~sound'
    \/ Restore

QSpec == QInit /\ [][QNext]_qvars
=============================================================================
