------------------------------ MODULE MsgQueue ------------------------------
(***************************************************************************)
(* What the queue between two threads promises: the items that were taken  *)
(* in come out in their order, each of them once.  Whether an item is      *)
(* taken in, and whether a wait ends without one, is left open here.       *)
(***************************************************************************)
EXTENDS Naturals, Sequences

CONSTANT Items

VARIABLES
    queue,      \* taken in, not yet out
    out         \* handed to the consumer so far

qvars == <<queue, out>>

QInit == queue = <<>> /\ out = <<>>

Put(m) == queue' = Append(queue, m) /\ UNCHANGED out

Get ==
    /\ queue # <<>>
    /\ out' = Append(out, Head(queue))
    /\ queue' = Tail(queue)

QNext == Get \/ \E m \in Items : Put(m)

QSpec == QInit /\ [][QNext]_qvars
=============================================================================
