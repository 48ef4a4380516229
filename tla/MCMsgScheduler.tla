--------------------------- MODULE MCMsgScheduler ---------------------------
(* Files for the scheduler: groups that overlap, an unreadable file, and    *)
(* files that stop in the middle of a category.                             *)
EXTENDS MsgScheduler

CONSTANTS A, B, C, D

MCMe == A
MCAddresses == {A, B, C, D}

Good == [parses |-> TRUE, meshOk |-> TRUE, arrowOk |-> TRUE,
         mesh |-> <<<<A, B>>, <<C, D>>, <<B, A, C>>>>,
         arrow |-> <<[src |-> <<C>>, dst |-> <<D>>], [src |-> <<B, A>>, dst |-> <<C, D>>]>>]

MCPinglists == {Good,
                [Good EXCEPT !.parses = FALSE],
                [Good EXCEPT !.meshOk = FALSE],
                [Good EXCEPT !.mesh = <<>>, !.arrow = <<[src |-> <<A>>, dst |-> <<D>>]>>],
                [Good EXCEPT !.mesh = <<>>, !.arrow = <<>>, !.arrowOk = FALSE]}

MCStores == {[parses |-> TRUE, ok |-> TRUE, ips |-> <<D, A, B, C>>],
             [parses |-> TRUE, ok |-> FALSE, ips |-> <<D>>],
             [parses |-> FALSE, ok |-> TRUE, ips |-> <<>>]}
=============================================================================
