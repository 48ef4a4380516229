----------------------------- MODULE PingLedger -----------------------------
(***************************************************************************)
(* What a ping table promises, whatever the protocol: a ping that was      *)
(* begun is pending until it ends, ends once, and ends well only if the    *)
(* destination has answered it.  TcpUdpClient and RdmaClient implement it. *)
(***************************************************************************)
CONSTANTS
    Ids,             \* ping ids
    Good, Bad        \* ways to end

VARIABLES
    fate,            \* "none", "pending" or the way the ping has ended
    answered         \* pings their destination has answered

vars == <<fate, answered>>

Init ==
    /\ fate = [i \in Ids |-> "none"]
    /\ answered = {}

Begin(i) ==
    /\ fate[i] = "none"
    /\ fate' = [fate EXCEPT ![i] = "pending"]
    /\ UNCHANGED answered

Answer(i) ==
    /\ fate[i] # "none"
    /\ answered' = answered \cup {i}
    /\ UNCHANGED fate

End(i) ==
    /\ fate[i] = "pending"
    /\ \E f \in Good \cup Bad :
          /\ f \in Good => i \in answered
          /\ fate' = [fate EXCEPT ![i] = f]
    /\ UNCHANGED answered

Next == \E i \in Ids : Begin(i) \/ Answer(i) \/ End(i)

Spec == Init /\ [][Next]_vars
=============================================================================
