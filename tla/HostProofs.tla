----------------------------- MODULE HostProofs -----------------------------
(***************************************************************************)
(* Three components with short proofs: the completion events of an RDMA    *)
(* process (CqNotify), the way of a server's address to its clients        *)
(* (AddressPath), and the processes of a host (Supervisor).  Their names   *)
(* and variables are disjoint; each theorem is about one of the three      *)
(* specifications and says nothing of the variables of the others.         *)
(***************************************************************************)
EXTENDS CqNotify, AddressPath, Supervisor, TLAPS

-----------------------------------------------------------------------------
(* Completion events.                                                      *)

LEMMA NotifyInit == Init => NotifyInv
BY NotifyAssumption DEF Init, NotifyInv, TypeOK, NoEmptyPoll

LEMMA NotifyStep ==
    ASSUME NotifyInv, [Next]_vars
    PROVE  NotifyInv'
<1> USE NotifyAssumption DEF NotifyInv, TypeOK, NoEmptyPoll
<1>1. ASSUME NEW follow \in BOOLEAN, Arrive(follow) PROVE NotifyInv'
  BY <1>1 DEF Arrive
<1>2. CASE GetEvent
  BY <1>2 DEF GetEvent
<1>3. CASE PollNext
  BY <1>3 DEF PollNext, Handle
<1>4. CASE PollEnd
  BY <1>4 DEF PollEnd
<1>5. CASE PollBatch
  BY <1>5 DEF PollBatch, Handle
<1>6. CASE Arm
  BY <1>6 DEF Arm
<1>7. CASE UNCHANGED vars
  BY <1>7 DEF vars
<1> QED
  BY <1>1, <1>2, <1>3, <1>4, <1>5, <1>6, <1>7 DEF Next, Thread

\* No thread ever polls an empty queue after an event, which would end the
\* process (server, client rx) or leave the notification unarmed (client tx_cqe).
THEOREM NotifyCorrect == Spec => [](TypeOK /\ NoEmptyPoll)
<1>1. NotifyInv /\ [Next]_vars => NotifyInv'
  BY NotifyStep
<1>2. NotifyInv => TypeOK /\ NoEmptyPoll
  BY DEF NotifyInv
<1> QED
  BY NotifyInit, <1>1, <1>2, PTL DEF Spec

-----------------------------------------------------------------------------
(* The way of an address.                                                  *)

\* The inductive invariant: nothing under way is newer than the queue pair of the
\* server, and an entry that outlived the last check was not too old then.
AddressStrong ==
    /\ AddressInv
    /\ upload \in {Torn} \cup 1 .. qpn /\ gid_file \in 0 .. qpn
    /\ address_store \in [qpn : 0 .. qpn, utime : 0 .. now] /\ checkpoint \in 0 .. now
    /\ now \in Nat
    /\ address_store.qpn # None => address_store.utime + Expiry >= checkpoint

LEMMA AddressStarts == AddressInit => AddressStrong
BY AddressAssumption
   DEF AddressInit, AddressStrong, AddressInv, AddressTypeOK, DeadHostLeaves, None, Torn

\* Whatever leaves store and checks alone.
LEMMA StoreKept ==
    ASSUME AddressStrong, AddressTypeOK', UNCHANGED <<web, now>>,
           qpn' \in 0 .. MaxQpn, qpn <= qpn',
           upload' \in {Torn} \cup 1 .. qpn', gid_file' \in 0 .. qpn'
    PROVE  AddressStrong'
<1>1. address_store' \in [qpn : 0 .. qpn', utime : 0 .. now']
  <2>1. 0 .. qpn \subseteq 0 .. qpn'
    BY AddressAssumption DEF AddressStrong, AddressInv, AddressTypeOK
  <2> QED
    BY <2>1 DEF AddressStrong, web
<1>2. DeadHostLeaves'
  BY DEF AddressStrong, AddressInv, DeadHostLeaves, Outdated, CheckDue, web
<1> QED
  BY <1>1, <1>2 DEF AddressStrong, AddressInv, web

\* The check of an entry's age, at most once per interval, bounds the age of what
\* is left, whenever the next request comes.
LEMMA AgeBounded ==
    ASSUME NEW t \in Nat, NEW c \in Nat, NEW u \in Nat, u + Expiry >= c,
           ~(c + CheckEvery < t /\ u + Expiry < t)
    PROVE  u + Expiry + CheckEvery >= t
BY AddressAssumption

LEMMA AddressStep ==
    ASSUME AddressStrong, [AddressNext]_addressVars
    PROVE  AddressStrong'
<1> USE AddressAssumption
<1>1. /\ AddressTypeOK /\ now \in Nat /\ qpn \in 0 .. MaxQpn /\ checkpoint \in 0 .. now
      /\ address_store \in [qpn : 0 .. qpn, utime : 0 .. now]
      /\ upload \in {Torn} \cup 1 .. qpn /\ gid_file \in 0 .. qpn
      /\ address_store.qpn # None => address_store.utime + Expiry >= checkpoint
  BY DEF AddressStrong, AddressInv, AddressTypeOK
<1>2. CASE Tick
  <2>1. /\ now' = now + 1
        /\ UNCHANGED <<server, uploader, web, fetcher, scheduler, faults>>
    BY <1>2 DEF Tick
  <2>2. /\ now' \in Nat /\ checkpoint' \in 0 .. now'
        /\ address_store' \in [qpn : 0 .. qpn', utime : 0 .. now']
        /\ address_store'.qpn # None => address_store'.utime + Expiry >= checkpoint'
    <3>1. 0 .. now \subseteq 0 .. now + 1
      BY <1>1
    <3> QED
      BY <1>1, <2>1, <3>1 DEF web, server
  <2>3. DeadHostLeaves'
    BY <1>1, <2>1, <2>2 DEF DeadHostLeaves, Outdated, CheckDue, web
  <2>4. AddressTypeOK'
    BY <1>1, <2>1 DEF AddressTypeOK, server, uploader, web, fetcher, scheduler
  <2> QED
    BY <1>1, <2>1, <2>2, <2>3, <2>4 DEF AddressStrong, AddressInv, server, uploader
<1>3. CASE ServerStart
  <2>1. AddressTypeOK'
    BY <1>1, <1>3 DEF ServerStart, AddressTypeOK, uploader, web, fetcher, scheduler, Torn
  <2> QED
    BY <1>1, <1>3, <2>1, StoreKept DEF ServerStart, uploader
<1>4. CASE save_device_info \/ send_gid_files \/ PostFails
  <2>1. AddressTypeOK'
    BY <1>1, <1>4
       DEF save_device_info, send_gid_files, PostFails, Fault, AddressTypeOK, server, uploader, web,
           fetcher, scheduler, None, Torn
  <2>2. UNCHANGED <<web, now>> /\ qpn' = qpn
    BY <1>4 DEF save_device_info, send_gid_files, PostFails, server
  <2>3. upload' \in {Torn} \cup 1 .. qpn /\ gid_file' \in 0 .. qpn
    <3>1. CASE save_device_info
      BY <1>1, <3>1 DEF save_device_info, uploader, None
    <3>2. CASE send_gid_files
      BY <1>1, <3>2 DEF send_gid_files, server
    <3>3. CASE PostFails
      BY <1>1, <3>3 DEF PostFails, server
    <3> QED
      BY <1>4, <3>1, <3>2, <3>3
  <2> QED
    BY <1>1, <2>1, <2>2, <2>3, StoreKept
<1>5. CASE FetchWrite \/ FetchFails \/ FetcherDies
  <2>1. AddressTypeOK'
    BY <1>1, <1>5
       DEF FetchWrite, FetchFails, FetcherDies, Fault, AddressTypeOK, server, uploader, web,
           fetcher, scheduler, None
  <2>2. UNCHANGED <<server, uploader, web, now>>
    BY <1>5 DEF FetchWrite, FetchFails, FetcherDies
  <2> QED
    BY <1>1, <2>1, <2>2, StoreKept DEF server, uploader
<1>6. CASE load_address_info
  <2>1. AddressTypeOK'
    BY <1>1, <1>6
       DEF load_address_info, LoadFails, AddressTypeOK, server, uploader, web, fetcher, None, Torn
  <2> QED
    BY <1>1, <1>6, <2>1, StoreKept DEF load_address_info, server, uploader
<1>7. CASE post_address \/ WebRestart
  <2>1. /\ UNCHANGED <<now, server, fetcher, scheduler>> /\ gid_file' = gid_file
        /\ address_store' \in [qpn : 0 .. qpn, utime : 0 .. now]
        /\ checkpoint' \in 0 .. now
        /\ address_store'.qpn # None => address_store'.utime + Expiry >= checkpoint'
    BY <1>1, <1>7 DEF post_address, WebRestart, uploader, None
  <2>2. AddressTypeOK'
    BY <1>1, <1>7, <2>1
       DEF post_address, WebRestart, Fault, AddressTypeOK, server, uploader, fetcher, scheduler
  <2>3. DeadHostLeaves'
    <3>1. now' = now /\ address_store'.utime \in Nat /\ checkpoint' \in Nat
      BY <1>1, <2>1
    <3> QED
      BY <1>1, <2>1, <3>1, AgeBounded DEF DeadHostLeaves, Outdated, CheckDue
  <2> QED
    BY <1>1, <2>1, <2>2, <2>3 DEF AddressStrong, AddressInv, server
<1>8. CASE fetch_data
  <2>1. /\ UNCHANGED <<now, server, uploader, scheduler, faults>>
        /\ address_store' \in [qpn : 0 .. qpn, utime : 0 .. now]
        /\ checkpoint' \in 0 .. now
        /\ address_store'.qpn # None => address_store'.utime + Expiry >= checkpoint'
    BY <1>1, <1>8 DEF fetch_data, get_address_store, Outdated, CheckDue, None
  <2>2. AddressTypeOK'
    BY <1>1, <1>8, <2>1 DEF fetch_data, AddressTypeOK, server, uploader, scheduler
  <2>3. DeadHostLeaves'
    <3>1. now' = now /\ address_store'.utime \in Nat /\ checkpoint' \in Nat
      BY <1>1, <2>1
    <3> QED
      BY <1>1, <2>1, <3>1, AgeBounded DEF DeadHostLeaves, Outdated, CheckDue
  <2> QED
    BY <1>1, <2>1, <2>2, <2>3 DEF AddressStrong, AddressInv, server, uploader
<1>9. CASE UNCHANGED addressVars
  <2>1. AddressTypeOK'
    BY <1>1, <1>9 DEF addressVars, AddressTypeOK, server, uploader, web, fetcher, scheduler
  <2> QED
    BY <1>1, <1>9, <2>1, StoreKept DEF addressVars, server, uploader
<1> QED
  BY <1>2, <1>3, <1>4, <1>5, <1>6, <1>7, <1>8, <1>9 DEF AddressNext

\* No file, store or list on the way ever holds an address its server has not
\* had, whatever is torn, lost or restarted, and get_address_store answers with
\* no entry older than its expiry and one interval of the check.
THEOREM AddressCorrect == AddressSpec => []AddressInv
<1>1. AddressStrong /\ [AddressNext]_addressVars => AddressStrong'
  BY AddressStep
<1>2. AddressStrong => AddressInv
  BY DEF AddressStrong
<1> QED
  BY AddressStarts, <1>1, <1>2, PTL DEF AddressSpec

-----------------------------------------------------------------------------
(* The supervisor.                                                         *)

\* Only a kill from outside leaves services of an agent behind: main never
\* kills the agent, and an agent that ends by itself ends its services first.
LEMMA AgentStays ==
    ASSUME SupervisorTypeOK
    PROVE  Agent \notin Unwanted
BY SupervisorAssumption DEF Unwanted

LEMMA LeftBehindTyped ==
    ASSUME SupervisorTypeOK, NEW K
    PROVE  /\ LeftBehind(K) \in [{Agent, Ctrl} -> Nat]
           /\ Gone(K) \in [{Agent, Ctrl} -> {"none", "run", "broken"}]
           /\ Agent \notin K => LeftBehind(K)[Agent] = orphans[Agent]
<1>1. \A k \in {Agent, Ctrl} : orphans[k] \in Nat /\ orphans[k] + 1 \in Nat
  BY DEF SupervisorTypeOK
<1> QED
  BY <1>1 DEF SupervisorTypeOK, LeftBehind, Gone

LEMMA SupervisorStarts == SupervisorInit => SupervisorInv
<1> SUFFICES ASSUME SupervisorInit PROVE SupervisorInv
  OBVIOUS
<1>1. pinglist \in (SUBSET Procs) \cup {Bad} /\ myaddr \in (SUBSET Procs) \cup {Bad}
  BY DEF SupervisorInit
<1>2. {control_host, config} \subseteq Hosts /\ killed \in BOOLEAN
  BY DEF SupervisorInit, Hosts
<1>3. /\ mainpc = "read" /\ cntr \in -1 .. MaxRetry
      /\ proc \in [Keys -> {"absent", "failed", "alive", "dead"}]
      /\ services \in [{Agent, Ctrl} -> {"none", "run", "broken"}]
      /\ orphans \in [{Agent, Ctrl} -> Nat] /\ orphans[Agent] = 0 /\ stray = {}
  BY SupervisorAssumption DEF SupervisorInit
<1> QED
  BY <1>1, <1>2, <1>3 DEF SupervisorInv, SupervisorTypeOK, OneOfEach

LEMMA WorldStep ==
    ASSUME SupervisorInv,
           \/ ChangePinglist \/ ChangeControlHost \/ MainDies
           \/ \E k \in Keys : ChildDies(k)
           \/ \E k \in {Agent, Ctrl} : WatchServices(k) \/ ServiceDies(k)
    PROVE  SupervisorInv'
<1> USE DEF SupervisorInv, OneOfEach
<1>1. CASE ChangePinglist
  BY <1>1 DEF ChangePinglist, main, kids, SupervisorTypeOK
<1>2. CASE ChangeControlHost
  BY <1>2 DEF ChangeControlHost, main, kids, SupervisorTypeOK
<1>3. CASE MainDies
  BY <1>3 DEF MainDies, world, SupervisorTypeOK, Running, Keys
<1>4. ASSUME NEW k \in Keys, ChildDies(k) PROVE SupervisorInv'
  <2>1. /\ LeftBehind({k}) \in [{Agent, Ctrl} -> Nat]
        /\ Gone({k}) \in [{Agent, Ctrl} -> {"none", "run", "broken"}]
        /\ Agent # k => LeftBehind({k})[Agent] = orphans[Agent]
    BY LeftBehindTyped
  <2>2. killed' \in BOOLEAN /\ (killed \/ k = Agent => killed')
    BY <1>4 DEF ChildDies, SupervisorTypeOK
  <2>3. proc' \in [Keys -> {"absent", "failed", "alive", "dead"}]
    BY <1>4 DEF ChildDies, SupervisorTypeOK
  <2>4. /\ orphans' = LeftBehind({k}) /\ services' = Gone({k})
        /\ UNCHANGED <<world, main, stray>>
    BY <1>4 DEF ChildDies
  <2>5. SupervisorTypeOK'
    BY <2>1, <2>2, <2>3, <2>4 DEF SupervisorTypeOK, world, main
  <2> QED
    BY <2>1, <2>2, <2>4, <2>5 DEF main
<1>5. ASSUME NEW k \in {Agent, Ctrl}, WatchServices(k) PROVE SupervisorInv'
  <2>1. /\ UNCHANGED <<world, main, stray, killed, orphans>>
        /\ services' = Gone({k}) /\ proc' = [proc EXCEPT ![k] = "dead"]
    BY <1>5 DEF WatchServices, terminate_multiprocesses
  <2>2. Gone({k}) \in [{Agent, Ctrl} -> {"none", "run", "broken"}]
    BY LeftBehindTyped
  <2>3. SupervisorTypeOK'
    BY <2>1, <2>2 DEF SupervisorTypeOK, world, main
  <2> QED
    BY <2>1, <2>3 DEF main
<1>6. ASSUME NEW k \in {Agent, Ctrl}, ServiceDies(k) PROVE SupervisorInv'
  BY <1>6 DEF ServiceDies, world, main, SupervisorTypeOK
<1> QED
  BY <1>1, <1>2, <1>3, <1>4, <1>5, <1>6

LEMMA MainStepKeeps ==
    ASSUME SupervisorInv, MainStep
    PROVE  SupervisorInv'
<1> USE DEF SupervisorInv, OneOfEach
<1>1. CASE ReadPinglist
  <2>1. cntr' \in -1 .. MaxRetry /\ mainpc' \in {"read", "terminate"} /\ mainpc = "read"
    BY <1>1, SupervisorAssumption DEF ReadPinglist, SupervisorTypeOK
  <2>2. UNCHANGED <<world, kids, killed>> /\ config' = control_host /\ myaddr' = pinglist
    BY <1>1 DEF ReadPinglist
  <2>3. SupervisorTypeOK'
    BY <2>1, <2>2 DEF SupervisorTypeOK, world, kids
  <2> QED
    BY <2>1, <2>2, <2>3 DEF kids
<1>2. CASE Terminate
  <2>1. /\ proc' = [k \in Keys |-> CASE k \in Unwanted -> "dead"
                                     [] k \in Running \ Unwanted -> "alive"
                                     [] OTHER -> "absent"]
        /\ orphans' = LeftBehind(Unwanted) /\ services' = Gone(Unwanted)
        /\ mainpc = "terminate" /\ mainpc' = "start"
        /\ UNCHANGED <<world, myaddr, config, cntr, stray, killed>>
    BY <1>2 DEF Terminate
  <2>2. /\ LeftBehind(Unwanted) \in [{Agent, Ctrl} -> Nat]
        /\ Gone(Unwanted) \in [{Agent, Ctrl} -> {"none", "run", "broken"}]
        /\ LeftBehind(Unwanted)[Agent] = orphans[Agent]
    BY AgentStays, LeftBehindTyped
  <2> HIDE DEF Unwanted, Running
  <2>3. proc' \in [Keys -> {"absent", "failed", "alive", "dead"}]
    BY <2>1
  <2>4. SupervisorTypeOK'
    BY <2>1, <2>2, <2>3 DEF SupervisorTypeOK, world
  <2> QED
    BY <2>1, <2>2, <2>4
<1>3. CASE MainStarts
  <2>1. /\ mainpc' = "read" /\ cntr' \in -1 .. MaxRetry /\ stray' = {} /\ killed' = FALSE
        /\ services' \in [{Agent, Ctrl} -> {"none", "run", "broken"}]
        /\ orphans' \in [{Agent, Ctrl} -> Nat] /\ orphans'[Agent] = 0
        /\ UNCHANGED <<world, myaddr, config, proc>>
    BY <1>3, SupervisorAssumption DEF MainStarts
  <2>2. SupervisorTypeOK'
    BY <2>1 DEF SupervisorTypeOK, world
  <2> QED
    BY <2>1, <2>2
<1>4. ASSUME NEW reached \in SUBSET Keys, MainEnds(reached) PROVE SupervisorInv'
  <2>1. /\ orphans' = LeftBehind(reached) /\ services' = Gone(reached)
        /\ mainpc' = "ended" /\ proc' = [k \in Keys |-> "absent"]
        /\ stray' = stray \cup (Running \ reached)
        /\ UNCHANGED <<world, myaddr, config, cntr, killed>>
    BY <1>4 DEF MainEnds
  <2>2. /\ LeftBehind(reached) \in [{Agent, Ctrl} -> Nat]
        /\ Gone(reached) \in [{Agent, Ctrl} -> {"none", "run", "broken"}]
    BY LeftBehindTyped
  <2>3. SupervisorTypeOK'
    BY <2>1, <2>2 DEF SupervisorTypeOK, world, Running
  <2> QED
    BY <2>1, <2>3
<1>5. ASSUME NEW fail \in SUBSET Keys, Start(fail) PROVE SupervisorInv'
  <2>1. /\ mainpc = "start" /\ mainpc' = "read"
        /\ proc' = [k \in Keys |-> CASE k \in fail -> "failed"
                                     [] k \in Missing \ fail -> "alive"
                                     [] OTHER -> proc[k]]
        /\ services' = [k \in {Agent, Ctrl} |->
                            IF k \in Missing \ fail THEN StartServices(k) ELSE services[k]]
        /\ UNCHANGED <<world, myaddr, config, cntr, orphans, stray, killed>>
    BY <1>5 DEF Start
  <2>2. \A k : StartServices(k) \in {"none", "run", "broken"}
    BY DEF StartServices
  <2> HIDE DEF Missing
  <2>3. proc' \in [Keys -> {"absent", "failed", "alive", "dead"}]
    BY <2>1 DEF SupervisorTypeOK
  <2>4. services' \in [{Agent, Ctrl} -> {"none", "run", "broken"}]
    BY <2>1, <2>2 DEF SupervisorTypeOK
  <2>5. SupervisorTypeOK'
    BY <2>1, <2>3, <2>4 DEF SupervisorTypeOK, world
  <2> QED
    BY <2>1, <2>5
<1> QED
  BY <1>1, <1>2, <1>3, <1>4, <1>5 DEF MainStep

\* Whatever ends, whichever start fails and however the pinglist changes: while
\* main is up no child runs outside its table, and no fetcher or sender runs
\* twice unless the agent was killed from outside.
THEOREM SupervisorCorrect == SupervisorSpec => []SupervisorInv
<1>1. SupervisorInv /\ [SupervisorNext]_supervisorVars => SupervisorInv'
  <2> SUFFICES ASSUME SupervisorInv, [SupervisorNext]_supervisorVars PROVE SupervisorInv'
    OBVIOUS
  <2>1. CASE UNCHANGED supervisorVars
    BY <2>1 DEF supervisorVars, world, main, kids, SupervisorInv, SupervisorTypeOK, OneOfEach
  <2> QED
    BY <2>1, MainStepKeeps, WorldStep DEF SupervisorNext
<1> QED
  BY SupervisorStarts, <1>1, PTL DEF SupervisorSpec
=============================================================================
