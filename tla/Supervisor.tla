----------------------------- MODULE Supervisor -----------------------------
(***************************************************************************)
(* Who starts and ends the processes of a host.                            *)
(*                                                                         *)
(*   pingweave.py        (main) reads the pinglist every second, ends the  *)
(*                       children that left it, starts the ones that are   *)
(*                       missing: C++ servers and clients, the agent, and  *)
(*                       the controller on the control host;               *)
(*   pingweave_agent.py  and pingweave_ctrl.py run their services as       *)
(*                       processes of their own and end when one of them   *)
(*                       does, after ending the others;                    *)
(*   systemd             starts main again when it has ended.              *)
(*                                                                         *)
(* The services of an agent or controller that was killed (SIGKILL) are    *)
(* not ended with it: they stay as orphans.                                *)
(***************************************************************************)
EXTENDS Integers, FiniteSets

CONSTANTS
    Procs,           \* keys of C++ processes: address, program and protocol
    Agent, Ctrl,     \* the two keys of Python children
    MaxRetry,        \* rounds a pinglist may be unreadable (10)
    MaxChanges,      \* bound: changes of the pinglist or of control_host
    MaxDeaths        \* bound: processes that end by themselves, failing starts

ASSUME SupervisorAssumption ==
    /\ Agent # Ctrl /\ {Agent, Ctrl} \cap Procs = {}
    /\ MaxRetry \in Nat /\ MaxChanges \in Nat /\ MaxDeaths \in Nat

Keys == Procs \cup {Agent, Ctrl}
Hosts == {"here", "away", "elsewhere"}
Bad == {Agent}       \* no set of C++ processes: get_my_addr_from_pinglist says False

VARIABLES
    pinglist,        \* what the file holds for this host: a set of Procs, or Bad
    control_host,    \* of pingweave.ini: "here" an address of this host, "away" the same
                     \* address while it is on no interface, or "elsewhere"
    mainpc,          \* main: "read", "terminate", "start", or "ended"
    myaddr, config,  \* main: the pinglist and control_host it has read in this round
    cntr,            \* main: pinglist_yaml_load_retry_cntr
    proc,            \* main: running_processes; an entry that is None is "failed"
    services,        \* of Agent and Ctrl: "none", "run", or "broken" when one stopped
    orphans,         \* of Agent and Ctrl: sets of services without their parent
    stray,           \* children that run and are in no table
    killed,          \* history: agents killed by someone else since main started
    changes, deaths

main == <<mainpc, myaddr, config, cntr>>
world == <<pinglist, control_host, changes>>
kids == <<proc, services, orphans, stray>>
supervisorVars == <<world, main, kids, killed, deaths>>

SupervisorInit ==
    /\ pinglist \in (SUBSET Procs) \cup {Bad} /\ control_host \in Hosts
    /\ mainpc = "read" /\ myaddr = Bad /\ config = "elsewhere" /\ cntr = -1
    /\ proc = [k \in Keys |-> "absent"]
    /\ services = [k \in {Agent, Ctrl} |-> "none"]
    /\ orphans = [k \in {Agent, Ctrl} |-> 0]
    /\ stray = {} /\ killed = FALSE
    /\ changes = 0 /\ deaths = 0

Running == {k \in Keys : proc[k] = "alive"}

-----------------------------------------------------------------------------
(* The world around main.                                                  *)

ChangePinglist ==
    /\ changes < MaxChanges /\ changes' = changes + 1
    /\ pinglist' \in ((SUBSET Procs) \cup {Bad}) \ {pinglist}
    /\ UNCHANGED <<control_host, main, kids, killed, deaths>>

\* The file is edited, or the interface of the address goes down or comes up.
ChangeControlHost ==
    /\ changes < MaxChanges /\ changes' = changes + 1
    /\ control_host' \in Hosts \ {control_host}
    /\ UNCHANGED <<pinglist, main, kids, killed, deaths>>

\* What SIGKILL does to a set of children: their services lose their parent.
LeftBehind(K) == [k \in {Agent, Ctrl} |->
    IF k \in K /\ services[k] # "none" THEN orphans[k] + 1 ELSE orphans[k]]
Gone(K) == [k \in {Agent, Ctrl} |-> IF k \in K THEN "none" ELSE services[k]]

\* A child ends: a crash, or someone kills it.
ChildDies(k) ==
    /\ deaths < MaxDeaths /\ deaths' = deaths + 1
    /\ proc[k] = "alive"
    /\ proc' = [proc EXCEPT ![k] = "dead"]
    /\ orphans' = LeftBehind({k}) /\ services' = Gone({k})
    /\ killed' = (killed \/ k = Agent)
    /\ UNCHANGED <<world, main, stray>>

\* One of the services of agent or controller ends.
ServiceDies(k) ==
    /\ deaths < MaxDeaths /\ deaths' = deaths + 1
    /\ services[k] = "run"
    /\ services' = [services EXCEPT ![k] = "broken"]
    /\ UNCHANGED <<world, main, proc, orphans, stray, killed>>

\* Mutant: the others are not ended first.
terminate_multiprocesses_Not(k) ==
    /\ orphans' = LeftBehind({k})
    /\ services' = Gone({k})

terminate_multiprocesses(k) ==
    /\ services' = Gone({k})
    /\ UNCHANGED orphans

\* The loop of pingweave_agent.py and pingweave_ctrl.py finds that a service
\* has stopped: the others are ended, then the process exits.
WatchServices(k) ==
    /\ proc[k] = "alive" /\ services[k] = "broken"
    /\ terminate_multiprocesses(k)
    /\ proc' = [proc EXCEPT ![k] = "dead"]
    /\ UNCHANGED <<world, main, stray, killed, deaths>>

-----------------------------------------------------------------------------
(* One round of main.                                                      *)

\* Mutant: the count starts again with every failure.
ReadPinglist_Forgets ==
    /\ mainpc = "read"
    /\ config' = control_host /\ myaddr' = pinglist
    /\ IF pinglist # Bad
       THEN cntr' = 0 /\ mainpc' = "terminate"
       ELSE cntr' = 0 /\ mainpc' = "read"
    /\ UNCHANGED <<world, kids, killed, deaths>>

\* A pinglist that cannot be read is tried again MaxRetry times, if one was
\* read before; the children are left alone meanwhile, dead ones too.
ReadPinglist ==
    /\ mainpc = "read"
    /\ config' = control_host /\ myaddr' = pinglist
    /\ IF pinglist # Bad
       THEN cntr' = 0 /\ mainpc' = "terminate"
       ELSE IF 0 <= cntr /\ cntr < MaxRetry
            THEN cntr' = cntr + 1 /\ mainpc' = "read"
            ELSE mainpc' = "terminate" /\ UNCHANGED cntr
    /\ UNCHANGED <<world, kids, killed, deaths>>

\* The controller is looked up under the address it was started for: it goes when
\* the file names another one, and stays when the interface is down.
Unwanted == {k \in Running : \/ k \in Procs /\ k \notin myaddr
                             \/ k = Ctrl /\ config = "elsewhere"}

\* Entries of children that have ended are removed; children that are not
\* wanted are killed, their entries go in the next round.
Terminate ==
    /\ mainpc = "terminate"
    /\ ~(myaddr = Bad /\ Running \cap Procs # {})
    /\ proc' = [k \in Keys |-> CASE k \in Unwanted -> "dead"
                                 [] k \in Running \ Unwanted -> "alive"
                                 [] OTHER -> "absent"]
    /\ orphans' = LeftBehind(Unwanted) /\ services' = Gone(Unwanted)
    /\ mainpc' = "start"
    /\ UNCHANGED <<world, myaddr, config, cntr, stray, killed, deaths>>

\* myaddr[k_protocol] of a myaddr that is False raises: main ends.  It kills
\* its children one by one, and stops at an entry that is None.
MainEnds(reached) ==
    /\ mainpc = "terminate" /\ myaddr = Bad /\ Running \cap Procs # {}
    /\ reached \subseteq Running
    /\ (\A k \in Keys : proc[k] # "failed") => reached = Running
    /\ proc' = [k \in Keys |-> "absent"]
    /\ orphans' = LeftBehind(reached) /\ services' = Gone(reached)
    /\ stray' = stray \cup (Running \ reached)
    /\ mainpc' = "ended"
    /\ UNCHANGED <<world, myaddr, config, cntr, killed, deaths>>

\* Main is killed, or ended by its memory limit: the children go on.
MainDies ==
    /\ deaths < MaxDeaths /\ deaths' = deaths + 1
    /\ mainpc # "ended" /\ mainpc' = "ended"
    /\ proc' = [k \in Keys |-> "absent"]
    /\ stray' = stray \cup Running
    /\ UNCHANGED <<world, myaddr, config, cntr, services, orphans, killed>>

Missing == {k \in Keys : /\ proc[k] # "alive"
                         /\ \/ k = Agent
                            \/ k = Ctrl /\ config = "here"
                            \/ k \in Procs /\ myaddr # Bad /\ k \in myaddr}

\* The services of a controller cannot bind their ports while others have them.
StartServices(k) == IF k = Ctrl /\ orphans[Ctrl] > 0 THEN "broken" ELSE "run"

\* start_process for whatever is missing; it may fail, which leaves None.
Start(fail) ==
    /\ mainpc = "start"
    /\ fail \subseteq Missing /\ deaths + Cardinality(fail) <= MaxDeaths
    /\ deaths' = deaths + Cardinality(fail)
    /\ proc' = [k \in Keys |-> CASE k \in fail -> "failed"
                                 [] k \in Missing \ fail -> "alive"
                                 [] OTHER -> proc[k]]
    /\ services' = [k \in {Agent, Ctrl} |->
                        IF k \in Missing \ fail THEN StartServices(k) ELSE services[k]]
    /\ mainpc' = "read"
    /\ UNCHANGED <<world, myaddr, config, cntr, orphans, stray, killed>>

\* systemd starts main again; it kills every process with pingweave_ in its
\* command line before anything else.
MainStarts ==
    /\ mainpc = "ended"
    /\ mainpc' = "read" /\ cntr' = -1
    /\ stray' = {} /\ killed' = FALSE
    /\ services' = [k \in {Agent, Ctrl} |-> "none"]
    /\ orphans' = [k \in {Agent, Ctrl} |-> 0]
    /\ UNCHANGED <<world, myaddr, config, proc, deaths>>

-----------------------------------------------------------------------------
MainStep ==
    \/ ReadPinglist \/ Terminate \/ MainStarts
    \/ \E reached \in SUBSET Keys : MainEnds(reached)
    \/ \E fail \in SUBSET Keys : Start(fail)

SupervisorNext ==
    \/ MainStep
    \/ \E k \in {Agent, Ctrl} : WatchServices(k) \/ ServiceDies(k)
    \/ \E k \in Keys : ChildDies(k)
    \/ MainDies \/ ChangePinglist \/ ChangeControlHost

SupervisorSpec == SupervisorInit /\ [][SupervisorNext]_supervisorVars

\* Main and the two Python children loop with a sleep of about a second, and
\* systemd has Restart=always.
FairSupervisorSpec ==
    /\ SupervisorSpec
    /\ WF_supervisorVars(MainStep)
    /\ \A k \in {Agent, Ctrl} : WF_supervisorVars(WatchServices(k))

-----------------------------------------------------------------------------
(* Properties.                                                             *)

\* The type invariant.
SupervisorTypeOK ==
    /\ {pinglist, myaddr} \subseteq (SUBSET Procs) \cup {Bad}
    /\ {control_host, config} \subseteq Hosts /\ killed \in BOOLEAN
    /\ mainpc \in {"read", "terminate", "start", "ended"} /\ cntr \in -1 .. MaxRetry
    /\ proc \in [Keys -> {"absent", "failed", "alive", "dead"}]
    /\ services \in [{Agent, Ctrl} -> {"none", "run", "broken"}]
    /\ orphans \in [{Agent, Ctrl} -> Nat] /\ stray \subseteq Keys

\* Nothing runs twice: while main is up, every child that runs is in its table,
\* also one that outlived an earlier main; and there is one fetcher and one
\* sender (the ring of a client is made for one reader), however often services
\* end, unless someone killed the agent.
OneOfEach ==
    mainpc # "ended" => /\ stray = {}
                        /\ orphans[Agent] = 0 \/ killed

\* Main's table, its children and their services fit together.
SupervisorInv == SupervisorTypeOK /\ OneOfEach

\* When faults and changes have ended, the host runs what its pinglist asks for
\* and nothing else, the agent, and on the control host a controller (unless
\* services of an earlier one hold its ports), on another host none.  While the
\* interface of the controller is down nothing is said of it: one that runs is left
\* alone, one that ends is not started again.
Converges == <>[](
    /\ mainpc # "ended"
    /\ pinglist # Bad => Running \cap Procs = pinglist
    /\ services[Agent] = "run"
    /\ control_host = "here" => orphans[Ctrl] > 0 \/ services[Ctrl] = "run"
    /\ control_host = "elsewhere" => Ctrl \notin Running)

=============================================================================
