---------------------------- MODULE AddressPath ----------------------------
(***************************************************************************)
(* How the address of an RDMA server reaches the clients that ping it:     *)
(*                                                                         *)
(*   server          writes the number of its new queue pair to a file     *)
(*                   each time it starts (save_device_info);               *)
(*   agent_fetcher   on the server's host posts the file to the controller *)
(*                   (send_gid_files), on the client's host downloads the  *)
(*                   address store into a file (fetch_data);               *)
(*   ctrl_webserver  keeps the store in memory and drops old entries;      *)
(*   scheduler       of the client reads the downloaded file now and then. *)
(*                                                                         *)
(* Six programs, two files without locks, a memory that a restart empties. *)
(* One server is followed; its queue pairs are numbered 1, 2, ..., and 0   *)
(* stands for no address.                                                  *)
(***************************************************************************)
EXTENDS Integers

CONSTANTS
    Expiry,          \* age at which get_address_store drops an entry (300 s)
    CheckEvery,      \* how often it looks for old entries (60 s)
    FetchRetry,      \* failures before fetch_data writes an empty file (3)
    MaxRetryLoad,    \* MAX_RETRY_LOAD_YAML
    MaxQpn,          \* bound: starts of the server
    MaxTicks,        \* bound: clock ticks
    MaxFaults        \* bound: failing requests, ends of fetcher and webserver

ASSUME AddressAssumption ==
    /\ Expiry \in Nat /\ CheckEvery \in Nat
    /\ FetchRetry \in Nat /\ MaxRetryLoad \in Nat \ {0}
    /\ MaxQpn \in Nat /\ MaxTicks \in Nat /\ MaxFaults \in Nat

None == 0
Torn == -1           \* a file that is missing, truncated or half written

VARIABLES
    now,
    qpn, upload,             \* the server's queue pair; the file it writes
    upc, gid_file,           \* send_gid_files: where it is, what it has read
    address_store,           \* webserver: [qpn, utime]
    checkpoint,              \* webserver: address_store_checkpoint
    fpc, parsed_data, retry_cntr,   \* fetch_data: where it is, its locals
    download,                \* address_store.yaml
    addressInfo, load_yaml_retry_cnt,   \* scheduler
    faults

server == <<qpn, upload>>
uploader == <<upc, gid_file>>
web == <<address_store, checkpoint>>
fetcher == <<fpc, parsed_data, retry_cntr, download>>
scheduler == <<addressInfo, load_yaml_retry_cnt>>
addressVars == <<now, server, uploader, web, fetcher, scheduler, faults>>

AddressInit ==
    /\ now = Expiry + CheckEvery + 1          \* time.time() is large
    /\ qpn = None /\ upload = Torn
    /\ upc = "read" /\ gid_file = None
    /\ address_store = [qpn |-> None, utime |-> 0] /\ checkpoint = 0
    /\ fpc = "get" /\ parsed_data = None /\ retry_cntr = 0 /\ download = Torn
    /\ addressInfo = None /\ load_yaml_retry_cnt = 0
    /\ faults = 0

Fault == faults < MaxFaults /\ faults' = faults + 1

Tick ==
    /\ now < Expiry + CheckEvery + 1 + MaxTicks
    /\ now' = now + 1
    /\ UNCHANGED <<server, uploader, web, fetcher, scheduler, faults>>

-----------------------------------------------------------------------------
(* Server and upload.                                                      *)

\* The server starts, for the first time or again: a new queue pair, and
\* ofstream truncates the file.
ServerStart ==
    /\ qpn < MaxQpn
    /\ qpn' = qpn + 1 /\ upload' = Torn
    /\ UNCHANGED <<now, uploader, web, fetcher, scheduler, faults>>

save_device_info ==
    /\ upload = Torn /\ qpn # None
    /\ upload' = qpn
    /\ UNCHANGED <<now, qpn, uploader, web, fetcher, scheduler, faults>>

\* A file with other than four lines is skipped.
send_gid_files ==
    /\ upc = "read" /\ upload # Torn
    /\ gid_file' = upload
    /\ upc' = "post"
    /\ UNCHANGED <<now, server, web, fetcher, scheduler, faults>>

\* Mutant: an address that is known is not replaced.
post_address_KeepsFirst ==
    /\ upc = "post"
    /\ address_store' = IF address_store.qpn = None THEN [qpn |-> gid_file, utime |-> now]
                        ELSE [address_store EXCEPT !.utime = now]
    /\ upc' = "read"
    /\ UNCHANGED <<now, server, gid_file, checkpoint, fetcher, scheduler, faults>>

post_address ==
    /\ upc = "post"
    /\ address_store' = [qpn |-> gid_file, utime |-> now]
    /\ upc' = "read"
    /\ UNCHANGED <<now, server, gid_file, checkpoint, fetcher, scheduler, faults>>

PostFails ==
    /\ upc = "post" /\ Fault
    /\ upc' = "read"
    /\ UNCHANGED <<now, server, gid_file, web, fetcher, scheduler>>

-----------------------------------------------------------------------------
(* Controller and download.                                                *)

CheckDue == checkpoint + CheckEvery < now
Outdated == CheckDue /\ address_store.utime + Expiry < now

\* Mutant: the time of the check is renewed by every request.
get_address_store_Renews ==
    /\ address_store' = IF Outdated THEN [address_store EXCEPT !.qpn = None] ELSE address_store
    /\ checkpoint' = now

\* Old entries are dropped, at most once a minute; what is left is the answer.
get_address_store ==
    /\ address_store' = IF Outdated THEN [address_store EXCEPT !.qpn = None] ELSE address_store
    /\ checkpoint' = IF CheckDue THEN now ELSE checkpoint

\* fetch_data gets the store.  A file that says the same stays, any other one
\* is opened for writing, which empties it.
fetch_data ==
    /\ fpc = "get"
    /\ get_address_store
    /\ LET answer == address_store'.qpn
       IN  IF answer = download
           THEN /\ retry_cntr' = 0
                /\ UNCHANGED <<fpc, parsed_data, download>>
           ELSE /\ parsed_data' = answer
                /\ download' = Torn
                /\ fpc' = "write"
                /\ UNCHANGED retry_cntr
    /\ UNCHANGED <<now, server, uploader, scheduler, faults>>

FetchWrite ==
    /\ fpc = "write"
    /\ download' = parsed_data
    /\ retry_cntr' = 0
    /\ fpc' = "get"
    /\ UNCHANGED <<now, server, uploader, web, parsed_data, scheduler, faults>>

\* No answer: after FetchRetry failures an empty file is written.
FetchFails ==
    /\ fpc = "get" /\ Fault
    /\ IF retry_cntr + 1 > FetchRetry
       THEN /\ parsed_data' = None /\ download' = Torn
            /\ fpc' = "write"
            /\ retry_cntr' = 0
       ELSE /\ retry_cntr' = retry_cntr + 1
            /\ UNCHANGED <<fpc, parsed_data, download>>
    /\ UNCHANGED <<now, server, uploader, web, scheduler>>

\* The supervisor ends the fetcher while it writes, and starts it again.
FetcherDies ==
    /\ fpc = "write" /\ Fault
    /\ fpc' = "get" /\ retry_cntr' = 0
    /\ UNCHANGED <<now, server, uploader, web, parsed_data, download, scheduler>>

\* The webserver starts again, with an empty store.
WebRestart ==
    /\ Fault
    /\ address_store' = [qpn |-> None, utime |-> 0] /\ checkpoint' = 0
    /\ UNCHANGED <<now, server, uploader, fetcher, scheduler>>

-----------------------------------------------------------------------------
(* Scheduler.                                                              *)

\* The list stays until loading has failed MaxRetryLoad times in a row.
LoadFails(list, cnt) ==
    IF cnt + 1 >= MaxRetryLoad
    THEN addressInfo' = None /\ load_yaml_retry_cnt' = 0
    ELSE addressInfo' = list /\ load_yaml_retry_cnt' = cnt + 1

\* A torn file is either refused by the YAML parser, or gives a document in
\* which the address is missing: then the list is replaced and the count set
\* to 0 before the failure is counted.
load_address_info ==
    /\ \/ download = Torn /\ LoadFails(addressInfo, load_yaml_retry_cnt)
       \/ download = Torn /\ LoadFails(None, 0)
       \/ download # Torn /\ addressInfo' = download /\ load_yaml_retry_cnt' = 0
    /\ UNCHANGED <<now, server, uploader, web, fetcher, faults>>

-----------------------------------------------------------------------------
AddressNext ==
    \/ Tick
    \/ ServerStart \/ save_device_info \/ send_gid_files \/ post_address \/ PostFails
    \/ fetch_data \/ FetchWrite \/ FetchFails \/ FetcherDies \/ WebRestart
    \/ load_address_info

AddressSpec == AddressInit /\ [][AddressNext]_addressVars

\* The loops of fetchers and scheduler go on; requests fail only MaxFaults times.
FairAddressSpec ==
    /\ AddressSpec
    /\ WF_addressVars(save_device_info) /\ WF_addressVars(send_gid_files)
    /\ WF_addressVars(post_address)
    /\ WF_addressVars(fetch_data) /\ WF_addressVars(FetchWrite)
    /\ WF_addressVars(load_address_info)

-----------------------------------------------------------------------------
(* Properties.                                                             *)

\* The type invariant.
AddressTypeOK ==
    /\ upload \in {Torn} \cup 1 .. MaxQpn /\ qpn \in 0 .. MaxQpn /\ gid_file \in 0 .. MaxQpn
    /\ address_store.qpn \in 0 .. qpn /\ parsed_data \in 0 .. qpn
    /\ address_store.utime <= now /\ checkpoint <= now
    /\ download \in {Torn} \cup 0 .. qpn /\ addressInfo \in 0 .. qpn
    /\ upc \in {"read", "post"} /\ fpc \in {"get", "write"}
    /\ retry_cntr \in 0 .. FetchRetry /\ load_yaml_retry_cnt \in 0 .. MaxRetryLoad - 1
    /\ faults \in 0 .. MaxFaults

\* A host that has stopped posting leaves the answers of the controller: an
\* entry a request would find now is not older than Expiry and one interval of
\* the check, however the requests of the agents fall.
DeadHostLeaves ==
    address_store.qpn # None /\ ~Outdated =>
        address_store.utime + Expiry + CheckEvery >= now

\* Nobody holds an address its owner never had, and none is kept for too long.
AddressInv == AddressTypeOK /\ DeadHostLeaves

\* A client ends up with the address of the queue pair its peer has now,
\* whatever was restarted, torn or lost on the way.
AddressArrives == <>[](addressInfo = qpn)
=============================================================================
