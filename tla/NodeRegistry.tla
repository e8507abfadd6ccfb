----------------------------- MODULE NodeRegistry -----------------------------
(***************************************************************************)
(* The registry of nodes (internal/server/grpc_server.go, node_monitor.go, *)
(* rest_server.go): one node's record nodes/<uuid> in etcd, written by     *)
(* registrations, heartbeats, shutdown reports, the stale-node sweep, the  *)
(* NIC fetch and the two ways to delete it, and the connection that each   *)
(* replica keeps to the node (its NodeMonitor).                            *)
(*                                                                         *)
(* A CAS is one step (EtcdCAS!CASIsAtomic), but a handler takes its time   *)
(* stamp before it and changes the monitors after it.  Time is kept as     *)
(* ages: how long ago a stamp was taken.  Which replica may sweep is       *)
(* LeaderElection's subject; here any of them may, two at once too.        *)
(***************************************************************************)
EXTENDS Integers

CONSTANTS
    Replicas,          \* controller processes
    Threads,           \* bound on the requests in progress
    Addrs,             \* addresses of the node
    NoAddr,            \* the empty address
    Models,            \* NIC models
    Unknown,           \* the model "unknown"
    NoModel,           \* nic_model_wan is not in the record
    Absent,            \* the record does not exist
    Requests,          \* the kinds of requests that are made
    HeartbeatTimeout,  \* in ticks
    MaxDelay,          \* bound on the age of a request in progress
    MaxBoots           \* bound on the starts of the node and restarts of replicas

ASSUME AddrsAssumption  == NoAddr \notin Addrs
ASSUME ModelsAssumption == Unknown # NoModel /\ {Unknown, NoModel} \cap Models = {}
ASSUME BoundsAssumption ==
    /\ {MaxDelay, MaxBoots} \subseteq Nat
    /\ HeartbeatTimeout \in Nat \ {0}

Kinds == {"register", "heartbeat", "shutdown", "unregister", "delete", "clear"}

ASSUME RequestsAssumption == Requests \subseteq Kinds

(* Ages saturate where no comparison tells them apart any more.            *)
MaxAge == HeartbeatTimeout + MaxDelay + 1

(* age is that of last_seen_time; why is inactive_reason, and inactive_at  *)
(* comes and goes with it.                                                 *)
Records == [status : {"active", "inactive"}, age : 0..MaxAge,
            why : {"none", "heartbeat_timeout", "node_shutdown"},
            addr : Addrs \cup {NoAddr}, nic : Models \cup {Unknown, NoModel}]

ASSUME AbsentAssumption == Absent \notin Records

VARIABLES
    rec,       \* etcd: nodes/<uuid>
    monitors,  \* the address each replica has a connection to, or NoAddr
    call,      \* the request each thread handles
    snap,      \* each replica's sweep: its stage and the age of its time stamp
    fetch,     \* each replica's NIC fetch: its stage and what it has fetched
    ask,       \* the address each replica is about to ask for a republish
    up, addr, nic,  \* the node; it has no address while it is down
    boots,     \* how often it, or a replica, was started
    aux_heard  \* age of the youngest stamp among the contacts that were stored

vars == <<rec, monitors, call, snap, fetch, ask, up, addr, nic, boots, aux_heard>>

node == <<up, addr, nic, boots>>

(* bare: the record that a heartbeat stored has no NIC models.             *)
NoCall  == [kind |-> "none", at |-> NoAddr, stage |-> "none", addr |-> NoAddr, age |-> 0,
            bare |-> FALSE]
NoSweep == [stage |-> "none", age |-> 0]
NoFetch == [stage |-> "none", nic |-> NoModel]

TypeOK ==
    /\ rec \in Records \cup {Absent}
    /\ monitors \in [Replicas -> Addrs \cup {NoAddr}]
    /\ \A t \in Threads :
         /\ call[t].kind \in {"none"} \cup Requests
         /\ call[t].kind # "none" => call[t].at \in Replicas
         /\ call[t].stage \in {"none", "etcd", "after", "stop"}
         /\ call[t].addr \in Addrs \cup {NoAddr}
         /\ call[t].age \in 0..MaxDelay
         /\ call[t].bare \in BOOLEAN
    /\ snap \in [Replicas -> [stage : {"none", "etcd", "after"}, age : 0..MaxDelay]]
    /\ fetch \in [Replicas -> [stage : {"none", "dial", "store"},
                               nic : Models \cup {Unknown, NoModel}]]
    /\ ask \in [Replicas -> Addrs \cup {NoAddr}]
    /\ up \in BOOLEAN /\ addr \in Addrs \cup {NoAddr} /\ nic \in Models
    /\ up <=> addr # NoAddr
    /\ boots \in 0..MaxBoots
    /\ aux_heard \in 0..MaxAge

Init ==
    /\ rec = Absent
    /\ monitors = [r \in Replicas |-> NoAddr]
    /\ call = [t \in Threads |-> NoCall]
    /\ snap = [r \in Replicas |-> NoSweep]
    /\ fetch = [r \in Replicas |-> NoFetch]
    /\ ask = [r \in Replicas |-> NoAddr]
    /\ up = FALSE /\ addr = NoAddr /\ nic \in Models /\ boots = 0
    /\ aux_heard = MaxAge

-----------------------------------------------------------------------------
(* Time and the node *)

Older(age) == IF age < MaxAge THEN age + 1 ELSE age

(* Deadlines keep requests and sweeps short.                               *)
Tick ==
    /\ \A t \in Threads  : call[t].age < MaxDelay
    /\ \A r \in Replicas : snap[r].age < MaxDelay
    /\ rec' = IF rec = Absent THEN Absent ELSE [rec EXCEPT !.age = Older(@)]
    /\ call' = [t \in Threads |->
         IF call[t].stage = "etcd" THEN [call[t] EXCEPT !.age = @ + 1] ELSE call[t]]
    /\ snap' = [r \in Replicas |->
         IF snap[r].stage = "etcd" THEN [snap[r] EXCEPT !.age = @ + 1] ELSE snap[r]]
    /\ aux_heard' = Older(aux_heard)
    /\ UNCHANGED <<monitors, fetch, ask, node>>

(* The node starts, with another address or other hardware perhaps.        *)
Boot ==
    /\ ~up /\ boots < MaxBoots
    /\ up' = TRUE /\ boots' = boots + 1
    /\ addr' \in Addrs /\ nic' \in Models
    /\ UNCHANGED <<rec, monitors, call, snap, fetch, ask, aux_heard>>

Die ==
    /\ up
    /\ up' = FALSE /\ addr' = NoAddr
    /\ UNCHANGED <<rec, monitors, call, snap, fetch, ask, nic, boots, aux_heard>>

(* A request reaches replica r, which takes the time.                      *)
Arrive(t, r, k) ==
    /\ call[t] = NoCall
    /\ k \in {"register", "heartbeat", "shutdown"} => up
    /\ \E a \in {addr, NoAddr} :
         /\ k = "register" => a = addr
         /\ k \notin {"register", "heartbeat"} => a = NoAddr
         /\ call' = [call EXCEPT ![t] = [kind |-> k, at |-> r, stage |-> "etcd", addr |-> a, age |-> 0,
                                         bare |-> FALSE]]
    /\ up' = (up /\ k # "shutdown")
    /\ addr' = IF k = "shutdown" THEN NoAddr ELSE addr
    /\ UNCHANGED <<rec, monitors, snap, fetch, ask, nic, boots, aux_heard>>

-----------------------------------------------------------------------------
(* Monitors and the NIC fetch *)

(* StartMonitoring: a no-op at the same address, a new connection else.    *)
StartMonitoring(r, a) == monitors' = [monitors EXCEPT ![r] = a]

StopMonitoring(r) == monitors' = [monitors EXCEPT ![r] = NoAddr]

(* beginNicFetch: one fetch at a time.                                     *)
BeginFetch(r) == fetch' = IF fetch[r] = NoFetch
                          THEN [fetch EXCEPT ![r] = [stage |-> "dial", nic |-> NoModel]]
                          ELSE fetch

(* FetchInitialNicModel: ends without a monitor; the node's answer, or     *)
(* "unknown" after the retries.                                            *)
FetchDial(r) ==
    /\ fetch[r].stage = "dial"
    /\ IF monitors[r] = NoAddr
       THEN fetch' = [fetch EXCEPT ![r] = NoFetch]
       ELSE \E m \in {Unknown} \cup (IF up /\ monitors[r] = addr THEN {nic} ELSE {}) :
              fetch' = [fetch EXCEPT ![r] = [stage |-> "store", nic |-> m]]
    /\ UNCHANGED <<rec, monitors, call, snap, ask, node, aux_heard>>

(* writeNicModelsToEtcd; a record that is gone stays gone.                 *)
FetchStore(r) ==
    /\ fetch[r].stage = "store"
    /\ fetch' = [fetch EXCEPT ![r] = NoFetch]
    /\ rec' = IF rec = Absent THEN Absent ELSE [rec EXCEPT !.nic = fetch[r].nic]
    /\ UNCHANGED <<monitors, call, snap, ask, node, aux_heard>>

(* RepublishAll at every start of a consumer, and the leader's sweep for   *)
(* unconfirmed configs: an active node with an address is listed ...       *)
RepublishList(r) ==
    /\ ask[r] = NoAddr
    /\ rec # Absent /\ rec.status = "active" /\ rec.addr # NoAddr
    /\ ask' = [ask EXCEPT ![r] = rec.addr]
    /\ UNCHANGED <<rec, monitors, call, snap, fetch, node, aux_heard>>

(* ... and connected to, wherever it may be by then.                       *)
RepublishConnect(r) ==
    /\ ask[r] # NoAddr
    /\ StartMonitoring(r, ask[r])
    /\ ask' = [ask EXCEPT ![r] = NoAddr]
    /\ UNCHANGED <<rec, call, snap, fetch, node, aux_heard>>

(* A replica restarts: its connections and all it was doing are gone.      *)
Restart(r) ==
    /\ boots < MaxBoots /\ boots' = boots + 1
    /\ StopMonitoring(r)
    /\ call'  = [t \in Threads |-> IF call[t].at = r THEN NoCall ELSE call[t]]
    /\ snap'  = [snap EXCEPT ![r] = NoSweep]
    /\ fetch' = [fetch EXCEPT ![r] = NoFetch]
    /\ ask'   = [ask EXCEPT ![r] = NoAddr]
    /\ UNCHANGED <<rec, up, addr, nic, aux_heard>>

-----------------------------------------------------------------------------
(* The requests of the node *)

At(t, k, s) == call[t].kind = k /\ call[t].stage = s
Then(t, s)  == call' = [call EXCEPT ![t] =
                 [@ EXCEPT !.stage = s, !.age = 0,
                           !.bare = (call[t].kind = "heartbeat" /\ rec # Absent /\ rec.nic = NoModel)]]
Reply(t)    == call' = [call EXCEPT ![t] = NoCall]

Heard(age) == aux_heard' = IF age < aux_heard THEN age ELSE aux_heard

(* registerNodeCASValue: everything is reset but the NIC models.           *)
RegisterNode(t) ==
    /\ At(t, "register", "etcd")
    /\ rec' = [status |-> "active", age |-> call[t].age, why |-> "none", addr |-> call[t].addr,
               nic |-> IF rec = Absent THEN NoModel ELSE rec.nic]
    /\ Heard(call[t].age)
    /\ Then(t, "after")
    /\ UNCHANGED <<monitors, snap, fetch, ask, node>>

(* afterNodeRegistered                                                     *)
AfterNodeRegistered(t) ==
    /\ At(t, "register", "after")
    /\ StartMonitoring(call[t].at, call[t].addr)
    /\ BeginFetch(call[t].at)
    /\ Reply(t)
    /\ UNCHANGED <<rec, snap, ask, node, aux_heard>>

(* heartbeatNodeCASValue                                                   *)
HeartbeatValue(c, v) ==
    [v EXCEPT !.status = "active", !.age = c.age, !.addr = c.addr, !.why = "none"]

Heartbeat(t) ==
    /\ At(t, "heartbeat", "etcd")
    /\ IF rec = Absent
       THEN Reply(t) /\ UNCHANGED <<rec, aux_heard>>
       ELSE rec' = HeartbeatValue(call[t], rec) /\ Heard(call[t].age) /\ Then(t, "after")
    /\ UNCHANGED <<monitors, snap, fetch, ask, node>>

(* Fault: a replica that has a connection keeps it.                        *)
AfterHeartbeat_KeepsConnection(t) ==
    /\ At(t, "heartbeat", "after")
    /\ IF call[t].addr = NoAddr \/ monitors[call[t].at] # NoAddr
       THEN UNCHANGED monitors ELSE StartMonitoring(call[t].at, call[t].addr)
    /\ IF call[t].bare THEN BeginFetch(call[t].at) ELSE UNCHANGED fetch
    /\ Reply(t)
    /\ UNCHANGED <<rec, snap, ask, node, aux_heard>>

(* The address of the request, or else of the value just stored, which is  *)
(* the request's; a fetch when that value has no NIC model.                *)
AfterHeartbeat(t) ==
    /\ At(t, "heartbeat", "after")
    /\ IF call[t].addr = NoAddr THEN UNCHANGED monitors
       ELSE StartMonitoring(call[t].at, call[t].addr)
    /\ IF call[t].bare THEN BeginFetch(call[t].at) ELSE UNCHANGED fetch
    /\ Reply(t)
    /\ UNCHANGED <<rec, snap, ask, node, aux_heard>>

(* ReportShutdown: no staleness check; the monitor is stopped after it.    *)
ReportShutdown(t) ==
    /\ At(t, "shutdown", "etcd")
    /\ IF rec = Absent
       THEN Reply(t) /\ UNCHANGED rec
       ELSE rec' = [rec EXCEPT !.status = "inactive", !.why = "node_shutdown"] /\ Then(t, "after")
    /\ UNCHANGED <<monitors, snap, fetch, ask, node, aux_heard>>

(* ReportShutdown, and ClearInactiveNodes after its delete.                *)
AfterInactive(t) ==
    /\ At(t, "shutdown", "after") \/ At(t, "clear", "stop")
    /\ StopMonitoring(call[t].at)
    /\ Reply(t)
    /\ UNCHANGED <<rec, snap, fetch, ask, node, aux_heard>>

-----------------------------------------------------------------------------
(* Deleting the record: a read that decides, then a plain delete *)

(* UnregisterNode of the gRPC service stops the monitor in between.        *)
UnregisterRead(t) ==
    /\ At(t, "unregister", "etcd")
    /\ IF rec = Absent THEN Reply(t) /\ UNCHANGED monitors
       ELSE Then(t, "after") /\ StopMonitoring(call[t].at)
    /\ UNCHANGED <<rec, snap, fetch, ask, node, aux_heard>>

(* UnregisterNode of the REST API leaves the monitors alone.               *)
DeleteRead(t) ==
    /\ At(t, "delete", "etcd")
    /\ IF rec = Absent THEN Reply(t) ELSE Then(t, "after")
    /\ UNCHANGED <<rec, monitors, snap, fetch, ask, node, aux_heard>>

Unregister(t) ==
    /\ At(t, "unregister", "after") \/ At(t, "delete", "after")
    /\ rec' = Absent
    /\ Reply(t)
    /\ UNCHANGED <<monitors, snap, fetch, ask, node, aux_heard>>

(* ClearInactiveNodes                                                      *)
ClearRead(t) ==
    /\ At(t, "clear", "etcd")
    /\ IF rec = Absent \/ rec.status # "inactive" THEN Reply(t) ELSE Then(t, "after")
    /\ UNCHANGED <<rec, monitors, snap, fetch, ask, node, aux_heard>>

ClearDelete(t) ==
    /\ At(t, "clear", "after")
    /\ rec' = Absent
    /\ Then(t, "stop")
    /\ UNCHANGED <<monitors, snap, fetch, ask, node, aux_heard>>

-----------------------------------------------------------------------------
(* The sweep for stale nodes *)

Stale(v, age) == v.age - age > HeartbeatTimeout

(* Fault: the candidates are the nodes that the replica monitors.          *)
SweepList_Monitored(r) ==
    /\ snap[r] = NoSweep /\ monitors[r] # NoAddr
    /\ rec # Absent /\ rec.status = "active" /\ Stale(rec, 0)
    /\ snap' = [snap EXCEPT ![r] = [stage |-> "etcd", age |-> 0]]
    /\ UNCHANGED <<rec, monitors, call, fetch, ask, node, aux_heard>>

(* checkAndUnregisterStaleNodes: the time and the candidates.              *)
SweepList(r) ==
    /\ snap[r] = NoSweep
    /\ rec # Absent /\ rec.status = "active" /\ Stale(rec, 0)
    /\ snap' = [snap EXCEPT ![r] = [stage |-> "etcd", age |-> 0]]
    /\ UNCHANGED <<rec, monitors, call, fetch, ask, node, aux_heard>>

(* Fault: the snapshot decides, not the value the CAS reads.               *)
StaleNode_SnapshotDecides(v, age) == v # Absent

(* staleNodeCASValue: the record is still there, active and silent.        *)
StaleNode(v, age) == v # Absent /\ v.status = "active" /\ Stale(v, age)

SweepMark(r) ==
    /\ snap[r].stage = "etcd"
    /\ IF StaleNode(rec, snap[r].age)
       THEN /\ rec' = [rec EXCEPT !.status = "inactive", !.why = "heartbeat_timeout"]
            /\ snap' = [snap EXCEPT ![r] = [stage |-> "after", age |-> 0]]
       ELSE snap' = [snap EXCEPT ![r] = NoSweep] /\ UNCHANGED rec
    /\ UNCHANGED <<monitors, call, fetch, ask, node, aux_heard>>

SweepStop(r) ==
    /\ snap[r].stage = "after"
    /\ StopMonitoring(r)
    /\ snap' = [snap EXCEPT ![r] = NoSweep]
    /\ UNCHANGED <<rec, call, fetch, ask, node, aux_heard>>

-----------------------------------------------------------------------------
Handle(t) ==
    \/ RegisterNode(t) \/ AfterNodeRegistered(t) \/ Heartbeat(t) \/ AfterHeartbeat(t)
    \/ ReportShutdown(t) \/ AfterInactive(t)
    \/ UnregisterRead(t) \/ DeleteRead(t) \/ Unregister(t) \/ ClearRead(t) \/ ClearDelete(t)

Sweep(r) == SweepList(r) \/ SweepMark(r) \/ SweepStop(r)

Next ==
    \/ Tick \/ Boot \/ Die
    \/ \E t \in Threads, r \in Replicas, k \in Requests : Arrive(t, r, k)
    \/ \E t \in Threads : Handle(t)
    \/ \E r \in Replicas :
         FetchDial(r) \/ FetchStore(r) \/ RepublishList(r) \/ RepublishConnect(r)
         \/ Sweep(r) \/ Restart(r)

Spec == Init /\ [][Next]_vars

(* Requests end, time passes, some replica leads and sweeps, and a node    *)
(* that is up sends heartbeats with its address (its own timer).           *)
FairSpec ==
    /\ Spec
    /\ WF_vars(Tick)
    /\ \A t \in Threads : WF_vars(Handle(t))
    /\ WF_vars(\E r \in Replicas : Sweep(r))
    /\ SF_vars(\E t \in Threads, r \in Replicas :
                 Arrive(t, r, "heartbeat") /\ call'[t].addr = addr)

-----------------------------------------------------------------------------
(* "A concurrent heartbeat wins safely": a node is marked stale only when  *)
(* every contact that was stored is older than the timeout, up to the time *)
(* that a request may take between its stamp and its transaction.          *)
EvictionNeedsSilence ==
    [][(\E r \in Replicas : SweepMark(r)) /\ rec' # rec => aux_heard + MaxDelay > HeartbeatTimeout]_vars

(* A node that is down for good is eventually shown as inactive or gone.   *)
SilentNodeIsEvicted == ~up ~> (up \/ rec = Absent \/ rec.status = "inactive")

(* A node that is registered, up and stays at its address is eventually    *)
(* connected to at that address by some replica.                           *)
LiveNodeIsReached ==
    \A a \in Addrs : (up /\ addr = a /\ rec # Absent)
      ~> (~up \/ rec = Absent \/ \E r \in Replicas : monitors[r] = a)

(* "Delete every node whose status is inactive": and no other.             *)
ClearRemovesInactive ==
    [][(\E t \in Threads : ClearDelete(t)) /\ rec # Absent => rec.status = "inactive"]_vars

=============================================================================
