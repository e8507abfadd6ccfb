------------------------------- MODULE HsiApi -------------------------------
(***************************************************************************)
(* The admission checks of the HSI API on one node (rest_server.go,        *)
(* config_grpc_server.go, validation.go).  A request to create or change a *)
(* config reads the node's subscriber count, then the VLANs of all its     *)
(* configs, and only then runs a CAS on the config of one user: each check *)
(* speaks of the moment of its read.  The consumer's rollbacks and offline *)
(* edits write the same configs without the checks.                        *)
(*                                                                         *)
(* A CAS is one step (EtcdCAS shows that it may be).  A config is its VLAN *)
(* here; EtcdCAS has the merge and the version, OfflineEdit the DNS key    *)
(* that a delete clears after its CAS.                                     *)
(***************************************************************************)
EXTENDS Integers, FiniteSets

CONSTANTS
    Users,      \* user ids, which are numbers
    Vlans,
    Absent,
    Requests,   \* requests to the API; each is made once
    Counts,     \* subscriber counts that operators set
    MaxInt32,   \* the largest count that the gRPC server can parse
    MaxNode,    \* bound on writes by the consumer
    MaxFaults   \* bound on etcd errors

ASSUME UsersAssumption  == Users \subseteq Nat \ {0}
ASSUME CountsAssumption == Counts \subseteq Nat
ASSUME AbsentAssumption == Absent \notin Vlans
ASSUME BoundsAssumption == MaxInt32 \in Nat /\ MaxNode \in Nat /\ MaxFaults \in Nat

VARIABLES
    cfg,    \* the HSI config of each user, or Absent
    held,   \* VLANs that a user's config has had: what a rollback may restore
    count,  \* user_counts/<node>/, NoCount when the key is absent
    pc,     \* where each request is
    req,    \* the requests
    nodes,  \* writes by the consumer so far
    faults,
    aux_n,       \* number of commits: the time of the properties
    aux_read,    \* by request: when it read the count and the VLANs
    aux_took,    \* by user: when its config got its VLAN, and what that write had read
    aux_countAt  \* when the count was set

vars == <<cfg, held, count, pc, req, nodes, faults, aux_n, aux_read, aux_took, aux_countAt>>

NoCount   == -1
Unchecked == -1   \* in place of the time of a check: not made, or not possible

(* The requests that pass validation, which looks at nothing but them.     *)
Apis == {"rest", "grpc"}
ConfigOps == [kind : {"create", "update"}, api : Apis, user : Users, vlan : Vlans]
DeleteOps == [kind : {"delete"}, api : Apis, user : Users]
CountOps  == [kind : {"count"}, value : Counts]
Ops       == ConfigOps \cup DeleteOps \cup CountOps
NoRequest == [kind |-> "none"]

Checks   == [count : Int, vlan : Int]
NoChecks == [count |-> Unchecked, vlan |-> Unchecked]
Takes    == [at : Nat, count : Int, vlan : Int]
NotTaken == [at |-> 0, count |-> Unchecked, vlan |-> Unchecked]

TypeOK ==
    /\ cfg \in [Users -> Vlans \cup {Absent}]
    /\ held \in [Users -> SUBSET Vlans]
    /\ count \in Counts \cup {NoCount}
    /\ pc \in [Requests -> {"idle", "vlan", "cas", "done"}]
    /\ req \in [Requests -> Ops \cup {NoRequest}]
    /\ nodes \in 0..MaxNode /\ faults \in 0..MaxFaults
    /\ aux_n \in Nat /\ aux_countAt \in 0..aux_n
    /\ aux_read \in [Requests -> Checks]
    /\ aux_took \in [Users -> Takes]
    /\ \A u \in Users : aux_took[u].at <= aux_n

Init ==
    /\ cfg = [u \in Users |-> Absent]
    /\ held = [u \in Users |-> {}]
    /\ count \in Counts \cup {NoCount}
    /\ pc = [q \in Requests |-> "idle"]
    /\ req = [q \in Requests |-> NoRequest]
    /\ nodes = 0 /\ faults = 0
    /\ aux_n = 0 /\ aux_countAt = 0
    /\ aux_read = [q \in Requests |-> NoChecks]
    /\ aux_took = [u \in Users |-> NotTaken]

store   == <<cfg, held, count, aux_n, aux_took, aux_countAt>>
handler == <<pc, req, aux_read>>

Fault == faults < MaxFaults /\ faults' = faults + 1

(* A request goes on to its next stage with what it has read.              *)
Continue(q, stage, o, checks) ==
    /\ pc' = [pc EXCEPT ![q] = stage]
    /\ req' = [req EXCEPT ![q] = o]
    /\ aux_read' = [aux_read EXCEPT ![q] = checks]

(* It is answered; with what is not kept.                                  *)
Answer(q) == Continue(q, "done", NoRequest, NoChecks)

-----------------------------------------------------------------------------
(* The checks *)

(* Fault: the user whose number is the count is turned away, and the one   *)
(* above it is not.                                                        *)
CheckSubscriberCount_Plus(user, c) == c < 0 \/ user <= c + 1

CheckSubscriberCount(user, c) == c < 0 \/ user <= c

(* The REST server parses the stored text as an int ...                    *)
GetSubscriberCount(c) == c

(* ... and the gRPC server as 32 bits.                                     *)
fetchSubscriberCount(c) == IF c <= MaxInt32 THEN c ELSE NoCount

CountFor(api, c) == IF api = "rest" THEN GetSubscriberCount(c) ELSE fetchSubscriberCount(c)

(* Create, update and the REST delete look at the count first.  A count    *)
(* that is absent, cannot be read or cannot be parsed is no limit.         *)
CheckCount(q) ==
    /\ pc[q] = "idle"
    /\ \E o \in ConfigOps \cup {d \in DeleteOps : d.api = "rest"} :
       \E c \in {CountFor(o.api, count), NoCount} :
         /\ IF c = CountFor(o.api, count) THEN UNCHANGED faults ELSE Fault
         /\ IF CheckSubscriberCount(o.user, c)
            THEN Continue(q, IF o.kind = "delete" THEN "cas" ELSE "vlan", o,
                    [NoChecks EXCEPT !.count = IF c = count THEN aux_n ELSE Unchecked])
            ELSE Answer(q)
    /\ UNCHANGED <<store, nodes>>

(* fetchVlanOwners is the same on the gRPC server.                         *)
listVlanOwners == {[user |-> v, vlan |-> cfg[v]] : v \in {w \in Users : cfg[w] # Absent}}

(* Fault: only a user who has no config yet is checked.                    *)
CheckVlanUnique_CreateOnly(vlan, user, owners) ==
    cfg[user] # Absent \/ \A o \in owners : o.vlan = vlan => o.user = user

CheckVlanUnique(vlan, user, owners) == \A o \in owners : o.vlan = vlan => o.user = user

CheckVlan(q) ==
    /\ pc[q] = "vlan"
    /\ IF CheckVlanUnique(req[q].vlan, req[q].user, listVlanOwners)
       THEN Continue(q, "cas", req[q], [aux_read[q] EXCEPT !.vlan = aux_n])
       ELSE Answer(q)
    /\ UNCHANGED <<store, nodes, faults>>

-----------------------------------------------------------------------------
(* The CAS *)

(* The config of u is vlan from now on, by a write that made these checks. *)
Put(u, vlan, checks) ==
    /\ cfg' = [cfg EXCEPT ![u] = vlan]
    /\ held' = [held EXCEPT ![u] = @ \cup {vlan}]
    /\ aux_n' = aux_n + 1
    /\ aux_took' = [aux_took EXCEPT ![u] =
                      [at |-> aux_n + 1, count |-> checks.count, vlan |-> checks.vlan]]
    /\ UNCHANGED <<count, aux_countAt>>

Delete(u) ==
    /\ cfg' = [cfg EXCEPT ![u] = Absent]
    /\ aux_n' = aux_n + 1
    /\ aux_took' = [aux_took EXCEPT ![u] = NotTaken]
    /\ UNCHANGED <<held, count, aux_countAt>>

(* UpdateNodeSubscriberCount and SetSubscriberCount; an accepted offline   *)
(* edit of kind SUBSCRIBER_COUNT writes the same key without a check too.  *)
SetCount(value) ==
    /\ count' = value
    /\ aux_n' = aux_n + 1
    /\ aux_countAt' = aux_n + 1
    /\ UNCHANGED <<cfg, held, aux_took>>

Rejects(o) == \/ o.kind = "create" /\ cfg[o.user] # Absent
              \/ o.kind = "delete" /\ cfg[o.user] = Absent

(* An update of a config that is not there creates it.                     *)
Commit(o, checks) ==
    CASE o.kind \in {"create", "update"} -> Put(o.user, o.vlan, checks)
      [] o.kind = "delete" -> Delete(o.user)
      [] o.kind = "count" -> SetCount(o.value)

CAS(q) ==
    /\ pc[q] = "cas"
    /\ IF Rejects(req[q]) THEN UNCHANGED store ELSE Commit(req[q], aux_read[q])
    /\ Answer(q)
    /\ UNCHANGED <<nodes, faults>>

(* The gRPC delete and the setting of the count have nothing to check.     *)
DirectCAS(q) ==
    /\ pc[q] = "idle"
    /\ \E o \in CountOps \cup {d \in DeleteOps : d.api = "grpc"} :
         IF Rejects(o) THEN UNCHANGED store ELSE Commit(o, NoChecks)
    /\ Answer(q)
    /\ UNCHANGED <<nodes, faults>>

(* The read of the VLANs or the CAS fails.                                 *)
Fail(q) ==
    /\ pc[q] \in {"vlan", "cas"}
    /\ Fault
    /\ Answer(q)
    /\ UNCHANGED <<store, nodes>>

-----------------------------------------------------------------------------
(* The Kafka consumer *)

ByConsumer == nodes < MaxNode /\ nodes' = nodes + 1

(* guardedRollbackMutation: back to a payload that the node has applied    *)
(* before, or to none at all.                                              *)
Rollback(u) ==
    /\ cfg[u] # Absent /\ ByConsumer
    /\ Delete(u) \/ \E vlan \in held[u] : Put(u, vlan, NoChecks)
    /\ UNCHANGED <<handler, faults>>

(* offlineEditMutation: what the node's own operator entered, for a config.*)
(* (For the subscriber count it is a SetCount.)                            *)
OfflineEdit(u) ==
    /\ ByConsumer
    /\ \/ cfg[u] # Absent /\ Delete(u)
       \/ \E vlan \in Vlans : Put(u, vlan, NoChecks)
    /\ UNCHANGED <<handler, faults>>

-----------------------------------------------------------------------------
Next ==
    \/ \E q \in Requests : CheckCount(q) \/ CheckVlan(q) \/ CAS(q) \/ DirectCAS(q) \/ Fail(q)
    \/ \E u \in Users : Rollback(u) \/ OfflineEdit(u)

Spec == Init /\ [][Next]_vars

-----------------------------------------------------------------------------
(* The write that gave u its VLAN had listed the VLANs before v's was      *)
(* written, or has not listed them at all.                                 *)
MissedVlanOf(u, v) == aux_took[u].vlan < aux_took[v].at

(* The VLAN check leaves one way to a clash: two configs of a node share a *)
(* VLAN only if the later one was written by a request that had listed the *)
(* VLANs before the earlier one was written, or by the consumer, which     *)
(* does not list them.  One request after the other never clashes.         *)
VlanClashIsARace == \A u, v \in Users :
    (u # v /\ cfg[u] # Absent /\ cfg[u] = cfg[v] /\ aux_took[u].at < aux_took[v].at)
      => MissedVlanOf(v, u)

(* The same for the count: a user beyond the node's subscriber count has a *)
(* config only if the count was set after the request that wrote it had    *)
(* looked, or if that write did not look: it is the consumer's, or the     *)
(* count could not be read.                                                *)
CountExcessIsARace == \A u \in Users :
    (cfg[u] # Absent /\ count # NoCount /\ u > count)
      => aux_took[u].count = Unchecked \/ aux_took[u].count < aux_countAt

=============================================================================
