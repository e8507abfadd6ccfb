---------------------------- MODULE ConfirmSweep ----------------------------
(***************************************************************************)
(* The config-confirmation sweep of internal/server/node_monitor.go: the   *)
(* leader compares the revision of every pushed HSI config with the one    *)
(* that its node has attested, and asks a node that stays behind to        *)
(* restate its configs, ever more rarely.                                  *)
(*                                                                         *)
(* Time is counted in sweep intervals.  Every replica keeps its own        *)
(* bookkeeping, for good: a replica that leads again finds what it left.   *)
(***************************************************************************)
EXTENDS Naturals, FiniteSets

CONSTANTS
    Replicas,
    Nodes,
    Users,
    configConfirmTimeout,    \* in sweep intervals, as is the next one
    configConfirmBackoffMax,
    MaxRev,      \* bound on config writes
    MaxFaults    \* bound on lost reports, failed calls and evictions
                 \* and, separately, on changes of leader

ASSUME TimeoutAssumption == configConfirmTimeout \in Nat \ {0}
ASSUME BackoffAssumption ==
    configConfirmBackoffMax \in Nat /\ configConfirmBackoffMax >= 2 * configConfirmTimeout
ASSUME BoundsAssumption  == MaxRev \in Nat /\ MaxFaults \in Nat

Keys == Nodes \X Users
Of(n) == {n} \X Users

VARIABLES
    rev,       \* etcd: the store revision
    pushed,    \* etcd: ModRevision of each config, None when there is none
    active,    \* etcd: the nodes listed as active
    applied,   \* the revision each node runs
    confirmed, \* hsi_config_current: the revision each node has attested
    reports,   \* CONFIG_APPLY_OK events on their way
    leader,    \* the replica that leads
    ticked,    \* the ticker of its sweep loop has fired
    stage,     \* where each replica's sweep is
    seen,      \* what its sweep has read: active nodes, confirmed revisions
    backoff,   \* confirmState of each replica: None for a node not tracked
    wait,      \* ... nextNudge, as intervals from now
    due,       \* nodes that its sweep is about to ask
    faults,
    changes,
    aux_quiet  \* intervals since each replica asked each node

vars == <<rev, pushed, active, applied, confirmed, reports, leader, ticked, stage, seen,
          backoff, wait, due, faults, changes, aux_quiet>>

store  == <<rev, pushed, active>>
events == <<applied, confirmed, reports>>
sweep  == <<stage, seen, backoff, wait, due>>
clock  == <<ticked, aux_quiet>>

None == 0

AtMost(m, x) == IF x < m THEN x ELSE m

TypeOK ==
    /\ rev \in 0..MaxRev
    /\ pushed \in [Keys -> 0..rev] /\ applied \in [Keys -> 0..rev]
    /\ confirmed \in [Keys -> 0..rev]
    /\ active \subseteq Nodes
    /\ reports \subseteq (Keys \X (1..rev))
    /\ leader \in Replicas /\ ticked \in BOOLEAN
    /\ stage \in [Replicas -> {"idle", "read", "ask"}]
    /\ seen \in [Replicas -> [active : SUBSET Nodes, confirmed : [Keys -> 0..rev]]]
    /\ backoff \in [Replicas ->
         [Nodes -> {None} \cup configConfirmTimeout..configConfirmBackoffMax]]
    /\ wait \in [Replicas -> [Nodes -> 0..configConfirmBackoffMax]]
    /\ due \in [Replicas -> SUBSET Nodes]
    /\ faults \in 0..MaxFaults /\ changes \in 0..MaxFaults
    /\ aux_quiet \in [Replicas -> [Nodes -> 0..configConfirmTimeout]]

Nothing == [active |-> {}, confirmed |-> [k \in Keys |-> None]]

Init ==
    /\ rev = 0 /\ active = Nodes /\ reports = {}
    /\ pushed = [k \in Keys |-> None] /\ applied = pushed /\ confirmed = pushed
    /\ leader \in Replicas /\ ticked = FALSE
    /\ stage = [r \in Replicas |-> "idle"]
    /\ seen = [r \in Replicas |-> Nothing]
    /\ backoff = [r \in Replicas |-> [n \in Nodes |-> None]]
    /\ wait = backoff
    /\ due = [r \in Replicas |-> {}]
    /\ faults = 0 /\ changes = 0
    /\ aux_quiet = [r \in Replicas |-> [n \in Nodes |-> configConfirmTimeout]]

Fault == faults < MaxFaults /\ faults' = faults + 1

-----------------------------------------------------------------------------
(* The rest of the system *)

(* A config is written, or deleted.                                        *)
Push(k) ==
    /\ rev < MaxRev
    /\ rev' = rev + 1
    /\ \/ pushed' = [pushed EXCEPT ![k] = rev + 1] /\ UNCHANGED applied
       \/ /\ pushed[k] # None
          /\ pushed' = [pushed EXCEPT ![k] = None]
          /\ applied' = [applied EXCEPT ![k] = None]
    /\ UNCHANGED <<active, confirmed, reports, leader, sweep, faults, changes, clock>>

Apply(k) ==
    /\ applied[k] < pushed[k]
    /\ applied' = [applied EXCEPT ![k] = pushed[k]]
    /\ reports' = reports \cup {<<k, pushed[k]>>}
    /\ UNCHANGED <<store, confirmed, leader, sweep, faults, changes, clock>>

(* The consumer confirms what a report says; older ones change nothing.    *)
Deliver(m) ==
    /\ m \in reports
    /\ reports' = reports \ {m}
    /\ confirmed' = [confirmed EXCEPT ![m[1]] = IF @ < m[2] THEN m[2] ELSE @]
    /\ UNCHANGED <<store, applied, leader, sweep, faults, changes, clock>>

Lose(m) ==
    /\ m \in reports /\ Fault
    /\ reports' = reports \ {m}
    /\ UNCHANGED <<store, applied, confirmed, leader, sweep, changes, clock>>

(* Heartbeats are missed, and come again.                                  *)
Evict(n) ==
    /\ n \in active /\ Fault
    /\ active' = active \ {n}
    /\ UNCHANGED <<rev, pushed, events, leader, sweep, changes, clock>>

Return(n) ==
    /\ n \notin active
    /\ active' = active \cup {n}
    /\ UNCHANGED <<rev, pushed, events, leader, sweep, faults, changes, clock>>

(* A new term starts a new loop; the sweep of the old one may still run.   *)
ChangeLeader(r) ==
    /\ r # leader /\ changes < MaxFaults
    /\ leader' = r /\ changes' = changes + 1
    /\ ticked' = FALSE
    /\ UNCHANGED <<store, events, sweep, faults, aux_quiet>>

Tick ==
    /\ ticked' = TRUE
    /\ wait' = [r \in Replicas |-> [n \in Nodes |->
                  IF wait[r][n] = 0 THEN 0 ELSE wait[r][n] - 1]]
    /\ aux_quiet' = [r \in Replicas |-> [n \in Nodes |->
                       AtMost(configConfirmTimeout, aux_quiet[r][n] + 1)]]
    /\ UNCHANGED <<store, events, leader, stage, seen, backoff, due, faults, changes>>

-----------------------------------------------------------------------------
(* SweepConfigConfirmations *)

(* unconfirmedNodes lists the nodes and reads the confirmed revisions ...  *)
SweepRead(r) ==
    /\ r = leader /\ ticked /\ stage[r] = "idle"
    /\ ticked' = FALSE
    /\ seen' = [seen EXCEPT ![r] = [active |-> active, confirmed |-> confirmed]]
    /\ stage' = [stage EXCEPT ![r] = "read"]
    /\ UNCHANGED <<store, events, leader, backoff, wait, due, faults, changes, aux_quiet>>

(* ... and then the pushed ones.                                           *)
Pending(r) ==
    {n \in seen[r].active : \E k \in Of(n) : seen[r].confirmed[k] < pushed[k]}

Tracked(r, n) == backoff[r][n] # None

Due(r) == {n \in Pending(r) : Tracked(r, n) /\ wait[r][n] = 0}

NextBackoff(r, n) ==
    CASE n \notin Pending(r)                -> None
      [] n \in Pending(r) /\ ~Tracked(r, n) -> configConfirmTimeout
      [] n \in Due(r)                       -> AtMost(configConfirmBackoffMax, 2 * backoff[r][n])
      [] OTHER                              -> backoff[r][n]

(* Fault: a node that has been asked may be asked again at once.           *)
NextWait_NotMoved(r, n) ==
    CASE n \notin Pending(r)                -> 0
      [] n \in Pending(r) /\ ~Tracked(r, n) -> configConfirmTimeout
      [] OTHER                              -> wait[r][n]

(* Fault: every sweep that finds the node behind starts its wait over.     *)
NextWait_Restarts(r, n) ==
    CASE n \notin Pending(r) -> 0
      [] n \in Due(r)        -> NextBackoff(r, n)
      [] OTHER               -> configConfirmTimeout

NextWait(r, n) ==
    CASE n \notin Pending(r)                -> 0
      [] n \in Pending(r) /\ ~Tracked(r, n) -> configConfirmTimeout
      [] n \in Due(r)                       -> NextBackoff(r, n)
      [] OTHER                              -> wait[r][n]

(* dueForNudge                                                             *)
SweepDecide(r) ==
    /\ stage[r] = "read"
    /\ backoff' = [backoff EXCEPT ![r] = [n \in Nodes |-> NextBackoff(r, n)]]
    /\ wait' = [wait EXCEPT ![r] = [n \in Nodes |-> NextWait(r, n)]]
    /\ due' = [due EXCEPT ![r] = Due(r)]
    /\ stage' = [stage EXCEPT ![r] = IF Due(r) = {} THEN "idle" ELSE "ask"]
    /\ seen' = [seen EXCEPT ![r] = Nothing]
    /\ aux_quiet' = [aux_quiet EXCEPT ![r] = [n \in Nodes |-> IF n \in Due(r) THEN 0 ELSE @[n]]]
    /\ UNCHANGED <<store, events, leader, ticked, faults, changes>>

(* A read of the sweep fails, or its term has ended: it is given up.       *)
SweepFails(r) ==
    /\ stage[r] = "read" /\ Fault
    /\ stage' = [stage EXCEPT ![r] = "idle"]
    /\ seen' = [seen EXCEPT ![r] = Nothing]
    /\ UNCHANGED <<store, events, leader, backoff, wait, due, changes, clock>>

Asked(r, n) ==
    /\ n \in due[r]
    /\ due' = [due EXCEPT ![r] = @ \ {n}]
    /\ stage' = [stage EXCEPT ![r] = IF due'[r] = {} THEN "idle" ELSE "ask"]

(* RepublishConfigStatus: the node restates what it runs.                  *)
Nudge(r, n) ==
    /\ Asked(r, n)
    /\ reports' = reports \cup {<<k, applied[k]>> : k \in {j \in Of(n) : applied[j] # None}}
    /\ UNCHANGED <<store, applied, confirmed, leader, seen, backoff, wait, faults, changes, clock>>

(* The call fails, or is not made any more because the term has ended.     *)
NudgeFails(r, n) ==
    /\ Asked(r, n) /\ Fault
    /\ UNCHANGED <<store, events, leader, seen, backoff, wait, changes, clock>>

-----------------------------------------------------------------------------
Revs == Keys \X (1..MaxRev)

Next ==
    \/ Tick
    \/ \E k \in Keys : Push(k) \/ Apply(k)
    \/ \E m \in Revs : Deliver(m) \/ Lose(m)
    \/ \E n \in Nodes : Evict(n) \/ Return(n)
    \/ \E r \in Replicas :
         \/ ChangeLeader(r) \/ SweepRead(r) \/ SweepDecide(r) \/ SweepFails(r)
         \/ \E n \in Nodes : Nudge(r, n) \/ NudgeFails(r, n)

Spec == Init /\ [][Next]_vars

(* The clock, the leader's loop and the consumer go on, and nodes apply    *)
(* the configs that they watch.                                            *)
FairSpec ==
    /\ Spec
    /\ WF_vars(Tick)
    /\ \A k \in Keys : WF_vars(Apply(k))
    /\ \A m \in Revs : WF_vars(Deliver(m))
    /\ \A r \in Replicas : /\ WF_vars(SweepRead(r)) /\ WF_vars(SweepDecide(r))
                           /\ \A n \in Nodes : WF_vars(Nudge(r, n))

-----------------------------------------------------------------------------
(* "A permanently broken node cannot be nudged every sweep": whatever is   *)
(* pushed, confirmed and deleted meanwhile, a replica that has asked a     *)
(* node leaves it alone for configConfirmTimeout.                          *)
NudgesAreSpaced == [][\A r \in Replicas : \A n \in due'[r] \ due[r] :
    aux_quiet[r][n] >= configConfirmTimeout]_vars

(* "A config-apply result lost between the node and the consumer still     *)
(* lands eventually".                                                      *)
LostResultLands == \A m \in Revs :
    (pushed[m[1]] = m[2] /\ m[1][1] \in active)
      ~> (confirmed[m[1]] >= m[2] \/ pushed[m[1]] # m[2] \/ m[1][1] \notin active)

=============================================================================
