--------------------------- MODULE ConfigLifecycle ---------------------------
(***************************************************************************)
(* The life of one subscriber's HSI config through the whole system: an    *)
(* operator writes it to etcd, the node applies it and reports the result  *)
(* on Kafka, and the consumer (internal/kafka/consumer.go) confirms a      *)
(* success in PostgreSQL or rolls a failure back in etcd.                  *)
(*                                                                         *)
(* A CAS is one step here: EtcdCAS!CASIsAtomic.  A handler that fails on   *)
(* etcd or PostgreSQL starts the message again, a worker that crashes or   *)
(* loses the partition leaves it to the next one, which starts after the   *)
(* committed offset; the worker that lost it may still finish its message. *)
(***************************************************************************)
EXTENDS HsiMutations, Sequences, FiniteSets

CONSTANTS
    Workers,    \* consumer sessions, of one or of several replicas
    OpMenu,     \* the operator requests
    Attests,    \* whether the node names resourceVersion and ModRevision in a
                \* report: {TRUE}, or BOOLEAN for one whose firmware changes
    Compaction, \* etcd may compact its history
    MaxRev,     \* bound on the revisions operators create
    MaxMsgs,    \* bound on the length of the topic partition
    MaxFaults   \* bound on failed handlings, crashes, rebalances and deleted audit rows

ASSUME OpMenuAssumption  == OpMenu \subseteq Ops
ASSUME FlagsAssumption   == Attests \subseteq BOOLEAN /\ Compaction \in BOOLEAN
ASSUME BoundsAssumption  == MaxRev \in Nat /\ MaxMsgs \in Nat /\ MaxFaults \in Nat

VARIABLES
    hist,      \* etcd: hist[r] is the key's content at revision r
    compacted, \* etcd: revisions below this one are gone
    nodeRev,   \* node: the newest revision it has tried to apply
    nodeRuns,  \* node: the revision it runs, 0 for none
    outbox,    \* node: reports not yet on the topic
    log,       \* the partition
    committed, \* the group's committed offset
    owner,     \* the worker the partition is assigned to
    idx,       \* the message each worker has fetched last
    pc,        \* where it is in handling that message
    local,     \* what it has read from etcd or PostgreSQL for it
    events,    \* table node_events
    history,   \* table hsi_config_history, in id order
    current,   \* table hsi_config_current
    faults,    \* number of faults so far
    aux_ok,    \* the revisions the node has applied (a delete too) with success
    aux_cleared \* the audit rows that operators have deleted

etcd  == <<hist, compacted>>
node  == <<nodeRev, nodeRuns, outbox, aux_ok>>
work  == <<owner, idx, pc, local>>
db    == <<events, aux_cleared, history, current>>
vars  == <<etcd, node, log, committed, work, db, faults>>

rev == Len(hist)
cur == hist[rev]
ModRevision == IF cur = Absent THEN 0 ELSE rev

(* ConfigApplyResult; rev is also the correlation_id of its envelope.      *)
Reports == [ok : BOOLEAN, restated : BOOLEAN, rev : Nat, arv : Nat, attested : Nat]

Rows  == [rev : Nat, status : {"success", "failed"}, val : Values \cup {Absent}]
NoRow == [rev |-> 0, val |-> Absent]

Stages == {"idle", "audit", "read", "upsert", "prev", "cas", "record", "mark"}

TypeOK ==
    /\ hist \in Seq(Values \cup {Absent}) /\ rev >= 1
    /\ compacted \in 0..rev
    /\ nodeRev \in 0..rev /\ nodeRuns \in 0..rev /\ aux_ok \subseteq 1..rev
    /\ outbox \subseteq Reports
    /\ log \in Seq(Reports)
    /\ committed \in 0..Len(log)
    /\ owner \in Workers
    /\ idx \in [Workers -> 0..Len(log)]
    /\ pc \in [Workers -> Stages]
    /\ local \in [Workers -> [rev : Nat, val : Values \cup {Absent}]]
    /\ events \subseteq Reports /\ aux_cleared \subseteq Reports
    /\ history \in Seq(Rows)
    /\ current \in [rev : Nat, val : Values \cup {Absent}]
    /\ faults \in 0..MaxFaults

(* The key is absent and nothing has happened to it.                       *)
Init ==
    /\ hist = <<Absent>> /\ compacted = 0
    /\ nodeRev = 1 /\ nodeRuns = 0 /\ outbox = {} /\ aux_ok = {}
    /\ log = <<>> /\ committed = 0
    /\ owner \in Workers
    /\ idx = [w \in Workers |-> 0]
    /\ pc = [w \in Workers |-> "idle"]
    /\ local = [w \in Workers |-> NoRow]
    /\ events = {} /\ aux_cleared = {} /\ history = <<>> /\ current = NoRow
    /\ faults = 0

-----------------------------------------------------------------------------
(* etcd and the operators *)

(* One REST or gRPC config request that takes effect.                      *)
OperatorWrite ==
    /\ rev < MaxRev
    /\ \E o \in OpMenu :
         /\ Mutate(o, cur) # Fail
         /\ hist' = Append(hist, Mutate(o, cur).val)
    /\ UNCHANGED <<compacted, node, log, committed, work, db, faults>>

(* DeleteFailedEvents: an operator removes an audit row.                   *)
DeleteFailedEvents ==
    /\ faults < MaxFaults
    /\ faults' = faults + 1
    /\ \E m \in events : events' = events \ {m} /\ aux_cleared' = aux_cleared \cup {m}
    /\ UNCHANGED <<etcd, node, log, committed, work, history, current>>

Compact ==
    /\ Compaction
    /\ compacted' \in (compacted + 1)..rev
    /\ UNCHANGED <<hist, node, log, committed, work, db, faults>>

-----------------------------------------------------------------------------
(* The node and the topic *)

(* A delete has no value whose resourceVersion could be named.  (Naming    *)
(* that of the config it removes would do nothing: no put has the          *)
(* ModRevision of a delete.)                                               *)
Report(ok, restated, r, attests) ==
    [ok |-> ok, restated |-> restated, rev |-> r,
     arv      |-> IF attests /\ hist[r] # Absent THEN hist[r].rv ELSE NoRV,
     attested |-> IF attests THEN r ELSE 0]

(* The node applies (or fails to apply) a revision it has learned of by    *)
(* its watch, a delete too; it may skip revisions and may try one again.   *)
NodeApply ==
    /\ Len(log) + Cardinality(outbox) < MaxMsgs
    /\ \E r \in nodeRev..rev, ok \in BOOLEAN, a \in Attests :
         /\ r > 1
         /\ nodeRev' = r
         /\ nodeRuns' = IF ~ok THEN nodeRuns ELSE IF hist[r] = Absent THEN 0 ELSE r
         /\ aux_ok' = IF ok THEN aux_ok \cup {r} ELSE aux_ok
         /\ outbox' = outbox \cup {Report(ok, FALSE, r, a)}
    /\ UNCHANGED <<etcd, log, committed, work, db, faults>>

(* The node answers a republish request with what it runs.                 *)
NodeRestate ==
    /\ Len(log) + Cardinality(outbox) < MaxMsgs
    /\ nodeRuns # 0
    /\ \E a \in Attests : outbox' = outbox \cup {Report(TRUE, TRUE, nodeRuns, a)}
    /\ UNCHANGED <<etcd, nodeRev, nodeRuns, aux_ok, log, committed, work, db, faults>>

(* A report reaches the topic, not necessarily in the order of creation;   *)
(* the node keeps a report whose acknowledgement it did not get.           *)
Publish ==
    \E m \in outbox, kept \in BOOLEAN :
      /\ kept => Len(log) + Cardinality(outbox) < MaxMsgs
      /\ log' = Append(log, m)
      /\ outbox' = IF kept THEN outbox ELSE outbox \ {m}
      /\ UNCHANGED <<etcd, nodeRev, nodeRuns, aux_ok, committed, work, db, faults>>

-----------------------------------------------------------------------------
(* The consumer *)

msg(w) == log[idx[w]]

Goto(w, stage) == pc' = [pc EXCEPT ![w] = stage]

(* Run's FetchMessage.                                                     *)
Fetch(w) ==
    /\ pc[w] = "idle" /\ owner = w /\ idx[w] < Len(log)
    /\ idx' = [idx EXCEPT ![w] = @ + 1]
    /\ Goto(w, "audit")
    /\ UNCHANGED <<etcd, node, log, committed, owner, local, db, faults>>

(* Fault: an event that is already in node_events counts as handled.       *)
Audit_DuplicateIsDone(w) ==
    /\ pc[w] = "audit"
    /\ events' = IF msg(w).restated /\ msg(w).ok THEN events ELSE events \cup {msg(w)}
    /\ Goto(w, IF msg(w) \in events THEN "mark" ELSE IF msg(w).ok THEN "read" ELSE "prev")
    /\ UNCHANGED <<etcd, node, log, committed, owner, idx, local, aux_cleared, history, current, faults>>

(* InsertNodeEvent for every result but a restated success.                *)
Audit(w) ==
    /\ pc[w] = "audit"
    /\ events' = IF msg(w).restated /\ msg(w).ok THEN events ELSE events \cup {msg(w)}
    /\ Goto(w, IF msg(w).ok THEN "read" ELSE "prev")
    /\ UNCHANGED <<etcd, node, log, committed, owner, idx, local, aux_cleared, history, current, faults>>

(* Fault: what etcd holds now is taken for what the node attested.         *)
ConfirmedConfig_Latest(attested) ==
    [rev |-> IF attested > 0 THEN attested ELSE ModRevision, val |-> cur]

(* Fault: the revision that is recorded is the one that could be read.     *)
ConfirmedConfig_ReadRevision(attested) ==
    IF attested > 0 /\ attested >= compacted
    THEN [rev |-> attested, val |-> hist[attested]]
    ELSE [rev |-> ModRevision, val |-> cur]

(* readConfirmedConfig: the attested revision's own content; what etcd     *)
(* holds now when that content is compacted or nothing is attested.        *)
ConfirmedConfig(attested) ==
    IF attested > 0 /\ attested >= compacted
    THEN [rev |-> attested, val |-> hist[attested]]
    ELSE [rev |-> IF attested > 0 THEN attested ELSE ModRevision, val |-> cur]

ReadConfirmed(w) ==
    LET c == ConfirmedConfig(msg(w).attested) IN
    /\ pc[w] = "read"
    /\ IF c.val = Absent
       THEN Goto(w, "mark") /\ UNCHANGED local
       ELSE Goto(w, "upsert") /\ local' = [local EXCEPT ![w] = c]
    /\ UNCHANGED <<etcd, node, log, committed, owner, idx, db, faults>>

(* hsi_config_history: unique on (mod_revision, status).                   *)
AppendHistory(h, row) ==
    IF \E i \in 1..Len(h) : h[i].rev = row.rev /\ h[i].status = row.status
    THEN h ELSE Append(h, row)

(* UpsertCurrentWithHistory: both tables in one transaction.               *)
Upsert(w) ==
    /\ pc[w] = "upsert"
    /\ current' = IF current.rev < local[w].rev THEN local[w] ELSE current
    /\ history' = AppendHistory(history,
                    [rev |-> local[w].rev, status |-> "success", val |-> local[w].val])
    /\ local' = [local EXCEPT ![w] = NoRow]
    /\ Goto(w, "mark")
    /\ UNCHANGED <<etcd, node, log, committed, owner, idx, events, aux_cleared, faults>>

(* GetLastSuccessfulConfig: the success row with the highest id.           *)
IsLastSuccess(h, i) ==
    /\ h[i].status = "success"
    /\ \A j \in 1..Len(h) : h[j].status = "success" => j <= i

LastSuccessful(h) ==
    IF \E i \in 1..Len(h) : IsLastSuccess(h, i)
    THEN LET i == CHOOSE i \in 1..Len(h) : IsLastSuccess(h, i)
         IN  [rev |-> h[i].rev, val |-> h[i].val]
    ELSE NoRow

ReadPrevious(w) ==
    /\ pc[w] = "prev"
    /\ local' = [local EXCEPT ![w] = LastSuccessful(history)]
    /\ Goto(w, "cas")
    /\ UNCHANGED <<etcd, node, log, committed, owner, idx, db, faults>>

(* The guarded CAS in etcd; a superseded failure writes nothing.           *)
Rollback(w) ==
    LET r == GuardedRollback(local[w].val, cur, ModRevision, msg(w).arv, msg(w).rev) IN
    /\ pc[w] = "cas"
    /\ hist' = IF r = Fail THEN hist ELSE Append(hist, r.val)
    /\ local' = [local EXCEPT ![w] = NoRow]
    /\ Goto(w, "record")
    /\ UNCHANGED <<compacted, node, log, committed, owner, idx, db, faults>>

(* RollbackToLastSuccessful: the audit row of the failure.                 *)
RecordFailure(w) ==
    /\ pc[w] = "record"
    /\ history' = AppendHistory(history, [rev |-> 0, status |-> "failed", val |-> Absent])
    /\ Goto(w, "mark")
    /\ UNCHANGED <<etcd, node, log, committed, owner, idx, local, events, aux_cleared, current, faults>>

(* CommitMessages hands the offset to the reader, which flushes later.     *)
Mark(w) ==
    /\ pc[w] = "mark"
    /\ Goto(w, "idle")
    /\ UNCHANGED <<etcd, node, log, committed, owner, idx, local, db, faults>>

(* Fault: the offset of the message in hand is committed with the others.  *)
Processed_InHand(w) == idx[w]

(* The flush of the marked offsets; the group accepts the owner's only.    *)
Processed(w) == IF pc[w] = "idle" THEN idx[w] ELSE idx[w] - 1

Flush(w) ==
    /\ owner = w
    /\ Processed(w) > committed
    /\ committed' = Processed(w)
    /\ UNCHANGED <<etcd, node, log, work, db, faults>>

(* etcd or PostgreSQL fails under the handler, before or after the step it *)
(* was taking had its effect, or CAS gives up: handleOne tries again.      *)
HandlerError(w) ==
    /\ faults < MaxFaults
    /\ pc[w] \notin {"idle", "audit", "mark"}
    /\ faults' = faults + 1
    /\ local' = [local EXCEPT ![w] = NoRow]
    /\ Goto(w, "audit")
    /\ UNCHANGED <<etcd, node, log, committed, owner, idx, db>>

(* The partition goes to v (or v restarts), which begins after the         *)
(* committed offset; the former owner keeps what it has in hand.           *)
Assign(v) ==
    /\ faults < MaxFaults
    /\ faults' = faults + 1
    /\ owner' = v
    /\ idx' = [idx EXCEPT ![v] = committed]
    /\ local' = [local EXCEPT ![v] = NoRow]
    /\ Goto(v, "idle")
    /\ UNCHANGED <<etcd, node, log, committed, db>>

Handle(w) ==
    \/ Audit(w) \/ ReadConfirmed(w) \/ Upsert(w)
    \/ ReadPrevious(w) \/ Rollback(w) \/ RecordFailure(w) \/ Mark(w)

Next ==
    \/ OperatorWrite \/ DeleteFailedEvents \/ Compact
    \/ NodeApply \/ NodeRestate \/ Publish
    \/ \E w \in Workers :
         Fetch(w) \/ Handle(w) \/ Flush(w) \/ HandlerError(w) \/ Assign(w)

Spec == Init /\ [][Next]_vars

(* The assigned worker keeps fetching and handling: the reader loop of Run *)
(* never stops while the process lives.  Nothing else is owed.             *)
FairSpec == Spec /\ \A w \in Workers :
    WF_vars(owner = w /\ (Fetch(w) \/ Handle(w)))

-----------------------------------------------------------------------------
(* w's step is the commit of a rollback in etcd.                           *)
RollsBack(w) == pc[w] = "cas" /\ pc'[w] = "record" /\ hist' # hist

(* A rollback on a report that names the version which failed replaces     *)
(* exactly that one: not a newer write, and not a recreated config that    *)
(* happens to carry the same resourceVersion.  Whatever was redelivered,   *)
(* duplicated or retried.  The failure of a delete, or of a node that is   *)
(* too old, names none, and the transitional guard can only guess.         *)
RollbackHitsFailedVersion ==
    [][\A w \in Workers : RollsBack(w) /\ msg(w).arv # NoRV => rev = msg(w).rev]_vars

(* A rollback restores a payload that the node has really applied with     *)
(* success ("rolls the config in etcd back to the last successful          *)
(* version").                                                              *)
RollbackRestoresApplied ==
    [][\A w \in Workers : RollsBack(w) /\ hist'[rev + 1] # Absent =>
         \E r \in aux_ok : hist[r] # Absent /\ Payload(hist[r]) = Payload(hist'[rev + 1])]_vars

(* The newest success that the controller has recorded is the one restored.*)
RollbackRestoresNewest ==
    [][\A w \in Workers : RollsBack(w) /\ hist'[rev + 1] # Absent =>
         Payload(hist'[rev + 1]) = Payload(current.val)]_vars

(* Every write, a rollback too, continues the resourceVersion chain.       *)
ResourceVersionChain == \A r \in 2..rev :
    hist[r] # Absent => hist[r].rv = NextRV(hist[r - 1])

(* An offset is committed only when its message has had its effect: the    *)
(* audit row is there (or was, until an operator deleted it), an attested  *)
(* success (its content not compacted) or a newer one is in the current    *)
(* view, and a version reported as failed is no longer what etcd offers to *)
(* the node.                                                               *)
CommittedIsProjected == \A i \in 1..committed :
    LET m == log[i] IN
    /\ (m.ok /\ m.restated) \/ m \in events \cup aux_cleared
    /\ m.ok /\ m.attested >= compacted /\ m.attested > 0 /\ hist[m.attested] # Absent
         => current.rev >= m.attested
    /\ ~m.ok /\ m.arv # NoRV => ModRevision # m.rev

(* hsi_config_current is "what config has the node successfully applied":  *)
(* its revision was applied and its content is that revision's.            *)
CurrentIsApplied == current # NoRow =>
    current.rev \in aux_ok /\ current.val = hist[current.rev]

(* "The attested revision is still what gets recorded", also when its      *)
(* content is compacted: while the node attests, a confirmed revision is   *)
(* one that it has applied.                                                *)
ConfirmedRevisionIsApplied ==
    current # NoRow /\ (\A i \in 1..Len(log) : log[i].attested > 0) => current.rev \in aux_ok

(* A version reported as failed is eventually replaced or removed.         *)
FailedVersionIsRetired == \A i \in 1..MaxMsgs :
    (i <= Len(log) /\ ~log[i].ok /\ log[i].arv # NoRV) ~> (i <= Len(log) /\ ModRevision # log[i].rev)

(* A published attestation eventually shows in the current view, unless    *)
(* its content is compacted before the consumer gets to it.                *)
AttestationIsConfirmed == \A i \in 1..MaxMsgs :
    (i <= Len(log) /\ log[i].ok /\ log[i].attested > 0 /\ hist[log[i].attested] # Absent)
      ~> (i <= Len(log) /\ (current.rev >= log[i].attested \/ compacted > log[i].attested))

=============================================================================
