----------------------------- MODULE OfflineEdit -----------------------------
(***************************************************************************)
(* Arbitration of the edits that a node made while it was offline          *)
(* (internal/kafka/consumer.go): the node proposes its snapshot of an etcd *)
(* key, or a tombstone for the HSI config, and the consumer decides inside *)
(* a CAS, by resourceVersion and by the second of the last edit, whether   *)
(* the proposal replaces what the controller holds.  Operators write and   *)
(* delete the same keys all the time, and a consumer that restarts handles *)
(* again whatever is after the offset it starts from.                      *)
(*                                                                         *)
(* One node, one subscriber; a CAS is one step (EtcdCAS!CASIsAtomic).      *)
(***************************************************************************)
EXTENDS Integers, Sequences, FiniteSets

CONSTANTS
    Keys,      \* which of the keys "hsi", "dns" and "count" exist
    Payloads,  \* contents of a key
    Absent,    \* the key does not exist
    Skew,      \* seconds the node's clock is ahead of the controller's
    MaxTime,   \* bound on the clock
    MaxEdits,  \* bound on the number of edits on the node
    MaxMsgs,   \* bound on the number of messages on the topic
    MaxOps,    \* bound on the number of operator requests
    MaxFaults  \* bound on failures and restarts

ASSUME KeysAssumption   == {"hsi", "dns"} \subseteq Keys /\ Keys \subseteq {"hsi", "dns", "count"}
ASSUME SkewAssumption   == Skew \in Int
ASSUME BoundsAssumption ==
    {MaxEdits, MaxMsgs, MaxOps, MaxFaults} \subseteq Nat /\ MaxTime \in Nat \ {0}

NoRV == 0

(* The envelope of a key: metadata.resourceVersion, the payload and        *)
(* metadata.updatedAt in seconds.                                          *)
Values == [rv : Nat, pay : Payloads, at : Nat]

ASSUME AbsentAssumption == Absent \notin Values /\ Absent \notin Payloads

(* ConfigOfflineEdit: id tells the edits apart for the properties, sent is *)
(* the event_time of the envelope.                                         *)
Proposals == [key : Keys, rv : Nat, pay : Payloads \cup {Absent}, deleted : BOOLEAN,
              edited : Int, id : Nat, sent : Int]

VARIABLES
    now,      \* seconds
    kv,       \* etcd
    copy,     \* the node's snapshot of the keys
    edits,    \* the node's edits that are not acknowledged yet, by key
    log,      \* the partition
    idx, pc,  \* the message in hand and the consumer's place in handling it
    events,   \* node_events rows of discarded edits
    dlq,      \* indices of dead-lettered messages
    rest,     \* the HSI delete request: "none", "cascade" or its answer
    ops,      \* number of operator requests so far
    faults,   \* number of failures and restarts so far
    aux_id,       \* number of edits made
    aux_decided,  \* the edits the consumer has decided
    aux_doom      \* which deletion of the HSI config owes that of the DNS key

vars == <<now, kv, copy, edits, log, idx, pc, events, dlq, rest, ops, faults,
          aux_id, aux_decided, aux_doom>>

etcd  == <<kv, aux_doom>>
node  == <<copy, edits, aux_id>>
reads == <<idx, pc, events, dlq, aux_decided>>

NoEdit == [rv |-> 0, pay |-> Absent, deleted |-> FALSE, edited |-> 0, id |-> 0]
NoDoom == -1
NoCopy == [rv |-> 0, pay |-> Absent]

Rows == [user : {"0", "user"}, time : Int]

TypeOK ==
    /\ now \in 0..MaxTime
    /\ kv \in [Keys -> Values \cup {Absent}]
    /\ copy \in [Keys -> [rv : Nat, pay : Payloads \cup {Absent}]]
    /\ edits \in [Keys -> [rv : Nat, pay : Payloads \cup {Absent}, deleted : BOOLEAN,
                           edited : Int, id : Nat]]
    /\ log \in Seq(Proposals)
    /\ idx \in 0..Len(log)
    /\ pc \in {"idle", "cas", "cascade", "audit"}
    /\ pc # "idle" => idx > 0
    /\ events \subseteq Rows
    /\ dlq \subseteq 1..Len(log)
    /\ rest \in {"none", "cascade", "ok", "failed", "notfound"}
    /\ ops \in 0..MaxOps /\ faults \in 0..MaxFaults
    /\ aux_id \in 0..MaxEdits
    /\ aux_decided \subseteq 1..MaxEdits
    /\ aux_doom \in {NoDoom} \cup 0..Len(log)

(* The subscriber exists with DNS records, and the node is in step.        *)
Init ==
    /\ now = 1
    /\ \E p \in Payloads :
         /\ kv = [k \in Keys |-> [rv |-> 1, pay |-> p, at |-> 0]]
         /\ copy = [k \in Keys |-> [rv |-> 1, pay |-> p]]
    /\ edits = [k \in Keys |-> NoEdit]
    /\ log = <<>> /\ idx = 0 /\ pc = "idle"
    /\ events = {} /\ dlq = {}
    /\ rest = "none" /\ ops = 0 /\ faults = 0
    /\ aux_id = 0 /\ aux_decided = {}
    /\ aux_doom = NoDoom

Tick ==
    /\ now < MaxTime
    /\ now' = now + 1
    /\ UNCHANGED <<etcd, node, log, reads, rest, ops, faults>>

-----------------------------------------------------------------------------
(* etcd and the operators *)

(* nextResourceVersion *)
NextRV(cur) == IF cur = Absent THEN 1 ELSE IF cur.rv = NoRV THEN 2 ELSE cur.rv + 1

(* Every write of key k; a config that is back no longer misses its DNS    *)
(* records.                                                                *)
WriteKey(k, v) ==
    /\ kv' = [kv EXCEPT ![k] = v]
    /\ aux_doom' = IF k = "hsi" THEN NoDoom ELSE aux_doom

(* The HSI config goes: by is the tombstone's index, 0 for an operator.    *)
DeleteHSI(by) ==
    /\ kv' = [kv EXCEPT !["hsi"] = Absent]
    /\ aux_doom' = IF kv["dns"] = Absent THEN NoDoom ELSE by

(* DeleteSubscriberDNS: a plain delete, whatever the key holds by now.     *)
DeleteSubscriberDNS ==
    /\ kv' = [kv EXCEPT !["dns"] = Absent]
    /\ aux_doom' = NoDoom

Request == ops < MaxOps /\ ops' = ops + 1

(* Create, update, dial, hangup, a DNS record added or removed, a new      *)
(* subscriber count - and a rollback: a write stamped by the controller.   *)
OperatorWrite(k) ==
    /\ Request
    /\ \E p \in Payloads : WriteKey(k, [rv |-> NextRV(kv[k]), pay |-> p, at |-> now])
    /\ UNCHANGED <<now, node, log, reads, rest, faults>>

(* DeleteDnsRecord of the last record.                                     *)
DeleteLastDnsRecord ==
    /\ Request
    /\ kv["dns"] # Absent
    /\ DeleteSubscriberDNS
    /\ UNCHANGED <<now, node, log, reads, rest, faults>>

(* DeleteHSIConfig: the CAS delete, then the cascade, which may fail.      *)
RestDelete ==
    /\ Request
    /\ rest # "cascade"
    /\ IF kv["hsi"] = Absent
       THEN rest' = "notfound" /\ UNCHANGED etcd
       ELSE rest' = "cascade" /\ DeleteHSI(0)
    /\ UNCHANGED <<now, node, log, reads, faults>>

RestCascade ==
    /\ rest = "cascade"
    /\ rest' = "ok"
    /\ DeleteSubscriberDNS
    /\ UNCHANGED <<now, node, log, reads, ops, faults>>

RestCascadeFails ==
    /\ rest = "cascade"
    /\ faults < MaxFaults
    /\ faults' = faults + 1
    /\ rest' = "failed"
    /\ UNCHANGED <<now, etcd, node, log, reads, ops>>

(* A rollback without a successful version removes the config alone.       *)
RollbackDelete ==
    /\ Request
    /\ kv["hsi"] # Absent
    /\ kv' = [kv EXCEPT !["hsi"] = Absent]
    /\ aux_doom' = NoDoom
    /\ UNCHANGED <<now, node, log, reads, rest, faults>>

-----------------------------------------------------------------------------
(* The node *)

nodeClock == now + Skew

(* Online, nothing of its own to report: the node follows etcd.            *)
NodeSync ==
    /\ \A k \in Keys : edits[k] = NoEdit
    /\ copy' = [k \in Keys |-> IF kv[k] = Absent THEN NoCopy
                               ELSE [rv |-> kv[k].rv, pay |-> kv[k].pay]]
    /\ copy' # copy
    /\ UNCHANGED <<now, etcd, edits, aux_id, log, reads, rest, ops, faults>>

(* A CLI edit: the snapshot's version goes up with every one.              *)
NodeEdit(k) ==
    /\ aux_id < MaxEdits
    /\ copy[k] # NoCopy
    /\ \E p \in Payloads \ {copy[k].pay} :
         /\ copy' = [copy EXCEPT ![k] = [rv |-> @.rv + 1, pay |-> p]]
         /\ edits' = [edits EXCEPT ![k] =
              [rv |-> copy[k].rv + 1, pay |-> p, deleted |-> FALSE,
               edited |-> nodeClock, id |-> aux_id + 1]]
    /\ aux_id' = aux_id + 1
    /\ UNCHANGED <<now, etcd, log, reads, rest, ops, faults>>

(* The subscriber is removed on the node: a tombstone for its HSI config.  *)
NodeDelete ==
    /\ aux_id < MaxEdits
    /\ copy["hsi"] # NoCopy
    /\ copy' = [copy EXCEPT !["hsi"] = NoCopy]
    /\ edits' = [edits EXCEPT !["hsi"] =
         [rv |-> copy["hsi"].rv, pay |-> Absent, deleted |-> TRUE,
          edited |-> nodeClock, id |-> aux_id + 1]]
    /\ aux_id' = aux_id + 1
    /\ UNCHANGED <<now, etcd, log, reads, rest, ops, faults>>

(* Back online: one proposal for each edited key, sent again when its      *)
(* acknowledgement is lost.                                                *)
Publish(k) ==
    /\ edits[k] # NoEdit
    /\ Len(log) < MaxMsgs
    /\ log' = Append(log, [key |-> k, rv |-> edits[k].rv, pay |-> edits[k].pay,
                           deleted |-> edits[k].deleted, edited |-> edits[k].edited,
                           id |-> edits[k].id, sent |-> nodeClock])
    /\ \E acked \in BOOLEAN : edits' = IF acked THEN [edits EXCEPT ![k] = NoEdit] ELSE edits
    /\ UNCHANGED <<now, etcd, copy, aux_id, reads, rest, ops, faults>>

-----------------------------------------------------------------------------
(* offlineEditMutation *)

(* Fault: an edit of the same second wins.                                 *)
Later_SameSecond(p, cur) == p.edited >= cur.at

(* editedAt.After(updatedAt)                                               *)
Later(p, cur) == p.edited > cur.at

(* A tombstone needs no newer version, a content edit does.                *)
Supersedes(p, cur) ==
    /\ cur.rv # NoRV
    /\ IF p.deleted THEN p.rv >= cur.rv ELSE p.rv > cur.rv
    /\ Later(p, cur)

(* errOfflineEditNoop, errOfflineEditDiscard or a write.                   *)
Decision(p, cur) ==
    IF cur = Absent THEN IF p.deleted THEN "noop" ELSE "discard"
    ELSE IF ~p.deleted /\ p.pay = cur.pay THEN "noop"
    ELSE IF Supersedes(p, cur) THEN "accept" ELSE "discard"

-----------------------------------------------------------------------------
(* The consumer *)

msg == log[idx]

Fetch ==
    /\ pc = "idle" /\ idx < Len(log)
    /\ idx' = idx + 1
    /\ pc' = "cas"
    /\ UNCHANGED <<now, etcd, node, log, events, dlq, aux_decided, rest, ops, faults>>

Decide(d) ==
    /\ pc = "cas"
    /\ Decision(msg, kv[msg.key]) = d
    /\ aux_decided' = aux_decided \cup {msg.id}
    /\ UNCHANGED <<now, node, log, idx, events, dlq, rest, ops, faults>>

AcceptEdit ==
    /\ Decide("accept") /\ ~msg.deleted
    /\ WriteKey(msg.key, [rv |-> kv[msg.key].rv + 1, pay |-> msg.pay, at |-> now])
    /\ pc' = "idle"

AcceptTombstone ==
    /\ Decide("accept") /\ msg.deleted
    /\ DeleteHSI(idx)
    /\ pc' = "cascade"

(* Fault: only the delete that took effect cascades.                       *)
Replayed_NoCascade ==
    /\ Decide("noop")
    /\ pc' = "idle"
    /\ UNCHANGED etcd

(* "A replayed tombstone still repairs a DNS orphan".                      *)
Replayed ==
    /\ Decide("noop")
    /\ pc' = IF msg.deleted THEN "cascade" ELSE "idle"
    /\ UNCHANGED etcd

Discard ==
    /\ Decide("discard")
    /\ pc' = "audit"
    /\ UNCHANGED etcd

Cascade ==
    /\ pc = "cascade"
    /\ DeleteSubscriberDNS
    /\ pc' = "idle"
    /\ UNCHANGED <<now, node, log, idx, events, dlq, aux_decided, rest, ops, faults>>

UserOf(k) == IF k = "count" THEN "0" ELSE "user"

(* recordOfflineEditDiscard: one row for each user and event_time, since   *)
(* the correlation_id is empty.                                            *)
Audit ==
    /\ pc = "audit"
    /\ events' = events \cup {[user |-> UserOf(msg.key), time |-> msg.sent]}
    /\ pc' = "idle"
    /\ UNCHANGED <<now, etcd, node, log, idx, dlq, aux_decided, rest, ops, faults>>

(* ErrCASConflict in every attempt of handleOne: the message is parked.    *)
DeadLetter ==
    /\ pc = "cas" /\ faults < MaxFaults
    /\ Decision(msg, kv[msg.key]) = "accept"
    /\ faults' = faults + 1
    /\ dlq' = dlq \cup {idx}
    /\ pc' = "idle"
    /\ UNCHANGED <<now, etcd, node, log, idx, events, aux_decided, rest, ops>>

(* etcd or PostgreSQL is not available: the handler starts again.          *)
HandlerError ==
    /\ pc \in {"cascade", "audit"} /\ faults < MaxFaults
    /\ faults' = faults + 1
    /\ pc' = "cas"
    /\ UNCHANGED <<now, etcd, node, log, idx, events, dlq, aux_decided, rest, ops>>

(* What may be committed: CommitMessages follows the handler.              *)
Handled == IF pc = "idle" THEN idx ELSE idx - 1

(* The consumer dies; it starts again after an offset it had committed, or *)
(* from the start when negativeLagGuard has reset the group.               *)
Restart ==
    /\ faults < MaxFaults
    /\ faults' = faults + 1
    /\ idx' \in 0..Handled
    /\ pc' = "idle"
    /\ UNCHANGED <<now, etcd, node, log, events, dlq, aux_decided, rest, ops>>

Next ==
    \/ Tick
    \/ \E k \in Keys : OperatorWrite(k) \/ NodeEdit(k) \/ Publish(k)
    \/ DeleteLastDnsRecord \/ RestDelete \/ RestCascade \/ RestCascadeFails \/ RollbackDelete
    \/ NodeSync \/ NodeDelete
    \/ Fetch \/ AcceptEdit \/ AcceptTombstone \/ Replayed \/ Discard
    \/ Cascade \/ Audit \/ DeadLetter \/ HandlerError \/ Restart

Spec == Init /\ [][Next]_vars

-----------------------------------------------------------------------------
(* "Replay is safe": an edit that was decided once, whichever way, takes   *)
(* no effect when it is delivered again - not after the key has been       *)
(* deleted and recreated with a low version either.  All that it may still *)
(* replace is what was written after the edit was made and yet bears an    *)
(* earlier time: in the seconds by which the node's clock is ahead, and    *)
(* nothing if it is not.                                                   *)
DecidedEditsStayDecided ==
    [][(AcceptEdit \/ AcceptTombstone) /\ msg.id \in aux_decided
         => kv[msg.key].at \in (msg.edited - Skew)..(msg.edited - 1)]_vars

(* Once a tombstone is handled, or a delete request answered with success, *)
(* the DNS records of the config it deleted are gone for as long as the    *)
(* config stays deleted, whatever crashed between the two deletes.         *)
DeletionLeavesNoOrphan ==
    /\ aux_doom = 0 => rest # "ok"
    /\ aux_doom > 0 => aux_doom > Handled

=============================================================================
