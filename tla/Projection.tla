------------------------------ MODULE Projection ------------------------------
(***************************************************************************)
(* The projection of etcd's configs/ prefix into hsi_config_history        *)
(* (internal/projection/projection.go, ListConfigs and WatchConfigs of     *)
(* internal/storage/etcd.go): read the checkpoint, list when there is none *)
(* or when etcd has compacted it away, watch from it, append a row for     *)
(* every event and move the checkpoint after the row.                      *)
(*                                                                         *)
(* A worker is one term of a leader.  A lease that expires unnoticed lets  *)
(* an old term overlap the next one (LeaderElection), so any number of     *)
(* workers may run at once; any of them may stop after any statement.      *)
(***************************************************************************)
EXTENDS Integers, Sequences, FiniteSets

CONSTANTS
    Workers,    \* terms of leaders
    HsiKeys,    \* keys configs/<node>/hsi/<user>
    OtherKeys,  \* other keys of the prefix: DNS records, subscriber counts
    Compaction, \* etcd may compact its history
    MaxRev,     \* bound on the revision of the store
    MaxFaults   \* bound on errors and on terms that end

ASSUME KeysAssumption   == HsiKeys \cap OtherKeys = {} /\ OtherKeys # {}
ASSUME FlagsAssumption  == Compaction \in BOOLEAN
ASSUME BoundsAssumption == MaxRev \in Nat /\ MaxFaults \in Nat

Keys == HsiKeys \cup OtherKeys

Events == [key : Keys, deleted : BOOLEAN]

VARIABLES
    hist,       \* etcd: hist[r] is the change that made revision r
    compacted,  \* etcd: changes before this revision cannot be watched any more
    rows,       \* table hsi_config_history, status 'pending': the mod_revisions
    checkpoint, \* table etcd_watch_progress, NoCheckpoint when there is no row
    stage,      \* where each worker is
    pos,        \* the revision its watch has got to
    todo,       \* the listed configs it has yet to record
    fresh,      \* its reconcile is the initial one
    faults,
    aux_listed  \* the newest revision that a reconcile has set

vars == <<hist, compacted, rows, checkpoint, stage, pos, todo, fresh, faults, aux_listed>>

etcd   == <<hist, compacted>>
tables == <<rows, checkpoint, aux_listed>>

NoCheckpoint == 0

rev == Len(hist)

Stages == {"off", "start", "list", "append", "listed", "watch", "row", "progress"}

TypeOK ==
    /\ hist \in Seq(Events) /\ rev > 0
    /\ compacted \in 0..rev
    /\ rows \subseteq 1..rev
    /\ checkpoint \in 0..rev
    /\ stage \in [Workers -> Stages]
    /\ pos \in [Workers -> 0..rev]
    /\ todo \in [Workers -> SUBSET (1..rev)]
    /\ fresh \in [Workers -> BOOLEAN]
    /\ faults \in 0..MaxFaults
    /\ aux_listed \in 0..rev

(* A store is never without a revision.                                    *)
Init ==
    /\ \E k \in OtherKeys : hist = <<[key |-> k, deleted |-> FALSE]>>
    /\ compacted = 0
    /\ rows = {} /\ checkpoint = NoCheckpoint
    /\ stage = [w \in Workers |-> "off"]
    /\ pos = [w \in Workers |-> 0]
    /\ todo = [w \in Workers |-> {}]
    /\ fresh = [w \in Workers |-> FALSE]
    /\ faults = 0 /\ aux_listed = 0

-----------------------------------------------------------------------------
(* etcd *)

IsHsi(r)  == hist[r].key \in HsiKeys
Later(r)  == {s \in (r + 1)..rev : hist[s].key = hist[r].key}
Holds(k)  == \E r \in 1..rev : hist[r] = [key |-> k, deleted |-> FALSE] /\ Later(r) = {}

(* The revisions of the values that the prefix holds now.                  *)
Held == {r \in 1..rev : ~hist[r].deleted /\ Later(r) = {}}

Write ==
    /\ rev < MaxRev
    /\ \E k \in Keys, d \in BOOLEAN :
         /\ d => Holds(k)
         /\ hist' = Append(hist, [key |-> k, deleted |-> d])
    /\ UNCHANGED <<compacted, tables, stage, pos, todo, fresh, faults>>

Compact ==
    /\ Compaction
    /\ compacted' \in (compacted + 1)..rev
    /\ UNCHANGED <<hist, tables, stage, pos, todo, fresh, faults>>

-----------------------------------------------------------------------------
(* Run *)

Goto(w, s) == stage' = [stage EXCEPT ![w] = s]

(* startProjectionWhenDatabaseReady on the replica that was elected.       *)
Elect(w) ==
    /\ stage[w] = "off"
    /\ Goto(w, "start")
    /\ UNCHANGED <<etcd, tables, pos, todo, fresh, faults>>

(* The term ends, or the process does.                                     *)
Cancel(w) ==
    /\ stage[w] # "off" /\ faults < MaxFaults
    /\ faults' = faults + 1
    /\ Goto(w, "off")
    /\ pos' = [pos EXCEPT ![w] = 0] /\ todo' = [todo EXCEPT ![w] = {}]
    /\ UNCHANGED <<etcd, tables, fresh>>

(* PostgreSQL or etcd fails, before or after the step had its effect: the  *)
(* loop starts over.                                                       *)
Error(w) ==
    /\ stage[w] \notin {"off", "start"} /\ faults < MaxFaults
    /\ faults' = faults + 1
    /\ Goto(w, "start")
    /\ pos' = [pos EXCEPT ![w] = 0] /\ todo' = [todo EXCEPT ![w] = {}]
    /\ UNCHANGED <<etcd, tables, fresh>>

(* GetWatchProgress                                                        *)
ReadProgress(w) ==
    /\ stage[w] = "start"
    /\ Goto(w, IF checkpoint = NoCheckpoint THEN "list" ELSE "watch")
    /\ pos' = [pos EXCEPT ![w] = checkpoint]
    /\ fresh' = [fresh EXCEPT ![w] = (checkpoint = NoCheckpoint)]
    /\ UNCHANGED <<etcd, tables, todo, faults>>

(* ListConfigs: the values and the revision of the snapshot.               *)
List(w) ==
    /\ stage[w] = "list"
    /\ todo' = [todo EXCEPT ![w] = {r \in Held : IsHsi(r)}]
    /\ pos' = [pos EXCEPT ![w] = rev]
    /\ Goto(w, "append")
    /\ UNCHANGED <<etcd, tables, fresh, faults>>

AppendListed(w) ==
    /\ stage[w] = "append"
    /\ IF todo[w] = {}
       THEN Goto(w, "listed") /\ UNCHANGED <<rows, todo>>
       ELSE \E r \in todo[w] :
              /\ rows' = rows \cup {r}
              /\ todo' = [todo EXCEPT ![w] = @ \ {r}]
              /\ UNCHANGED stage
    /\ UNCHANGED <<etcd, checkpoint, aux_listed, pos, fresh, faults>>

(* SetWatchProgress to the list's revision; the initial reconcile goes on  *)
(* to watch from there, the one after a compaction to the top of the loop. *)
SetListed(w) ==
    /\ stage[w] = "listed"
    /\ checkpoint' = pos[w]
    /\ aux_listed' = IF aux_listed < pos[w] THEN pos[w] ELSE aux_listed
    /\ Goto(w, IF fresh[w] THEN "watch" ELSE "start")
    /\ UNCHANGED <<etcd, rows, pos, todo, fresh, faults>>

(* Fault: a compacted watch is only started again.                         *)
WatchCompacted_Restarts(w) ==
    /\ stage[w] = "watch" /\ pos[w] + 1 < compacted
    /\ Goto(w, "start")
    /\ fresh' = [fresh EXCEPT ![w] = FALSE]
    /\ UNCHANGED <<etcd, tables, pos, todo, faults>>

(* WatchConfigs ends with ErrCompacted: reconcile.                         *)
WatchCompacted(w) ==
    /\ stage[w] = "watch" /\ pos[w] + 1 < compacted
    /\ Goto(w, "list")
    /\ fresh' = [fresh EXCEPT ![w] = FALSE]
    /\ UNCHANGED <<etcd, tables, pos, todo, faults>>

(* Fault: the checkpoint moves before the row is there.                    *)
WatchEvent_CheckpointFirst(w) ==
    /\ stage[w] = "watch" /\ pos[w] < rev /\ pos[w] + 1 >= compacted
    /\ pos' = [pos EXCEPT ![w] = @ + 1]
    /\ checkpoint' = pos[w] + 1
    /\ Goto(w, IF IsHsi(pos[w] + 1) THEN "row" ELSE "progress")
    /\ UNCHANGED <<etcd, rows, aux_listed, todo, fresh, faults>>

(* The next event; keys that are no HSI config only move the checkpoint.   *)
WatchEvent(w) ==
    /\ stage[w] = "watch" /\ pos[w] < rev /\ pos[w] + 1 >= compacted
    /\ pos' = [pos EXCEPT ![w] = @ + 1]
    /\ Goto(w, IF IsHsi(pos[w] + 1) THEN "row" ELSE "progress")
    /\ UNCHANGED <<etcd, tables, todo, fresh, faults>>

(* handleEvent: AppendHistory, then SetWatchProgress.                      *)
AppendEvent(w) ==
    /\ stage[w] = "row"
    /\ rows' = rows \cup {pos[w]}
    /\ Goto(w, "progress")
    /\ UNCHANGED <<etcd, checkpoint, aux_listed, pos, todo, fresh, faults>>

(* SetWatchProgress: a plain overwrite, backwards too.                     *)
SetProgress(w) ==
    /\ stage[w] = "progress"
    /\ checkpoint' = pos[w]
    /\ Goto(w, "watch")
    /\ UNCHANGED <<etcd, rows, aux_listed, pos, todo, fresh, faults>>

Step(w) ==
    \/ Elect(w) \/ ReadProgress(w) \/ List(w) \/ AppendListed(w) \/ SetListed(w)
    \/ WatchCompacted(w) \/ WatchEvent(w) \/ AppendEvent(w) \/ SetProgress(w)

Next ==
    \/ Write \/ Compact
    \/ \E w \in Workers : Step(w) \/ Cancel(w) \/ Error(w)

Spec == Init /\ [][Next]_vars

(* Somebody leads, its loop goes on and its failures end.                  *)
FairSpec == Spec /\ \A w \in Workers : WF_vars(Step(w))

-----------------------------------------------------------------------------
(* "Records the last revision a watcher has durably applied", whichever of *)
(* several overlapping leaders wrote it last, perhaps an old one: every    *)
(* change up to the checkpoint has its row, but for those that a reconcile *)
(* has passed over, and of those the ones that were in force have theirs.  *)
CheckpointIsCovered ==
    \A r \in 1..checkpoint : IsHsi(r) =>
      \/ r \in rows
      \/ r <= aux_listed /\ (hist[r].deleted \/ \E s \in Later(r) : s <= aux_listed)

(* Every change reaches the history, or is passed over by a reconcile.     *)
ChangesAreRecorded == \A r \in 1..MaxRev :
    (r <= rev /\ IsHsi(r)) ~> (r \in rows \/ r <= aux_listed)

=============================================================================
