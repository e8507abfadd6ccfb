---------------------------- MODULE KafkaConsumer ----------------------------
(***************************************************************************)
(* The consuming session of internal/kafka/consumer.go on one partition:   *)
(* the startup guard on the committed offset, batches, the batched write   *)
(* of PPPoE states, the retries of one message, the dead letter queue and  *)
(* the asynchronous offset commit - against brokers that lose the end of   *)
(* the log, a PostgreSQL or etcd that goes away, and crashes.              *)
(*                                                                         *)
(* Offsets start at 0 and log[o + 1] is the message at offset o.  What a   *)
(* handler does is ConfigLifecycle's and OfflineEdit's subject; here a     *)
(* message is a PPPoE state, something whose handler succeeds, or          *)
(* something whose handler never will.                                     *)
(***************************************************************************)
EXTENDS Naturals, Sequences

CONSTANTS
    Users,         \* subscribers
    Times,         \* event times of PPPoE states, in seconds
    Kinds,         \* kinds of messages that are produced
    maxRetries,    \* attempts before the dead letter queue
    maxBatchSize,  \* messages taken at once
    MaxLog,        \* bound on the length of the log
    MaxMsgs,       \* bound on the messages produced in all
    MaxFaults      \* bound on outages, crashes and losses

ASSUME KindsAssumption  == Kinds \subseteq {"pppoe", "other", "poison"}
ASSUME TimesAssumption  == Times \subseteq Nat \ {0}
ASSUME BoundsAssumption ==
    /\ {MaxLog, MaxMsgs, MaxFaults} \subseteq Nat
    /\ {maxRetries, maxBatchSize} \subseteq Nat \ {0}

VARIABLES
    log,       \* the partition as the broker has it
    committed, \* the group's committed offset
    up,        \* PostgreSQL and etcd can be reached
    phase,     \* the consumer: "down", "running", or "unhealed" when it has
               \* joined although its startup guard could not reset the offset
    pos,       \* the next offset it fetches
    batch,     \* what it has fetched and not finished
    pc,        \* "idle", "batch", "one" or "dlq"
    attempt,   \* of the first message of batch
    marked,    \* the offset its next flush commits
    status,    \* table pppoe_status: the time and the message of each row
    dlq,       \* table kafka_dlq: the message in the row of each offset, 0 for none
    faults,
    aux_made,    \* number of messages produced
    aux_done,    \* the messages whose handler has had its effect
    aux_parked,  \* the messages that SendToDLQ has accepted
    aux_passed   \* the messages produced at offsets the group was already past

vars == <<log, committed, up, phase, pos, batch, pc, attempt, marked, status, dlq,
          faults, aux_made, aux_done, aux_parked, aux_passed>>

(* id tells messages apart; off is where the consumer fetched it.          *)
Messages == [id : Nat, kind : Kinds, user : Users, time : Times]
Fetched  == [off : Nat, m : Messages]

session == <<phase, pos, batch, pc, attempt, marked>>
made    == <<aux_made, aux_passed>>
tables  == <<status, dlq, aux_done, aux_parked>>

TypeOK ==
    /\ log \in Seq(Messages) /\ Len(log) <= MaxLog
    /\ committed \in 0..MaxLog
    /\ up \in BOOLEAN
    /\ phase \in {"down", "running", "unhealed"}
    /\ pos \in 0..MaxLog
    /\ batch \in Seq(Fetched) /\ Len(batch) <= maxBatchSize
    /\ pc \in {"idle", "batch", "one", "dlq"}
    /\ pc = "idle" <=> batch = <<>>
    /\ attempt \in 1..maxRetries
    /\ marked \in 0..MaxLog
    /\ status \in [Users -> [time : {0} \cup Times, id : Nat]]
    /\ dlq \in [0..(MaxLog - 1) -> 0..MaxMsgs]
    /\ faults \in 0..MaxFaults
    /\ aux_made \in 0..MaxMsgs
    /\ aux_done \subseteq 1..MaxMsgs /\ aux_parked \subseteq Messages
    /\ aux_passed \subseteq 1..MaxMsgs

Init ==
    /\ log = <<>> /\ committed = 0 /\ up = TRUE
    /\ phase = "down" /\ pos = 0 /\ batch = <<>> /\ pc = "idle" /\ attempt = 1 /\ marked = 0
    /\ status = [u \in Users |-> [time |-> 0, id |-> 0]]
    /\ dlq = [o \in 0..(MaxLog - 1) |-> 0]
    /\ faults = 0
    /\ aux_made = 0 /\ aux_done = {} /\ aux_parked = {} /\ aux_passed = {}

Fault == faults < MaxFaults /\ faults' = faults + 1

-----------------------------------------------------------------------------
(* The broker and the databases *)

(* What the group has acknowledged, or is about to, is no longer there.    *)
LostData == committed > Len(log) \/ pos > Len(log) \/ marked > Len(log)

Produce ==
    /\ Len(log) < MaxLog /\ aux_made < MaxMsgs
    /\ aux_made' = aux_made + 1
    /\ aux_passed' = IF LostData THEN aux_passed \cup {aux_made + 1} ELSE aux_passed
    /\ \E k \in Kinds, u \in Users, t \in Times :
         log' = Append(log, [id |-> aux_made + 1, kind |-> k, user |-> u, time |-> t])
    /\ UNCHANGED <<committed, up, session, tables, faults>>

(* A truncated log or a re-created topic.                                  *)
Truncate ==
    /\ Fault
    /\ \E n \in 0..(Len(log) - 1) : log' = SubSeq(log, 1, n)
    /\ UNCHANGED <<committed, up, session, tables, made>>

Outage  == up /\ Fault /\ up' = FALSE
             /\ UNCHANGED <<log, committed, session, tables, made>>
Recover == ~up /\ up' = TRUE
             /\ UNCHANGED <<log, committed, session, tables, faults, made>>

-----------------------------------------------------------------------------
(* Starting and stopping *)

(* Fault: a loss of one message goes unnoticed.                            *)
IsBeyondLogEnd_OffByOne(c, last) == c > last + 1

IsBeyondLogEnd(c, last) == c > last

(* The reader joins the group and begins at the committed offset.          *)
Join ==
    /\ phase = "down"
    /\ pos' = committed' /\ marked' = committed'
    /\ UNCHANGED <<log, up, batch, pc, attempt, tables, faults, made>>

(* negativeLagGuard and partitionsToReset, before the reader joins.        *)
Start ==
    /\ committed' = IF IsBeyondLogEnd(committed, Len(log)) THEN 0 ELSE committed
    /\ phase' = "running"
    /\ Join

(* The guard cannot look, or the broker refuses its reset because another  *)
(* replica is in the group: it logs and goes on.  Also that other replica, *)
(* which gets the partition without any guard.                             *)
StartUnhealed ==
    /\ IsBeyondLogEnd(committed, Len(log))
    /\ committed' = committed
    /\ phase' = "unhealed"
    /\ Join

Stop ==
    /\ phase' = "down" /\ pos' = 0 /\ batch' = <<>> /\ pc' = "idle"
    /\ attempt' = 1 /\ marked' = 0
    /\ UNCHANGED <<log, committed, up, tables, made>>

(* The process dies, or shuts down: messages in hand are not committed.    *)
Crash == phase # "down" /\ Fault /\ Stop

(* The restart that an operator makes on the offset_beyond_log_end alert.  *)
RestartOnAlert ==
    /\ phase # "down" /\ IsBeyondLogEnd(committed, Len(log))
    /\ Stop
    /\ UNCHANGED faults

-----------------------------------------------------------------------------
(* Taking messages *)

(* Fault: fetching commits, as a reader with automatic commits would.      *)
Fetch_AutoCommit ==
    /\ phase # "down" /\ pc = "idle" /\ pos < Len(log)
    /\ \E n \in 1..maxBatchSize :
         /\ pos + n <= Len(log)
         /\ batch' = [i \in 1..n |-> [off |-> pos + i - 1, m |-> log[pos + i]]]
         /\ pos' = pos + n
         /\ marked' = pos + n
    /\ pc' = "batch" /\ attempt' = 1
    /\ UNCHANGED <<log, committed, up, phase, tables, faults, made>>

(* FetchMessage and collectBatch; past the end of the log it waits.        *)
Fetch ==
    /\ phase # "down" /\ pc = "idle" /\ pos < Len(log)
    /\ \E n \in 1..maxBatchSize :
         /\ pos + n <= Len(log)
         /\ batch' = [i \in 1..n |-> [off |-> pos + i - 1, m |-> log[pos + i]]]
         /\ pos' = pos + n
    /\ pc' = "batch" /\ attempt' = 1
    /\ UNCHANGED <<log, committed, up, phase, marked, tables, faults, made>>

(* The asynchronous commit of the reader.                                  *)
Flush ==
    /\ phase # "down" /\ marked > committed
    /\ committed' = marked
    /\ UNCHANGED <<log, up, session, tables, faults, made>>

-----------------------------------------------------------------------------
(* Writing PPPoE states *)

Row(m) == [time |-> m.time, id |-> m.id]

(* UpsertPPPoEStatus and its event_time guard.                             *)
UpsertPPPoEStatus(st, m) ==
    IF st[m.user].time <= m.time THEN [st EXCEPT ![m.user] = Row(m)] ELSE st

(* Faults: the last of a subscriber's events stands for all of them; among *)
(* events of the same second the first one stays.                          *)
Collapse_LastWins(rows, m) == [rows EXCEPT ![m.user] = Row(m)]

Collapse_FirstOfSecond(rows, m) ==
    IF rows[m.user].time < m.time THEN [rows EXCEPT ![m.user] = Row(m)] ELSE rows

(* A later event of a subscriber replaces its row unless it is older.      *)
Collapse(rows, m) ==
    IF rows[m.user].time <= m.time THEN [rows EXCEPT ![m.user] = Row(m)] ELSE rows

NoRows == [u \in Users |-> [time |-> 0, id |-> 0]]

(* pppoeRowsFromBatch: at most one row for each subscriber.                *)
pppoeRowsFromBatch(ms) ==
    LET rows[n \in 0..Len(ms)] == IF n = 0 THEN NoRows ELSE Collapse(rows[n - 1], ms[n])
    IN  rows[Len(ms)]

(* UpsertPPPoEStatusBatch: the guard of the single upsert for every row.   *)
UpsertPPPoEStatusBatch(st, ms) ==
    LET rows == pppoeRowsFromBatch(ms) IN
    [u \in Users |-> IF rows[u].time > 0 /\ st[u].time <= rows[u].time THEN rows[u] ELSE st[u]]

Contents(b) == [i \in 1..Len(b) |-> b[i].m]
Ids(ms) == {ms[i].id : i \in 1..Len(ms)}

(* writePPPoEBatch takes nothing but PPPoE states, and two at least.       *)
IsPPPoEBatch ==
    /\ Len(batch) >= 2
    /\ \A i \in 1..Len(batch) : batch[i].m.kind = "pppoe"

WriteRows ==
    /\ status' = UpsertPPPoEStatusBatch(status, Contents(batch))
    /\ aux_done' = aux_done \cup Ids(Contents(batch))
    /\ UNCHANGED <<dlq, aux_parked>>

WritePPPoEBatch ==
    /\ pc = "batch" /\ IsPPPoEBatch /\ up
    /\ WriteRows
    /\ marked' = batch[Len(batch)].off + 1
    /\ batch' = <<>> /\ pc' = "idle"
    /\ UNCHANGED <<log, committed, up, phase, pos, attempt, faults, made>>

(* The write failed, with or without an effect, or it is not that kind of  *)
(* batch: one message at a time.                                           *)
OneAtATime ==
    /\ pc = "batch"
    /\ \/ ~IsPPPoEBatch /\ UNCHANGED <<tables, faults>>
       \/ IsPPPoEBatch /\ ~up /\ UNCHANGED <<tables, faults>>
       \/ IsPPPoEBatch /\ up /\ Fault /\ WriteRows
    /\ pc' = "one"
    /\ UNCHANGED <<log, committed, up, phase, pos, batch, attempt, marked, made>>

-----------------------------------------------------------------------------
(* handleOne *)

msg == Head(batch).m

Effect ==
    /\ status' = IF msg.kind = "pppoe" THEN UpsertPPPoEStatus(status, msg) ELSE status
    /\ aux_done' = aux_done \cup {msg.id}
    /\ UNCHANGED <<dlq, aux_parked>>

(* CommitMessages and the next message.                                    *)
Finish ==
    /\ marked' = Head(batch).off + 1
    /\ batch' = Tail(batch)
    /\ pc' = IF Len(batch) = 1 THEN "idle" ELSE "one"
    /\ attempt' = 1
    /\ UNCHANGED <<log, committed, up, phase, pos, made>>

Handle ==
    /\ pc = "one" /\ up /\ msg.kind # "poison"
    /\ Effect
    /\ Finish
    /\ UNCHANGED faults

(* Faults: no way out of a failing handler; an outage uses up attempts.    *)
AfterFailure_RetryForEver(infra) == attempt' = attempt /\ pc' = "one"

AfterFailure_OutageCounts(infra) ==
    IF attempt < maxRetries THEN attempt' = attempt + 1 /\ pc' = "one"
    ELSE attempt' = 1 /\ pc' = "dlq"

(* Unavailable infrastructure is retried for ever; anything else counts.   *)
AfterFailure(infra) ==
    IF infra THEN attempt' = attempt /\ pc' = "one"
    ELSE IF attempt < maxRetries THEN attempt' = attempt + 1 /\ pc' = "one"
    ELSE attempt' = 1 /\ pc' = "dlq"

(* PostgreSQL or etcd is unavailable, perhaps only for the answer.         *)
InfraError ==
    /\ pc = "one" /\ ~up
    /\ AfterFailure(TRUE)
    /\ \/ msg.kind # "poison" /\ Effect
       \/ UNCHANGED tables
    /\ UNCHANGED <<log, committed, up, phase, pos, batch, marked, faults, made>>

HandleFails ==
    /\ pc = "one" /\ up /\ msg.kind = "poison"
    /\ AfterFailure(FALSE)
    /\ UNCHANGED <<log, committed, up, phase, pos, batch, marked, tables, faults, made>>

(* Fault: a failed write of the row is not tried again.                    *)
SendToDLQ_Once ==
    /\ pc = "dlq"
    /\ dlq' = [dlq EXCEPT ![Head(batch).off] = IF @ = 0 /\ up THEN msg.id ELSE @]
    /\ aux_parked' = aux_parked \cup {msg}
    /\ Finish
    /\ UNCHANGED <<status, aux_done, faults>>

(* SendToDLQ: unique on the offset, and on a conflict the message of the   *)
(* row stays.  Without a database it is tried again.                       *)
SendToDLQ ==
    /\ pc = "dlq" /\ up
    /\ dlq' = [dlq EXCEPT ![Head(batch).off] = IF @ = 0 THEN msg.id ELSE @]
    /\ aux_parked' = aux_parked \cup {msg}
    /\ Finish
    /\ UNCHANGED <<status, aux_done, faults>>

-----------------------------------------------------------------------------
Step == Fetch \/ WritePPPoEBatch \/ OneAtATime \/ Handle \/ HandleFails \/ SendToDLQ

Next ==
    \/ Produce \/ Truncate \/ Outage \/ Recover
    \/ Start \/ StartUnhealed \/ Crash \/ RestartOnAlert
    \/ Step \/ Flush \/ InfraError

Spec == Init /\ [][Next]_vars

(* The loop of Run goes on, the reader flushes every commitInterval, the   *)
(* process is restarted (Kubernetes, or an operator on the alert) and      *)
(* outages end.  That a restart finds the group empty is not assumed.      *)
FairSpec ==
    /\ Spec
    /\ WF_vars(Step) /\ WF_vars(Flush) /\ WF_vars(Start \/ StartUnhealed)
    /\ WF_vars(RestartOnAlert) /\ WF_vars(Recover)

-----------------------------------------------------------------------------
Settled(id) == id \in aux_done \/ \E m \in aux_parked : m.id = id

(* An offset is committed only after the message at it took effect or      *)
(* SendToDLQ has accepted it, in every crash, outage, half-done batch and  *)
(* loss of log data.  (What the queue then holds is DeadLetterHasARow.)    *)
(* What the guard cannot see is a log that has grown again past the        *)
(* committed offset: only a message that came at an offset the group was   *)
(* past is skipped.                                                        *)
CommittedIsSettled ==
    \A o \in 0..(committed - 1) :
      (o < Len(log) /\ log[o + 1].id \notin aux_passed) => Settled(log[o + 1].id)

(* An outage, however long, never sends a good message to the dead letter  *)
(* queue: only a handler that fails by itself uses up attempts.            *)
OutagesParkNothing == \A m \in aux_parked : m.kind = "poison"

(* A parked message that is still in the log has a row in kafka_dlq at its *)
(* offset.  The row is its own, or that of an older message which was      *)
(* parked at the same offset before the log lost it, never a newer one's.  *)
DeadLetterHasARow ==
    \A o \in 0..(Len(log) - 1) :
      /\ log[o + 1] \in aux_parked => dlq[o] # 0
      /\ dlq[o] <= log[o + 1].id

(* The table after a single upsert for each of the messages.               *)
OneByOne(st, ms) ==
    LET table[n \in 0..Len(ms)] == IF n = 0 THEN st ELSE UpsertPPPoEStatus(table[n - 1], ms[n])
    IN  table[Len(ms)]

(* The batched write leaves the rows that writing one at a time would.     *)
BatchEqualsSingles ==
    [][WritePPPoEBatch => status' = OneByOne(status, Contents(batch))]_vars

(* A subscriber's row shows the newest state among the committed ones that *)
(* the group was not past when they came.                                  *)
StatusIsNewest ==
    \A o \in 0..(committed - 1) :
      (o < Len(log) /\ log[o + 1].id \notin aux_passed /\ log[o + 1].kind = "pppoe")
        => status[log[o + 1].user].time >= log[o + 1].time

(* Every message that stays in the log is settled, whatever was lost,      *)
(* crashed or unavailable before, unless the group was past its offset     *)
(* when it came.                                                           *)
EveryMessageIsSettled == \A id \in 1..MaxMsgs :
    (id \notin aux_passed /\ \E i \in 1..Len(log) : log[i].id = id)
      ~> (Settled(id) \/ ~\E i \in 1..Len(log) : log[i].id = id)

(* "Heal a wedged group": the group does not wait for ever beyond the end  *)
(* of a log that has lost what it had acknowledged, unless from some time  *)
(* on every restart has its reset refused.  Restarting one replica after   *)
(* the other keeps the group from being empty and does not heal.           *)
WedgeHeals == []<>(phase = "running") => (LostData ~> ~LostData)

=============================================================================
