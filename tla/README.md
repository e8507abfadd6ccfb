# FastRG controller: TLA+ verification

The FastRG controller keeps the configuration of residential gateways ("nodes")
in etcd, lets operators edit it through REST and gRPC, learns from the nodes
over Kafka whether a config was applied, and keeps a read model in PostgreSQL.
Several replicas run at once.  This directory holds TLA+ modules translated
from that code, TLC runs that check them on small instances, and TLAPS proofs
of the results that should hold for every size.

To run: `tlc -config <run>.cfg <module>` and `tlapm <module>_proofs.tla`;
`PROJECT.json` lists the runs, the mutants that show that each property can
fail, and, for every definition, the source lines it stands for.

## The system

| Part | State it keeps | Operations | Meets |
|---|---|---|---|
| `storage/etcd.go` CAS | one etcd key | Get, mutate closure, guarded transaction, bounded retries | every writer of etcd |
| HSI config API (`rest_server.go`, `config_grpc_server.go`) | `configs/<node>/hsi/<user>` | create, update, delete, dial, hangup; DNS records; subscriber count | CAS, node watches |
| Kafka consumer (`kafka/consumer.go`) | committed offset, batch, retries; `pppoe_status`, `kafka_dlq`, `node_events` | startup guard, batch, handle, DLQ, commit | PostgreSQL, etcd, brokers |
| Config apply results (same file, `db/config_repo.go`) | `hsi_config_current`, `hsi_config_history` | confirm a success, roll a failure back in etcd | API, CAS, node |
| Offline edits (same file) | the same etcd keys, `node_events` | arbitrate a node's edit or tombstone, cascade to DNS | API, CAS, node |
| Projection (`projection.go`) | `hsi_config_history`, `etcd_watch_progress` | list, watch, append, checkpoint | etcd watch, leadership |
| Leader election (`leader.go`, `main.go`) | lease, election key, the leader flag | campaign, lead, resign | projection, both sweeps |
| Node registry and monitors (`grpc_server.go`, `node_monitor.go`) | `nodes/<uuid>`, monitors, NIC fetches | register, heartbeat, shutdown, unregister, clear, stale sweep | leadership, nodes |
| Confirmation sweep (`node_monitor.go`) | per-node backoff | compare, back off, ask | leadership, `hsi_config_current`, nodes |
| Users, tokens, JWT secret (`rest_server.go`, `jwt_secret.go`) | `users/`, `token_blacklist/`, `auth/jwt_secret`, each replica's secret | resolve the secret, login, validate, logout, add, delete | every handler |
| PostgreSQL connection (`db.go`) | pool, `schema_migrations` | connect loop, migrate under an advisory lock | leadership and projection, in `main.go` |

What is hard here: every replica and every request works on the same few etcd
keys; the effect of one Kafka message is spread over PostgreSQL, etcd and the
offset commit, with a crash possible between any two; messages are delivered
twice, late and out of order; versions restart at 1 after delete and recreate;
leases expire before their holders know.  `PROJECT.json` "hazards" lists these
at their lines, with the properties that watch them.

## The modules

A CAS is shown to be atomic once (EtcdCAS refines AtomicConfig); the modules
above it then treat a CAS as one step.

| Module | Models | Used by |
|---|---|---|
| `HsiMutations` | the mutate closures of the HSI API and of the rollback, as functions on a stored value | EtcdCAS, ConfigLifecycle |
| `AtomicConfig` | the abstract promise of CAS: a request takes effect in one step, or is answered without effect, or fails with an unknown outcome | EtcdCAS (refinement) |
| `EtcdCAS` | `CASWithRevision` under concurrent requests | |
| `ConfigLifecycle` | operator, etcd, node, Kafka partition, consumer workers and tables for one subscriber | |
| `OfflineEdit` | arbitration of offline edits and tombstones on the HSI and DNS keys | |
| `KafkaConsumer` | one consuming session on one partition | |
| `Projection` | the projection under overlapping leaders | |
| `LeaderElection` | sessions, campaign and the callback of `main.go` | Startup |
| `Startup` | LeaderElection with every replica's connection to PostgreSQL, the migrations and the start of the projection | |
| `HsiApi` | the checks before a CAS on several users of one node, through both servers, against the consumer's writes | |
| `Sessions` | the JWT secret, logins, logouts and users on several replicas | |
| `NodeRegistry` | one node's record, each replica's monitor and NIC fetch | |
| `ConfirmSweep` | the confirmation sweep of replicas that lead in turns | |
| `EtcdCAS_proofs`, `ConfigLifecycle_proofs`, `OfflineEdit_proofs`, `KafkaConsumer_proofs`, `Projection_proofs`, `HsiApi_proofs`, `Sessions_proofs` | theorems about the module of that name | |
| `Leader_proofs` | theorems about LeaderElection, Startup, NodeRegistry and ConfirmSweep | |
| `MC...` | menus of operations and symmetry sets for TLC | |

**EtcdCAS.**  A client is one request; `pc` is its place in the retry loop.
`Get` reads value and ModRevision, `Guard` is the comparison of the
transaction (Version = 0 for an absent key, ModRevision otherwise),
`TxnCommit`, `TxnConflict` and `TxnCommitReplyLost` are its outcomes, `Retry`
the backoff, `Abort` an etcd error.  `OtherKeyWrite` moves the store revision.
A payload is abstracted to a required field, a toggle that may be omitted, an
optional field with a default, `desire_status` and `resourceVersion`: the
fields that the merges treat differently.

**ConfigLifecycle.**  `hist[r]` is the key's content at revision r.  The node
applies revisions in order, deletions too, each with either result, reports, restates what it runs
when it is asked (registration, startup, sweep), and may publish late.  A worker
goes through `handleConfigApplyResult` statement by statement: audit row, read
of the attested revision and the two-table upsert for a success; last
successful config, guarded rollback CAS and failure row for a failure; then
mark and flush.  A handler error starts the message again; `Assign` gives the
partition to another worker at the committed offset while the old one may go
on.  A report names the version that was applied, or does not (older nodes):
`Attests` is the set of both possibilities; the report of a deletion never names
one.  `DeleteFailedEvents` is DELETE /failed-events: operators remove audit rows,
which `aux_cleared` remembers.  The dead letter queue is not in this module: etcd and PostgreSQL
errors, which are the ones these handlers produce (an `ErrCASConflict` of the
rollback included), are retried for ever.

**OfflineEdit.**  Values carry `resourceVersion` and the second of the last
edit; `Decision` is `offlineEditMutation`.  An accepted tombstone cascades to
the DNS key, a discarded edit gets a `node_events` row.  REST deletes with
their two steps and rollback deletes run against it.  `node_events` is only written
here, so rows that operators delete change nothing.  `Restart` handles
messages again from any earlier offset (crash, rebalance, the guard's reset).

**KafkaConsumer.**  Messages are PPPoE states, messages whose handler succeeds
and messages whose handler never will.  The batched write, its fallback to
single messages, retries that do not count during an outage, the dead letter
queue, marks and asynchronous flushes, and the startup guard against committed
offsets beyond the log end.  `StartUnhealed` is a start at which the guard does not
help: its lookup fails, or the broker refuses the reset because another replica is
still in the group; the phase `unhealed` tells these sessions from the others.  The
wait for the topic and retention are left out.

**Projection.**  A worker is one term of a leader.  Rows are their
`mod_revision`; each of list, append, checkpoint and watch is a step, and
errors or the end of the term may come between any two.

**LeaderElection.**  A term is one etcd session; terms are numbered in the
order in which their election keys were created.  `Win` waits for the older
keys only, as `Campaign` does, so a candidate may win on a lease that is gone.
Workers and the flag reset are goroutines of the term.

**Startup.**  EXTENDS LeaderElection: its actions are taken as they are, with the
database's variables unchanged, except that a win starts the goroutine of
`startProjectionWhenDatabaseReady`, the end of a term stops it, and a crash also
loses the connection.  `Connect`, `Lock`, `Check` and `Apply` are `ConnectLoop`,
`New` and `migrate`; a transaction that is being committed when the connection
breaks has taken effect or has not.

**HsiApi.**  A config is its VLAN.  A request reads the count, lists the VLANs and
runs its CAS in three steps; REST deletes check the count only, gRPC deletes and
changes of the count check nothing; an offline edit of the count (`consumer.go:362`)
has the effect of such a change and is not an action of its own.  A count that cannot be read or parsed is no
limit, and the gRPC server parses 32 bits (`MaxInt32`).  The consumer's rollback
restores a VLAN that the user has had, an offline edit any.  The variables `aux_...`
count the commits and remember when a write had looked.

**Sessions.**  Secrets are numbered in the order in which they are generated.  The
middleware is two steps, validation and blacklist lookup; a logout goes on with the
remaining life, the grant and the put.  Leases end at or after their time.  Deleting
a user is existence, count and delete.

**NodeRegistry.**  Time stamps are kept as ages, which makes the state space
finite without bounding time.  A handler is the stamp (`Arrive`), the CAS, and
what follows it on the replica's monitors.  `RepublishList` and `RepublishConnect`
are the connections of RepublishAll, at every start of a consumer, and of the
confirmation sweep (`node_monitor.go:891`): the address in `ask` may be old when it
is dialled.  `Restart` takes a replica's monitors and all it was doing.  Any replica
may sweep, two at once too, which over-approximates leadership.

**ConfirmSweep.**  Time is counted in sweep intervals, waits count down.  The
sweep is three steps: reading nodes and confirmed revisions, reading pushed
revisions and deciding, asking.  A new leader starts with the bookkeeping it
left when it last led; the old one may still be asking.

## Runs

Passing runs; where the module states fairness, safety and liveness are checked
together on one instance:

| Run | Shows | Bounds, and why they are enough |
|---|---|---|
| `cas` | CAS is atomic (refinement of AtomicConfig); versions form a chain; only dial and hangup change `desire_status`; a conflict error needs as many commits of others as attempts; every request is answered | three requests, each a create, update, delete or dial, two attempts: a request can lose to both others and run out |
| `lifecycle_safety` | a rollback on a report that names a version replaces only that version, and restores only content the node applied; committed offsets have had their effect; the current view holds applied configs | four operator revisions (create, delete, recreate, edit), three messages, one fault, two workers; no compaction, a node that attests and may fail deletes too |
| `lifecycle_live` | a failed version is retired and an attested one confirmed; what is confirmed is a revision the node applied | compaction, and reports with or without versions; three revisions, two messages, one fault |
| `offline` | an edit that was decided takes no effect again, but over what was written in the seconds its node's clock was ahead; a deletion that was answered leaves no DNS orphan | two edits, two operator requests, one restart or failure; a node's clock one second ahead (`Skew = 1`), which includes one that is not |
| `kafka` | committed means effective or accepted by the dead letter queue; outages park nothing; what is parked has its row; the batched write leaves the newest state and equals single writes; every message that stays in the log is settled; a group beyond the log end heals once a restart finds the group empty | batches of two, one subscriber with two event seconds, three messages, two faults: enough to lose the log's end, grow it again at used offsets and park a message there |
| `registry` | only silent nodes are evicted, and those that stay silent are as long as somebody sweeps; a live one is connected to at its address | every kind of request, and republish connections, against the sweep and the NIC fetch; two starts of the node or restarts of the replica together, two addresses, one request at a time |
| `projection` | the checkpoint is covered by rows, whoever moves it; every change is recorded or passed over by a reconcile | two overlapping terms, two configs and a key of another kind, three revisions, compaction, one fault |
| `startup` | at most one working term holds its lease; deposed terms stop; migrations take effect once, in order, and before anyone is given the database; in the end a leader that holds its lease projects | two replicas, four terms, two migrations, two faults: every fault can cost a term and there are two to spare.  The safety part is proved for any number |
| `hsiapi` | two configs share a VLAN, or one exceeds the count, only when the write's look was older than what it missed, or there was none | users 1 and 3 around the counts 1 and 2, of which the gRPC server can parse one; two VLANs, three requests, one write by the consumer, one error.  Proved for any number |
| `sessions` | a token is good on every replica that serves; a token that was logged out stays out, but for the last seconds of its life that clocks differ by; the last user goes only in overlapping deletions | two replicas, two users, two requests at a time, one token, one second more than its life, two faults; clocks up to a second apart (`Skew = 1`) |
| `sweep` | no replica asks a node twice within the timeout, and a lost result lands | a limit that cuts the third wait short; two replicas, two writes, one fault and one change of leader |

One run ends in a violation and shows where code and its own documentation part;
`PROJECT.json` "findings" quotes both sides.

| Run | The code, against what is written about it |
|---|---|
| `leader_flag` | a late `SetLeader(false)` blinds the next term of the same replica |

## Observations

Other places where the modules show a behaviour that a comment or a document
does not lead one to expect.  The first two are reached by changing one constant
of a run, the next five are the exceptions or conditions of the named properties, the
next two are reached by adding the property that is named; the others follow from
the actions named.

- `lifecycle_safety` with `Compaction = TRUE` violates `CurrentIsApplied` and
  `RollbackRestoresApplied`:
  `readConfirmedConfig` (`consumer.go:1333`) answers a compacted attestation with
  etcd's current content, which is stored as a success that a later rollback may
  restore.
- `lifecycle_safety` with `Attests = {TRUE, FALSE}` violates `CurrentIsApplied` and
  `RollbackRestoresApplied`: what a node that names no version has applied is guessed
  from what etcd and the history hold (`ConfirmedConfig`).
- `RollbackHitsFailedVersion` (ConfigLifecycle) speaks of reports that name a version.
  One that names none, also that of a deletion which the node failed, is matched by
  `consumer.go:267-286` with whatever etcd holds one version after the last successful
  one: create, delete, recreate, and the report of the failed deletion rolls back the
  recreated config, which the node has not tried yet.
- `DecidedEditsStayDecided` (OfflineEdit): an edit of a node whose clock is ahead can
  be applied a second time when it is replayed after an operator's write of those
  seconds (`consumer.go:1023-1025` calls replay safe).
- `CommittedIsSettled` and `EveryMessageIsSettled` (KafkaConsumer) leave out the
  messages of `aux_passed`: once a truncated log has grown back to the committed
  offset, `isBeyondLogEnd` (`offset_metrics.go:121`) sees no loss, and the messages
  at the reused offsets are skipped.
- `WedgeHeals` (KafkaConsumer) supposes that a restart finds the group empty again and
  again.  `docs/metrics.md:74-78` calls a restart of the controller the repair, but the
  reset is a commit without membership, which brokers refuse while any replica is in
  the group (`consumer.go:1028-1032`): of three replicas restarted one after the other
  none may ever heal it (`StartUnhealed`, `RestartOnAlert`).
- `LoggedOutStaysOut` (Sessions): a logout on a replica whose clock is ahead computes a
  lease that ends before the token does on the others (`rest_server.go:674`).
- `lifecycle_safety` with `RollbackRestoresNewest`: a late attestation is kept out of
  `hsi_config_current` by the mod_revision guard (`consumer.go:1205`) but not out of
  the history, whose order by id makes it the "last successful" config
  (`config_repo.go:178`).  A rollback then restores the older config.
- `registry` with two threads and `ClearRemovesInactive`: ClearInactiveNodes deletes what it listed as
  inactive with a plain Delete (`rest_server.go:814`), also a node that has registered
  in between; its heartbeats are refused until it registers again.
- `CheckVlan` of two requests, then `CAS` of both (HsiApi): two users get one VLAN.
  `listVlanOwners` and the CAS are not one transaction, so VLANs are not exclusive
  (`rest_server.go:1163`).
- `CheckCount` (HsiApi): once the count is lowered, REST can no longer delete a config
  beyond it (`rest_server.go:1376`), only gRPC can; a count above 32 bits, which REST
  accepts, is no limit to gRPC (`config_grpc_server.go:150`).
- `DeleteUser` (Sessions): `Count == 1` (`rest_server.go:954`) lets a deletion go on
  that finds no user left; and the tokens of a deleted user stay good until they
  expire.
- Shutdown: `main.go:103-105` wants `etcd.Close` after the workers have stopped;
  `main.go:246-249` calls it right after `stop()`, without waiting, and on a signal
  the workers' context is cancelled before the listeners have drained.  In
  LeaderElection that is a term that ends without `Resign`.
- `RecordFailure` (ConfigLifecycle): every failure row has `mod_revision` 0, so only
  the first failure of a subscriber gets one (`config_repo.go:202`).
- `GuardedRollback` (HsiMutations): a rollback brings the old `desire_status` back
  with the old payload, although only dial and hangup are said to change it
  (`rest_server.go:112-113`).
- `RestCascadeFails` then `RestDelete` (OfflineEdit): a retried delete is answered
  with 404 before it reaches the DNS cascade (`rest_server.go:1401`).
- `Audit` (OfflineEdit): two discards of one subscriber with the same event second
  share one row (`consumer.go:1438`).
- `SendToDLQ` (KafkaConsumer): at an offset that a truncated log has reused, the row
  of the older message stays and the newer one is not stored (`event_repo.go:207`);
  `DeadLetterHasARow` says that no row is worse than that.
- `Heartbeat` (NodeRegistry): a heartbeat without an address erases the known one
  before `grpc_server.go:240` looks for it.
- `BeginFetch` (NodeRegistry): a registration during a fetch starts none, so the
  models of the old hardware may be stored (`node_monitor.go:190`).
- `StartMonitoring` (NodeRegistry): a replica is connected to a node from a request of
  it, from the start of the replica's consumer if the node was active then, or from
  its own confirmation sweeps.  A replica to which none of these happened has no
  connection (`node_monitor.go:54-55` says that connections exist everywhere).
- `SilentNodeIsEvicted` (NodeRegistry) supposes that somebody sweeps.  The loop asks
  `IsLeader` (`grpc_server.go:282`), and `leader_flag` shows a leader on which it stays
  false for the rest of its term: until then no silent node is evicted.
- `AppendListed` (Projection): the comment on reconcile (`projection.go:87-91`)
  says that it upserts and removes current-state rows and appends no history; the code
  appends history rows and touches nothing else (`projection.go:98-100`).
- `List` (Projection): a deletion in a compacted gap is not in the listing and
  leaves no history row (`projection.go:101`).
- `Tracked` (ConfirmSweep): a node that catches up and falls behind again between
  two sweeps keeps its old wait and may be asked at once (`node_monitor.go:967`).

Symmetry is used in `offline` (payloads), `hsiapi` (requests, VLANs) and `sessions`
(replicas, names, requests), which have no liveness property and treat these alike.  Deadlock checking is off where the bounds let the system come to rest.

## Fairness

- EtcdCAS: weak fairness of each request; handlers run to their answer, and
  the retry loop is bounded.
- ConfigLifecycle: weak fairness of the worker that owns the partition; the
  loop of `Run` never gives up, and faults are bounded.
- KafkaConsumer: weak fairness of the loop, of the asynchronous flush, of the
  start of a stopped process, of the end of an outage, and of the operator's
  restart on the offset alert, which `docs/metrics.md` prescribes.  That a start finds
  the group empty is not assumed: it is the condition of `WedgeHeals`, and the other
  liveness property does without it.
- Projection: weak fairness of the steps of a term; that somebody leads is
  Startup's `ProjectionRuns`.
- LeaderElection and Startup: goroutines are scheduled, leases run out, calls
  return, and PostgreSQL is there in the end: `ConnectLoop` tries for ever.
- NodeRegistry: time passes, handlers end, somebody sweeps (but see `leader_flag`), and a node that is
  up keeps sending heartbeats with its address (strong fairness, since a handler in progress
  may hold the model's only thread each time).
- ConfirmSweep: the ticker, the leader's loop, the consumer and the nodes'
  config watch go on.

Faults are bounded by `MaxFaults` in every module, so a liveness property reads:
once the failures end.

## Proofs

Every safety property that a passing run checks is a theorem; only the liveness
properties rest on the runs alone.  A theorem holds for every value of the
constants under the named ASSUMEs, which every run evaluates, and under the
conditions that its statement gives.  Two theorems about rollbacks and the current
view have one; it is the one of the run, and each part is needed: without it the run
finds a counterexample (Observations).  `RollbackHeld` and `CurrentHeld` say what
is left of them without it.

| Module | Theorem | Property | Condition |
|---|---|---|---|
| `EtcdCAS_proofs` | `Typing`, `Invariance` | `TypeOK`, `ConflictNeedsInterference` | |
| | `VersionChain`, `DesirePreserved` | `ResourceVersionChain`, `OnlyDesireRequestsChangeDesire` | |
| | `Refinement` | `CASIsAtomic` | |
| | `BoundedWork` | (`EveryStepCounts`: at most three steps per attempt) | |
| `ConfigLifecycle_proofs` | `Typing`, `VersionChain` | `TypeOK`, `ResourceVersionChain` | |
| | `CommittedProjected` | `CommittedIsProjected` | |
| | `ConfirmedApplied` | `ConfirmedRevisionIsApplied` | |
| | `RollbackHits` | `RollbackHitsFailedVersion` | |
| | `CurrentApplied`, `RollbackRestores` | `CurrentIsApplied`, `RollbackRestoresApplied` | the node attests, no compaction |
| | `CurrentHeld`, `RollbackHeld` | (`RollbackRestoresHeld`: no content that etcd has not held) | |
| | `OutcomeKept` | (`OutcomesAreKept`: what liveness reaches is kept) | |
| `OfflineEdit_proofs` | `Typing`, `NoOrphan` | `TypeOK`, `DeletionLeavesNoOrphan` | |
| | `ReplayIsSafe` | `DecidedEditsStayDecided` | |
| | `NeverAppliesAgain` | (its corollary: no effect at all) | `Skew <= 0` |
| `KafkaConsumer_proofs` | `BatchIsOneByOne` | (the two operators agree on every batch) | |
| | `Typing`, `OutageParksNothing`, `BatchSingles` | `TypeOK`, `OutagesParkNothing`, `BatchEqualsSingles` | |
| | `CommittedSettled`, `StatusNewest`, `ParkedHasRow` | `CommittedIsSettled`, `StatusIsNewest`, `DeadLetterHasARow` | |
| `Projection_proofs` | `Typing`, `CheckpointCovered` | `TypeOK`, `CheckpointIsCovered` | |
| `Leader_proofs` | `Exclusion`, `StartExclusion` | `LeaseIsExclusive` | |
| | `RunOnce`, `Migrated` | `MigrationsRunOnce`, `ReadyMeansMigrated` | |
| | `Silence` | `EvictionNeedsSilence` | |
| | `ConfirmTyping`, `Spacing` | `TypeOK` and `NudgesAreSpaced` of ConfirmSweep | |
| `HsiApi_proofs` | `VlanRace`, `CountRace`, `Typing` | `VlanClashIsARace`, `CountExcessIsARace`, `TypeOK` | |
| `Sessions_proofs` | `SharedSecret`, `LastUserRace` | `TokensAreShared`, `LastUserGoesInARace` | |
| | `StaysOut` | `LoggedOutStaysOut` | |

Few of these properties are inductive.  The strengthenings, each checked by TLC on
the instance of its run before it was proved:

- **EtcdCAS.**  `CASInv`: the store is coherent, what a request has read is either
  still current or carries a revision the key will never have again, attempts are
  paid for by commits of others.  Revisions only grow, which is why a guard that
  holds means that nothing has changed (`GuardMeansUnchanged`).  The refinement maps
  every step of `CASWithRevision` to a step of AtomicConfig or a stutter.
  `StepsLeft` is the measure behind `EveryRequestIsAnswered`: every step of a request
  lowers it, no step of another raises it, and it is 0 exactly when the request is
  answered.
- **ConfigLifecycle.**  `Grows` says what no step takes back: the history, the
  topic, the audit rows with those that operators deleted, what the node has applied.  `NodeInv`: every report is true
  of the revision that it names.  `ProjectedInv`: whatever is below a committed or
  marked offset is projected, and a worker in the middle of a message has done what
  its stage says (`StageOf`); both survive a crash because every effect is one that
  `Grows`.  For the last two theorems `AppliedInv` adds that what a worker has read,
  and every success row of the history, is the content of an applied revision;
  compaction breaks exactly this.  `HeldInv` is what remains of it for every node: what
  is read, recorded or shown is a content that the key has held.
- **OfflineEdit.**  `OwedInv`: a deletion that still owes its DNS cascade has left no
  config behind it, so its tombstone cannot be discarded when it is handled again.
  `ReplayInv`: an edit's copies say the same (`IdInv`), none is newer than what would
  be written now on the node's clock (`PastInv`), and a decided one would replace
  nothing of what the key holds since, but for what was written in the seconds by which
  that clock is ahead (`DecidedInv`).
- **KafkaConsumer.**  `SettledInv`: everything below the committed and below the
  marked offset is settled and shown, and the batch in memory is what the log holds
  at its offsets (`BatchIsLog`), as far as the log still reaches; what has grown back
  at offsets below these was produced while data was lost, which is what `aux_passed`
  remembers.  For the dead letters, `NumberInv` and `InHandInv`: numbers are
  given once, and a message in hand is in the log at its own offset or replaced there by
  a newer one.  `BatchIsOneByOne` is an induction over
  the batch: the two loops keep the same newest row for every subscriber.
- **Projection.**  `WorkerSafe`: what a worker may write as the checkpoint, the position
  of its watch or the revision of its listing, is covered at the time it may write it,
  whichever leader moved the checkpoint meanwhile; coverage is never lost.
- **Election and start.**  `WinnersAreOldest`: no election key is older than that of a
  term that has won; new keys are the youngest, and keys that are gone do not come
  back.  A step of Startup is a step of the election, a stutter, or a database error
  that uses up a fault.  The rows of `schema_migrations` have no gap and tell exactly
  what has run, and whoever is past a migration has found it recorded.  This does not
  need the advisory lock: the row's primary key refuses a second commit.  What the
  lock adds is that nobody fails.
- **The two sweeps of the leader**, in `Leader_proofs` as instances of their modules.
  `AgeInv`: the record's stamp is at most `MaxDelay` older than the youngest contact
  that was stored, since a late heartbeat can take the stamp back by its own delay
  only.  `SpacedInv`: wait and silence of a tracked node add up to
  `configConfirmTimeout`.  An instance does not bring its module's ASSUMEs along; they
  are repeated as `RegistryBounds` and `ConfirmBounds`.
- **HsiApi.**  The invariant speaks of requests on their way: whatever a request's
  list of VLANs has missed was written after it, and whatever count it may exceed was
  set after its look.  A commit adds nothing older than itself (`KeepsReads`), which
  is why each kind of commit needs one lemma.
- **Sessions.**  A replica that serves has the one secret there is (the environment's,
  or the stored one, which is written once); a candidate is not used before the
  transaction has stored it.  `FoundInv`: as long as no other deletion has come in
  between, the user that a deletion has found is there, and is not alone once it was
  counted.  `BlacklistInv`: every entry of the list lasts as long as its token, so does
  the one that a logout on its way will make, and what is logged out is on the list or
  is about to expire, at most by the difference of the clocks.

Out of the prover's reach and left to TLC: liveness under fairness, and ENABLED.
Induction over data is possible in one form.  The library's induction theorems take
an operator as a parameter and cannot be used; `KafkaConsumer_proofs` states
induction as a fact about sets of numbers (`SetInduction`, from the well-foundedness
of `<`) and shows with it that the loop's recursive function exists (`LoopExists`).

## Not modelled

The limit of 64 DNS records, which is tested inside the CAS; required fields and
identifiers, which are functions of one request; the order in which listeners
drain; on-demand node queries, read endpoints, metrics and log servers (no state of
their own); wire formats, web UI, tools, deployment.  etcd, Kafka, PostgreSQL
and the nodes are modelled from how the code uses them.

The type invariants of Sessions' replicas and handlers and of NodeRegistry are proved
as parts of other invariants.

## Plan

1. Larger instances of `registry`, whose liveness allows one replica and one request
   at a time only.
2. Proofs that `HsiApi` and `OfflineEdit`, which take a CAS as one step, may do so:
   the refinement of EtcdCAS for several keys.
