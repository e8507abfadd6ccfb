------------------------------- MODULE Startup -------------------------------
(***************************************************************************)
(* How a replica gets from its start to its work (main.go, db.go), on top  *)
(* of LeaderElection.  ConnectLoop connects to PostgreSQL in the           *)
(* background, migrates the schema under an advisory lock that all         *)
(* replicas share, and publishes the database once.  Leadership comes and  *)
(* goes independently: a term starts a goroutine that waits for the        *)
(* database and then projects.                                             *)
(***************************************************************************)
EXTENDS LeaderElection

CONSTANT Migrations   \* number of migration files

ASSUME MigrationsAssumption == Migrations \in Nat

VARIABLES
    db,         \* where each replica's ConnectLoop is
    mig,        \* the migration that its migrate() is at
    applied,    \* PostgreSQL: the rows of schema_migrations
    waiting,    \* terms whose goroutine waits for the database
    projecting, \* terms whose projection runs
    aux_ran     \* how often the statements of each migration took effect

svars == <<terms, holder, keys, done, stage, term, working, resets, leader, faults,
           db, mig, applied, waiting, projecting, aux_ran>>

schema == <<applied, aux_ran>>
loops  == <<db, mig>>
tasks  == <<waiting, projecting>>

Files == 1..Migrations

StartTypeOK ==
    /\ TypeOK
    /\ db \in [Replicas -> {"retry", "lock", "check", "apply", "ready"}]
    /\ mig \in [Replicas -> 1..Migrations + 1]
    /\ \A r \in Replicas : db[r] = "apply" => mig[r] \in Files
    /\ applied \subseteq Files
    /\ waiting \subseteq working /\ projecting \subseteq working
    /\ waiting \cap projecting = {}
    /\ aux_ran \in [Files -> Nat]

StartInit ==
    /\ Init
    /\ db = [r \in Replicas |-> "retry"]
    /\ mig = [r \in Replicas |-> 1]
    /\ applied = {}
    /\ waiting = {} /\ projecting = {}
    /\ aux_ran = [f \in Files |-> 0]

-----------------------------------------------------------------------------
(* ConnectLoop, New and migrate *)

At(r, place, m) ==
    /\ db' = [db EXCEPT ![r] = place]
    /\ mig' = [mig EXCEPT ![r] = m]

(* The pool is open and answers; an attempt that fails changes nothing but *)
(* the delay before the next one.                                          *)
Connect(r) ==
    /\ db[r] = "retry"
    /\ At(r, "lock", 1)
    /\ UNCHANGED <<vars, schema, tasks>>

Migrating(r) == db[r] \in {"check", "apply"}

(* Fault: a replica that finds the lock taken leaves the work to the other.*)
Lock_Try(r) ==
    /\ db[r] = "lock"
    /\ At(r, IF \E s \in Replicas : Migrating(s) THEN "ready" ELSE "check", 1)
    /\ UNCHANGED <<vars, schema, tasks>>

(* pg_advisory_lock waits for the session that holds it.                   *)
Lock(r) ==
    /\ db[r] = "lock"
    /\ \A s \in Replicas : ~Migrating(s)
    /\ At(r, "check", 1)
    /\ UNCHANGED <<vars, schema, tasks>>

(* Is this migration recorded?  After the last one the lock is released    *)
(* and onReady publishes the database.                                     *)
Check(r) ==
    /\ db[r] = "check"
    /\ IF mig[r] > Migrations THEN At(r, "ready", 1)
       ELSE IF mig[r] \in applied THEN At(r, "check", mig[r] + 1)
       ELSE At(r, "apply", mig[r])
    /\ UNCHANGED <<vars, schema, tasks>>

(* Fault: the statements take effect before the row is written.            *)
Record_Split(f) ==
    /\ aux_ran' = [aux_ran EXCEPT ![f] = @ + 1]
    /\ applied' \in {applied, applied \cup {f}}

(* One transaction holds the statements of the migration and its row.      *)
Record(f) ==
    /\ aux_ran' = [aux_ran EXCEPT ![f] = @ + 1]
    /\ applied' = applied \cup {f}

Apply(r) ==
    /\ db[r] = "apply"
    /\ IF mig[r] \in applied   \* the row's primary key
       THEN At(r, "retry", 1) /\ UNCHANGED schema
       ELSE At(r, "check", mig[r] + 1) /\ Record(mig[r])
    /\ UNCHANGED <<vars, tasks>>

(* The connection is lost and with it the lock; a transaction that was     *)
(* being committed has taken effect or has not.                            *)
DbError(r) ==
    /\ db[r] \in {"lock", "check", "apply"}
    /\ Fault
    /\ At(r, "retry", 1)
    /\ \/ UNCHANGED schema
       \/ db[r] = "apply" /\ mig[r] \notin applied /\ Record(mig[r])
    /\ UNCHANGED <<terms, holder, keys, done, stage, term, working, resets, leader, tasks>>

-----------------------------------------------------------------------------
(* The callback of main.go and the projection *)

(* Fault: the database is looked for once.                                 *)
Elected_Once(r) ==
    /\ Win(r)
    /\ waiting' = IF db[r] = "ready" THEN waiting \cup {term[r]} ELSE waiting
    /\ UNCHANGED <<loops, schema, projecting>>

(* onElected starts startProjectionWhenDatabaseReady.                      *)
Elected(r) ==
    /\ Win(r)
    /\ waiting' = waiting \cup {term[r]}
    /\ UNCHANGED <<loops, schema, projecting>>

(* The poll finds the database: the projection runs on it.                 *)
StartProjection(t) ==
    /\ t \in waiting /\ db[holder[t]] = "ready"
    /\ waiting' = waiting \ {t}
    /\ projecting' = projecting \cup {t}
    /\ UNCHANGED <<vars, loops, schema>>

(* leaderCtx ends the wait and the projection alike.                       *)
StopTasks(t) ==
    /\ StopWorkers(t)
    /\ waiting' = waiting \ {t}
    /\ projecting' = projecting \ {t}
    /\ UNCHANGED <<loops, schema>>

(* A process that dies loses its connection, and so its lock.              *)
Die(r) ==
    /\ Crash(r)
    /\ At(r, "retry", 1)
    /\ waiting' = {t \in waiting : holder[t] # r}
    /\ projecting' = {t \in projecting : holder[t] # r}
    /\ UNCHANGED schema

Election ==
    /\ \/ \E t \in Terms : ExpireOrphan(t) \/ Notice(t) \/ ClearLeader(t) \/ Expire(t) \/ Outage(t)
       \/ \E r \in Replicas : Campaign(r) \/ CampaignFails(r) \/ Resign(r)
    /\ UNCHANGED <<loops, schema, tasks>>

-----------------------------------------------------------------------------
StartNext ==
    \/ Election
    \/ \E t \in Terms : StartProjection(t) \/ StopTasks(t)
    \/ \E r \in Replicas :
         \/ Connect(r) \/ Lock(r) \/ Check(r) \/ Apply(r) \/ DbError(r)
         \/ Elected(r) \/ Die(r)

StartSpec == StartInit /\ [][StartNext]_svars

(* In addition to LeaderElection's fairness: PostgreSQL is there in the    *)
(* end, and the loop and the poll go on.                                   *)
StartFairSpec ==
    /\ StartSpec
    /\ \A t \in Terms : /\ WF_svars(ExpireOrphan(t) /\ UNCHANGED <<loops, schema, tasks>>)
                        /\ WF_svars(Notice(t) /\ UNCHANGED <<loops, schema, tasks>>)
                        /\ WF_svars(ClearLeader(t) /\ UNCHANGED <<loops, schema, tasks>>)
                        /\ WF_svars(StopTasks(t)) /\ WF_svars(StartProjection(t))
    /\ \A r \in Replicas : /\ WF_svars(Campaign(r) /\ UNCHANGED <<loops, schema, tasks>>)
                           /\ WF_svars(Resign(r) /\ UNCHANGED <<loops, schema, tasks>>)
                           /\ WF_svars(Elected(r))
                           /\ WF_svars(Connect(r) \/ Lock(r) \/ Check(r) \/ Apply(r))

-----------------------------------------------------------------------------
(* Whoever was given the database finds the whole schema: the projection,  *)
(* the consumer and the handlers never meet a half migrated one.           *)
ReadyMeansMigrated == \A r \in Replicas : db[r] = "ready" => applied = Files

(* Each migration takes effect at most once and after the ones before it,  *)
(* whatever replicas start together, crash or lose their connection.       *)
MigrationsRunOnce == \A f \in Files :
    /\ aux_ran[f] <= 1
    /\ aux_ran[f] = 1 => \A g \in 1..f : g \in applied

(* Both orders of events lead to a projection: whether the database or the *)
(* leadership comes first, and whatever is lost on the way, in the end a   *)
(* term that holds its lease projects.                                     *)
ProjectionRuns == []<>(\E t \in projecting : t \in keys)

=============================================================================
