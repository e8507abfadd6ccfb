---------------------------- MODULE Leader_proofs ----------------------------
(* The leader and its duties, for any replicas and any bounds.  The        *)
(* election: at most one of the terms that run their workers holds its     *)
(* lease.  With the database and the projection around it: they leave the  *)
(* election as it is, every migration takes effect once and in order, and  *)
(* a database that is published has them all.  The sweep for stale nodes   *)
(* spares a node that was heard, and the config-confirmation sweep leaves  *)
(* a node that it has asked alone.                                         *)
EXTENDS Startup, Integers, TLAPS

(* No key is older than that of a term that has won: candidates queue up   *)
(* behind it, and a key that is gone does not come back.                   *)
WinnersAreOldest == \A t \in working, k \in keys : t <= k

IInv == TypeOK /\ WinnersAreOldest

USE DEF Terms, None

(* The election starts with nobody's key.                                  *)
LEMMA InitInv == Init => IInv
  BY BoundsAssumption DEF Init, IInv, TypeOK, WinnersAreOldest

(* TypeOK is inductive.                                                    *)
LEMMA TypeStep == TypeOK /\ [Next]_vars => TypeOK'
<1> SUFFICES ASSUME TypeOK, [Next]_vars
             PROVE  TypeOK'
  OBVIOUS
<1> USE BoundsAssumption DEF TypeOK, Fault, InTerm
<1>1. ASSUME NEW t \in Terms, Expire(t)
      PROVE  TypeOK'
  BY <1>1 DEF Expire
<1>2. ASSUME NEW t \in Terms, ExpireOrphan(t)
      PROVE  TypeOK'
  BY <1>2 DEF ExpireOrphan
<1>3. ASSUME NEW t \in Terms, Notice(t)
      PROVE  TypeOK'
  BY <1>3 DEF Notice
<1>4. ASSUME NEW t \in Terms, Outage(t)
      PROVE  TypeOK'
  BY <1>4 DEF Outage
<1>5. ASSUME NEW t \in Terms, StopWorkers(t)
      PROVE  TypeOK'
  BY <1>5 DEF StopWorkers
<1>6. ASSUME NEW t \in Terms, ClearLeader(t)
      PROVE  TypeOK'
  BY <1>6 DEF ClearLeader
<1>7. ASSUME NEW r \in Replicas, Campaign(r)
      PROVE  TypeOK'
  <2>1. /\ terms' \in 1..MaxTerms /\ terms \in Nat /\ terms' = terms + 1
        /\ 1..terms \subseteq 1..terms' /\ 0..terms \subseteq 0..terms'
    BY <1>7 DEF Campaign
  <2>2. holder' \in [Terms -> Replicas] /\ term' \in [Replicas -> 0..terms']
    BY <1>7, <2>1 DEF Campaign
  <2>3. ASSUME NEW q \in Replicas, stage'[q] # "off"
        PROVE  term'[q] # None /\ holder'[term'[q]] = q
    BY <1>7, <2>1, <2>3 DEF Campaign
  <2> QED
    BY <1>7, <2>1, <2>2, <2>3 DEF Campaign
<1>8. ASSUME NEW r \in Replicas, CampaignFails(r)
      PROVE  TypeOK'
  <2>1. \A q \in Replicas : stage'[q] # "off" => stage[q] # "off"
    BY <1>8 DEF CampaignFails
  <2>2. stage' \in [Replicas -> {"off", "campaign", "lead"}]
    BY <1>8 DEF CampaignFails
  <2> QED
    BY <1>8, <2>1, <2>2 DEF CampaignFails
<1>9. ASSUME NEW r \in Replicas, Win(r)
      PROVE  TypeOK'
  <2>1. \A q \in Replicas : stage'[q] # "off" => stage[q] # "off"
    BY <1>9 DEF Win
  <2>2. stage' \in [Replicas -> {"off", "campaign", "lead"}]
    BY <1>9 DEF Win
  <2>3. term[r] \in 1..terms /\ leader' \in [Replicas -> BOOLEAN]
    BY <1>9 DEF Win
  <2> QED
    BY <1>9, <2>1, <2>2, <2>3 DEF Win
<1>10. ASSUME NEW r \in Replicas, Resign(r)
       PROVE  TypeOK'
  <2>1. \A q \in Replicas : stage'[q] # "off" => stage[q] # "off"
    BY <1>10 DEF Resign
  <2>2. stage' \in [Replicas -> {"off", "campaign", "lead"}]
    BY <1>10 DEF Resign
  <2>3. keys' \subseteq keys /\ faults' \in 0..MaxFaults
    BY <1>10 DEF Resign
  <2> QED
    BY <1>10, <2>1, <2>2, <2>3 DEF Resign
<1>11. ASSUME NEW r \in Replicas, Crash(r)
       PROVE  TypeOK'
  <2>1. \A q \in Replicas : stage'[q] # "off" => stage[q] # "off"
    BY <1>11 DEF Crash
  <2>2. stage' \in [Replicas -> {"off", "campaign", "lead"}]
    BY <1>11 DEF Crash
  <2>3. leader' \in [Replicas -> BOOLEAN] /\ faults' \in 0..MaxFaults
    BY <1>11 DEF Crash
  <2>4. working' \subseteq working /\ resets' \subseteq resets
    BY <1>11 DEF Crash
  <2> QED
    BY <1>11, <2>1, <2>2, <2>3, <2>4 DEF Crash
<1>12. CASE UNCHANGED vars
  BY <1>12 DEF vars
<1> QED
  BY <1>1, <1>2, <1>3, <1>4, <1>5, <1>6, <1>7, <1>8, <1>9, <1>10, <1>11, <1>12
     DEF Next, TermStep

(* A new key is the youngest, and Campaign returns only to the oldest.     *)
LEMMA OldestStep == IInv /\ [Next]_vars => WinnersAreOldest'
<1> SUFFICES ASSUME IInv, [Next]_vars
             PROVE  WinnersAreOldest'
  OBVIOUS
<1> USE DEF IInv, WinnersAreOldest
<1>1. ASSUME keys' \subseteq keys, working' \subseteq working
      PROVE  WinnersAreOldest'
  BY <1>1
<1>2. ASSUME NEW r \in Replicas, Campaign(r)
      PROVE  WinnersAreOldest'
  <2>1. working \subseteq 1..terms /\ terms \in Nat
    BY DEF TypeOK
  <2> QED
    BY <1>2, <2>1 DEF Campaign
<1>3. ASSUME NEW r \in Replicas, Win(r)
      PROVE  WinnersAreOldest'
  <2>1. term[r] \in Nat /\ keys \subseteq Nat
    BY DEF TypeOK
  <2> QED
    BY <1>3, <2>1 DEF Win
<1>4. ASSUME NEW t \in Terms, TermStep(t) \/ Expire(t) \/ Outage(t)
      PROVE  WinnersAreOldest'
  BY <1>1, <1>4 DEF TermStep, ExpireOrphan, Notice, StopWorkers, ClearLeader, Expire, Outage
<1>5. ASSUME NEW r \in Replicas, CampaignFails(r) \/ Resign(r) \/ Crash(r)
      PROVE  WinnersAreOldest'
  BY <1>1, <1>5 DEF CampaignFails, Resign, Crash
<1>6. CASE UNCHANGED vars
  BY <1>1, <1>6 DEF vars
<1> QED
  BY <1>2, <1>3, <1>4, <1>5, <1>6 DEF Next

(* The election keeps its types, and a winner's key is the oldest there is. *)
THEOREM Invariance == Spec => []IInv
<1>1. IInv /\ [Next]_vars => IInv'
  BY TypeStep, OldestStep DEF IInv
<1> QED
  BY InitInv, <1>1, PTL DEF Spec

(* Of two terms with the oldest key, one is the other.                     *)
LEMMA OneLeaseHolder == IInv => LeaseIsExclusive
<1> SUFFICES ASSUME IInv, NEW s \in working, NEW t \in working, s \in keys, t \in keys
             PROVE  s = t
  BY DEF LeaseIsExclusive
<1>1. s \in Nat /\ t \in Nat
  BY DEF IInv, TypeOK
<1> QED
  BY <1>1 DEF IInv, WinnersAreOldest

(* Only the elected leader runs the singleton workers, as long as it holds *)
(* the lease it was elected on: leader.Run never lets two lease holders    *)
(* lead at once.                                                           *)
THEOREM Exclusion == Spec => []LeaseIsExclusive
  BY OneLeaseHolder, Invariance, PTL

-----------------------------------------------------------------------------
(* The start *)

SchemaType ==
    /\ db \in [Replicas -> {"retry", "lock", "check", "apply", "ready"}]
    /\ mig \in [Replicas -> 1..Migrations + 1]
    /\ \A r \in Replicas : db[r] = "apply" => mig[r] \in Files
    /\ applied \subseteq Files
    /\ aux_ran \in [Files -> Nat]

(* The rows of schema_migrations have no gap, and tell what has run.       *)
NoGap == \A f \in applied : \A g \in 1..f : g \in applied
RanIsRecorded == \A f \in Files : aux_ran[f] = IF f \in applied THEN 1 ELSE 0

(* A replica has passed only migrations that are recorded.                 *)
PassedIsApplied == \A r \in Replicas :
    db[r] \in {"check", "apply"} => \A f \in Files : f < mig[r] => f \in applied

SchemaInv == SchemaType /\ NoGap /\ RanIsRecorded /\ PassedIsApplied /\ ReadyMeansMigrated

StartInv == IInv /\ SchemaInv

USE DEF Files
USE MigrationsAssumption

-----------------------------------------------------------------------------
(* The election *)

(* A step of Startup is one of the election, or a database error, which    *)
(* only shares its bound on faults, or nothing to it.                      *)
LEMMA ElectionStep ==
    ASSUME StartNext
    PROVE  \/ [Next]_vars
           \/ Fault /\ UNCHANGED <<terms, holder, keys, done, stage, term, working, resets, leader>>
<1>1. CASE Election
  BY <1>1 DEF Election, Next, TermStep
<1>2. ASSUME NEW t \in Terms, StartProjection(t) \/ StopTasks(t)
      PROVE  [Next]_vars
  BY <1>2 DEF StartProjection, StopTasks, Next, TermStep
<1>3. ASSUME NEW r \in Replicas, Connect(r) \/ Lock(r) \/ Check(r) \/ Apply(r)
      PROVE  [Next]_vars
  BY <1>3 DEF Connect, Lock, Check, Apply
<1>4. ASSUME NEW r \in Replicas, Elected(r) \/ Die(r)
      PROVE  [Next]_vars
  BY <1>4 DEF Elected, Die, Next
<1>5. ASSUME NEW r \in Replicas, DbError(r)
      PROVE  Fault /\ UNCHANGED <<terms, holder, keys, done, stage, term, working, resets, leader>>
  BY <1>5 DEF DbError
<1> QED
  BY <1>1, <1>2, <1>3, <1>4, <1>5 DEF StartNext

(* So the invariant of the election holds here too.                        *)
LEMMA ElectionKept == IInv /\ [StartNext]_svars => IInv'
<1> SUFFICES ASSUME IInv, [StartNext]_svars
             PROVE  IInv'
  OBVIOUS
<1>1. CASE [Next]_vars
  BY <1>1, TypeStep, OldestStep DEF IInv
<1>2. CASE Fault /\ UNCHANGED <<terms, holder, keys, done, stage, term, working, resets, leader>>
  BY <1>2, BoundsAssumption DEF Fault, IInv, TypeOK, InTerm, WinnersAreOldest
<1>3. CASE UNCHANGED svars
  BY <1>1, <1>3 DEF svars, vars
<1> QED
  BY <1>1, <1>2, <1>3, ElectionStep

-----------------------------------------------------------------------------
(* The schema *)

(* A migration that is next is recorded with its one effect.               *)
LEMMA RecordKeeps ==
    ASSUME SchemaInv, NEW r \in Replicas, db[r] = "apply", mig[r] \notin applied, Record(mig[r])
    PROVE  /\ NoGap' /\ RanIsRecorded' /\ applied' \subseteq Files
           /\ applied' = applied \cup {mig[r]} /\ aux_ran' \in [Files -> Nat]
<1> DEFINE m == mig[r]
<1>1. m \in Files /\ m \notin applied /\ \A f \in Files : f < m => f \in applied
  BY DEF SchemaInv, SchemaType, PassedIsApplied
<1>2. applied' = applied \cup {m} /\ aux_ran' = [aux_ran EXCEPT ![m] = @ + 1]
  BY DEF Record
<1> HIDE DEF m
<1>3. NoGap'
  BY <1>1, <1>2 DEF NoGap, SchemaInv, SchemaType
<1>4. RanIsRecorded' /\ aux_ran' \in [Files -> Nat]
  BY <1>1, <1>2 DEF RanIsRecorded, SchemaInv, SchemaType
<1> QED
  BY <1>1, <1>2, <1>3, <1>4 DEF SchemaInv, SchemaType, m

(* A step that leaves PostgreSQL alone and sends one replica somewhere.    *)
LEMMA MoveKeeps ==
    ASSUME SchemaInv, NEW r \in Replicas, UNCHANGED schema,
           NEW place \in {"retry", "lock", "check", "apply", "ready"}, NEW m \in 1..Migrations + 1,
           At(r, place, m),
           place = "apply" => m \in Files,
           place \in {"check", "apply"} => \A f \in Files : f < m => f \in applied,
           place = "ready" => applied = Files
    PROVE  SchemaInv'
<1>1. /\ db' = [db EXCEPT ![r] = place] /\ mig' = [mig EXCEPT ![r] = m]
      /\ applied' = applied /\ aux_ran' = aux_ran
  BY DEF At, schema
<1>2. SchemaType'
  BY <1>1 DEF SchemaInv, SchemaType
<1>3. NoGap' /\ RanIsRecorded'
  BY <1>1 DEF SchemaInv, NoGap, RanIsRecorded
<1>4. PassedIsApplied' /\ ReadyMeansMigrated'
  BY <1>1 DEF SchemaInv, SchemaType, PassedIsApplied, ReadyMeansMigrated
<1> QED
  BY <1>2, <1>3, <1>4 DEF SchemaInv

(* A commit, and one replica goes on behind it or starts again.            *)
LEMMA RecordMoveKeeps ==
    ASSUME SchemaInv, NEW r \in Replicas, db[r] = "apply", mig[r] \notin applied, Record(mig[r]),
           \/ At(r, "check", mig[r] + 1)
           \/ At(r, "retry", 1)
    PROVE  SchemaInv'
<1>1. /\ NoGap' /\ RanIsRecorded' /\ applied' \subseteq Files
      /\ applied' = applied \cup {mig[r]} /\ aux_ran' \in [Files -> Nat]
  BY RecordKeeps
<1>2. /\ mig[r] \in 1..Migrations /\ mig[r] \in Nat
      /\ \A f \in Files : f < mig[r] => f \in applied
  BY DEF SchemaInv, SchemaType, PassedIsApplied
<1>3. ASSUME NEW place \in {"retry", "check"}, NEW m \in 1..Migrations + 1, At(r, place, m),
             place = "check" => m = mig[r] + 1
      PROVE  SchemaInv'
  <2>1. db' = [db EXCEPT ![r] = place] /\ mig' = [mig EXCEPT ![r] = m]
    BY <1>3 DEF At
  <2>2. SchemaType'
    BY <1>1, <2>1 DEF SchemaInv, SchemaType
  <2>3. PassedIsApplied'
    <3> SUFFICES ASSUME NEW s \in Replicas, db'[s] \in {"check", "apply"}, NEW f \in Files, f < mig'[s]
                 PROVE  f \in applied'
      BY DEF PassedIsApplied
    <3>1. CASE s = r
      BY <3>1, <1>1, <1>2, <1>3, <2>1 DEF SchemaInv, SchemaType
    <3>2. CASE s # r
      BY <3>2, <1>1, <2>1 DEF SchemaInv, SchemaType, PassedIsApplied
    <3> QED
      BY <3>1, <3>2
  <2>4. ReadyMeansMigrated'
    BY <1>1, <2>1 DEF SchemaInv, SchemaType, ReadyMeansMigrated
  <2> QED
    BY <1>1, <2>2, <2>3, <2>4 DEF SchemaInv
<1> QED
  BY <1>2, <1>3

(* Connecting, migrating, failing and dying preserve it.                   *)
LEMMA SchemaStep == SchemaInv /\ [StartNext]_svars => SchemaInv'
<1> SUFFICES ASSUME SchemaInv, [StartNext]_svars
             PROVE  SchemaInv'
  OBVIOUS
<1>0. 1 \in 1..Migrations + 1 /\ \A f \in Files : ~(f < 1)
  OBVIOUS
<1>1. ASSUME UNCHANGED <<loops, schema>>
      PROVE  SchemaInv'
  BY <1>1 DEF loops, schema, SchemaInv, SchemaType, NoGap, RanIsRecorded, PassedIsApplied,
              ReadyMeansMigrated
<1>2. CASE Election
  BY <1>1, <1>2 DEF Election
<1>3. ASSUME NEW t \in Terms, StartProjection(t) \/ StopTasks(t)
      PROVE  SchemaInv'
  BY <1>1, <1>3 DEF StartProjection, StopTasks
<1>4. ASSUME NEW r \in Replicas, Elected(r)
      PROVE  SchemaInv'
  BY <1>1, <1>4 DEF Elected
<1>5. ASSUME NEW r \in Replicas, Connect(r)
      PROVE  SchemaInv'
  BY <1>0, <1>5, MoveKeeps DEF Connect
<1>6. ASSUME NEW r \in Replicas, Lock(r)
      PROVE  SchemaInv'
  BY <1>0, <1>6, MoveKeeps DEF Lock
<1>7. ASSUME NEW r \in Replicas, Die(r)
      PROVE  SchemaInv'
  BY <1>0, <1>7, MoveKeeps DEF Die
<1>8. ASSUME NEW r \in Replicas, Check(r)
      PROVE  SchemaInv'
  <2>1. /\ UNCHANGED schema /\ mig[r] \in 1..Migrations + 1 /\ applied \subseteq Files
        /\ \A f \in Files : f < mig[r] => f \in applied
    BY <1>8 DEF Check, SchemaInv, SchemaType, PassedIsApplied
  <2>2. CASE mig[r] > Migrations
    <3>1. \A f \in Files : f < mig[r]
      BY <2>1, <2>2
    <3>2. Files \subseteq applied
      BY <2>1, <3>1
    <3>3. applied = Files
      BY <2>1, <3>2
    <3> QED
      BY <1>0, <1>8, <2>1, <2>2, <3>3, MoveKeeps DEF Check
  <2>3. CASE mig[r] \in applied
    <3>1. /\ mig[r] + 1 \in 1..Migrations + 1 /\ ~(mig[r] > Migrations)
          /\ \A f \in Files : f < mig[r] + 1 => f \in applied
      BY <2>1, <2>3
    <3> QED
      BY <1>8, <2>1, <2>3, <3>1, MoveKeeps DEF Check
  <2>4. CASE ~(mig[r] > Migrations) /\ mig[r] \notin applied
    BY <1>8, <2>1, <2>4, MoveKeeps DEF Check
  <2> QED
    BY <2>2, <2>3, <2>4
<1>9. ASSUME NEW r \in Replicas, Apply(r)
      PROVE  SchemaInv'
  <2>1. CASE mig[r] \in applied
    BY <1>0, <1>9, <2>1, MoveKeeps DEF Apply
  <2>2. CASE mig[r] \notin applied
    BY <1>9, <2>2, RecordMoveKeeps DEF Apply
  <2> QED
    BY <2>1, <2>2
<1>10. ASSUME NEW r \in Replicas, DbError(r)
       PROVE  SchemaInv'
  <2>1. CASE UNCHANGED schema
    BY <1>0, <1>10, <2>1, MoveKeeps DEF DbError
  <2>2. CASE db[r] = "apply" /\ mig[r] \notin applied /\ Record(mig[r])
    BY <1>10, <2>2, RecordMoveKeeps DEF DbError
  <2> QED
    BY <1>10, <2>1, <2>2 DEF DbError
<1>11. CASE UNCHANGED svars
  BY <1>1, <1>11 DEF svars, loops, schema
<1> QED
  BY <1>2, <1>3, <1>4, <1>5, <1>6, <1>7, <1>8, <1>9, <1>10, <1>11 DEF StartNext

-----------------------------------------------------------------------------
(* The specification *)

(* Nobody has a key and no migration has run.                              *)
LEMMA StartInitInv == StartInit => StartInv
<1> SUFFICES ASSUME StartInit
             PROVE  StartInv
  OBVIOUS
<1>1. IInv
  BY InitInv DEF StartInit
<1>2. SchemaType /\ NoGap /\ RanIsRecorded
  BY DEF StartInit, SchemaType, NoGap, RanIsRecorded
<1>3. PassedIsApplied /\ ReadyMeansMigrated
  BY DEF StartInit, PassedIsApplied, ReadyMeansMigrated
<1> QED
  BY <1>1, <1>2, <1>3 DEF StartInv, SchemaInv

(* The invariant of the whole start.                                       *)
LEMMA StartInvariance == StartSpec => []StartInv
<1>1. StartInv /\ [StartNext]_svars => StartInv'
  BY ElectionKept, SchemaStep DEF StartInv
<1> QED
  BY <1>1, StartInitInv, PTL DEF StartSpec

(* ConnectLoop publishes a database only when every migration of this      *)
(* build is in it, however many replicas migrate at once and whatever      *)
(* connections and processes are lost.                                     *)
THEOREM Migrated == StartSpec => []ReadyMeansMigrated
<1>1. StartInv => ReadyMeansMigrated
  BY DEF StartInv, SchemaInv
<1> QED
  BY <1>1, StartInvariance, PTL

(* migrate lets each migration take effect at most once, and after the     *)
(* ones before it.                                                         *)
THEOREM RunOnce == StartSpec => []MigrationsRunOnce
<1>1. StartInv => MigrationsRunOnce
  <2> SUFFICES ASSUME StartInv, NEW f \in Files
               PROVE  /\ aux_ran[f] <= 1
                      /\ aux_ran[f] = 1 => \A g \in 1..f : g \in applied
    BY DEF MigrationsRunOnce
  <2> QED
    BY DEF StartInv, SchemaInv, RanIsRecorded, NoGap
<1> QED
  BY <1>1, StartInvariance, PTL

(* With the database and the projection around it the election still lets  *)
(* only one lease holder work.                                             *)
THEOREM StartExclusion == StartSpec => []LeaseIsExclusive
  BY OneLeaseHolder, StartInvariance, PTL DEF StartInv

-----------------------------------------------------------------------------
(* The registry of nodes and its sweep, with state of its own.             *)

CONSTANTS Threads, Addrs, NoAddr, Models, Unknown, NoModel, Absent, Requests, HeartbeatTimeout,
          MaxDelay, MaxBoots

VARIABLES rec, monitors, call, snap, fetch, ask, up, addr, nic, boots, aux_heard

Registry == INSTANCE NodeRegistry

(* NodeRegistry!BoundsAssumption: an instance brings no assumptions along. *)
RegistryBounds == {MaxDelay, MaxBoots} \subseteq Nat /\ HeartbeatTimeout \in Nat \ {0}

Calls == [kind : {"none"} \cup Requests, at : Replicas \cup {NoAddr},
          stage : {"none", "etcd", "after", "stop"}, addr : Addrs \cup {NoAddr},
          age : 0..MaxDelay, bare : BOOLEAN]

Snaps == [stage : {"none", "etcd", "after"}, age : 0..MaxDelay]

Fetches == [stage : {"none", "dial", "store"}, nic : Models \cup {Unknown, NoModel}]

RegistryType ==
    /\ rec \in Registry!Records \cup {Absent}
    /\ monitors \in [Replicas -> Addrs \cup {NoAddr}]
    /\ call \in [Threads -> Calls]
    /\ snap \in [Replicas -> Snaps]
    /\ fetch \in [Replicas -> Fetches]
    /\ ask \in [Replicas -> Addrs \cup {NoAddr}]
    /\ up \in BOOLEAN /\ addr \in Addrs \cup {NoAddr} /\ nic \in Models /\ boots \in 0..MaxBoots
    /\ aux_heard \in 0..Registry!MaxAge

(* The record is at most MaxDelay older than the youngest contact that was *)
(* stored: a contact may be stored after a younger one, and does not take  *)
(* the stamp back by more than its own delay.                              *)
AgeInv == rec # Absent => rec.age <= aux_heard + MaxDelay

RegistryInv == RegistryType /\ AgeInv

(* A node that is not registered yet, and nothing under way.               *)
LEMMA RegistryInit ==
    ASSUME RegistryBounds, Registry!Init
    PROVE  RegistryInv
<1>1. MaxDelay \in Nat /\ MaxBoots \in Nat /\ HeartbeatTimeout \in Nat
  BY DEF RegistryBounds
<1>2. Registry!MaxAge \in Nat
  BY <1>1 DEF Registry!MaxAge
<1>3. Registry!NoCall \in Calls /\ Registry!NoSweep \in Snaps /\ Registry!NoFetch \in Fetches
  BY <1>1 DEF Calls, Snaps, Fetches, Registry!NoCall, Registry!NoSweep, Registry!NoFetch
<1>4. up \in BOOLEAN
  BY Zenon DEF Registry!Init
<1>5. /\ monitors \in [Replicas -> Addrs \cup {NoAddr}] /\ call \in [Threads -> Calls]
      /\ snap \in [Replicas -> Snaps] /\ fetch \in [Replicas -> Fetches]
      /\ ask \in [Replicas -> Addrs \cup {NoAddr}]
  BY <1>3 DEF Registry!Init
<1>6. boots \in 0..MaxBoots /\ aux_heard \in 0..Registry!MaxAge
  BY <1>1, <1>2 DEF Registry!Init
<1> QED
  BY <1>4, <1>5, <1>6 DEF Registry!Init, RegistryInv, RegistryType, AgeInv

(* What a step does to a record that ages, or whose stamp is replaced by   *)
(* that of a contact.                                                      *)
LEMMA Ageing ==
    ASSUME RegistryBounds, NEW a \in 0..Registry!MaxAge, NEW h \in 0..Registry!MaxAge,
           a <= h + MaxDelay
    PROVE  /\ Registry!Older(a) \in 0..Registry!MaxAge /\ Registry!Older(h) \in 0..Registry!MaxAge
           /\ Registry!Older(a) <= Registry!Older(h) + MaxDelay
<1>1. MaxDelay \in Nat /\ Registry!MaxAge \in Nat
  BY DEF RegistryBounds, Registry!MaxAge
<1> QED
  BY <1>1 DEF Registry!Older

LEMMA Contact ==
    ASSUME RegistryBounds, RegistryInv, NEW a \in 0..MaxDelay, Registry!Heard(a)
    PROVE  a \in 0..Registry!MaxAge /\ aux_heard' \in 0..Registry!MaxAge /\ a <= aux_heard' + MaxDelay
<1>1. MaxDelay \in Nat /\ HeartbeatTimeout \in Nat /\ Registry!MaxAge = HeartbeatTimeout + MaxDelay + 1
  BY DEF RegistryBounds, Registry!MaxAge
<1>2. aux_heard \in 0..Registry!MaxAge
  BY DEF RegistryInv, RegistryType
<1> QED
  BY <1>1, <1>2 DEF Registry!Heard

(* Where a handler goes on, and what it leaves.                            *)
LEMMA HandlerType ==
    ASSUME RegistryBounds, RegistryInv, NEW t \in Threads
    PROVE  /\ Registry!Reply(t) => call' \in [Threads -> Calls]
           /\ \A s \in {"after", "stop"} : Registry!Then(t, s) => call' \in [Threads -> Calls]
<1>1. call \in [Threads -> Calls] /\ call[t] \in Calls /\ 0 \in 0..MaxDelay
  BY DEF RegistryInv, RegistryType, RegistryBounds
<1>2. Registry!NoCall \in Calls
  BY <1>1 DEF Calls, Registry!NoCall
<1>3. ASSUME NEW s \in {"after", "stop"}, NEW b \in BOOLEAN
      PROVE  [call[t] EXCEPT !.stage = s, !.age = 0, !.bare = b] \in Calls
  BY <1>1, <1>3 DEF Calls
<1>4. (rec # Absent /\ rec.nic = NoModel) \in BOOLEAN
  OBVIOUS
<1>5. ASSUME NEW s \in {"after", "stop"}, Registry!Then(t, s)
      PROVE  call' \in [Threads -> Calls]
  BY <1>1, <1>3, <1>4, <1>5 DEF Registry!Then
<1>6. ASSUME Registry!Reply(t)
      PROVE  call' \in [Threads -> Calls]
  BY <1>1, <1>2, <1>6 DEF Registry!Reply
<1> QED
  BY <1>5, <1>6

(* A step that leaves the record and the youngest contact as they are.     *)
LEMMA AgeStays ==
    ASSUME RegistryInv, UNCHANGED <<rec, aux_heard>>
    PROVE  /\ rec' \in Registry!Records \cup {Absent} /\ aux_heard' \in 0..Registry!MaxAge
           /\ AgeInv'
  BY DEF RegistryInv, RegistryType, AgeInv, Registry!Records, Registry!MaxAge

(* A step that changes anything but the stamp of the record, or deletes it.*)
LEMMA AgeKept ==
    ASSUME RegistryInv, UNCHANGED aux_heard, rec' \in Registry!Records \cup {Absent},
           rec' = Absent \/ (rec # Absent /\ rec'.age = rec.age)
    PROVE  aux_heard' \in 0..Registry!MaxAge /\ AgeInv'
  BY DEF RegistryInv, RegistryType, AgeInv, Registry!MaxAge

(* A contact that is stored.                                               *)
LEMMA AgeOfContact ==
    ASSUME RegistryBounds, RegistryInv, NEW t \in Threads, Registry!Heard(call[t].age),
           rec' \in Registry!Records, rec'.age = call[t].age
    PROVE  aux_heard' \in 0..Registry!MaxAge /\ AgeInv'
<1>1. call[t].age \in 0..MaxDelay
  BY DEF RegistryInv, RegistryType, Calls
<1> QED
  BY <1>1, Contact DEF AgeInv

(* The node and the clock.                                                 *)
LEMMA RegistryTick ==
    ASSUME RegistryBounds, RegistryInv, Registry!Tick
    PROVE  RegistryInv'
<1>1. /\ rec \in Registry!Records \cup {Absent} /\ aux_heard \in 0..Registry!MaxAge
      /\ rec # Absent => rec.age <= aux_heard + MaxDelay
      /\ MaxDelay \in Nat /\ Registry!MaxAge \in Nat
  BY DEF RegistryInv, RegistryType, AgeInv, RegistryBounds, Registry!MaxAge
<1>2. /\ rec' = (IF rec = Absent THEN Absent ELSE [rec EXCEPT !.age = Registry!Older(@)])
      /\ aux_heard' = Registry!Older(aux_heard)
  BY DEF Registry!Tick
<1>3. rec' \in Registry!Records \cup {Absent} /\ aux_heard' \in 0..Registry!MaxAge /\ AgeInv'
  <2>1. CASE rec = Absent
    BY <1>1, <1>2, <2>1 DEF AgeInv, Registry!Older
  <2>2. CASE rec # Absent
    <3>1. rec \in Registry!Records /\ rec.age \in 0..Registry!MaxAge
      BY <1>1, <2>2 DEF Registry!Records
    <3>2. /\ Registry!Older(rec.age) \in 0..Registry!MaxAge
          /\ Registry!Older(aux_heard) \in 0..Registry!MaxAge
          /\ Registry!Older(rec.age) <= Registry!Older(aux_heard) + MaxDelay
      BY <1>1, <2>2, <3>1, Ageing
    <3>3. rec' = [rec EXCEPT !.age = Registry!Older(rec.age)]
      BY <1>2, <2>2
    <3>4. rec' \in Registry!Records /\ rec'.age = Registry!Older(rec.age)
      BY <3>1, <3>2, <3>3 DEF Registry!Records
    <3> QED
      BY <1>2, <3>2, <3>4 DEF AgeInv
  <2> QED
    BY <2>1, <2>2
<1>4. call' \in [Threads -> Calls]
  <2>1. ASSUME NEW t \in Threads
        PROVE  call'[t] \in Calls
    <3>1. call[t] \in Calls /\ call[t].age < MaxDelay /\ call[t].age \in 0..MaxDelay
      BY DEF RegistryInv, RegistryType, Registry!Tick, Calls
    <3>2. call[t].age + 1 \in 0..MaxDelay
      BY <1>1, <3>1
    <3>3. [call[t] EXCEPT !.age = @ + 1] \in Calls
      BY <3>1, <3>2 DEF Calls
    <3> QED
      BY <3>1, <3>3 DEF Registry!Tick
  <2> QED
    BY <2>1 DEF Registry!Tick
<1>5. snap' \in [Replicas -> Snaps]
  <2>1. ASSUME NEW r \in Replicas
        PROVE  snap'[r] \in Snaps
    <3>1. snap[r] \in Snaps /\ snap[r].age < MaxDelay /\ snap[r].age \in 0..MaxDelay
      BY DEF RegistryInv, RegistryType, Registry!Tick, Snaps
    <3>2. snap[r].age + 1 \in 0..MaxDelay
      BY <1>1, <3>1
    <3>3. [snap[r] EXCEPT !.age = @ + 1] \in Snaps
      BY <3>1, <3>2 DEF Snaps
    <3> QED
      BY <3>1, <3>3 DEF Registry!Tick
  <2> QED
    BY <2>1 DEF Registry!Tick
<1>6. UNCHANGED <<monitors, fetch, ask, up, addr, nic, boots>>
  BY DEF Registry!Tick, Registry!node
<1> QED
  BY <1>3, <1>4, <1>5, <1>6 DEF RegistryInv, RegistryType

LEMMA RegistryNode ==
    ASSUME RegistryBounds, RegistryInv, Registry!Boot \/ Registry!Die
    PROVE  RegistryInv'
<1>1. UNCHANGED <<rec, monitors, call, snap, fetch, ask, aux_heard>>
  BY DEF Registry!Boot, Registry!Die
<1>2. up' \in BOOLEAN
  BY Zenon DEF Registry!Boot, Registry!Die
<1>3. addr' \in Addrs \cup {NoAddr} /\ nic' \in Models /\ boots' \in 0..MaxBoots
  BY DEF Registry!Boot, Registry!Die, RegistryInv, RegistryType, RegistryBounds
<1> QED
  BY <1>1, <1>2, <1>3, AgeStays DEF RegistryInv, RegistryType

LEMMA RegistryArrive ==
    ASSUME RegistryBounds, RegistryInv, NEW t \in Threads, NEW r \in Replicas, NEW k \in Requests,
           Registry!Arrive(t, r, k)
    PROVE  RegistryInv'
<1>1. /\ UNCHANGED <<rec, monitors, snap, fetch, ask, nic, boots, aux_heard>>
      /\ addr' = addr \/ addr' = NoAddr
  BY DEF Registry!Arrive
<1>2. up' \in BOOLEAN
  BY Zenon DEF Registry!Arrive
<1>3. PICK a \in Addrs \cup {NoAddr} :
        call' = [call EXCEPT ![t] = [kind |-> k, at |-> r, stage |-> "etcd", addr |-> a, age |-> 0,
                                     bare |-> FALSE]]
  BY DEF Registry!Arrive, RegistryInv, RegistryType
<1>4. [kind |-> k, at |-> r, stage |-> "etcd", addr |-> a, age |-> 0, bare |-> FALSE] \in Calls
  BY DEF Calls, RegistryBounds
<1>5. call' \in [Threads -> Calls]
  BY <1>3, <1>4 DEF RegistryInv, RegistryType
<1> QED
  BY <1>1, <1>2, <1>5, AgeStays DEF RegistryInv, RegistryType

(* The requests that store a contact of the node.                          *)
LEMMA RegistryContact ==
    ASSUME RegistryBounds, RegistryInv, NEW t \in Threads,
           Registry!RegisterNode(t) \/ Registry!Heartbeat(t)
    PROVE  RegistryInv'
<1>1. /\ rec \in Registry!Records \cup {Absent} /\ call[t] \in Calls
      /\ call[t].addr \in Addrs \cup {NoAddr} /\ call[t].age \in 0..MaxDelay
  BY DEF RegistryInv, RegistryType, Calls
<1>2. call[t].age \in 0..Registry!MaxAge
  BY <1>1 DEF RegistryBounds, Registry!MaxAge
<1>3. call' \in [Threads -> Calls]
  BY HandlerType DEF Registry!RegisterNode, Registry!Heartbeat
<1>4. rec' \in Registry!Records \cup {Absent} /\ aux_heard' \in 0..Registry!MaxAge /\ AgeInv'
  <2>1. CASE Registry!RegisterNode(t)
    <3>1. PICK m \in Models \cup {Unknown, NoModel} :
            rec' = [status |-> "active", age |-> call[t].age, why |-> "none",
                    addr |-> call[t].addr, nic |-> m]
      BY <1>1, <2>1 DEF Registry!RegisterNode, Registry!Records
    <3>2. rec' \in Registry!Records /\ rec'.age = call[t].age
      BY <1>1, <1>2, <3>1 DEF Registry!Records
    <3> QED
      BY <2>1, <3>2, AgeOfContact DEF Registry!RegisterNode
  <2>2. CASE Registry!Heartbeat(t) /\ rec # Absent
    <3>1. rec \in Registry!Records /\ Registry!Heard(call[t].age)
          /\ rec' = [rec EXCEPT !.status = "active", !.age = call[t].age, !.addr = call[t].addr,
                                !.why = "none"]
      BY <1>1, <2>2 DEF Registry!Heartbeat, Registry!HeartbeatValue
    <3>2. rec' \in Registry!Records /\ rec'.age = call[t].age
      BY <1>1, <1>2, <3>1 DEF Registry!Records
    <3> QED
      BY <3>1, <3>2, AgeOfContact
  <2>3. CASE Registry!Heartbeat(t) /\ rec = Absent
    BY <2>3, AgeStays DEF Registry!Heartbeat
  <2> QED
    BY <2>1, <2>2, <2>3
<1>5. UNCHANGED <<monitors, snap, fetch, ask, up, addr, nic, boots>>
  BY DEF Registry!RegisterNode, Registry!Heartbeat, Registry!node
<1> QED
  BY <1>3, <1>4, <1>5 DEF RegistryInv, RegistryType

(* The requests that change the status of the record, or delete it.        *)
LEMMA RegistryChange ==
    ASSUME RegistryBounds, RegistryInv, NEW t \in Threads,
           \/ Registry!ReportShutdown(t) \/ Registry!UnregisterRead(t) \/ Registry!DeleteRead(t)
           \/ Registry!Unregister(t) \/ Registry!ClearRead(t) \/ Registry!ClearDelete(t)
    PROVE  RegistryInv'
<1>1. rec \in Registry!Records \cup {Absent} /\ call[t] \in Calls
  BY DEF RegistryInv, RegistryType
<1>2. call' \in [Threads -> Calls]
  BY HandlerType DEF Registry!ReportShutdown, Registry!UnregisterRead, Registry!DeleteRead,
     Registry!Unregister, Registry!ClearRead, Registry!ClearDelete
<1>3. rec' \in Registry!Records \cup {Absent} /\ aux_heard' \in 0..Registry!MaxAge /\ AgeInv'
  <2>1. UNCHANGED aux_heard
    BY DEF Registry!ReportShutdown, Registry!UnregisterRead, Registry!DeleteRead,
       Registry!Unregister, Registry!ClearRead, Registry!ClearDelete
  <2>2. CASE Registry!ReportShutdown(t) /\ rec # Absent
    <3>1. rec \in Registry!Records
          /\ rec' = [rec EXCEPT !.status = "inactive", !.why = "node_shutdown"]
      BY <1>1, <2>2 DEF Registry!ReportShutdown
    <3>2. rec' \in Registry!Records /\ rec'.age = rec.age
      BY <3>1 DEF Registry!Records
    <3> QED
      BY <2>1, <2>2, <3>2, AgeKept
  <2>3. CASE Registry!Unregister(t) \/ Registry!ClearDelete(t)
    BY <2>1, <2>3, AgeKept DEF Registry!Unregister, Registry!ClearDelete
  <2>4. CASE \/ Registry!ReportShutdown(t) /\ rec = Absent
             \/ Registry!UnregisterRead(t) \/ Registry!DeleteRead(t) \/ Registry!ClearRead(t)
    BY <2>1, <2>4, AgeStays DEF Registry!ReportShutdown, Registry!UnregisterRead,
       Registry!DeleteRead, Registry!ClearRead
  <2> QED
    BY <2>2, <2>3, <2>4
<1>4. monitors' \in [Replicas -> Addrs \cup {NoAddr}]
  <2>1. CASE Registry!UnregisterRead(t)
    BY <2>1 DEF Registry!UnregisterRead, Registry!StopMonitoring, RegistryInv, RegistryType
  <2>2. CASE ~Registry!UnregisterRead(t)
    BY <2>2 DEF Registry!ReportShutdown, Registry!DeleteRead, Registry!Unregister,
       Registry!ClearRead, Registry!ClearDelete, RegistryInv, RegistryType
  <2> QED
    BY <2>1, <2>2
<1>5. UNCHANGED <<snap, fetch, ask, up, addr, nic, boots>>
  BY DEF Registry!ReportShutdown, Registry!UnregisterRead, Registry!DeleteRead,
     Registry!Unregister, Registry!ClearRead, Registry!ClearDelete, Registry!node
<1> QED
  BY <1>2, <1>3, <1>4, <1>5 DEF RegistryInv, RegistryType

(* What follows the transaction: connections and the start of a NIC fetch. *)
LEMMA RegistryAfter ==
    ASSUME RegistryBounds, RegistryInv, NEW t \in Threads,
           \/ Registry!AfterNodeRegistered(t) \/ Registry!AfterHeartbeat(t)
           \/ Registry!AfterInactive(t)
    PROVE  RegistryInv'
<1>1. call[t].addr \in Addrs \cup {NoAddr} /\ monitors \in [Replicas -> Addrs \cup {NoAddr}]
  BY DEF RegistryInv, RegistryType, Calls
<1>2. call' \in [Threads -> Calls]
  BY HandlerType DEF Registry!AfterNodeRegistered, Registry!AfterHeartbeat, Registry!AfterInactive
<1>3. monitors' \in [Replicas -> Addrs \cup {NoAddr}]
  BY <1>1 DEF Registry!AfterNodeRegistered, Registry!AfterHeartbeat, Registry!AfterInactive,
     Registry!StartMonitoring, Registry!StopMonitoring
<1>4. fetch' \in [Replicas -> Fetches]
  <2>1. fetch \in [Replicas -> Fetches] /\ [stage |-> "dial", nic |-> NoModel] \in Fetches
    BY DEF RegistryInv, RegistryType, Fetches
  <2>2. UNCHANGED fetch \/ Registry!BeginFetch(call[t].at)
    BY DEF Registry!AfterNodeRegistered, Registry!AfterHeartbeat, Registry!AfterInactive
  <2> QED
    BY <2>1, <2>2 DEF Registry!BeginFetch
<1>5. UNCHANGED <<rec, snap, ask, up, addr, nic, boots, aux_heard>>
  BY DEF Registry!AfterNodeRegistered, Registry!AfterHeartbeat, Registry!AfterInactive,
     Registry!node
<1> QED
  BY <1>2, <1>3, <1>4, <1>5, AgeStays DEF RegistryInv, RegistryType

LEMMA RegistryFetch ==
    ASSUME RegistryBounds, RegistryInv, NEW r \in Replicas,
           Registry!FetchDial(r) \/ Registry!FetchStore(r)
    PROVE  RegistryInv'
<1>1. /\ rec \in Registry!Records \cup {Absent} /\ fetch \in [Replicas -> Fetches]
      /\ fetch[r].nic \in Models \cup {Unknown, NoModel} /\ nic \in Models
  BY DEF RegistryInv, RegistryType, Fetches
<1>2. /\ Registry!NoFetch \in Fetches
      /\ \A m \in Models \cup {Unknown} : [stage |-> "store", nic |-> m] \in Fetches
  BY DEF Registry!NoFetch, Fetches
<1>3. fetch' \in [Replicas -> Fetches]
  <2>1. \E f \in Fetches : fetch' = [fetch EXCEPT ![r] = f]
    BY <1>1, <1>2 DEF Registry!FetchDial, Registry!FetchStore
  <2> QED
    BY <1>1, <2>1
<1>4. rec' \in Registry!Records \cup {Absent} /\ aux_heard' \in 0..Registry!MaxAge /\ AgeInv'
  <2>1. CASE Registry!FetchStore(r) /\ rec # Absent
    <3>1. rec \in Registry!Records /\ rec' = [rec EXCEPT !.nic = fetch[r].nic]
          /\ UNCHANGED aux_heard
      BY <1>1, <2>1 DEF Registry!FetchStore
    <3>2. rec' \in Registry!Records /\ rec'.age = rec.age
      BY <1>1, <3>1 DEF Registry!Records
    <3> QED
      BY <2>1, <3>1, <3>2, AgeKept
  <2>2. CASE Registry!FetchDial(r) \/ rec = Absent
    BY <2>2, AgeStays DEF Registry!FetchDial, Registry!FetchStore
  <2> QED
    BY <2>1, <2>2
<1>5. UNCHANGED <<monitors, call, snap, ask, up, addr, nic, boots>>
  BY DEF Registry!FetchDial, Registry!FetchStore, Registry!node
<1> QED
  BY <1>3, <1>4, <1>5 DEF RegistryInv, RegistryType

LEMMA RegistrySweep ==
    ASSUME RegistryBounds, RegistryInv, NEW r \in Replicas, Registry!Sweep(r)
    PROVE  RegistryInv'
<1>1. rec \in Registry!Records \cup {Absent} /\ snap \in [Replicas -> Snaps]
  BY DEF RegistryInv, RegistryType
<1>2. /\ Registry!NoSweep \in Snaps
      /\ \A s \in {"etcd", "after"} : [stage |-> s, age |-> 0] \in Snaps
  BY DEF Registry!NoSweep, Snaps, RegistryBounds
<1>3. snap' \in [Replicas -> Snaps]
  <2>1. \E s \in Snaps : snap' = [snap EXCEPT ![r] = s]
    BY <1>2 DEF Registry!Sweep, Registry!SweepList, Registry!SweepMark, Registry!SweepStop
  <2> QED
    BY <1>1, <2>1
<1>4. rec' \in Registry!Records \cup {Absent} /\ aux_heard' \in 0..Registry!MaxAge /\ AgeInv'
  <2>1. CASE Registry!SweepMark(r) /\ Registry!StaleNode(rec, snap[r].age)
    <3>1. rec \in Registry!Records /\ rec # Absent /\ UNCHANGED aux_heard
          /\ rec' = [rec EXCEPT !.status = "inactive", !.why = "heartbeat_timeout"]
      BY <1>1, <2>1 DEF Registry!SweepMark, Registry!StaleNode
    <3>2. rec' \in Registry!Records /\ rec'.age = rec.age
      BY <3>1 DEF Registry!Records
    <3> QED
      BY <3>1, <3>2, AgeKept
  <2>2. CASE ~(Registry!SweepMark(r) /\ Registry!StaleNode(rec, snap[r].age))
    BY <2>2, AgeStays DEF Registry!Sweep, Registry!SweepList, Registry!SweepMark,
       Registry!SweepStop
  <2> QED
    BY <2>1, <2>2
<1>5. monitors' \in [Replicas -> Addrs \cup {NoAddr}]
  BY DEF Registry!Sweep, Registry!SweepList, Registry!SweepMark, Registry!SweepStop,
     Registry!StopMonitoring, RegistryInv, RegistryType
<1>6. UNCHANGED <<call, fetch, ask, up, addr, nic, boots>>
  BY DEF Registry!Sweep, Registry!SweepList, Registry!SweepMark, Registry!SweepStop,
     Registry!node
<1> QED
  BY <1>3, <1>4, <1>5, <1>6 DEF RegistryInv, RegistryType

(* The republish requests connect, and a restart forgets.                  *)
LEMMA RegistryReplica ==
    ASSUME RegistryBounds, RegistryInv, NEW r \in Replicas,
           Registry!RepublishList(r) \/ Registry!RepublishConnect(r) \/ Registry!Restart(r)
    PROVE  RegistryInv'
<1>1. UNCHANGED <<rec, up, addr, nic, aux_heard>>
  BY DEF Registry!RepublishList, Registry!RepublishConnect, Registry!Restart, Registry!node
<1>2. /\ monitors \in [Replicas -> Addrs \cup {NoAddr}] /\ ask \in [Replicas -> Addrs \cup {NoAddr}]
      /\ rec # Absent => rec.addr \in Addrs \cup {NoAddr}
  BY DEF RegistryInv, RegistryType, Registry!Records
<1>3. /\ monitors' \in [Replicas -> Addrs \cup {NoAddr}] /\ ask' \in [Replicas -> Addrs \cup {NoAddr}]
  BY <1>2 DEF Registry!RepublishList, Registry!RepublishConnect, Registry!Restart,
     Registry!StartMonitoring, Registry!StopMonitoring
<1>4. Registry!NoCall \in Calls /\ Registry!NoSweep \in Snaps /\ Registry!NoFetch \in Fetches
  BY DEF Calls, Snaps, Fetches, Registry!NoCall, Registry!NoSweep, Registry!NoFetch, RegistryBounds
<1>5. /\ call' \in [Threads -> Calls] /\ snap' \in [Replicas -> Snaps]
      /\ fetch' \in [Replicas -> Fetches]
  <2>1. CASE Registry!Restart(r)
    BY <1>4, <2>1 DEF Registry!Restart, RegistryInv, RegistryType
  <2>2. CASE Registry!RepublishList(r) \/ Registry!RepublishConnect(r)
    BY <2>2 DEF Registry!RepublishList, Registry!RepublishConnect, RegistryInv, RegistryType
  <2> QED
    BY <2>1, <2>2
<1>6. boots' \in 0..MaxBoots
  BY DEF Registry!RepublishList, Registry!RepublishConnect, Registry!Restart, Registry!node,
     RegistryInv, RegistryType, RegistryBounds
<1> QED
  BY <1>1, <1>3, <1>5, <1>6, AgeStays DEF RegistryInv, RegistryType

LEMMA RegistryStep ==
    ASSUME RegistryBounds, RegistryInv, [Registry!Next]_(Registry!vars)
    PROVE  RegistryInv'
<1>1. CASE UNCHANGED Registry!vars
  BY <1>1 DEF Registry!vars, RegistryInv, RegistryType, AgeInv, Registry!Records, Registry!MaxAge
<1>2. CASE Registry!Tick \/ Registry!Boot \/ Registry!Die
  BY <1>2, RegistryTick, RegistryNode
<1>3. CASE \E t \in Threads, r \in Replicas, k \in Requests : Registry!Arrive(t, r, k)
  BY <1>3, RegistryArrive
<1>4. CASE \E t \in Threads : Registry!Handle(t)
  BY <1>4, RegistryContact, RegistryChange, RegistryAfter DEF Registry!Handle
<1>5. CASE \E r \in Replicas :
             \/ Registry!FetchDial(r) \/ Registry!FetchStore(r) \/ Registry!Sweep(r)
             \/ Registry!RepublishList(r) \/ Registry!RepublishConnect(r) \/ Registry!Restart(r)
  BY <1>5, RegistryFetch, RegistrySweep, RegistryReplica
<1> QED
  BY <1>1, <1>2, <1>3, <1>4, <1>5 DEF Registry!Next

(* A node is marked stale only when every contact that was stored is older *)
(* than the timeout, up to the delay of a request: what the sweep compares *)
(* is the stamp of the record, and that is never older than the youngest   *)
(* contact by more than MaxDelay.  For any number of requests and sweeps   *)
(* at a time.                                                              *)
THEOREM Silence ==
    ASSUME RegistryBounds
    PROVE  Registry!Spec => Registry!EvictionNeedsSilence
<1>1. Registry!Init => RegistryInv
  BY RegistryInit
<1>2. RegistryInv /\ [Registry!Next]_(Registry!vars) => RegistryInv'
  BY RegistryStep
<1>3. ASSUME RegistryInv, NEW r \in Replicas, Registry!SweepMark(r), rec' # rec
      PROVE  aux_heard + MaxDelay > HeartbeatTimeout
  <2>1. rec # Absent /\ rec.age - snap[r].age > HeartbeatTimeout
    BY <1>3 DEF Registry!SweepMark, Registry!StaleNode, Registry!Stale
  <2>2. /\ rec.age \in Nat /\ snap[r].age \in Nat /\ aux_heard \in Nat /\ MaxDelay \in Nat
        /\ HeartbeatTimeout \in Nat /\ rec.age <= aux_heard + MaxDelay
    BY <1>3, <2>1 DEF RegistryInv, RegistryType, AgeInv, Registry!Records, Snaps, Registry!MaxAge,
       RegistryBounds
  <2> QED
    BY <2>1, <2>2
<1>4. RegistryInv => ((\E r \in Replicas : Registry!SweepMark(r)) /\ rec' # rec
                        => aux_heard + MaxDelay > HeartbeatTimeout)
  BY <1>3
<1> QED
  BY <1>1, <1>2, <1>4, PTL DEF Registry!Spec, Registry!EvictionNeedsSilence

-----------------------------------------------------------------------------
(* The config-confirmation sweep, with state of its own.                   *)

CONSTANTS Nodes, Users, configConfirmTimeout, configConfirmBackoffMax, MaxRev

VARIABLES rev, pushed, active, running, confirmed, reports, sweeper, ticked, place, seen, backoff,
          wait, due, losses, changes, aux_quiet

Confirm == INSTANCE ConfirmSweep WITH
    applied <- running, leader <- sweeper, stage <- place, faults <- losses

(* The assumptions of ConfirmSweep.                                        *)
ConfirmBounds ==
    /\ configConfirmTimeout \in Nat \ {0}
    /\ configConfirmBackoffMax \in Nat /\ configConfirmBackoffMax >= 2 * configConfirmTimeout
    /\ MaxRev \in Nat /\ MaxFaults \in Nat

(* A node that a replica tracks is not due before configConfirmTimeout     *)
(* intervals have passed since the replica last asked it.                  *)
SpacedInv == \A r \in Replicas, n \in Nodes :
    Confirm!Tracked(r, n) => wait[r][n] + aux_quiet[r][n] >= configConfirmTimeout

(* The parts of TypeOK: etcd and the events, and what the sweeps keep.     *)
StoreType ==
    /\ rev \in 0..MaxRev
    /\ pushed \in [Confirm!Keys -> 0..rev] /\ running \in [Confirm!Keys -> 0..rev]
    /\ confirmed \in [Confirm!Keys -> 0..rev]
    /\ active \subseteq Nodes
    /\ reports \subseteq (Confirm!Keys \X (1..rev))

LoopType ==
    /\ sweeper \in Replicas /\ ticked \in BOOLEAN
    /\ place \in [Replicas -> {"idle", "read", "ask"}]
    /\ seen \in [Replicas -> [active : SUBSET Nodes, confirmed : [Confirm!Keys -> 0..rev]]]
    /\ due \in [Replicas -> SUBSET Nodes]
    /\ losses \in 0..MaxFaults /\ changes \in 0..MaxFaults

BackoffType ==
    /\ backoff \in [Replicas ->
         [Nodes -> {0} \cup configConfirmTimeout..configConfirmBackoffMax]]
    /\ wait \in [Replicas -> [Nodes -> 0..configConfirmBackoffMax]]
    /\ aux_quiet \in [Replicas -> [Nodes -> 0..configConfirmTimeout]]

ConfirmInv == StoreType /\ LoopType /\ BackoffType /\ SpacedInv

LEMMA TypeParts == Confirm!TypeOK <=> StoreType /\ LoopType /\ BackoffType
  BY DEF Confirm!TypeOK, StoreType, LoopType, BackoffType, Confirm!None

(* Nothing is pushed, and every replica finds nobody behind.               *)
LEMMA ConfirmInit ==
    ASSUME ConfirmBounds, Confirm!Init
    PROVE  ConfirmInv
<1> USE DEF Confirm!None
<1>1. StoreType
  BY DEF ConfirmBounds, Confirm!Init, StoreType
<1>2. LoopType
  <2>1. ticked \in BOOLEAN
    BY Zenon DEF Confirm!Init
  <2>2. Confirm!Nothing \in [active : SUBSET Nodes, confirmed : [Confirm!Keys -> 0..rev]]
    BY DEF Confirm!Init, Confirm!Nothing
  <2>3. \A r \in Replicas : {} \in SUBSET Nodes
    OBVIOUS
  <2> QED
    BY <2>1, <2>2, <2>3 DEF ConfirmBounds, Confirm!Init, LoopType
<1>3. BackoffType
  BY DEF ConfirmBounds, Confirm!Init, BackoffType
<1>4. SpacedInv
  BY DEF Confirm!Init, Confirm!Tracked, SpacedInv
<1> QED
  BY <1>1, <1>2, <1>3, <1>4 DEF ConfirmInv

(* A later store revision widens what the revisions range over.            *)
LEMMA LaterRevision ==
    ASSUME NEW m \in Nat, NEW n \in Nat, m <= n, NEW f \in [Confirm!Keys -> 0..m]
    PROVE  f \in [Confirm!Keys -> 0..n]
  OBVIOUS

(* The sweeps' bookkeeping is left alone.                                  *)
LEMMA BackoffStays ==
    ASSUME ConfirmInv, UNCHANGED <<backoff, wait, aux_quiet>>
    PROVE  BackoffType' /\ SpacedInv'
  BY DEF ConfirmInv, BackoffType, SpacedInv, Confirm!Tracked

LEMMA ConfirmPush ==
    ASSUME ConfirmBounds, ConfirmInv, NEW k \in Confirm!Keys, Confirm!Push(k)
    PROVE  ConfirmInv'
<1>1. StoreType /\ LoopType /\ rev \in Nat /\ rev < MaxRev /\ rev' = rev + 1 /\ MaxRev \in Nat
  BY DEF ConfirmInv, StoreType, Confirm!Push, ConfirmBounds
<1>2. rev' \in 0..MaxRev /\ rev' \in Nat /\ rev <= rev'
  BY <1>1
<1>3. /\ pushed \in [Confirm!Keys -> 0..rev'] /\ running \in [Confirm!Keys -> 0..rev']
      /\ confirmed \in [Confirm!Keys -> 0..rev']
  BY <1>1, <1>2, LaterRevision DEF StoreType
<1>4. StoreType'
  <2>1. pushed' \in [Confirm!Keys -> 0..rev'] /\ running' \in [Confirm!Keys -> 0..rev']
    BY <1>1, <1>2, <1>3 DEF Confirm!Push, Confirm!None
  <2>2. reports' \subseteq (Confirm!Keys \X (1..rev'))
    <3>1. 1..rev \subseteq 1..rev'
      BY <1>1
    <3> QED
      BY <1>1, <3>1 DEF StoreType, Confirm!Push
  <2> QED
    BY <1>2, <1>3, <2>1, <2>2, <1>1 DEF StoreType, Confirm!Push
<1>5. LoopType'
  <2>1. ASSUME NEW r \in Replicas
        PROVE  seen[r] \in [active : SUBSET Nodes, confirmed : [Confirm!Keys -> 0..rev']]
    <3>1. /\ seen[r] \in [active : SUBSET Nodes, confirmed : [Confirm!Keys -> 0..rev]]
          /\ seen[r].confirmed \in [Confirm!Keys -> 0..rev]
      BY <1>1 DEF LoopType
    <3>2. seen[r].confirmed \in [Confirm!Keys -> 0..rev']
      BY <1>1, <1>2, <3>1, LaterRevision
    <3> QED
      BY <3>1, <3>2
  <2>2. seen \in [Replicas -> [active : SUBSET Nodes, confirmed : [Confirm!Keys -> 0..rev']]]
    BY <1>1, <2>1 DEF LoopType
  <2>3. UNCHANGED <<sweeper, ticked, place, seen, due, losses, changes>>
    BY DEF Confirm!Push, Confirm!sweep, Confirm!clock
  <2> QED
    BY <1>1, <2>2, <2>3 DEF LoopType
<1>6. UNCHANGED <<backoff, wait, aux_quiet>>
  BY DEF Confirm!Push, Confirm!sweep, Confirm!clock
<1> QED
  BY <1>4, <1>5, <1>6, BackoffStays DEF ConfirmInv

(* The nodes and the consumer.                                             *)
LEMMA ConfirmEvents ==
    ASSUME ConfirmBounds, ConfirmInv,
           \/ \E k \in Confirm!Keys : Confirm!Apply(k)
           \/ \E m \in Confirm!Revs : Confirm!Deliver(m) \/ Confirm!Lose(m)
           \/ \E n \in Nodes : Confirm!Evict(n) \/ Confirm!Return(n)
    PROVE  ConfirmInv'
<1>1. StoreType /\ LoopType /\ rev \in Nat
  BY DEF ConfirmInv, StoreType
<1>2. UNCHANGED <<rev, pushed, sweeper, ticked, place, seen, due, changes, backoff, wait, aux_quiet>>
  BY DEF Confirm!Apply, Confirm!Deliver, Confirm!Lose, Confirm!Evict, Confirm!Return,
     Confirm!sweep, Confirm!clock, Confirm!store
<1>3. losses' \in 0..MaxFaults
  BY <1>1 DEF Confirm!Apply, Confirm!Deliver, Confirm!Lose, Confirm!Evict, Confirm!Return,
     Confirm!Fault, LoopType, ConfirmBounds
<1>4. LoopType'
  BY <1>1, <1>2, <1>3 DEF LoopType
<1>5. StoreType'
  <2>1. ASSUME NEW k \in Confirm!Keys, Confirm!Apply(k)
        PROVE  StoreType'
    <3>1. pushed[k] \in 0..rev /\ pushed[k] \in 1..rev
      BY <1>1, <2>1 DEF Confirm!Apply, StoreType
    <3>2. running' \in [Confirm!Keys -> 0..rev] /\ reports' \subseteq (Confirm!Keys \X (1..rev))
      BY <1>1, <2>1, <3>1 DEF Confirm!Apply, StoreType
    <3> QED
      BY <1>1, <1>2, <2>1, <3>2 DEF Confirm!Apply, Confirm!store, StoreType
  <2>2. ASSUME NEW m \in Confirm!Revs, Confirm!Deliver(m)
        PROVE  StoreType'
    <3>1. m \in reports /\ m[1] \in Confirm!Keys /\ m[2] \in 1..rev
      BY <1>1, <2>2 DEF Confirm!Deliver, StoreType
    <3>2. m[2] \in 0..rev
      BY <1>1, <3>1
    <3>3. confirmed' \in [Confirm!Keys -> 0..rev] /\ reports' \subseteq reports
      BY <1>1, <2>2, <3>1, <3>2 DEF Confirm!Deliver, StoreType
    <3> QED
      BY <1>1, <1>2, <2>2, <3>3 DEF Confirm!Deliver, Confirm!store, StoreType
  <2>3. ASSUME NEW m \in Confirm!Revs, Confirm!Lose(m)
        PROVE  StoreType'
    BY <1>1, <1>2, <2>3 DEF Confirm!Lose, Confirm!store, StoreType
  <2>4. ASSUME NEW n \in Nodes, Confirm!Evict(n) \/ Confirm!Return(n)
        PROVE  StoreType'
    BY <1>1, <1>2, <2>4 DEF Confirm!Evict, Confirm!Return, Confirm!events, StoreType
  <2> QED
    BY <2>1, <2>2, <2>3, <2>4
<1> QED
  BY <1>2, <1>4, <1>5, BackoffStays DEF ConfirmInv

(* The intervals that pass count for the wait and for the silence.         *)
LEMMA ConfirmTick ==
    ASSUME ConfirmBounds, ConfirmInv, Confirm!Tick
    PROVE  ConfirmInv'
<1>1. StoreType /\ LoopType /\ BackoffType
  BY DEF ConfirmInv
<1>2. StoreType'
  BY <1>1 DEF Confirm!Tick, Confirm!store, Confirm!events, StoreType
<1>3. LoopType'
  <2>1. ticked' \in BOOLEAN
    BY Zenon DEF Confirm!Tick
  <2> QED
    BY <1>1, <2>1 DEF Confirm!Tick, Confirm!store, LoopType
<1>4. ASSUME NEW r \in Replicas, NEW n \in Nodes
      PROVE  /\ wait'[r][n] \in 0..configConfirmBackoffMax
             /\ aux_quiet'[r][n] \in 0..configConfirmTimeout
             /\ Confirm!Tracked(r, n)' => wait'[r][n] + aux_quiet'[r][n] >= configConfirmTimeout
  <2>1. /\ wait[r][n] \in 0..configConfirmBackoffMax /\ aux_quiet[r][n] \in 0..configConfirmTimeout
        /\ configConfirmTimeout \in Nat /\ configConfirmBackoffMax \in Nat
        /\ Confirm!Tracked(r, n) => wait[r][n] + aux_quiet[r][n] >= configConfirmTimeout
    BY <1>1 DEF BackoffType, ConfirmBounds, ConfirmInv, SpacedInv
  <2>2. /\ wait'[r][n] = IF wait[r][n] = 0 THEN 0 ELSE wait[r][n] - 1
        /\ aux_quiet'[r][n] = IF aux_quiet[r][n] + 1 < configConfirmTimeout
                              THEN aux_quiet[r][n] + 1 ELSE configConfirmTimeout
        /\ backoff' = backoff
    BY DEF Confirm!Tick, Confirm!AtMost
  <2> QED
    BY <2>1, <2>2 DEF Confirm!Tracked
<1>5. BackoffType'
  BY <1>1, <1>4 DEF Confirm!Tick, BackoffType
<1>6. SpacedInv'
  BY <1>4 DEF SpacedInv
<1> QED
  BY <1>2, <1>3, <1>5, <1>6 DEF ConfirmInv

LEMMA ConfirmLoop ==
    ASSUME ConfirmBounds, ConfirmInv, NEW r \in Replicas,
           Confirm!ChangeLeader(r) \/ Confirm!SweepRead(r) \/ Confirm!SweepFails(r)
    PROVE  ConfirmInv'
<1>1. StoreType /\ LoopType
  BY DEF ConfirmInv
<1>2. UNCHANGED <<rev, pushed, active, running, confirmed, reports, due, backoff, wait, aux_quiet>>
  BY DEF Confirm!ChangeLeader, Confirm!SweepRead, Confirm!SweepFails, Confirm!store,
     Confirm!events, Confirm!sweep, Confirm!clock
<1>3. StoreType'
  BY <1>1, <1>2 DEF StoreType
<1>4. sweeper' \in Replicas /\ losses' \in 0..MaxFaults /\ changes' \in 0..MaxFaults
  BY <1>1 DEF Confirm!ChangeLeader, Confirm!SweepRead, Confirm!SweepFails, Confirm!Fault,
     LoopType, ConfirmBounds
<1>5. ticked' \in BOOLEAN
  <2>1. ticked' = FALSE \/ ticked' = ticked
    BY DEF Confirm!ChangeLeader, Confirm!SweepRead, Confirm!SweepFails, Confirm!clock
  <2> QED
    BY <1>1, <2>1, Zenon DEF LoopType
<1>6. place' \in [Replicas -> {"idle", "read", "ask"}]
  BY <1>1 DEF Confirm!ChangeLeader, Confirm!SweepRead, Confirm!SweepFails, Confirm!sweep, LoopType
<1>7. seen' \in [Replicas -> [active : SUBSET Nodes, confirmed : [Confirm!Keys -> 0..rev]]]
  <2>1. /\ [active |-> active, confirmed |-> confirmed]
             \in [active : SUBSET Nodes, confirmed : [Confirm!Keys -> 0..rev]]
        /\ Confirm!Nothing \in [active : SUBSET Nodes, confirmed : [Confirm!Keys -> 0..rev]]
    BY <1>1 DEF StoreType, Confirm!Nothing, Confirm!None
  <2> QED
    BY <1>1, <2>1 DEF Confirm!ChangeLeader, Confirm!SweepRead, Confirm!SweepFails, Confirm!sweep,
       LoopType
<1>8. LoopType'
  BY <1>1, <1>2, <1>4, <1>5, <1>6, <1>7 DEF LoopType
<1> QED
  BY <1>2, <1>3, <1>8, BackoffStays DEF ConfirmInv

LEMMA ConfirmNudge ==
    ASSUME ConfirmBounds, ConfirmInv, NEW r \in Replicas, NEW n \in Nodes,
           Confirm!Nudge(r, n) \/ Confirm!NudgeFails(r, n)
    PROVE  ConfirmInv'
<1>1. StoreType /\ LoopType /\ rev \in Nat
  BY DEF ConfirmInv, StoreType
<1>2. /\ Confirm!Asked(r, n)
      /\ UNCHANGED <<rev, pushed, active, running, confirmed, sweeper, ticked, seen, changes, backoff,
                     wait, aux_quiet>>
  BY DEF Confirm!Nudge, Confirm!NudgeFails, Confirm!store, Confirm!events, Confirm!clock
<1>3. reports' \subseteq (Confirm!Keys \X (1..rev))
  <2>1. ASSUME NEW k \in Confirm!Of(n), running[k] # 0
        PROVE  k \in Confirm!Keys /\ running[k] \in 1..rev
    BY <1>1, <2>1 DEF Confirm!Of, Confirm!Keys, StoreType
  <2>2. CASE Confirm!Nudge(r, n)
    BY <1>1, <2>1, <2>2 DEF Confirm!Nudge, Confirm!None, StoreType
  <2>3. CASE Confirm!NudgeFails(r, n)
    BY <1>1, <2>3 DEF Confirm!NudgeFails, Confirm!events, StoreType
  <2> QED
    BY <2>2, <2>3
<1>4. losses' \in 0..MaxFaults
  BY <1>1 DEF Confirm!Nudge, Confirm!NudgeFails, Confirm!Fault, LoopType, ConfirmBounds
<1>5. due' \in [Replicas -> SUBSET Nodes] /\ place' \in [Replicas -> {"idle", "read", "ask"}]
  BY <1>1, <1>2 DEF Confirm!Asked, LoopType
<1>6. StoreType' /\ LoopType'
  BY <1>1, <1>2, <1>3, <1>4, <1>5 DEF StoreType, LoopType
<1> QED
  BY <1>2, <1>6, BackoffStays DEF ConfirmInv

(* dueForNudge: a node that is to be asked waits for a whole backoff, and  *)
(* one that comes to be tracked for configConfirmTimeout.                  *)
LEMMA Bookkeeping ==
    ASSUME ConfirmBounds, ConfirmInv, NEW r \in Replicas, NEW n \in Nodes
    PROVE  /\ Confirm!NextBackoff(r, n) \in {0} \cup configConfirmTimeout..configConfirmBackoffMax
           /\ Confirm!NextWait(r, n) \in 0..configConfirmBackoffMax
           /\ Confirm!NextBackoff(r, n) # 0 =>
                IF n \in Confirm!Due(r) THEN Confirm!NextWait(r, n) >= configConfirmTimeout
                ELSE Confirm!NextWait(r, n) + aux_quiet[r][n] >= configConfirmTimeout
<1>1. /\ configConfirmTimeout \in Nat \ {0} /\ configConfirmBackoffMax \in Nat
      /\ configConfirmBackoffMax >= 2 * configConfirmTimeout
  BY DEF ConfirmBounds
<1>2. /\ backoff[r][n] \in {0} \cup configConfirmTimeout..configConfirmBackoffMax
      /\ wait[r][n] \in 0..configConfirmBackoffMax /\ aux_quiet[r][n] \in 0..configConfirmTimeout
      /\ backoff[r][n] # 0 => wait[r][n] + aux_quiet[r][n] >= configConfirmTimeout
  BY DEF ConfirmInv, BackoffType, SpacedInv, Confirm!Tracked, Confirm!None
<1>3. n \in Confirm!Due(r) => n \in Confirm!Pending(r) /\ backoff[r][n] # 0
  BY DEF Confirm!Due, Confirm!Tracked, Confirm!None
<1>4. CASE n \notin Confirm!Pending(r)
  <2>1. Confirm!NextBackoff(r, n) = 0 /\ Confirm!NextWait(r, n) = 0
    BY <1>3, <1>4 DEF Confirm!NextBackoff, Confirm!NextWait, Confirm!None
  <2> QED
    BY <1>1, <2>1
<1>5. CASE n \in Confirm!Pending(r) /\ backoff[r][n] = 0
  <2>1. /\ n \notin Confirm!Due(r) /\ Confirm!NextBackoff(r, n) = configConfirmTimeout
        /\ Confirm!NextWait(r, n) = configConfirmTimeout
    BY <1>3, <1>5 DEF Confirm!NextBackoff, Confirm!NextWait, Confirm!Tracked, Confirm!None
  <2> QED
    BY <1>1, <1>2, <2>1
<1>6. CASE n \in Confirm!Due(r)
  <2>1. Confirm!NextBackoff(r, n) \in configConfirmTimeout..configConfirmBackoffMax
    <3>1. Confirm!NextBackoff(r, n) = Confirm!AtMost(configConfirmBackoffMax, 2 * backoff[r][n])
      BY <1>3, <1>6 DEF Confirm!NextBackoff, Confirm!Tracked, Confirm!None
    <3>2. backoff[r][n] \in configConfirmTimeout..configConfirmBackoffMax
      BY <1>2, <1>3, <1>6
    <3> QED
      BY <1>1, <3>1, <3>2 DEF Confirm!AtMost
  <2>2. Confirm!NextWait(r, n) = Confirm!NextBackoff(r, n)
    BY <1>3, <1>6 DEF Confirm!NextWait, Confirm!Tracked, Confirm!None
  <2> QED
    BY <1>1, <1>6, <2>1, <2>2
<1>7. CASE n \in Confirm!Pending(r) /\ backoff[r][n] # 0 /\ n \notin Confirm!Due(r)
  <2>1. Confirm!NextBackoff(r, n) = backoff[r][n] /\ Confirm!NextWait(r, n) = wait[r][n]
    BY <1>7 DEF Confirm!NextBackoff, Confirm!NextWait, Confirm!Tracked, Confirm!None
  <2> QED
    BY <1>2, <1>7, <2>1
<1> QED
  BY <1>3, <1>4, <1>5, <1>6, <1>7

LEMMA ConfirmDecide ==
    ASSUME ConfirmBounds, ConfirmInv, NEW r \in Replicas, Confirm!SweepDecide(r)
    PROVE  ConfirmInv'
<1>1. StoreType /\ LoopType /\ BackoffType /\ configConfirmTimeout \in Nat
  BY DEF ConfirmInv, ConfirmBounds
<1>2. UNCHANGED <<rev, pushed, active, running, confirmed, reports, sweeper, ticked, losses, changes>>
  BY DEF Confirm!SweepDecide, Confirm!store, Confirm!events
<1>3. Confirm!Due(r) \subseteq Nodes
  BY <1>1 DEF Confirm!Due, Confirm!Pending, LoopType
<1>4. LoopType'
  <2>1. Confirm!Nothing \in [active : SUBSET Nodes, confirmed : [Confirm!Keys -> 0..rev]]
    BY <1>1 DEF StoreType, Confirm!Nothing, Confirm!None
  <2>2. seen' \in [Replicas -> [active : SUBSET Nodes, confirmed : [Confirm!Keys -> 0..rev]]]
    BY <1>1, <2>1 DEF Confirm!SweepDecide, LoopType
  <2>3. due' \in [Replicas -> SUBSET Nodes] /\ place' \in [Replicas -> {"idle", "read", "ask"}]
    BY <1>1, <1>3 DEF Confirm!SweepDecide, LoopType
  <2> QED
    BY <1>1, <1>2, <2>2, <2>3 DEF LoopType
<1>5. BackoffType'
  <2>1. [n \in Nodes |-> Confirm!NextBackoff(r, n)]
          \in [Nodes -> {0} \cup configConfirmTimeout..configConfirmBackoffMax]
    BY Bookkeeping
  <2>2. [n \in Nodes |-> Confirm!NextWait(r, n)] \in [Nodes -> 0..configConfirmBackoffMax]
    BY Bookkeeping
  <2>3. [n \in Nodes |-> IF n \in Confirm!Due(r) THEN 0 ELSE aux_quiet[r][n]]
          \in [Nodes -> 0..configConfirmTimeout]
    BY <1>1 DEF BackoffType
  <2> QED
    BY <1>1, <2>1, <2>2, <2>3 DEF Confirm!SweepDecide, BackoffType
<1>6. SpacedInv'
  <2> SUFFICES ASSUME NEW s \in Replicas, NEW n \in Nodes, backoff'[s][n] # 0
               PROVE  wait'[s][n] + aux_quiet'[s][n] >= configConfirmTimeout
    BY DEF SpacedInv, Confirm!Tracked, Confirm!None
  <2>1. CASE s # r
    <3>1. /\ backoff'[s] = backoff[s] /\ wait'[s] = wait[s] /\ aux_quiet'[s] = aux_quiet[s]
      BY <1>1, <2>1 DEF Confirm!SweepDecide, BackoffType
    <3> QED
      BY <3>1 DEF ConfirmInv, SpacedInv, Confirm!Tracked, Confirm!None
  <2>2. CASE s = r
    <3>1. /\ backoff'[s][n] = Confirm!NextBackoff(r, n) /\ wait'[s][n] = Confirm!NextWait(r, n)
          /\ aux_quiet'[s][n] = IF n \in Confirm!Due(r) THEN 0 ELSE aux_quiet[r][n]
      BY <1>1, <2>2 DEF Confirm!SweepDecide, BackoffType
    <3>2. Confirm!NextWait(r, n) \in Nat
      BY Bookkeeping DEF ConfirmBounds
    <3>3. IF n \in Confirm!Due(r) THEN Confirm!NextWait(r, n) >= configConfirmTimeout
          ELSE Confirm!NextWait(r, n) + aux_quiet[r][n] >= configConfirmTimeout
      BY <3>1, Bookkeeping
    <3> QED
      BY <3>1, <3>2, <3>3
  <2> QED
    BY <2>1, <2>2
<1> QED
  BY <1>1, <1>2, <1>4, <1>5, <1>6 DEF ConfirmInv, StoreType

LEMMA ConfirmStep ==
    ASSUME ConfirmBounds, ConfirmInv, [Confirm!Next]_(Confirm!vars)
    PROVE  ConfirmInv'
<1>1. CASE UNCHANGED Confirm!vars
  BY <1>1 DEF Confirm!vars, ConfirmInv, StoreType, LoopType, BackoffType, SpacedInv,
     Confirm!Tracked
<1>2. CASE Confirm!Tick
  BY <1>2, ConfirmTick
<1>3. CASE \E k \in Confirm!Keys : Confirm!Push(k) \/ Confirm!Apply(k)
  BY <1>3, ConfirmPush, ConfirmEvents
<1>4. CASE \/ \E m \in Confirm!Revs : Confirm!Deliver(m) \/ Confirm!Lose(m)
           \/ \E n \in Nodes : Confirm!Evict(n) \/ Confirm!Return(n)
  BY <1>4, ConfirmEvents
<1>5. CASE \E r \in Replicas :
             \/ Confirm!ChangeLeader(r) \/ Confirm!SweepRead(r) \/ Confirm!SweepDecide(r)
             \/ Confirm!SweepFails(r)
             \/ \E n \in Nodes : Confirm!Nudge(r, n) \/ Confirm!NudgeFails(r, n)
  BY <1>5, ConfirmLoop, ConfirmDecide, ConfirmNudge
<1> QED
  BY <1>1, <1>2, <1>3, <1>4, <1>5 DEF Confirm!Next

(* What the sweeps keep stays within its types; the backoff doubles and    *)
(* stays at most configConfirmBackoffMax.                                  *)
THEOREM ConfirmTyping ==
    ASSUME ConfirmBounds
    PROVE  Confirm!Spec => []Confirm!TypeOK
<1>1. Confirm!Init => ConfirmInv
  BY ConfirmInit
<1>2. ConfirmInv /\ [Confirm!Next]_(Confirm!vars) => ConfirmInv'
  BY ConfirmStep
<1>3. ConfirmInv => Confirm!TypeOK
  BY TypeParts DEF ConfirmInv
<1> QED
  BY <1>1, <1>2, <1>3, PTL DEF Confirm!Spec

(* A replica that has asked a node leaves it alone for                     *)
(* configConfirmTimeout, whatever is pushed, confirmed and deleted         *)
(* meanwhile and whoever leads: the wait and the silence of a node that is *)
(* tracked add up to the timeout, and a node is due only when the wait is  *)
(* over.                                                                   *)
THEOREM Spacing ==
    ASSUME ConfirmBounds
    PROVE  Confirm!Spec => Confirm!NudgesAreSpaced
<1>1. Confirm!Init => ConfirmInv
  BY ConfirmInit
<1>2. ConfirmInv /\ [Confirm!Next]_(Confirm!vars) => ConfirmInv'
  BY ConfirmStep
<1>3. ASSUME ConfirmInv, Confirm!Next, NEW r \in Replicas, NEW n \in due'[r] \ due[r]
      PROVE  aux_quiet[r][n] >= configConfirmTimeout
  <2>1. due \in [Replicas -> SUBSET Nodes]
    BY <1>3 DEF ConfirmInv, LoopType
  <2>2. ASSUME ~\E s \in Replicas : Confirm!SweepDecide(s)
        PROVE  \/ UNCHANGED due
               \/ \E s \in Replicas, m \in Nodes : due' = [due EXCEPT ![s] = @ \ {m}]
    BY <1>3, <2>2 DEF Confirm!Next, Confirm!Tick, Confirm!Push, Confirm!Apply, Confirm!Deliver,
       Confirm!Lose, Confirm!Evict, Confirm!Return, Confirm!ChangeLeader, Confirm!SweepRead,
       Confirm!SweepFails, Confirm!Nudge, Confirm!NudgeFails, Confirm!Asked, Confirm!sweep
  <2>3. \E s \in Replicas : Confirm!SweepDecide(s)
    BY <1>3, <2>1, <2>2
  <2>4. PICK s \in Replicas : Confirm!SweepDecide(s)
    BY <2>3
  <2>5. due' = [due EXCEPT ![s] = Confirm!Due(s)]
    BY <2>4 DEF Confirm!SweepDecide
  <2>6. r = s /\ n \in Confirm!Due(r)
    BY <1>3, <2>1, <2>5
  <2>7. n \in Nodes /\ Confirm!Tracked(r, n) /\ wait[r][n] = 0
    BY <1>3, <2>6 DEF Confirm!Due, Confirm!Pending, ConfirmInv, LoopType
  <2>8. aux_quiet[r][n] \in Nat /\ wait[r][n] + aux_quiet[r][n] >= configConfirmTimeout
    BY <1>3, <2>7 DEF ConfirmInv, BackoffType, SpacedInv
  <2> QED
    BY <2>7, <2>8
<1>4. ConfirmInv /\ [Confirm!Next]_(Confirm!vars) =>
        [\A r \in Replicas : \A n \in due'[r] \ due[r] :
           aux_quiet[r][n] >= configConfirmTimeout]_(Confirm!vars)
  BY <1>3
<1> QED
  BY <1>1, <1>2, <1>4, PTL DEF Confirm!Spec, Confirm!NudgesAreSpaced

=============================================================================
