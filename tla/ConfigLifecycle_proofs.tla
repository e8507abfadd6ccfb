----------------------- MODULE ConfigLifecycle_proofs -----------------------
(* For any workers, requests, reports, rollbacks and faults: what the      *)
(* consumer has committed took effect, what it confirms the node has       *)
(* applied, and what it rolls back is the version that failed.             *)
EXTENDS ConfigLifecycle, Integers, TLAPS

USE DEF NoRV
USE OpMenuAssumption, FlagsAssumption, BoundsAssumption
USE DefaultsAssumption, OmittedAssumption, AbsentAssumption

Contents == Values \cup {Absent}

-----------------------------------------------------------------------------
(* The mutations *)

(* The next version of a stored value.                                     *)
LEMMA NextRVType ==
    ASSUME NEW v \in Contents
    PROVE  NextRV(v) \in Nat \ {0}
  BY DEF NextRV, Values, Contents

(* What a mutation stores continues the chain of versions.                 *)
Continues(r, v) == r.val \in Contents /\ (r.val # Absent => r.val.rv = NextRV(v))

(* Every operator request that is not refused stores such a value.         *)
LEMMA MutateContinues ==
    ASSUME NEW o \in Ops, NEW v \in Contents, Mutate(o, v) # Fail
    PROVE  Continues(Mutate(o, v), v)
<1>1. NextRV(v) \in Nat
  BY NextRVType
<1>2. CASE o.kind = "create"
  <2>1. o.arg \in ConfigRequests /\ Mutate(o, v) = CreateHSIConfig(o.arg, v)
    BY <1>2 DEF Ops, Mutate
  <2>2. OrDefault(o.arg.opt, DefaultOpt) \in Opts
    BY <2>1 DEF ConfigRequests, OrDefault
  <2> QED
    BY <1>1, <2>1, <2>2
    DEF CreateHSIConfig, Put, Fail, Continues, Contents, Values, ConfigRequests, Desires
<1>3. CASE o.kind = "update"
  <2>1. o.arg \in ConfigRequests /\ Mutate(o, v) = UpdateHSIConfig(o.arg, v)
    BY <1>3 DEF Ops, Mutate
  <2> DEFINE p == MergeHSIConfigUpdate(o.arg, v)
  <2>2. p.req \in Reqs /\ p.tog \in Togs /\ p.opt \in Opts /\ p.desire \in Desires
    BY <2>1 DEF ConfigRequests, OrDefault, MergeHSIConfigUpdate, Contents, Values, Desires
  <2> QED
    BY <1>1, <2>1, <2>2 DEF UpdateHSIConfig, Stamp, Put, Continues, Contents, Values
<1>4. CASE o.kind = "delete"
  BY <1>4 DEF Mutate, DeleteHSIConfig, Delete, Fail, Continues, Contents
<1>5. ASSUME NEW d \in Desires, Mutate(o, v) = SetDesireStatus(d, v)
      PROVE  Continues(Mutate(o, v), v)
  <2> DEFINE s == [v EXCEPT !.desire = d, !.rv = NextRV(v)]
  <2>1. v \in Values /\ SetDesireStatus(d, v) = Put(s)
    BY <1>5 DEF SetDesireStatus, Contents
  <2>2. s \in Values /\ s.rv = NextRV(v)
    BY <1>1, <2>1 DEF Values
  <2> HIDE DEF s
  <2> QED
    BY <1>5, <2>1, <2>2 DEF Put, Continues, Contents
<1>6. CASE o.kind \in {"dial", "hangup"}
  BY <1>5, <1>6 DEF Mutate, Desires
<1> QED
  BY <1>2, <1>3, <1>4, <1>6 DEF Ops

(* So does a rollback that is not superseded, and it is one of the version *)
(* that the failure names, when it names both.                             *)
LEMMA RollbackContinues ==
    ASSUME NEW prev \in Contents, NEW v \in Contents, NEW mod \in Nat, NEW arv \in Nat, NEW corr \in Nat,
           GuardedRollback(prev, v, mod, arv, corr) # Fail
    PROVE  /\ Continues(GuardedRollback(prev, v, mod, arv, corr), v)
           /\ arv # NoRV /\ corr # 0 => corr = mod
           /\ prev = Absent => GuardedRollback(prev, v, mod, arv, corr).val = Absent
           /\ prev # Absent => Payload(GuardedRollback(prev, v, mod, arv, corr).val) = Payload(prev)
<1>1. /\ FailedVersionIsCurrent(prev, v, mod, arv, corr)
      /\ GuardedRollback(prev, v, mod, arv, corr) =
           IF prev = Absent THEN Delete ELSE Put(RollbackConfigValue(prev, v))
  BY DEF GuardedRollback
<1>2. v \in Values /\ NextRV(v) = v.rv + 1 /\ (arv # NoRV /\ corr # 0 => corr = mod)
  BY <1>1 DEF FailedVersionIsCurrent, NextRV, Contents
<1>3. CASE prev = Absent
  BY <1>1, <1>2, <1>3 DEF Delete, Continues, Contents
<1>4. CASE prev # Absent
  <2>1. prev \in Values
    BY <1>4 DEF Contents
  <2>2. RollbackConfigValue(prev, v) \in Values
    BY <1>2, <2>1 DEF RollbackConfigValue, Stamp, Payload, Values
  <2> QED
    BY <1>1, <1>2, <1>4, <2>1, <2>2 DEF RollbackConfigValue, Stamp, Payload, Put, Continues, Contents
<1> QED
  BY <1>3, <1>4

(* A failure that names the version which etcd holds is rolled back.       *)
LEMMA CurrentIsRolledBack ==
    ASSUME NEW prev \in Contents, NEW v \in Values, NEW mod \in Nat, NEW arv \in Nat,
           v.rv = arv, arv # NoRV
    PROVE  GuardedRollback(prev, v, mod, arv, mod) # Fail
<1>1. FailedVersionIsCurrent(prev, v, mod, arv, mod)
  BY DEF FailedVersionIsCurrent
<1> QED
  BY <1>1 DEF GuardedRollback, Put, Delete, Fail

-----------------------------------------------------------------------------
(* What no step ever takes back *)

(* A sequence that grows at its end.                                       *)
Extends(s, t) == Len(s) <= Len(t) /\ \A i \in 1..Len(s) : t[i] = s[i]

(* The audit rows that were ever written.                                  *)
Logged == events \cup aux_cleared

Grows ==
    /\ Extends(hist, hist') /\ Extends(log, log')
    /\ compacted <= compacted'
    /\ aux_ok \subseteq aux_ok' /\ Logged \subseteq Logged'
    /\ current.rev <= current'.rev

(* What was appended.                                                      *)
LEMMA AppendExtends ==
    ASSUME NEW S, NEW s \in Seq(S), NEW x \in S
    PROVE  /\ Append(s, x) \in Seq(S) /\ Len(Append(s, x)) = Len(s) + 1
           /\ Append(s, x)[Len(s) + 1] = x
           /\ Extends(s, Append(s, x))
  BY DEF Extends

(* TypeOK in parts, and with it: reports name revisions of the store, and  *)
(* a worker that is busy has a message in hand.                            *)
StoreType == hist \in Seq(Contents) /\ rev >= 1 /\ compacted \in 0..rev
NodeType  ==
    /\ nodeRev \in 1..rev /\ nodeRuns \in 0..rev /\ nodeRuns # 1 /\ aux_ok \subseteq 1..rev
    /\ outbox \subseteq Reports
    /\ \A m \in outbox : m.rev \in 2..rev /\ m.attested \in {0, m.rev}
LogType   ==
    /\ log \in Seq(Reports) /\ committed \in 0..Len(log)
    /\ \A i \in 1..Len(log) : log[i].rev \in 2..rev /\ log[i].attested \in {0, log[i].rev}
WorkType  ==
    /\ owner \in Workers /\ idx \in [Workers -> 0..Len(log)] /\ pc \in [Workers -> Stages]
    /\ local \in [Workers -> [rev : Nat, val : Contents]]
    /\ \A w \in Workers : pc[w] # "idle" => idx[w] \in 1..Len(log)
TableType ==
    /\ events \subseteq Reports /\ aux_cleared \subseteq Reports /\ history \in Seq(Rows)
    /\ current \in [rev : Nat, val : Contents]
    /\ faults \in 0..MaxFaults

TypeInv == StoreType /\ NodeType /\ LogType /\ WorkType /\ TableType

LEMMA TypeInvImplies == TypeInv => TypeOK
  BY DEF TypeInv, TypeOK, Contents, StoreType, NodeType, LogType, WorkType, TableType, rev

(* A report is well formed.                                                *)
LEMMA ReportType ==
    ASSUME StoreType, NEW ok \in BOOLEAN, NEW restated \in BOOLEAN, NEW r \in 1..rev, NEW a \in BOOLEAN
    PROVE  Report(ok, restated, r, a) \in Reports
<1>1. hist[r] \in Contents
  BY DEF StoreType, rev, Contents
<1>2. hist[r] # Absent => hist[r].rv \in Nat
  BY <1>1 DEF Contents, Values
<1> QED
  BY <1>2 DEF Report, Reports, StoreType, rev

LEMMA CurType ==
    ASSUME StoreType
    PROVE  cur \in Contents /\ ModRevision \in Nat /\ rev \in Nat /\ rev >= 1
           /\ (cur # Absent => ModRevision = rev)
  BY DEF StoreType, cur, rev, Contents, ModRevision

-----------------------------------------------------------------------------
(* Types *)

LEMMA ConfirmedType ==
    ASSUME StoreType, NEW a \in Nat, a <= rev
    PROVE  ConfirmedConfig(a) \in [rev : Nat, val : Contents]
<1>1. (a > 0) => hist[a] \in Contents
  BY DEF StoreType, rev, Contents
<1> QED
  BY <1>1, CurType DEF ConfirmedConfig

LEMMA LastSuccessfulType ==
    ASSUME NEW h \in Seq(Rows)
    PROVE  \/ LastSuccessful(h) = NoRow
           \/ \E i \in 1..Len(h) : /\ h[i].status = "success"
                                   /\ LastSuccessful(h) = [rev |-> h[i].rev, val |-> h[i].val]
<1>1. CASE \E i \in 1..Len(h) : IsLastSuccess(h, i)
  <2> DEFINE i == CHOOSE i \in 1..Len(h) : IsLastSuccess(h, i)
  <2>1. i \in 1..Len(h) /\ IsLastSuccess(h, i)
    BY <1>1
  <2>2. LastSuccessful(h) = [rev |-> h[i].rev, val |-> h[i].val]
    BY <1>1 DEF LastSuccessful
  <2> HIDE DEF i
  <2> QED
    BY <2>1, <2>2 DEF IsLastSuccess
<1>2. CASE ~\E i \in 1..Len(h) : IsLastSuccess(h, i)
  BY <1>2 DEF LastSuccessful
<1> QED
  BY <1>1, <1>2

LEMMA AppendHistoryType ==
    ASSUME NEW h \in Seq(Rows), NEW row \in Rows
    PROVE  /\ AppendHistory(h, row) \in Seq(Rows)
           /\ \A i \in 1..Len(AppendHistory(h, row)) :
                AppendHistory(h, row)[i] = row \/ \E j \in 1..Len(h) : AppendHistory(h, row)[i] = h[j]
  BY AppendExtends DEF AppendHistory, Extends

LEMMA TypeInit == Init => TypeInv
<1>1. NoRow \in [rev : Nat, val : Contents]
  BY DEF NoRow, Contents
<1>2. <<Absent>> \in Seq(Contents) /\ Len(<<Absent>>) = 1
  BY DEF Contents
<1> QED
  BY <1>1, <1>2
  DEF Init, TypeInv, StoreType, NodeType, LogType, WorkType, TableType, rev, Stages

(* A write to etcd disturbs none of them.                                  *)
LEMMA WriteKeepsTypes ==
    ASSUME TypeInv, NEW v \in Contents, hist' = Append(hist, v), UNCHANGED <<compacted, node, log, committed>>
    PROVE  StoreType' /\ NodeType' /\ LogType' /\ Extends(hist, hist') /\ rev' = rev + 1 /\ hist'[rev'] = v
<1>1. hist \in Seq(Contents) /\ rev \in Nat
  BY DEF TypeInv, StoreType, rev
<1>2. rev' = rev + 1 /\ hist' \in Seq(Contents) /\ Extends(hist, hist') /\ hist'[rev'] = v
  BY <1>1, AppendExtends DEF rev
<1>3. StoreType' /\ NodeType' /\ LogType'
  BY <1>1, <1>2 DEF TypeInv, StoreType, NodeType, LogType, node
<1> QED
  BY <1>2, <1>3

LEMMA ExtendsSelf == \A s : Len(s) \in Nat => Extends(s, s)
  BY DEF Extends

LEMMA TypeStep == TypeInv /\ [Next]_vars => TypeInv' /\ Grows
<1> SUFFICES ASSUME TypeInv, [Next]_vars
             PROVE  TypeInv' /\ Grows
  OBVIOUS
<1> USE DEF TypeInv
<1>0. /\ StoreType /\ NodeType /\ LogType /\ WorkType /\ TableType
      /\ rev \in Nat /\ Len(log) \in Nat /\ Extends(hist, hist) /\ Extends(log, log)
  BY ExtendsSelf DEF StoreType, LogType, rev
<1> USE DEF etcd, node, work, db, Logged
<1>1. CASE OperatorWrite
  <2>1. PICK o \in OpMenu : Mutate(o, cur) # Fail /\ hist' = Append(hist, Mutate(o, cur).val)
    BY <1>1 DEF OperatorWrite
  <2>2. Mutate(o, cur).val \in Contents
    BY <2>1, <1>0, MutateContinues, CurType DEF Continues
  <2>3. StoreType' /\ NodeType' /\ LogType' /\ Extends(hist, hist')
    BY <1>1, <2>1, <2>2, WriteKeepsTypes DEF OperatorWrite
  <2>4. WorkType' /\ TableType'
    BY <1>0, <1>1 DEF OperatorWrite, WorkType, TableType
  <2> QED
    BY <1>0, <1>1, <2>3, <2>4 DEF OperatorWrite, Grows, StoreType, TableType
<1>2. CASE Compact
  <2>1. StoreType' /\ compacted <= compacted'
    BY <1>0, <1>2 DEF Compact, StoreType, rev
  <2>2. NodeType' /\ LogType' /\ WorkType' /\ TableType'
    BY <1>0, <1>2 DEF Compact, NodeType, LogType, WorkType, TableType, rev
  <2> QED
    BY <1>0, <1>2, <2>1, <2>2 DEF Compact, Grows, TableType
<1>3. CASE NodeApply
  <2>1. PICK r \in nodeRev..rev, ok \in BOOLEAN, a \in Attests :
           /\ r > 1
           /\ nodeRev' = r
           /\ nodeRuns' = IF ~ok THEN nodeRuns ELSE IF hist[r] = Absent THEN 0 ELSE r
           /\ aux_ok' = IF ok THEN aux_ok \cup {r} ELSE aux_ok
           /\ outbox' = outbox \cup {Report(ok, FALSE, r, a)}
    BY <1>3 DEF NodeApply
  <2>2. r \in 2..rev /\ r \in 1..rev /\ a \in BOOLEAN /\ FALSE \in BOOLEAN
    BY <1>0, <2>1 DEF NodeType
  <2>3. Report(ok, FALSE, r, a) \in Reports
    BY <1>0, <2>2, ReportType, Zenon
  <2>4. Report(ok, FALSE, r, a).rev = r /\ Report(ok, FALSE, r, a).attested \in {0, r}
    BY DEF Report
  <2>5. NodeType'
    <3> DEFINE m == Report(ok, FALSE, r, a)
    <3>1. m \in Reports /\ m.rev = r /\ m.attested \in {0, r} /\ outbox' = outbox \cup {m}
      BY <2>1, <2>3, <2>4
    <3>2. nodeRev' = r /\ nodeRuns' \in {nodeRuns, 0, r} /\ aux_ok' \subseteq aux_ok \cup {r}
      BY <2>1
    <3>3. rev' = rev
      BY <1>3 DEF NodeApply, rev
    <3> HIDE DEF m
    <3> QED
      BY <1>0, <2>2, <3>1, <3>2, <3>3 DEF NodeType
  <2>6. StoreType' /\ LogType' /\ WorkType' /\ TableType'
    BY <1>0, <1>3 DEF NodeApply, StoreType, LogType, WorkType, TableType, rev
  <2> QED
    BY <1>0, <1>3, <2>1, <2>5, <2>6 DEF NodeApply, Grows, StoreType, TableType
<1>4. CASE NodeRestate
  <2>1. PICK a \in Attests : outbox' = outbox \cup {Report(TRUE, TRUE, nodeRuns, a)}
    BY <1>4 DEF NodeRestate
  <2>2. nodeRuns \in 2..rev /\ nodeRuns \in 1..rev /\ a \in BOOLEAN /\ TRUE \in BOOLEAN
    BY <1>0, <1>4, <2>1 DEF NodeRestate, NodeType
  <2>3. Report(TRUE, TRUE, nodeRuns, a) \in Reports
    BY <1>0, <2>2, ReportType, Zenon
  <2>4. /\ Report(TRUE, TRUE, nodeRuns, a).rev = nodeRuns
        /\ Report(TRUE, TRUE, nodeRuns, a).attested \in {0, nodeRuns}
    BY DEF Report
  <2>5. NodeType'
    BY <1>0, <1>4, <2>1, <2>2, <2>3, <2>4 DEF NodeRestate, NodeType, rev
  <2>6. StoreType' /\ LogType' /\ WorkType' /\ TableType'
    BY <1>0, <1>4 DEF NodeRestate, StoreType, LogType, WorkType, TableType, rev
  <2> QED
    BY <1>0, <1>4, <2>5, <2>6 DEF NodeRestate, Grows, StoreType, TableType
<1>5. CASE Publish
  <2>1. PICK m \in outbox : log' = Append(log, m)
    BY <1>5 DEF Publish
  <2>2. /\ outbox' \subseteq outbox
        /\ UNCHANGED <<etcd, nodeRev, nodeRuns, aux_ok, committed, work, db, faults>>
    BY <1>5 DEF Publish
  <2>3. m \in Reports /\ log' \in Seq(Reports) /\ Len(log') = Len(log) + 1
        /\ log'[Len(log) + 1] = m /\ Extends(log, log')
    BY <1>0, <2>1, AppendExtends DEF NodeType, LogType
  <2>4. LogType'
    BY <1>0, <2>1, <2>2, <2>3 DEF LogType, NodeType, Extends, rev
  <2>5. WorkType'
    BY <1>0, <2>2, <2>3 DEF WorkType
  <2>6. StoreType' /\ NodeType' /\ TableType'
    BY <1>0, <2>2 DEF StoreType, NodeType, TableType, rev
  <2> QED
    BY <1>0, <2>2, <2>3, <2>4, <2>5, <2>6 DEF Grows, StoreType, TableType
<1>6. ASSUME NEW w \in Workers, Fetch(w)
      PROVE  TypeInv' /\ Grows
  <2>1. WorkType'
    BY <1>0, <1>6 DEF Fetch, Goto, WorkType, Stages
  <2>2. StoreType' /\ NodeType' /\ LogType' /\ TableType'
    BY <1>0, <1>6 DEF Fetch, StoreType, NodeType, LogType, TableType, rev
  <2> QED
    BY <1>0, <1>6, <2>1, <2>2 DEF Fetch, Grows, StoreType, TableType
<1>7. ASSUME NEW w \in Workers, Audit(w)
      PROVE  TypeInv' /\ Grows
  <2>1. WorkType'
    BY <1>0, <1>7 DEF Audit, Goto, WorkType, Stages
  <2>2. msg(w) \in Reports
    <3>1. pc[w] = "audit"
      BY <1>7 DEF Audit
    <3>2. idx[w] \in 1..Len(log)
      BY <1>0, <3>1 DEF WorkType
    <3> QED
      BY <1>0, <3>2 DEF LogType, msg
  <2>3. StoreType' /\ NodeType' /\ LogType'
    BY <1>0, <1>7 DEF Audit, StoreType, NodeType, LogType, rev
  <2>4. TableType' /\ Logged \subseteq Logged'
    BY <1>0, <1>7, <2>2 DEF Audit, TableType, rev
  <2> QED
    BY <1>0, <1>7, <2>1, <2>3, <2>4 DEF Audit, Grows, StoreType, TableType
<1>8. ASSUME NEW w \in Workers, ReadConfirmed(w)
      PROVE  TypeInv' /\ Grows
  <2>1. msg(w).attested \in Nat /\ msg(w).attested <= rev
    BY <1>0, <1>8 DEF ReadConfirmed, WorkType, LogType, msg
  <2>2. ConfirmedConfig(msg(w).attested) \in [rev : Nat, val : Contents]
    BY <1>0, <2>1, ConfirmedType
  <2>3. WorkType'
    BY <1>0, <1>8, <2>2 DEF ReadConfirmed, Goto, WorkType, Stages
  <2>4. StoreType' /\ NodeType' /\ LogType' /\ TableType'
    BY <1>0, <1>8 DEF ReadConfirmed, StoreType, NodeType, LogType, TableType, rev
  <2> QED
    BY <1>0, <1>8, <2>3, <2>4 DEF ReadConfirmed, Grows, StoreType, TableType
<1>9. ASSUME NEW w \in Workers, Upsert(w)
      PROVE  TypeInv' /\ Grows
  <2>1. NoRow \in [rev : Nat, val : Contents] /\ local[w] \in [rev : Nat, val : Contents]
    BY <1>0 DEF NoRow, Contents, WorkType
  <2>2. WorkType'
    BY <1>0, <1>9, <2>1 DEF Upsert, Goto, WorkType, Stages
  <2>3. [rev |-> local[w].rev, status |-> "success", val |-> local[w].val] \in Rows
    BY <2>1 DEF Rows, Contents
  <2>4. history' \in Seq(Rows)
    BY <1>0, <1>9, <2>3, AppendHistoryType DEF Upsert, TableType
  <2>5. current' \in [rev : Nat, val : Contents] /\ current.rev <= current'.rev
    BY <1>0, <1>9, <2>1 DEF Upsert, TableType
  <2>6. StoreType' /\ NodeType' /\ LogType' /\ TableType'
    BY <1>0, <1>9, <2>4, <2>5 DEF Upsert, StoreType, NodeType, LogType, TableType, rev
  <2> QED
    BY <1>0, <1>9, <2>2, <2>5, <2>6 DEF Upsert, Grows, StoreType
<1>10. ASSUME NEW w \in Workers, ReadPrevious(w)
       PROVE  TypeInv' /\ Grows
  <2>1. LastSuccessful(history) \in [rev : Nat, val : Contents]
    <3>1. NoRow \in [rev : Nat, val : Contents]
      BY DEF NoRow, Contents
    <3>2. \A i \in 1..Len(history) : history[i].rev \in Nat /\ history[i].val \in Contents
      <4>1. \A i \in 1..Len(history) : history[i] \in Rows
        BY <1>0 DEF TableType
      <4>2. \A row \in Rows : row.rev \in Nat /\ row.val \in Contents
        BY DEF Rows, Contents
      <4> QED
        BY <4>1, <4>2
    <3>3. history \in Seq(Rows)
      BY <1>0 DEF TableType
    <3> QED
      BY <3>1, <3>2, <3>3, LastSuccessfulType
  <2>2. WorkType'
    BY <1>0, <1>10, <2>1 DEF ReadPrevious, Goto, WorkType, Stages
  <2>3. StoreType' /\ NodeType' /\ LogType' /\ TableType'
    BY <1>0, <1>10 DEF ReadPrevious, StoreType, NodeType, LogType, TableType, rev
  <2> QED
    BY <1>0, <1>10, <2>2, <2>3 DEF ReadPrevious, Grows, StoreType, TableType
<1>11. ASSUME NEW w \in Workers, Rollback(w)
       PROVE  TypeInv' /\ Grows
  <2> DEFINE r == GuardedRollback(local[w].val, cur, ModRevision, msg(w).arv, msg(w).rev)
  <2>1. msg(w).arv \in Nat /\ msg(w).rev \in Nat /\ local[w].val \in Contents
    <3>1. idx[w] \in 1..Len(log)
      BY <1>0, <1>11 DEF Rollback, WorkType
    <3>2. log[idx[w]] \in Reports
      BY <1>0, <3>1 DEF LogType
    <3>3. msg(w).arv \in Nat /\ msg(w).rev \in Nat
      BY <3>2 DEF Reports, msg
    <3> QED
      BY <1>0, <3>3 DEF WorkType
  <2>2. r # Fail => r.val \in Contents
    BY <1>0, <2>1, RollbackContinues, CurType DEF Continues
  <2>3. hist' = hist \/ (hist' = Append(hist, r.val) /\ r.val \in Contents)
    BY <1>11, <2>2 DEF Rollback
  <2>4. UNCHANGED <<compacted, node, log, committed, owner, idx, db, faults>>
    BY <1>11 DEF Rollback
  <2> HIDE DEF r
  <2>5. StoreType' /\ NodeType' /\ LogType' /\ Extends(hist, hist')
    <3>1. CASE hist' = hist
      BY <1>0, <2>4, <3>1 DEF StoreType, NodeType, LogType, rev
    <3>2. CASE hist' = Append(hist, r.val) /\ r.val \in Contents
      BY <2>4, <3>2, WriteKeepsTypes
    <3> QED
      BY <2>3, <3>1, <3>2
  <2>6. WorkType'
    <3>1. NoRow \in [rev : Nat, val : Contents]
      BY DEF NoRow, Contents
    <3> QED
      BY <1>0, <1>11, <3>1 DEF Rollback, Goto, WorkType, Stages
  <2>7. TableType'
    BY <1>0, <2>4 DEF TableType
  <2> QED
    BY <1>0, <2>4, <2>5, <2>6, <2>7 DEF Grows, StoreType, TableType
<1>12. ASSUME NEW w \in Workers, RecordFailure(w)
       PROVE  TypeInv' /\ Grows
  <2>1. WorkType'
    BY <1>0, <1>12 DEF RecordFailure, Goto, WorkType, Stages
  <2>2. [rev |-> 0, status |-> "failed", val |-> Absent] \in Rows
    BY DEF Rows
  <2>3. history' \in Seq(Rows)
    BY <1>0, <1>12, <2>2, AppendHistoryType DEF RecordFailure, TableType
  <2>4. StoreType' /\ NodeType' /\ LogType' /\ TableType'
    BY <1>0, <1>12, <2>3 DEF RecordFailure, StoreType, NodeType, LogType, TableType, rev
  <2> QED
    BY <1>0, <1>12, <2>1, <2>4 DEF RecordFailure, Grows, StoreType, TableType
<1>13. ASSUME NEW w \in Workers, Mark(w)
       PROVE  TypeInv' /\ Grows
  <2>1. WorkType'
    BY <1>0, <1>13 DEF Mark, Goto, WorkType, Stages
  <2>2. StoreType' /\ NodeType' /\ LogType' /\ TableType'
    BY <1>0, <1>13 DEF Mark, StoreType, NodeType, LogType, TableType, rev
  <2> QED
    BY <1>0, <1>13, <2>1, <2>2 DEF Mark, Grows, StoreType, TableType
<1>14. ASSUME NEW w \in Workers, Flush(w)
       PROVE  TypeInv' /\ Grows
  <2>1. LogType'
    BY <1>0, <1>14 DEF Flush, Processed, LogType, WorkType, rev
  <2>2. StoreType' /\ NodeType' /\ WorkType' /\ TableType'
    BY <1>0, <1>14 DEF Flush, StoreType, NodeType, WorkType, TableType, rev
  <2> QED
    BY <1>0, <1>14, <2>1, <2>2 DEF Flush, Grows, StoreType, TableType
<1>15. ASSUME NEW w \in Workers, HandlerError(w)
       PROVE  TypeInv' /\ Grows
  <2>1. NoRow \in [rev : Nat, val : Contents]
    BY DEF NoRow, Contents
  <2>2. WorkType'
    BY <1>0, <1>15, <2>1 DEF HandlerError, Goto, WorkType, LogType, Stages
  <2>3. StoreType' /\ NodeType' /\ LogType' /\ TableType'
    BY <1>0, <1>15 DEF HandlerError, StoreType, NodeType, LogType, TableType, rev
  <2> QED
    BY <1>0, <1>15, <2>2, <2>3 DEF HandlerError, Grows, StoreType, TableType
<1>16. ASSUME NEW w \in Workers, Assign(w)
       PROVE  TypeInv' /\ Grows
  <2>1. NoRow \in [rev : Nat, val : Contents]
    BY DEF NoRow, Contents
  <2>2. WorkType'
    BY <1>0, <1>16, <2>1 DEF Assign, Goto, WorkType, LogType, Stages
  <2>3. StoreType' /\ NodeType' /\ LogType' /\ TableType'
    BY <1>0, <1>16 DEF Assign, StoreType, NodeType, LogType, TableType, rev
  <2> QED
    BY <1>0, <1>16, <2>2, <2>3 DEF Assign, Grows, StoreType, TableType
<1>17. CASE DeleteFailedEvents
  <2>1. StoreType' /\ NodeType' /\ LogType' /\ WorkType' /\ TableType'
    BY <1>0, <1>17 DEF DeleteFailedEvents, StoreType, NodeType, LogType, WorkType, TableType, rev
  <2> QED
    BY <1>0, <1>17, <2>1 DEF DeleteFailedEvents, Grows, StoreType, TableType
<1>18. CASE UNCHANGED vars
  <2>1. StoreType' /\ NodeType' /\ LogType' /\ WorkType' /\ TableType'
    BY <1>0, <1>18 DEF vars, StoreType, NodeType, LogType, WorkType, TableType, rev
  <2> QED
    BY <1>0, <1>18, <2>1 DEF vars, Grows, StoreType, TableType
<1> QED
  BY <1>1, <1>2, <1>3, <1>4, <1>5, <1>6, <1>7, <1>8, <1>9, <1>10, <1>11, <1>12, <1>13, <1>14,
     <1>15, <1>16, <1>17, <1>18
  DEF Next, Handle

-----------------------------------------------------------------------------
(* What a message has to achieve, and what it says *)

Audited(m) == (m.ok /\ m.restated) \/ m \in Logged
Shown(m)   == m.ok /\ m.attested >= compacted /\ m.attested > 0 /\ hist[m.attested] # Absent
                => current.rev >= m.attested
Retired(m) == ~m.ok /\ m.arv # NoRV => rev > m.rev

Projected(m) == Audited(m) /\ Shown(m) /\ Retired(m)

(* The node has applied what it says it has, and names the version of what *)
(* it could not apply; one that always attests names revision and version. *)
ReportIsTrue(m) ==
    /\ m.ok => m.rev \in aux_ok
    /\ m.arv # NoRV => hist[m.rev] # Absent /\ m.arv = hist[m.rev].rv
    /\ FALSE \notin Attests =>
         /\ m.attested = m.rev
         /\ hist[m.rev] # Absent => m.arv = hist[m.rev].rv

(* Every report that was made and not lost.                                *)
Said == outbox \cup {log[i] : i \in 1..Len(log)}

NodeInv ==
    /\ \A m \in Said : ReportIsTrue(m)
    /\ nodeRuns # 0 => nodeRuns \in aux_ok

(* How far worker w is with message m.                                     *)
StageOf(w, m) ==
    /\ pc[w] \in {"read", "upsert"} => m.ok
    /\ pc[w] \in {"prev", "cas", "record"} => ~m.ok
    /\ pc[w] # "audit" => Audited(m)
    /\ pc[w] = "upsert" =>
         /\ local[w].val # Absent /\ local[w].rev > 0
         /\ m.attested > 0 => local[w].rev = m.attested
    /\ pc[w] = "record" => Retired(m)
    /\ pc[w] = "mark" => Projected(m)

InHand(w) == \A m \in Reports : pc[w] # "idle" /\ msg(w) = m => StageOf(w, m)

(* The first n messages are done.                                          *)
Done(n) == \A i \in 1..n, m \in Reports : log[i] = m => Projected(m)

ProjectedInv ==
    /\ \A w \in Workers : InHand(w) /\ Done(Processed(w))
    /\ Done(committed)

-----------------------------------------------------------------------------
(* What stays true while the rest goes on *)

LEMMA ProjectedStays ==
    ASSUME TypeInv, TypeInv', Grows, NEW m, m.rev \in 2..rev, m.attested \in {0, m.rev}
    PROVE  /\ Audited(m) => Audited(m)'
           /\ Shown(m) => Shown(m)'
           /\ Retired(m) => Retired(m)'
           /\ Projected(m) => Projected(m)'
<1>1. /\ rev \in Nat /\ compacted \in Nat /\ current.rev \in Nat
      /\ rev' \in Nat /\ compacted' \in Nat /\ current'.rev \in Nat
  BY DEF TypeInv, StoreType, TableType, rev
<1>2. /\ rev <= rev' /\ compacted <= compacted' /\ current.rev <= current'.rev
      /\ \A r \in 1..rev : hist'[r] = hist[r]
      /\ Logged \subseteq Logged'
  BY DEF Grows, Extends, rev
<1>3. Audited(m) => Audited(m)'
  BY <1>2 DEF Audited
<1>4. Shown(m) => Shown(m)'
  BY <1>1, <1>2 DEF Shown
<1>5. Retired(m) => Retired(m)'
  BY <1>1, <1>2 DEF Retired
<1> QED
  BY <1>3, <1>4, <1>5 DEF Projected

LEMMA ReportStaysTrue ==
    ASSUME TypeInv, Grows, NEW m, m.rev \in 2..rev, ReportIsTrue(m)
    PROVE  ReportIsTrue(m)'
<1>1. rev \in Nat /\ \A r \in 1..rev : hist'[r] = hist[r]
  BY DEF Grows, Extends, TypeInv, StoreType, rev
<1>2. hist'[m.rev] = hist[m.rev] /\ aux_ok \subseteq aux_ok'
  BY <1>1 DEF Grows
<1> QED
  BY ONLY <1>2, ReportIsTrue(m) DEF ReportIsTrue

(* A message that was there is there.                                      *)
LEMMA LogStays ==
    ASSUME TypeInv, Grows, NEW i \in 1..Len(log)
    PROVE  /\ log'[i] = log[i] /\ log[i] \in Reports
           /\ log[i].rev \in 2..rev /\ log[i].attested \in {0, log[i].rev}
  BY DEF Grows, Extends, TypeInv, LogType

LEMMA DoneStays ==
    ASSUME TypeInv, TypeInv', Grows, NEW n \in Int, n <= Len(log), Done(n)
    PROVE  Done(n)'
<1> SUFFICES ASSUME NEW i \in 1..n, NEW m \in Reports, log'[i] = m
             PROVE  Projected(m)'
  BY DEF Done
<1>1. i \in 1..Len(log)
  BY DEF TypeInv, LogType
<1>2. log[i] = m /\ m.rev \in 2..rev /\ m.attested \in {0, m.rev}
  BY <1>1, LogStays
<1>3. Projected(m)
  BY <1>2 DEF Done
<1> QED
  BY <1>2, <1>3, ProjectedStays

(* A step of others leaves a worker where it is.                           *)
LEMMA WorkerStays ==
    ASSUME TypeInv, TypeInv', Grows, NEW w \in Workers, InHand(w), Done(Processed(w)),
           pc'[w] = pc[w], idx'[w] = idx[w], local'[w] = local[w]
    PROVE  InHand(w)' /\ Done(Processed(w))'
<1>1. ASSUME NEW m \in Reports, pc'[w] # "idle", msg(w)' = m
      PROVE  StageOf(w, m)'
  <2>1. idx[w] \in 1..Len(log) /\ idx'[w] = idx[w]
    BY <1>1 DEF TypeInv, WorkType
  <2>2. msg(w) = m /\ m.rev \in 2..rev /\ m.attested \in {0, m.rev}
    BY <1>1, <2>1, LogStays DEF msg
  <2>3. StageOf(w, m)
    BY <1>1, <2>2 DEF InHand
  <2> QED
    BY <2>2, <2>3, ProjectedStays DEF StageOf
<1>2. Done(Processed(w))'
  <2> DEFINE n == Processed(w)
  <2>1. n \in Int /\ n <= Len(log) /\ Processed(w)' = n
    <3>1. idx[w] \in 0..Len(log) /\ Len(log) \in Nat
      BY DEF TypeInv, WorkType, LogType
    <3> QED
      BY <3>1 DEF Processed
  <2>2. Done(n)'
    BY <2>1, DoneStays
  <2> QED
    BY <2>1, <2>2
<1> QED
  BY <1>1, <1>2 DEF InHand

(* The node's reports stay true, and new ones are.                         *)
LEMMA NodeStep == TypeInv /\ NodeInv /\ [Next]_vars => NodeInv'
<1> SUFFICES ASSUME TypeInv, NodeInv, [Next]_vars
             PROVE  NodeInv'
  OBVIOUS
<1>1. TypeInv' /\ Grows
  BY TypeStep
<1>2. \A m \in Said : m.rev \in 2..rev /\ ReportIsTrue(m)'
  <2>1. \A m \in Said : m.rev \in 2..rev /\ ReportIsTrue(m)
    BY DEF TypeInv, NodeType, LogType, NodeInv, Said
  <2> QED
    BY <1>1, <2>1, ReportStaysTrue
(* The report that a step adds.                                            *)
<1>3. ASSUME NEW m, ReportIsTrue(m)', Said' \subseteq Said \cup {m},
             nodeRuns' # 0 => nodeRuns' \in aux_ok'
      PROVE  NodeInv'
  BY <1>2, <1>3 DEF NodeInv
<1>4. ASSUME NEW r \in 2..rev, NEW ok, NEW restated, NEW a \in Attests, NEW m, m = Report(ok, restated, r, a),
             ok => r \in aux_ok', UNCHANGED hist
      PROVE  ReportIsTrue(m)'
  BY <1>4 DEF ReportIsTrue, Report
<1>5. CASE NodeApply
  <2>1. PICK r \in nodeRev..rev, ok \in BOOLEAN, a \in Attests :
           /\ r > 1
           /\ nodeRuns' = IF ~ok THEN nodeRuns ELSE IF hist[r] = Absent THEN 0 ELSE r
           /\ aux_ok' = IF ok THEN aux_ok \cup {r} ELSE aux_ok
           /\ outbox' = outbox \cup {Report(ok, FALSE, r, a)}
    BY <1>5 DEF NodeApply
  <2>2. UNCHANGED <<hist, log>> /\ r \in 2..rev
    BY <1>5, <2>1 DEF NodeApply, etcd, TypeInv, StoreType, NodeType, rev
  <2>3. ok => r \in aux_ok'
    BY <2>1
  <2>4. nodeRuns' # 0 => nodeRuns' \in aux_ok'
    BY <2>1 DEF NodeInv
  <2>5. PICK m : m = Report(ok, FALSE, r, a)
    OBVIOUS
  <2>6. ReportIsTrue(m)'
    BY <1>4, <2>2, <2>3, <2>5
  <2>7. Said' \subseteq Said \cup {m}
    BY <2>1, <2>2, <2>5 DEF Said
  <2> QED
    BY <1>3, <2>4, <2>6, <2>7
<1>6. CASE NodeRestate
  <2>1. PICK a \in Attests : outbox' = outbox \cup {Report(TRUE, TRUE, nodeRuns, a)}
    BY <1>6 DEF NodeRestate
  <2>2. UNCHANGED <<hist, log, nodeRuns, aux_ok>> /\ nodeRuns \in 2..rev /\ nodeRuns \in aux_ok
    BY <1>6 DEF NodeRestate, NodeInv, etcd, TypeInv, StoreType, NodeType, rev
  <2>3. PICK r, m : r = nodeRuns /\ m = Report(TRUE, TRUE, r, a)
    OBVIOUS
  <2>4. ReportIsTrue(m)'
    BY <1>4, <2>2, <2>3
  <2>5. Said' \subseteq Said \cup {m}
    BY <2>1, <2>2, <2>3 DEF Said
  <2> QED
    BY <1>3, <2>2, <2>4, <2>5
<1>7. CASE Publish
  <2>1. PICK m \in outbox : log' = Append(log, m)
    BY <1>7 DEF Publish
  <2>2. /\ outbox' \subseteq outbox /\ UNCHANGED <<nodeRuns, aux_ok>>
    BY <1>7 DEF Publish
  <2>3. \A i \in 1..Len(log') : log'[i] = m \/ \E j \in 1..Len(log) : log'[i] = log[j]
    BY <2>1, AppendExtends DEF TypeInv, NodeType, LogType, Extends
  <2>4. Said' \subseteq Said
    BY <2>2, <2>3 DEF Said
  <2> QED
    BY <1>2, <2>2, <2>4 DEF NodeInv
<1>8. CASE UNCHANGED <<outbox, log, nodeRuns>>
  <2>1. Said' = Said
    BY <1>8 DEF Said
  <2> QED
    BY <1>1, <1>2, <1>8, <2>1 DEF NodeInv, Grows
<1>9. (NodeApply \/ NodeRestate \/ Publish) \/ UNCHANGED <<outbox, log, nodeRuns>>
  BY DEF Next, Handle, OperatorWrite, DeleteFailedEvents, Compact, Fetch, Audit, ReadConfirmed, Upsert, ReadPrevious,
         Rollback, RecordFailure, Mark, Flush, HandlerError, Assign, vars, node
<1> QED
  BY <1>5, <1>6, <1>7, <1>8, <1>9

-----------------------------------------------------------------------------
(* Every message before the committed offset has had its effect *)

OthersStay(w) == \A v \in Workers \ {w} :
    pc'[v] = pc[v] /\ idx'[v] = idx[v] /\ local'[v] = local[v]

(* A step of worker w: it is enough to look at w.                          *)
LEMMA WorkerMoves ==
    ASSUME TypeInv, TypeInv', Grows, ProjectedInv, NEW w \in Workers, OthersStay(w),
           committed' = committed, InHand(w)', Done(Processed(w))'
    PROVE  ProjectedInv'
<1>1. ASSUME NEW v \in Workers \ {w}
      PROVE  InHand(v)' /\ Done(Processed(v))'
  BY <1>1, WorkerStays DEF ProjectedInv, OthersStay
<1>2. Done(committed)'
  <2>1. committed \in Int /\ committed <= Len(log) /\ Done(committed)
    BY DEF TypeInv, LogType, ProjectedInv
  <2> QED
    BY <2>1, DoneStays DEF Done
<1> QED
  BY <1>1, <1>2 DEF ProjectedInv

(* The message in hand is one of the log.                                  *)
LEMMA MessageInHand ==
    ASSUME TypeInv, NEW w \in Workers, pc[w] # "idle"
    PROVE  /\ idx[w] \in 1..Len(log)
           /\ msg(w) \in Reports /\ msg(w).rev \in 2..rev /\ msg(w).attested \in {0, msg(w).rev}
<1>1. idx[w] \in 1..Len(log)
  BY DEF TypeInv, WorkType
<1> QED
  BY <1>1 DEF TypeInv, LogType, msg

(* A step within the handling of one message: it is enough to look at the  *)
(* stage that the worker comes to.                                         *)
LEMMA HandlingMoves ==
    ASSUME TypeInv, TypeInv', Grows, ProjectedInv, NEW w \in Workers, OthersStay(w),
           committed' = committed, pc[w] # "idle", pc'[w] # "idle", idx'[w] = idx[w],
           \A m \in Reports : /\ msg(w) = m /\ m.rev \in 2..rev /\ m.attested \in {0, m.rev}
                              /\ StageOf(w, m)
                              => StageOf(w, m)'
    PROVE  ProjectedInv'
<1>1. idx[w] \in 1..Len(log) /\ Len(log) \in Nat
  <2>1. idx[w] \in 1..Len(log)
    BY MessageInHand
  <2>2. Len(log) \in Nat
    BY DEF TypeInv, LogType
  <2> QED
    BY <2>1, <2>2
<1>2. InHand(w)'
  <2> SUFFICES ASSUME NEW m \in Reports, msg(w)' = m
               PROVE  StageOf(w, m)'
    BY DEF InHand
  <2>1. msg(w) = m /\ m.rev \in 2..rev /\ m.attested \in {0, m.rev}
    BY <1>1, LogStays DEF msg
  <2>2. StageOf(w, m)
    BY <2>1 DEF ProjectedInv, InHand
  <2> QED
    BY <2>1, <2>2
<1>3. Done(Processed(w))'
  <2>1. PICK n : n = idx[w] - 1
    OBVIOUS
  <2>2. Processed(w) = n /\ Processed(w)' = n /\ n \in Int /\ n <= Len(log)
    BY <1>1, <2>1 DEF Processed
  <2>3. Done(n)
    BY <2>2 DEF ProjectedInv
  <2>4. Done(n)'
    BY <2>2, <2>3, DoneStays
  <2> QED
    BY <2>2, <2>4 DEF Done
<1> QED
  BY <1>2, <1>3, WorkerMoves

LEMMA ProjectedStep == TypeInv /\ NodeInv /\ ProjectedInv /\ [Next]_vars => ProjectedInv'
<1> SUFFICES ASSUME TypeInv, NodeInv, ProjectedInv, [Next]_vars
             PROVE  ProjectedInv'
  OBVIOUS
<1>0. TypeInv' /\ Grows
  BY TypeStep
<1>t. /\ pc \in [Workers -> Stages] /\ idx \in [Workers -> 0..Len(log)]
      /\ local \in [Workers -> [rev : Nat, val : Contents]]
      /\ Len(log) \in Nat /\ rev \in Nat /\ compacted \in Nat /\ current.rev \in Nat
      /\ committed \in 0..Len(log)
  BY DEF TypeInv, StoreType, WorkType, LogType, TableType, rev
<1>1. CASE UNCHANGED <<work, committed>>
  <2>1. \A v \in Workers : InHand(v)' /\ Done(Processed(v))'
    BY <1>0, <1>1, WorkerStays DEF ProjectedInv, work
  <2>2. Done(committed)'
    <3>1. PICK n : n = committed
      OBVIOUS
    <3>2. committed' = n /\ n \in Int /\ n <= Len(log) /\ Done(n)
      BY <1>1, <1>t, <3>1 DEF ProjectedInv
    <3>3. Done(n)'
      BY <1>0, <3>2, DoneStays
    <3> QED
      BY <3>2, <3>3 DEF Done
  <2> QED
    BY <2>1, <2>2 DEF ProjectedInv
<1>2. ASSUME NEW w \in Workers, Fetch(w)
      PROVE  ProjectedInv'
  <2>1. /\ OthersStay(w) /\ committed' = committed
        /\ pc[w] = "idle" /\ pc'[w] = "audit" /\ idx'[w] = idx[w] + 1
    BY <1>2, <1>t DEF Fetch, Goto, OthersStay
  <2>2. InHand(w)'
    BY <2>1 DEF InHand, StageOf
  <2>3. PICK n : n = idx[w]
    OBVIOUS
  <2>4. Processed(w) = n /\ Processed(w)' = n /\ n \in Int /\ n <= Len(log)
    BY <2>1, <2>3, <1>t DEF Processed
  <2>5. Done(n)'
    BY <1>0, <2>4, DoneStays DEF ProjectedInv
  <2> QED
    BY <1>0, <2>1, <2>2, <2>4, <2>5, WorkerMoves DEF Done
<1>3. ASSUME NEW w \in Workers, Audit(w)
      PROVE  ProjectedInv'
  <2>1. /\ OthersStay(w) /\ committed' = committed
        /\ pc[w] = "audit" /\ pc'[w] = (IF msg(w).ok THEN "read" ELSE "prev") /\ idx'[w] = idx[w]
    BY <1>3, <1>t DEF Audit, Goto, OthersStay
  <2>2. ASSUME NEW m \in Reports, msg(w) = m
        PROVE  StageOf(w, m)'
    <3>1. Audited(m)'
      BY <1>3, <2>2 DEF Audit, Audited, Logged
    <3> QED
      BY <2>1, <2>2, <3>1 DEF StageOf
  <2> QED
    BY <1>0, <2>1, <2>2, HandlingMoves
<1>4. ASSUME NEW w \in Workers, ReadConfirmed(w)
      PROVE  ProjectedInv'
  <2>1. /\ OthersStay(w) /\ committed' = committed
        /\ pc[w] = "read" /\ pc'[w] \in {"mark", "upsert"} /\ idx'[w] = idx[w]
        /\ pc'[w] = "upsert" => local'[w] = ConfirmedConfig(msg(w).attested)
        /\ pc'[w] = "mark" <=> ConfirmedConfig(msg(w).attested).val = Absent
        /\ UNCHANGED <<etcd, events>>
    BY <1>4, <1>t DEF ReadConfirmed, Goto, OthersStay, db
  <2>2. ASSUME NEW m \in Reports, msg(w) = m, m.rev \in 2..rev, m.attested \in {0, m.rev},
               StageOf(w, m)
        PROVE  StageOf(w, m)'
    <3>1. m.ok /\ Audited(m)
      BY <2>1, <2>2 DEF StageOf
    <3>2. Audited(m)'
      BY <1>0, <2>2, <3>1, ProjectedStays
    <3>3. pc'[w] = "mark" => Projected(m)'
      BY <1>t, <2>1, <2>2, <3>1, <3>2 DEF Projected, Shown, Retired, ConfirmedConfig, etcd
    <3>4. pc'[w] = "upsert" => /\ local'[w].val # Absent /\ local'[w].rev > 0
                               /\ m.attested > 0 => local'[w].rev = m.attested
      BY <1>t, <2>1, <2>2 DEF ConfirmedConfig, ModRevision, TypeInv, StoreType
    <3> QED
      BY <2>1, <2>2, <3>1, <3>2, <3>3, <3>4 DEF StageOf
  <2> QED
    BY <1>0, <2>1, <2>2, HandlingMoves
<1>5. ASSUME NEW w \in Workers, Upsert(w)
      PROVE  ProjectedInv'
  <2>1. /\ OthersStay(w) /\ committed' = committed
        /\ pc[w] = "upsert" /\ pc'[w] = "mark" /\ idx'[w] = idx[w]
        /\ current' = IF current.rev < local[w].rev THEN local[w] ELSE current
    BY <1>5, <1>t DEF Upsert, Goto, OthersStay
  <2>2. ASSUME NEW m \in Reports, msg(w) = m, m.rev \in 2..rev, m.attested \in {0, m.rev},
               StageOf(w, m)
        PROVE  StageOf(w, m)'
    <3>1. m.ok /\ Audited(m) /\ (m.attested > 0 => local[w].rev = m.attested)
      BY <2>1, <2>2 DEF StageOf
    <3>2. Audited(m)'
      BY <1>0, <2>2, <3>1, ProjectedStays
    <3>3. Shown(m)'
      BY <1>t, <2>1, <2>2, <3>1 DEF Shown
    <3> QED
      BY <2>1, <3>1, <3>2, <3>3 DEF StageOf, Projected, Retired
  <2> QED
    BY <1>0, <2>1, <2>2, HandlingMoves
<1>6. ASSUME NEW w \in Workers, ReadPrevious(w)
      PROVE  ProjectedInv'
  <2>1. /\ OthersStay(w) /\ committed' = committed
        /\ pc[w] = "prev" /\ pc'[w] = "cas" /\ idx'[w] = idx[w]
    BY <1>6, <1>t DEF ReadPrevious, Goto, OthersStay
  <2>2. ASSUME NEW m \in Reports, msg(w) = m, m.rev \in 2..rev, m.attested \in {0, m.rev},
               StageOf(w, m)
        PROVE  StageOf(w, m)'
    BY <1>0, <2>1, <2>2, ProjectedStays DEF StageOf
  <2> QED
    BY <1>0, <2>1, <2>2, HandlingMoves
<1>7. ASSUME NEW w \in Workers, Rollback(w)
      PROVE  ProjectedInv'
  <2> DEFINE r == GuardedRollback(local[w].val, cur, ModRevision, msg(w).arv, msg(w).rev)
  <2>1. /\ OthersStay(w) /\ committed' = committed
        /\ pc[w] = "cas" /\ pc'[w] = "record" /\ idx'[w] = idx[w]
        /\ hist' = IF r = Fail THEN hist ELSE Append(hist, r.val)
    BY <1>7, <1>t DEF Rollback, Goto, OthersStay
  <2>2. ASSUME NEW m \in Reports, msg(w) = m, m.rev \in 2..rev, m.attested \in {0, m.rev},
               StageOf(w, m)
        PROVE  StageOf(w, m)'
    <3>1. ~m.ok /\ Audited(m)
      BY <2>1, <2>2 DEF StageOf
    <3>2. Audited(m)'
      BY <1>0, <2>2, <3>1, ProjectedStays
    <3>3. ASSUME m.arv # NoRV
          PROVE  rev' > m.rev
      <4>1. CASE m.rev < rev
        BY <1>0, <1>t, <2>2, <4>1 DEF Grows, Extends, rev
      <4>2. CASE m.rev = rev
        <5>1. m \in Said
          BY <2>1, <2>2, MessageInHand DEF Said, msg
        <5>2. hist[m.rev] # Absent /\ m.arv = hist[m.rev].rv
          BY <3>3, <5>1 DEF NodeInv, ReportIsTrue
        <5>3. cur \in Values /\ cur.rv = m.arv /\ ModRevision = m.rev
          BY <4>2, <5>2, CurType DEF cur, ModRevision, Contents, TypeInv
        <5>4. local[w].val \in Contents /\ m.arv \in Nat /\ m.rev \in Nat
          BY <1>t, <2>2 DEF Reports
        <5>5. r # Fail
          BY <2>2, <3>3, <5>3, <5>4, CurrentIsRolledBack
        <5>6. r.val \in Contents
          BY <2>2, <5>3, <5>4, <5>5, RollbackContinues, CurType DEF Continues, TypeInv
        <5>7. hist \in Seq(Contents) /\ hist' = Append(hist, r.val)
          BY <2>1, <5>5 DEF TypeInv, StoreType
        <5> HIDE DEF r
        <5> QED
          BY <1>t, <4>2, <5>6, <5>7, AppendExtends DEF rev
      <4> QED
        BY <1>t, <2>2, <4>1, <4>2
    <3> QED
      BY <2>1, <3>1, <3>2, <3>3 DEF StageOf, Retired
  <2> QED
    BY <1>0, <2>1, <2>2, HandlingMoves
<1>8. ASSUME NEW w \in Workers, RecordFailure(w)
      PROVE  ProjectedInv'
  <2>1. /\ OthersStay(w) /\ committed' = committed
        /\ pc[w] = "record" /\ pc'[w] = "mark" /\ idx'[w] = idx[w]
    BY <1>8, <1>t DEF RecordFailure, Goto, OthersStay
  <2>2. ASSUME NEW m \in Reports, msg(w) = m, m.rev \in 2..rev, m.attested \in {0, m.rev},
               StageOf(w, m)
        PROVE  StageOf(w, m)'
    <3>1. ~m.ok /\ Audited(m) /\ Retired(m)
      BY <2>1, <2>2 DEF StageOf
    <3>2. Projected(m)
      BY <3>1 DEF Projected, Shown
    <3> QED
      BY <1>0, <2>1, <2>2, <3>1, <3>2, ProjectedStays DEF StageOf
  <2> QED
    BY <1>0, <2>1, <2>2, HandlingMoves
<1>9. ASSUME NEW w \in Workers, Mark(w)
      PROVE  ProjectedInv'
  <2>1. /\ OthersStay(w) /\ committed' = committed /\ log' = log
        /\ pc[w] = "mark" /\ pc'[w] = "idle" /\ idx'[w] = idx[w]
    BY <1>9, <1>t DEF Mark, Goto, OthersStay
  <2>2. InHand(w)'
    BY <2>1 DEF InHand
  <2>3. Done(idx[w])
    <3> SUFFICES ASSUME NEW i \in 1..idx[w], NEW m \in Reports, log[i] = m
                 PROVE  Projected(m)
      BY DEF Done
    <3>1. CASE i = idx[w]
      BY <2>1, <3>1 DEF ProjectedInv, InHand, StageOf, msg
    <3>2. CASE i # idx[w]
      <4>1. idx[w] \in Nat /\ i \in 1..(idx[w] - 1)
        BY <1>t, <3>2
      <4>2. Processed(w) = idx[w] - 1
        BY <2>1 DEF Processed
      <4>3. PICK n : n = idx[w] - 1
        OBVIOUS
      <4>4. Done(n)
        BY <4>2, <4>3 DEF ProjectedInv
      <4> QED
        BY <4>1, <4>3, <4>4 DEF Done
    <3> QED
      BY <3>1, <3>2
  <2>4. PICK n : n = idx[w]
    OBVIOUS
  <2>5. Processed(w)' = n /\ n \in Int /\ n <= Len(log)
    BY <1>t, <2>1, <2>4 DEF Processed
  <2>6. Done(n)'
    BY <1>0, <2>3, <2>4, <2>5, DoneStays
  <2> QED
    BY <1>0, <2>1, <2>2, <2>5, <2>6, WorkerMoves DEF Done
<1>10. ASSUME NEW w \in Workers, Flush(w)
       PROVE  ProjectedInv'
  <2>1. UNCHANGED work /\ committed' = Processed(w)
    BY <1>10 DEF Flush
  <2>2. \A v \in Workers : InHand(v)' /\ Done(Processed(v))'
    BY <1>0, <2>1, WorkerStays DEF ProjectedInv, work
  <2>3. committed' = Processed(w)'
    BY <2>1 DEF Processed, work
  <2> QED
    BY <2>2, <2>3 DEF ProjectedInv, Done
<1>11. ASSUME NEW w \in Workers, HandlerError(w)
       PROVE  ProjectedInv'
  <2>1. /\ OthersStay(w) /\ committed' = committed
        /\ pc[w] # "idle" /\ pc'[w] = "audit" /\ idx'[w] = idx[w]
    BY <1>11, <1>t DEF HandlerError, Goto, OthersStay
  <2>2. ASSUME NEW m \in Reports
        PROVE  StageOf(w, m)'
    BY <2>1 DEF StageOf
  <2> QED
    BY <1>0, <2>1, <2>2, HandlingMoves
<1>12. ASSUME NEW w \in Workers, Assign(w)
       PROVE  ProjectedInv'
  <2>1. /\ OthersStay(w) /\ committed' = committed
        /\ pc'[w] = "idle" /\ idx'[w] = committed
    BY <1>12, <1>t DEF Assign, Goto, OthersStay
  <2>2. InHand(w)'
    BY <2>1 DEF InHand
  <2>3. PICK n : n = committed
    OBVIOUS
  <2>4. Processed(w)' = n /\ n \in Int /\ n <= Len(log)
    BY <1>t, <2>1, <2>3 DEF Processed
  <2>5. Done(n)'
    BY <1>0, <2>3, <2>4, DoneStays DEF ProjectedInv
  <2> QED
    BY <1>0, <2>1, <2>2, <2>4, <2>5, WorkerMoves DEF Done
<1>13. OperatorWrite \/ DeleteFailedEvents \/ Compact \/ NodeApply \/ NodeRestate \/ Publish \/ UNCHANGED vars
         => UNCHANGED <<work, committed>>
  BY DEF OperatorWrite, DeleteFailedEvents, Compact, NodeApply, NodeRestate, Publish, vars
<1> QED
  BY <1>1, <1>2, <1>3, <1>4, <1>5, <1>6, <1>7, <1>8, <1>9, <1>10, <1>11, <1>12, <1>13
  DEF Next, Handle

-----------------------------------------------------------------------------
(* The chain of versions *)

(* A write that continues the chain keeps it.                              *)
LEMMA WriteKeepsChain ==
    ASSUME TypeInv, ResourceVersionChain, NEW r, Continues(r, cur), hist' = Append(hist, r.val)
    PROVE  ResourceVersionChain'
<1>1. hist \in Seq(Contents) /\ rev \in Nat /\ rev >= 1 /\ r.val \in Contents
  BY DEF TypeInv, StoreType, Continues, rev
<1>2. /\ rev' = rev + 1 /\ hist'[rev + 1] = r.val
      /\ \A k \in 1..rev : hist'[k] = hist[k]
  BY <1>1, AppendExtends DEF rev, Extends
<1> SUFFICES ASSUME NEW k \in 2..rev', hist'[k] # Absent
             PROVE  hist'[k].rv = NextRV(hist'[k - 1])
  BY DEF ResourceVersionChain
<1>k. k \in Int /\ (k \in 2..rev \/ k = rev + 1)
  BY <1>1, <1>2
<1>3. CASE k \in 2..rev
  <2>1. k \in 1..rev /\ k - 1 \in 1..rev
    BY <1>1, <1>3
  <2>2. hist'[k] = hist[k] /\ hist'[k - 1] = hist[k - 1]
    BY ONLY <1>2, <2>1
  <2> QED
    BY <1>3, <2>2 DEF ResourceVersionChain
<1>4. CASE k = rev + 1
  <2>1. k - 1 = rev /\ rev \in 1..rev
    BY <1>1, <1>4
  <2>2. hist'[k] = r.val /\ hist'[k - 1] = cur
    BY ONLY <1>2, <1>4, <2>1 DEF cur
  <2> QED
    BY <2>2 DEF Continues
<1> QED
  BY <1>k, <1>3, <1>4

LEMMA ChainStep == TypeInv /\ ResourceVersionChain /\ [Next]_vars => ResourceVersionChain'
<1> SUFFICES ASSUME TypeInv, ResourceVersionChain, [Next]_vars
             PROVE  ResourceVersionChain'
  OBVIOUS
<1>1. CASE OperatorWrite
  <2>1. PICK o \in OpMenu : Mutate(o, cur) # Fail /\ hist' = Append(hist, Mutate(o, cur).val)
    BY <1>1 DEF OperatorWrite
  <2>2. Continues(Mutate(o, cur), cur)
    BY <2>1, MutateContinues, CurType DEF TypeInv
  <2> QED
    BY <2>1, <2>2, WriteKeepsChain
<1>2. ASSUME NEW w \in Workers, Rollback(w)
      PROVE  ResourceVersionChain'
  <2> DEFINE r == GuardedRollback(local[w].val, cur, ModRevision, msg(w).arv, msg(w).rev)
  <2>1. pc[w] = "cas" /\ hist' = IF r = Fail THEN hist ELSE Append(hist, r.val)
    BY <1>2 DEF Rollback
  <2>2. msg(w) \in Reports /\ local[w].val \in Contents
    BY <2>1, MessageInHand DEF TypeInv, WorkType
  <2>3. msg(w).arv \in Nat /\ msg(w).rev \in Nat
    BY <2>2 DEF Reports
  <2>4. r # Fail => Continues(r, cur)
    BY <2>2, <2>3, RollbackContinues, CurType DEF TypeInv
  <2> HIDE DEF r
  <2>5. CASE r = Fail
    BY <2>1, <2>5 DEF ResourceVersionChain, rev
  <2>6. CASE r # Fail
    BY <2>1, <2>4, <2>6, WriteKeepsChain
  <2> QED
    BY <2>5, <2>6
<1>3. CASE UNCHANGED hist
  BY <1>3 DEF ResourceVersionChain, rev
<1>4. OperatorWrite \/ (\E w \in Workers : Rollback(w)) \/ UNCHANGED hist
  BY DEF Next, Handle, DeleteFailedEvents, Compact, NodeApply, NodeRestate, Publish, Fetch, Audit, ReadConfirmed, Upsert,
         ReadPrevious, RecordFailure, Mark, Flush, HandlerError, Assign, vars, etcd
<1> QED
  BY <1>1, <1>2, <1>3, <1>4

-----------------------------------------------------------------------------
(* The theorems that need nothing of the node *)

LifecycleInv == TypeInv /\ NodeInv /\ ProjectedInv /\ ResourceVersionChain

LEMMA LifecycleInit == Init => LifecycleInv
<1> SUFFICES ASSUME Init
             PROVE  LifecycleInv
  OBVIOUS
<1>1. TypeInv
  BY TypeInit
<1>2. NodeInv
  BY DEF Init, NodeInv, Said
<1>3. ProjectedInv
  BY DEF Init, ProjectedInv, InHand, Done, Processed
<1>4. ResourceVersionChain
  BY DEF Init, ResourceVersionChain, rev
<1> QED
  BY <1>1, <1>2, <1>3, <1>4 DEF LifecycleInv

LEMMA LifecycleStep == LifecycleInv /\ [Next]_vars => LifecycleInv' /\ Grows
  BY TypeStep, NodeStep, ProjectedStep, ChainStep DEF LifecycleInv

(* Projected messages are what the property asks for.                      *)
LEMMA LifecycleImplies == LifecycleInv => TypeOK /\ ResourceVersionChain /\ CommittedIsProjected
<1> SUFFICES ASSUME LifecycleInv
             PROVE  TypeOK /\ ResourceVersionChain /\ CommittedIsProjected
  OBVIOUS
<1>1. TypeOK /\ ResourceVersionChain
  BY TypeInvImplies DEF LifecycleInv
<1>2. ASSUME NEW i \in 1..committed
      PROVE  LET m == log[i] IN
             /\ (m.ok /\ m.restated) \/ m \in events \cup aux_cleared
             /\ m.ok /\ m.attested >= compacted /\ m.attested > 0 /\ hist[m.attested] # Absent
                  => current.rev >= m.attested
             /\ ~m.ok /\ m.arv # NoRV => ModRevision # m.rev
  <2>1. i \in 1..Len(log) /\ rev \in Nat
    BY DEF LifecycleInv, TypeInv, LogType, StoreType, rev
  <2>2. log[i] \in Reports /\ log[i].rev \in 2..rev
    BY <2>1 DEF LifecycleInv, TypeInv, LogType
  <2>3. Projected(log[i])
    BY <2>2 DEF LifecycleInv, ProjectedInv, Done
  <2> QED
    BY <2>1, <2>2, <2>3 DEF Projected, Audited, Logged, Shown, Retired, ModRevision
<1> QED
  BY <1>1, <1>2 DEF CommittedIsProjected

(* The state of etcd, node, topic, consumer and tables is well typed.      *)
THEOREM Typing == Spec => []TypeOK
  BY LifecycleInit, LifecycleStep, LifecycleImplies, PTL DEF Spec

(* Every write of the config key, by an operator or by a rollback that     *)
(* races it, continues the chain of resourceVersions (nextResourceVersion, *)
(* rollbackConfigValue).                                                   *)
THEOREM VersionChain == Spec => []ResourceVersionChain
  BY LifecycleInit, LifecycleStep, LifecycleImplies, PTL DEF Spec

(* Kafka's committed offset never passes a result that has not had its     *)
(* effect in PostgreSQL and etcd, whoever crashes, loses the partition or  *)
(* handles the message twice.                                              *)
THEOREM CommittedProjected == Spec => []CommittedIsProjected
  BY LifecycleInit, LifecycleStep, LifecycleImplies, PTL DEF Spec

-----------------------------------------------------------------------------
(* What is confirmed was applied *)

(* Only the transaction of a success changes the current view.             *)
LEMMA CurrentStep ==
    ASSUME [Next]_vars
    PROVE  current' = current \/ \E w \in Workers : Upsert(w)
  BY DEF Next, Handle, OperatorWrite, DeleteFailedEvents, Compact, NodeApply, NodeRestate, Publish, Fetch, Audit,
         ReadConfirmed, ReadPrevious, Rollback, RecordFailure, Mark, Flush, HandlerError, Assign,
         vars, db

LEMMA ConfirmedStep ==
    LifecycleInv /\ ConfirmedRevisionIsApplied /\ [Next]_vars => ConfirmedRevisionIsApplied'
<1> SUFFICES ASSUME LifecycleInv, ConfirmedRevisionIsApplied, [Next]_vars,
                    current' # NoRow, \A i \in 1..Len(log') : log'[i].attested > 0
             PROVE  current'.rev \in aux_ok'
  BY DEF ConfirmedRevisionIsApplied
<1>1. TypeInv /\ TypeInv' /\ Grows
  BY LifecycleStep DEF LifecycleInv
<1>2. \A i \in 1..Len(log) : log[i].attested > 0
  <2>1. \A i \in 1..Len(log) : i \in 1..Len(log') /\ log'[i] = log[i]
    BY <1>1 DEF Grows, Extends, TypeInv, LogType
  <2> QED
    BY <2>1
<1>3. CASE current' = current
  BY <1>1, <1>2, <1>3 DEF ConfirmedRevisionIsApplied, Grows
<1>4. ASSUME NEW w \in Workers, Upsert(w), current' # current
      PROVE  current'.rev \in aux_ok'
  <2>1. pc[w] = "upsert" /\ current' = local[w]
    BY <1>4 DEF Upsert
  <2>2. /\ idx[w] \in 1..Len(log) /\ msg(w) \in Reports
        /\ msg(w).rev \in 2..rev /\ msg(w).attested \in {0, msg(w).rev}
    BY <1>1, <2>1, MessageInHand
  <2>3. msg(w).attested > 0 /\ msg(w) \in Said
    BY <1>2, <2>2 DEF msg, Said
  <2>4. msg(w).ok /\ local[w].rev = msg(w).attested
    BY <2>1, <2>2, <2>3 DEF LifecycleInv, ProjectedInv, InHand, StageOf
  <2>5. msg(w).rev \in aux_ok
    BY <2>3, <2>4 DEF LifecycleInv, NodeInv, ReportIsTrue
  <2> QED
    BY <1>1, <2>1, <2>2, <2>3, <2>4, <2>5 DEF Grows
<1> QED
  BY <1>3, <1>4, CurrentStep

(* Whatever etcd compacts, and although a worker may read a newer content  *)
(* than the one that was attested, hsi_config_current names a revision     *)
(* that the node has applied, as long as the node attests.                 *)
THEOREM ConfirmedApplied == Spec => []ConfirmedRevisionIsApplied
<1>1. Init => ConfirmedRevisionIsApplied
  BY DEF Init, ConfirmedRevisionIsApplied
<1> QED
  BY <1>1, ConfirmedStep, LifecycleInit, LifecycleStep, PTL DEF Spec

(* The stronger claim, of a node that always attests and a history that is *)
(* not compacted: contents are those of the revision.                      *)
Applied(row) == row.rev \in aux_ok /\ row.val = hist[row.rev] /\ row.val # Absent

LocalApplied(w) ==
    pc[w] = "upsert" \/ (pc[w] = "cas" /\ local[w].val # Absent) => Applied(local[w])

HistoryApplied ==
    \A i \in 1..Len(history) : history[i].status = "success" => Applied(history[i])

AppliedInv ==
    /\ compacted = 0
    /\ \A w \in Workers : LocalApplied(w)
    /\ HistoryApplied
    /\ CurrentIsApplied

LEMMA AppliedStays ==
    ASSUME TypeInv, Grows
    PROVE  \A r \in aux_ok : r \in aux_ok' /\ hist'[r] = hist[r]
  BY DEF TypeInv, NodeType, Grows, Extends, rev

LEMMA LocalStays ==
    ASSUME TypeInv, Grows, NEW w \in Workers, LocalApplied(w),
           pc'[w] \in {"upsert", "cas"} => pc'[w] = pc[w] /\ local'[w] = local[w]
    PROVE  LocalApplied(w)'
  BY AppliedStays DEF LocalApplied, Applied

LEMMA HistoryStays ==
    ASSUME TypeInv, Grows, HistoryApplied, history' = history
    PROVE  HistoryApplied'
  BY AppliedStays DEF HistoryApplied, Applied

(* A row that is added is a failure, or of a revision that was applied.    *)
LEMMA HistoryGrows ==
    ASSUME TypeInv, Grows, HistoryApplied, NEW row \in Rows, history' = AppendHistory(history, row),
           row.status = "success" => Applied(row)
    PROVE  HistoryApplied'
<1> SUFFICES ASSUME NEW i \in 1..Len(history'), history'[i].status = "success"
             PROVE  /\ history'[i].rev \in aux_ok' /\ history'[i].val = hist'[history'[i].rev]
                    /\ history'[i].val # Absent
  BY DEF HistoryApplied, Applied
<1>1. history \in Seq(Rows)
  BY DEF TypeInv, TableType
<1>2. history'[i] = row \/ \E j \in 1..Len(history) : history'[i] = history[j]
  BY <1>1, AppendHistoryType
<1>3. CASE history'[i] = row
  BY <1>3, AppliedStays DEF Applied
<1>4. ASSUME NEW j \in 1..Len(history), history'[i] = history[j]
      PROVE  /\ history'[i].rev \in aux_ok' /\ history'[i].val = hist'[history'[i].rev]
             /\ history'[i].val # Absent
  BY <1>4, AppliedStays DEF HistoryApplied, Applied
<1> QED
  BY <1>2, <1>3, <1>4

LEMMA CurrentStays ==
    ASSUME TypeInv, Grows, CurrentIsApplied,
           current' = current \/ (Applied(current') /\ UNCHANGED <<hist, aux_ok>>)
    PROVE  CurrentIsApplied'
  BY AppliedStays DEF CurrentIsApplied, Applied

LEMMA AppliedStep ==
    ASSUME FALSE \notin Attests, Compaction = FALSE
    PROVE  LifecycleInv /\ AppliedInv /\ [Next]_vars => AppliedInv'
<1> SUFFICES ASSUME LifecycleInv, AppliedInv, [Next]_vars
             PROVE  AppliedInv'
  OBVIOUS
<1>0. TypeInv /\ TypeInv' /\ Grows
  BY LifecycleStep DEF LifecycleInv
<1>t. pc \in [Workers -> Stages] /\ local \in [Workers -> [rev : Nat, val : Contents]]
  BY <1>0 DEF TypeInv, WorkType
<1>1. ASSUME NEW w \in Workers, ReadConfirmed(w)
      PROVE  AppliedInv'
  <2>1. /\ pc[w] = "read" /\ UNCHANGED <<hist, aux_ok, compacted, history, current>>
        /\ \A v \in Workers \ {w} : pc'[v] = pc[v] /\ local'[v] = local[v]
        /\ pc'[w] # "cas"
        /\ pc'[w] = "upsert" => /\ ConfirmedConfig(msg(w).attested).val # Absent
                                /\ local'[w] = ConfirmedConfig(msg(w).attested)
    BY <1>1, <1>t DEF ReadConfirmed, Goto, etcd, db, node
  <2>2. /\ idx[w] \in 1..Len(log) /\ msg(w) \in Reports /\ msg(w).rev \in 2..rev /\ msg(w) \in Said
    BY <1>0, <2>1, MessageInHand DEF Said, msg
  <2>3. msg(w).ok
    BY <2>1, <2>2 DEF LifecycleInv, ProjectedInv, InHand, StageOf
  <2>4. msg(w).rev \in aux_ok /\ msg(w).attested = msg(w).rev
    BY <2>2, <2>3 DEF LifecycleInv, NodeInv, ReportIsTrue
  <2>5. ConfirmedConfig(msg(w).attested) = [rev |-> msg(w).rev, val |-> hist[msg(w).rev]]
    BY <2>2, <2>4 DEF AppliedInv, ConfirmedConfig
  <2>6. LocalApplied(w)'
    BY <2>1, <2>4, <2>5 DEF Applied, LocalApplied
  <2>7. \A v \in Workers : LocalApplied(v)'
    BY <1>0, <2>1, <2>6, LocalStays DEF AppliedInv
  <2> QED
    BY <1>0, <2>1, <2>7, HistoryStays, CurrentStays DEF AppliedInv
<1>2. ASSUME NEW w \in Workers, Upsert(w)
      PROVE  AppliedInv'
  <2>1. /\ pc[w] = "upsert" /\ UNCHANGED <<hist, aux_ok, compacted>>
        /\ \A v \in Workers : pc'[v] \in {"upsert", "cas"} => pc'[v] = pc[v] /\ local'[v] = local[v]
        /\ current' = current \/ current' = local[w]
        /\ history' = AppendHistory(history,
                        [rev |-> local[w].rev, status |-> "success", val |-> local[w].val])
    BY <1>2, <1>t DEF Upsert, Goto, etcd, node
  <2>2. Applied(local[w])
    BY <2>1 DEF AppliedInv, LocalApplied
  <2>3. CurrentIsApplied'
    BY <2>1, <2>2 DEF AppliedInv, CurrentIsApplied, Applied
  <2>4. PICK row : row = [rev |-> local[w].rev, status |-> "success", val |-> local[w].val]
    OBVIOUS
  <2>5. row \in Rows /\ row.rev = local[w].rev /\ row.val = local[w].val
    BY <1>t, <2>4 DEF Rows, Contents
  <2>6. HistoryApplied'
    BY <1>0, <2>1, <2>2, <2>4, <2>5, HistoryGrows DEF AppliedInv, Applied
  <2>7. \A v \in Workers : LocalApplied(v)'
    BY <1>0, <2>1, LocalStays DEF AppliedInv
  <2> QED
    BY <2>1, <2>3, <2>6, <2>7 DEF AppliedInv
<1>3. ASSUME NEW w \in Workers, ReadPrevious(w)
      PROVE  AppliedInv'
  <2>1. /\ UNCHANGED <<hist, aux_ok, compacted, history, current>>
        /\ \A v \in Workers \ {w} : pc'[v] = pc[v] /\ local'[v] = local[v]
        /\ pc'[w] = "cas" /\ local'[w] = LastSuccessful(history)
    BY <1>3, <1>t DEF ReadPrevious, Goto, etcd, db, node
  <2>2. LocalApplied(w)'
    <3>1. CASE LastSuccessful(history) = NoRow
      BY <2>1, <3>1 DEF LocalApplied, NoRow
    <3>2. ASSUME NEW i \in 1..Len(history), history[i].status = "success",
                 LastSuccessful(history) = [rev |-> history[i].rev, val |-> history[i].val]
          PROVE  LocalApplied(w)'
      BY <2>1, <3>2 DEF AppliedInv, HistoryApplied, Applied, LocalApplied
    <3>3. history \in Seq(Rows)
      BY <1>0 DEF TypeInv, TableType
    <3> QED
      BY <3>1, <3>2, <3>3, LastSuccessfulType
  <2>3. \A v \in Workers : LocalApplied(v)'
    BY <1>0, <2>1, <2>2, LocalStays DEF AppliedInv
  <2> QED
    BY <1>0, <2>1, <2>3, HistoryStays, CurrentStays DEF AppliedInv
<1>4. ASSUME NEW w \in Workers, RecordFailure(w)
      PROVE  AppliedInv'
  <2>1. PICK row : row = [rev |-> 0, status |-> "failed", val |-> Absent]
    OBVIOUS
  <2>2. /\ UNCHANGED <<compacted, current, local>> /\ history' = AppendHistory(history, row)
        /\ \A v \in Workers : pc'[v] = pc[v] \/ pc'[v] = "mark"
    BY <1>4, <1>t, <2>1 DEF RecordFailure, Goto, etcd
  <2>3. row \in Rows /\ row.status = "failed"
    BY <2>1 DEF Rows
  <2>4. HistoryApplied'
    BY <1>0, <2>2, <2>3, HistoryGrows DEF AppliedInv
  <2>5. \A v \in Workers : LocalApplied(v)'
    BY <1>0, <2>2, LocalStays DEF AppliedInv
  <2> QED
    BY <1>0, <2>2, <2>4, <2>5, CurrentStays DEF AppliedInv
<1>5. ASSUME UNCHANGED <<compacted, history, current>>,
             \A v \in Workers : pc'[v] \in {"upsert", "cas"} => pc'[v] = pc[v] /\ local'[v] = local[v]
      PROVE  AppliedInv'
  <2>1. \A v \in Workers : LocalApplied(v)'
    BY <1>0, <1>5, LocalStays DEF AppliedInv
  <2> QED
    BY <1>0, <1>5, <2>1, HistoryStays, CurrentStays DEF AppliedInv
<1>6. ASSUME NEW w \in Workers, Fetch(w) \/ Audit(w) \/ Rollback(w)
      PROVE  AppliedInv'
  BY <1>5, <1>6, <1>t DEF Fetch, Audit, Rollback, Goto, etcd, db
<1>7. ASSUME NEW w \in Workers, Mark(w) \/ Flush(w) \/ HandlerError(w) \/ Assign(w)
      PROVE  AppliedInv'
  BY <1>5, <1>7, <1>t DEF Mark, Flush, HandlerError, Assign, Goto, etcd, work, db
<1>8. CASE OperatorWrite \/ DeleteFailedEvents \/ NodeApply \/ NodeRestate \/ Publish \/ UNCHANGED vars
  BY <1>5, <1>8 DEF OperatorWrite, DeleteFailedEvents, NodeApply, NodeRestate, Publish, vars, etcd, work, db
<1>9. ~Compact
  BY DEF Compact
<1> QED
  BY <1>1, <1>2, <1>3, <1>4, <1>6, <1>7, <1>8, <1>9 DEF Next, Handle

(* A node that always attests, and a history that is never compacted: the  *)
(* current view holds what was applied, content included.                  *)
THEOREM CurrentApplied ==
    ASSUME FALSE \notin Attests, Compaction = FALSE
    PROVE  Spec => []CurrentIsApplied
<1>1. Init => AppliedInv
  BY DEF Init, AppliedInv, LocalApplied, HistoryApplied, CurrentIsApplied
<1>2. AppliedInv => CurrentIsApplied
  BY DEF AppliedInv
<1> QED
  BY <1>1, <1>2, AppliedStep, LifecycleInit, LifecycleStep, PTL DEF Spec

-----------------------------------------------------------------------------
(* Rollbacks *)

(* The one step that rolls back, of a failure that the worker has in hand. *)
LEMMA RollsBackStep ==
    ASSUME LifecycleInv, [Next]_vars, NEW w \in Workers, RollsBack(w)
    PROVE  /\ msg(w) \in Said /\ msg(w) \in Reports /\ msg(w).rev \in 2..rev /\ ~msg(w).ok
           /\ local[w].val \in Contents /\ cur \in Contents /\ ModRevision \in Nat
           /\ GuardedRollback(local[w].val, cur, ModRevision, msg(w).arv, msg(w).rev) # Fail
           /\ hist' = Append(hist, GuardedRollback(local[w].val, cur, ModRevision,
                                                   msg(w).arv, msg(w).rev).val)
<1>0. TypeInv /\ pc \in [Workers -> Stages] /\ pc[w] = "cas" /\ hist' # hist /\ pc'[w] = "record"
  BY DEF LifecycleInv, TypeInv, WorkType, RollsBack
<1>1. Rollback(w)
  <2>1. OperatorWrite \/ \E v \in Workers : Rollback(v)
    BY <1>0 DEF Next, Handle, DeleteFailedEvents, Compact, NodeApply, NodeRestate, Publish, Fetch, Audit, ReadConfirmed,
         Upsert, ReadPrevious, RecordFailure, Mark, Flush, HandlerError, Assign, vars, etcd
  <2>2. ~OperatorWrite
    BY <1>0 DEF OperatorWrite, work
  <2>3. ASSUME NEW v \in Workers, Rollback(v), v # w
        PROVE  FALSE
    BY <1>0, <2>3 DEF Rollback, Goto
  <2> QED
    BY <2>1, <2>2, <2>3
<1>2. /\ idx[w] \in 1..Len(log) /\ msg(w) \in Reports /\ msg(w).rev \in 2..rev
  BY <1>0, MessageInHand
<1>3. msg(w) \in Said
  BY <1>2 DEF Said, msg
<1>4. ~msg(w).ok
  BY <1>0, <1>2 DEF LifecycleInv, ProjectedInv, InHand, StageOf
<1>5. local[w].val \in Contents
  BY <1>0 DEF TypeInv, WorkType
<1> QED
  BY <1>0, <1>1, <1>2, <1>3, <1>4, <1>5, CurType DEF Rollback, TypeInv

LEMMA RollbackHitsStep ==
    LifecycleInv /\ [Next]_vars =>
      [\A w \in Workers : RollsBack(w) /\ msg(w).arv # NoRV => rev = msg(w).rev]_vars
<1> SUFFICES ASSUME LifecycleInv, [Next]_vars, NEW w \in Workers, RollsBack(w), msg(w).arv # NoRV
             PROVE  rev = msg(w).rev
  OBVIOUS
<1>1. /\ msg(w) \in Reports /\ msg(w).rev \in 2..rev
      /\ local[w].val \in Contents /\ cur \in Contents /\ ModRevision \in Nat
      /\ GuardedRollback(local[w].val, cur, ModRevision, msg(w).arv, msg(w).rev) # Fail
  BY RollsBackStep
<1>2. msg(w).arv \in Nat /\ msg(w).rev \in Nat /\ msg(w).rev # 0
  BY <1>1 DEF Reports
<1>3. msg(w).rev = ModRevision
  <2>1. PICK prev, v, mod, arv, corr : /\ prev = local[w].val /\ v = cur /\ mod = ModRevision
                                       /\ arv = msg(w).arv /\ corr = msg(w).rev
    OBVIOUS
  <2>2. /\ prev \in Contents /\ v \in Contents /\ mod \in Nat /\ arv \in Nat /\ corr \in Nat
        /\ GuardedRollback(prev, v, mod, arv, corr) # Fail
    BY <1>1, <1>2, <2>1
  <2>3. arv # NoRV /\ corr # 0 => corr = mod
    BY ONLY <2>2, RollbackContinues
  <2> QED
    BY <1>2, <2>1, <2>3
<1> QED
  BY <1>2, <1>3 DEF ModRevision

(* A report that names the version which failed never has another one      *)
(* rolled back: guardedRollbackMutation sees a newer write, and a          *)
(* recreated config with the same resourceVersion, whatever the node is.   *)
THEOREM RollbackHits == Spec => RollbackHitsFailedVersion
  BY RollbackHitsStep, LifecycleInit, LifecycleStep, PTL DEF Spec, RollbackHitsFailedVersion

(* What a rollback writes is the payload that the worker has read.         *)
LEMMA RestoredPayload ==
    ASSUME LifecycleInv, [Next]_vars, NEW w \in Workers, RollsBack(w), hist'[rev + 1] # Absent
    PROVE  local[w].val # Absent /\ Payload(hist'[rev + 1]) = Payload(local[w].val)
<1> DEFINE g == GuardedRollback(local[w].val, cur, ModRevision, msg(w).arv, msg(w).rev)
<1>1. /\ msg(w) \in Reports
      /\ local[w].val \in Contents /\ cur \in Contents /\ ModRevision \in Nat
      /\ g # Fail /\ hist' = Append(hist, g.val)
  BY RollsBackStep
<1>2. msg(w).arv \in Nat /\ msg(w).rev \in Nat
  BY <1>1 DEF Reports
<1>3. /\ g.val \in Contents
      /\ local[w].val = Absent => g.val = Absent
      /\ local[w].val # Absent => Payload(g.val) = Payload(local[w].val)
  <2>1. PICK prev, v, mod, arv, corr : /\ prev = local[w].val /\ v = cur /\ mod = ModRevision
                                       /\ arv = msg(w).arv /\ corr = msg(w).rev
    OBVIOUS
  <2>2. /\ prev \in Contents /\ v \in Contents /\ mod \in Nat /\ arv \in Nat /\ corr \in Nat
        /\ g = GuardedRollback(prev, v, mod, arv, corr) /\ g # Fail
    BY <1>1, <1>2, <2>1
  <2> HIDE DEF g
  <2>3. /\ Continues(g, v)
        /\ prev = Absent => g.val = Absent
        /\ prev # Absent => Payload(g.val) = Payload(prev)
    BY ONLY <2>2, RollbackContinues
  <2> QED
    BY <2>1, <2>3 DEF Continues
<1> HIDE DEF g
<1>4. hist'[rev + 1] = g.val
  BY <1>1, <1>3, AppendExtends DEF LifecycleInv, TypeInv, StoreType, rev
<1> QED
  BY <1>3, <1>4

LEMMA RollbackRestoresStep ==
    ASSUME FALSE \notin Attests, Compaction = FALSE
    PROVE  LifecycleInv /\ AppliedInv /\ [Next]_vars =>
             [\A w \in Workers : RollsBack(w) /\ hist'[rev + 1] # Absent =>
                \E r \in aux_ok : hist[r] # Absent /\ Payload(hist[r]) = Payload(hist'[rev + 1])]_vars
<1> SUFFICES ASSUME LifecycleInv, AppliedInv, [Next]_vars, NEW w \in Workers, RollsBack(w),
                    hist'[rev + 1] # Absent
             PROVE  \E r \in aux_ok : hist[r] # Absent /\ Payload(hist[r]) = Payload(hist'[rev + 1])
  OBVIOUS
<1>1. local[w].val # Absent /\ Payload(hist'[rev + 1]) = Payload(local[w].val)
  BY RestoredPayload
<1>2. Applied(local[w])
  BY <1>1 DEF AppliedInv, LocalApplied, RollsBack
<1> QED
  BY <1>1, <1>2 DEF Applied

(* Under the same two conditions what a rollback puts back was applied by  *)
(* the node with success, however long ago the consumer has read it.       *)
THEOREM RollbackRestores ==
    ASSUME FALSE \notin Attests, Compaction = FALSE
    PROVE  Spec => RollbackRestoresApplied
<1>1. Init => AppliedInv
  BY DEF Init, AppliedInv, LocalApplied, HistoryApplied, CurrentIsApplied
<1> QED
  BY <1>1, RollbackRestoresStep, AppliedStep, LifecycleInit, LifecycleStep, PTL
  DEF Spec, RollbackRestoresApplied

-----------------------------------------------------------------------------
(* Any node, any compaction *)

(* What the key has held at some revision.                                 *)
Held == {Absent} \cup {hist[r] : r \in 1..rev}

HeldInv ==
    /\ \A w \in Workers : local[w].val \in Held
    /\ \A i \in 1..Len(history) : history[i].val \in Held
    /\ current.val \in Held

LEMMA HeldStays ==
    ASSUME TypeInv, Grows
    PROVE  Held \subseteq Held'
<1> SUFFICES ASSUME NEW r \in 1..rev
             PROVE  hist[r] \in {hist'[s] : s \in 1..Len(hist')}
  BY DEF Held, rev
<1>1. r \in 1..Len(hist') /\ hist'[r] = hist[r]
  BY DEF TypeInv, StoreType, Grows, Extends, rev
<1> QED
  BY <1>1

(* readConfirmedConfig answers with a content that the key has held, also  *)
(* when it has to guess.                                                   *)
LEMMA ConfirmedIsHeld ==
    ASSUME TypeInv, NEW a \in 0..rev
    PROVE  ConfirmedConfig(a).val \in Held
<1>1. rev \in 1..rev /\ (a > 0 => a \in 1..rev)
  BY DEF TypeInv, StoreType, rev
<1>2. cur \in Held /\ (a > 0 => hist[a] \in Held)
  BY <1>1 DEF cur, Held
<1> QED
  BY <1>2 DEF ConfirmedConfig

LEMMA RowsAreHeld ==
    ASSUME NEW H, NEW h \in Seq(Rows), NEW row \in Rows, row.val \in H,
           \A i \in 1..Len(h) : h[i].val \in H
    PROVE  \A i \in 1..Len(AppendHistory(h, row)) : AppendHistory(h, row)[i].val \in H
<1> SUFFICES ASSUME NEW i \in 1..Len(AppendHistory(h, row))
             PROVE  AppendHistory(h, row)[i].val \in H
  OBVIOUS
<1>1. AppendHistory(h, row)[i] = row \/ \E j \in 1..Len(h) : AppendHistory(h, row)[i] = h[j]
  BY AppendHistoryType
<1> QED
  BY <1>1

LEMMA HeldStep == LifecycleInv /\ HeldInv /\ [Next]_vars => HeldInv'
<1> SUFFICES ASSUME LifecycleInv, HeldInv, [Next]_vars
             PROVE  HeldInv'
  OBVIOUS
<1>0. TypeInv /\ TypeInv' /\ Grows /\ Held \subseteq Held' /\ Absent \in Held
  BY LifecycleStep, HeldStays DEF LifecycleInv, Held
<1>t. /\ pc \in [Workers -> Stages] /\ local \in [Workers -> [rev : Nat, val : Contents]]
      /\ history \in Seq(Rows)
  BY <1>0 DEF TypeInv, WorkType, TableType
(* It is enough that every content in the new state was in the old one, or *)
(* was read from etcd.                                                     *)
<1>1. ASSUME \A w \in Workers : local'[w].val \in Held,
             \A i \in 1..Len(history') : history'[i].val \in Held,
             current'.val \in Held
      PROVE  HeldInv'
  BY <1>0, <1>1 DEF HeldInv
<1>2. ASSUME NEW w \in Workers, ReadConfirmed(w)
      PROVE  HeldInv'
  <2>1. pc[w] = "read" /\ UNCHANGED <<history, current>>
    BY <1>2 DEF ReadConfirmed, db
  <2>2. msg(w).attested \in 0..rev
    <3>1. msg(w) \in Reports /\ idx[w] \in 1..Len(log) /\ rev \in Nat
      BY <1>0, <2>1, MessageInHand DEF TypeInv, StoreType, rev
    <3>2. msg(w).rev \in 2..rev /\ msg(w).attested \in {0, msg(w).rev}
      BY <1>0, <3>1 DEF TypeInv, LogType, msg
    <3> QED
      BY <3>1, <3>2
  <2>3. PICK c : c = ConfirmedConfig(msg(w).attested)
    OBVIOUS
  <2>4. c.val \in Held
    BY <1>0, <2>2, <2>3, ConfirmedIsHeld
  <2>5. local' = local \/ local' = [local EXCEPT ![w] = c]
    BY <1>2, <2>3 DEF ReadConfirmed
  <2>6. \A v \in Workers : local'[v].val \in Held
    BY <1>t, <2>4, <2>5 DEF HeldInv
  <2> QED
    BY <1>1, <2>1, <2>6 DEF HeldInv
<1>3. ASSUME NEW w \in Workers, Upsert(w)
      PROVE  HeldInv'
  <2>1. PICK row : row = [rev |-> local[w].rev, status |-> "success", val |-> local[w].val]
    OBVIOUS
  <2>2. row \in Rows /\ row.val \in Held
    BY <1>t, <2>1 DEF Rows, Contents, HeldInv
  <2>3. /\ current' = current \/ current' = local[w]
        /\ history' = AppendHistory(history, row)
        /\ local' = [local EXCEPT ![w] = NoRow]
    BY <1>3, <2>1 DEF Upsert
  <2>4. PICK h : h = AppendHistory(history, row)
    OBVIOUS
  <2>5. \A i \in 1..Len(history') : history'[i].val \in Held
    <3>1. \A i \in 1..Len(h) : h[i].val \in Held
      BY <1>t, <2>2, <2>4, RowsAreHeld DEF HeldInv
    <3> QED
      BY <2>3, <2>4, <3>1
  <2>6. \A v \in Workers : local'[v].val \in Held
    BY <1>0, <1>t, <2>3 DEF HeldInv, NoRow
  <2> QED
    BY <1>1, <2>3, <2>5, <2>6 DEF HeldInv
<1>4. ASSUME NEW w \in Workers, ReadPrevious(w)
      PROVE  HeldInv'
  <2>1. UNCHANGED <<history, current>> /\ local' = [local EXCEPT ![w] = LastSuccessful(history)]
    BY <1>4 DEF ReadPrevious, db
  <2>2. LastSuccessful(history).val \in Held
    <3>1. CASE LastSuccessful(history) = NoRow
      BY <1>0, <3>1 DEF NoRow
    <3>2. ASSUME NEW i \in 1..Len(history),
                 LastSuccessful(history) = [rev |-> history[i].rev, val |-> history[i].val]
          PROVE  LastSuccessful(history).val \in Held
      BY <3>2 DEF HeldInv
    <3> QED
      BY <1>t, <3>1, <3>2, LastSuccessfulType
  <2>3. \A v \in Workers : local'[v].val \in Held
    BY <1>t, <2>1, <2>2 DEF HeldInv
  <2> QED
    BY <1>1, <2>1, <2>3 DEF HeldInv
<1>5. ASSUME NEW w \in Workers, RecordFailure(w)
      PROVE  HeldInv'
  <2>1. PICK row : row = [rev |-> 0, status |-> "failed", val |-> Absent]
    OBVIOUS
  <2>2. row \in Rows /\ row.val \in Held
    BY <1>0, <2>1 DEF Rows
  <2>3. UNCHANGED <<current, local>> /\ history' = AppendHistory(history, row)
    BY <1>5, <2>1 DEF RecordFailure
  <2>4. PICK h : h = AppendHistory(history, row)
    OBVIOUS
  <2>5. \A i \in 1..Len(history') : history'[i].val \in Held
    <3>1. \A i \in 1..Len(h) : h[i].val \in Held
      BY <1>t, <2>2, <2>4, RowsAreHeld DEF HeldInv
    <3> QED
      BY <2>3, <2>4, <3>1
  <2> QED
    BY <1>1, <2>3, <2>5 DEF HeldInv
(* The other steps read nothing and leave the tables alone.                *)
<1>6. ASSUME UNCHANGED <<history, current>>,
             \A v \in Workers : local'[v] = local[v] \/ local'[v] = NoRow
      PROVE  HeldInv'
  <2>1. \A v \in Workers : local'[v].val \in Held
    BY <1>0, <1>6 DEF HeldInv, NoRow
  <2> QED
    BY <1>1, <1>6, <2>1 DEF HeldInv
<1>7. ASSUME NEW w \in Workers, Fetch(w) \/ Audit(w) \/ Rollback(w) \/ Mark(w)
      PROVE  HeldInv'
  BY <1>6, <1>7, <1>t DEF Fetch, Audit, Rollback, Mark, db
<1>8. ASSUME NEW w \in Workers, Flush(w) \/ HandlerError(w) \/ Assign(w)
      PROVE  HeldInv'
  BY <1>6, <1>8, <1>t DEF Flush, HandlerError, Assign, work, db
<1>9. CASE \/ OperatorWrite \/ DeleteFailedEvents \/ Compact
           \/ NodeApply \/ NodeRestate \/ Publish \/ UNCHANGED vars
  BY <1>6, <1>9 DEF OperatorWrite, DeleteFailedEvents, Compact, NodeApply, NodeRestate, Publish, vars, work, db
<1> QED
  BY <1>2, <1>3, <1>4, <1>5, <1>7, <1>8, <1>9 DEF Next, Handle

LEMMA HeldInit == Init => HeldInv
<1> SUFFICES ASSUME Init
             PROVE  HeldInv
  OBVIOUS
<1>1. /\ \A w \in Workers : local[w] = NoRow
      /\ history = <<>> /\ current = NoRow
  BY DEF Init
<1> QED
  BY <1>1 DEF HeldInv, Held, NoRow

(* What hsi_config_current shows is a content that etcd has held, whatever *)
(* the nodes say of versions and whatever is compacted.                    *)
THEOREM CurrentHeld == Spec => [](current.val \in Held)
<1>1. HeldInv => current.val \in Held
  BY DEF HeldInv
<1> QED
  BY <1>1, HeldInit, HeldStep, LifecycleInit, LifecycleStep, PTL DEF Spec

(* So is what a rollback puts back, up to its new resourceVersion: where   *)
(* the consumer has to guess what a node has applied, it still never makes *)
(* a config up, mixes two, or restores one that nobody had pushed.         *)
RollbackRestoresHeld ==
    [][\A w \in Workers : RollsBack(w) /\ hist'[rev + 1] # Absent =>
         \E v \in Held \ {Absent} : Payload(v) = Payload(hist'[rev + 1])]_vars

LEMMA RollbackHeldStep ==
    LifecycleInv /\ HeldInv /\ [Next]_vars =>
      [\A w \in Workers : RollsBack(w) /\ hist'[rev + 1] # Absent =>
         \E v \in Held \ {Absent} : Payload(v) = Payload(hist'[rev + 1])]_vars
<1> SUFFICES ASSUME LifecycleInv, HeldInv, [Next]_vars, NEW w \in Workers, RollsBack(w),
                    hist'[rev + 1] # Absent
             PROVE  \E v \in Held \ {Absent} : Payload(v) = Payload(hist'[rev + 1])
  OBVIOUS
<1>1. local[w].val # Absent /\ Payload(hist'[rev + 1]) = Payload(local[w].val)
  BY RestoredPayload
<1>2. local[w].val \in Held
  BY DEF HeldInv
<1> QED
  BY <1>1, <1>2

THEOREM RollbackHeld == Spec => RollbackRestoresHeld
  BY RollbackHeldStep, HeldInit, HeldStep, LifecycleInit, LifecycleStep, PTL
  DEF Spec, RollbackRestoresHeld

-----------------------------------------------------------------------------
(* What the liveness properties reach, they keep *)

(* The ends of FailedVersionIsRetired and AttestationIsConfirmed, for a    *)
(* message that is on the topic.                                           *)
IsRetired(m)   == ModRevision # m.rev
IsConfirmed(m) == current.rev >= m.attested \/ compacted > m.attested

(* No step brings a version that was withdrawn back under its revision, or *)
(* takes back a confirmation: a crash, a redelivery or an older result     *)
(* that comes late does not either.                                        *)
OutcomesAreKept ==
    [][\A i \in 1..Len(log) : /\ IsRetired(log[i])   => IsRetired(log[i])'
                              /\ IsConfirmed(log[i]) => IsConfirmed(log[i])']_vars

LEMMA OutcomeStep ==
    ASSUME TypeInv, [Next]_vars, NEW i \in 1..Len(log)
    PROVE  /\ IsRetired(log[i])   => IsRetired(log[i])'
           /\ IsConfirmed(log[i]) => IsConfirmed(log[i])'
<1>1. Grows /\ TypeInv'
  BY TypeStep
<1>2. PICK m : m = log[i]
  OBVIOUS
<1>3. /\ log'[i] = m /\ m.rev \in 2..rev /\ m.attested \in Nat
  <2>1. log'[i] = m
    BY <1>1, <1>2 DEF Grows, Extends
  <2>2. m \in Reports /\ m.rev \in 2..rev
    BY <1>2 DEF TypeInv, LogType
  <2> QED
    BY <2>1, <2>2 DEF Reports
<1>4. /\ rev \in Nat /\ rev' \in Nat /\ rev <= rev' /\ compacted \in Nat /\ compacted' \in Nat
      /\ hist \in Seq(Contents) /\ hist' \in Seq(Contents)
  BY <1>1 DEF TypeInv, StoreType, Grows, Extends, rev
<1>5. IsRetired(log[i]) => IsRetired(log[i])'
  <2> SUFFICES ASSUME ModRevision # m.rev
               PROVE  ModRevision' # m.rev
    BY <1>2, <1>3 DEF IsRetired
  <2>1. ModRevision' \in {0, rev'}
    BY DEF ModRevision
  <2>2. CASE rev' = rev
    <3>1. hist'[rev'] = hist[rev]
      BY <1>1, <1>3, <1>4, <2>2 DEF Grows, Extends, rev
    <3>2. ModRevision' = IF hist'[rev'] = Absent THEN 0 ELSE rev'
      BY DEF ModRevision, cur
    <3>3. ModRevision = IF hist[rev] = Absent THEN 0 ELSE rev
      BY DEF ModRevision, cur
    <3> QED
      BY <2>2, <3>1, <3>2, <3>3
  <2>3. CASE rev' # rev
    BY <1>3, <1>4, <2>1, <2>3
  <2> QED
    BY <2>2, <2>3
<1>6. IsConfirmed(log[i]) => IsConfirmed(log[i])'
  <2>1. current.rev \in Nat /\ current'.rev \in Nat /\ current.rev <= current'.rev /\ compacted <= compacted'
    BY <1>1 DEF TypeInv, TableType, Grows
  <2> QED
    BY <1>2, <1>3, <1>4, <2>1 DEF IsConfirmed
<1> QED
  BY <1>5, <1>6

(* With the liveness that TLC checks this reads: in the end, and for good. *)
THEOREM OutcomeKept == Spec => OutcomesAreKept
<1>1. LifecycleInv /\ [Next]_vars =>
        [\A i \in 1..Len(log) : /\ IsRetired(log[i])   => IsRetired(log[i])'
                                /\ IsConfirmed(log[i]) => IsConfirmed(log[i])']_vars
  BY OutcomeStep DEF LifecycleInv
<1> QED
  BY <1>1, LifecycleInit, LifecycleStep, PTL DEF Spec, OutcomesAreKept

=============================================================================
