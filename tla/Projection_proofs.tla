-------------------------- MODULE Projection_proofs --------------------------
(* For any keys, any number of overlapping leaders, failures anywhere and  *)
(* any compaction: the checkpoint never passes a change that has no row,   *)
(* but for those that a reconcile stands for.                              *)
EXTENDS Projection, TLAPS

USE KeysAssumption, FlagsAssumption, BoundsAssumption

-----------------------------------------------------------------------------
(* Types *)

StoreType == hist \in Seq(Events) /\ rev > 0 /\ compacted \in 0..rev
TableType == rows \subseteq 1..rev /\ checkpoint \in 0..rev /\ aux_listed \in 0..rev /\ faults \in 0..MaxFaults
WorkType  ==
    /\ stage \in [Workers -> Stages]
    /\ pos \in [Workers -> 0..rev]
    /\ todo \in [Workers -> SUBSET (1..rev)]
    /\ fresh \in [Workers -> BOOLEAN]
    /\ \A w \in Workers : stage[w] = "row" => pos[w] > 0

TypeInv == StoreType /\ TableType /\ WorkType

LEMMA TypeInvImplies == TypeInv => TypeOK
  BY DEF TypeInv, TypeOK, StoreType, TableType, WorkType

(* What no step takes back: changes, rows and reconciled revisions.        *)
Grows ==
    /\ rev <= rev' /\ \A r \in 1..rev : hist'[r] = hist[r]
    /\ rows \subseteq rows'
    /\ aux_listed <= aux_listed'

LEMMA TypeInit == Init => TypeInv
<1> SUFFICES ASSUME Init
             PROVE  TypeInv
  OBVIOUS
<1>1. PICK k \in OtherKeys : hist = <<[key |-> k, deleted |-> FALSE]>>
  BY DEF Init
<1>2. hist \in Seq(Events) /\ rev = 1
  BY <1>1 DEF Events, Keys, rev
<1> QED
  BY <1>2 DEF Init, TypeInv, StoreType, TableType, WorkType, Stages, NoCheckpoint

LEMMA TypeStep == TypeInv /\ [Next]_vars => TypeInv' /\ Grows
<1> SUFFICES ASSUME TypeInv, [Next]_vars
             PROVE  TypeInv' /\ Grows
  OBVIOUS
<1>0. StoreType /\ TableType /\ WorkType /\ rev \in Nat
  BY DEF TypeInv, StoreType, rev
<1> USE DEF etcd, tables
<1>1. CASE Write
  <2>1. PICK k \in Keys, d \in BOOLEAN : hist' = Append(hist, [key |-> k, deleted |-> d])
    BY <1>1 DEF Write
  <2>2. PICK e : e = [key |-> k, deleted |-> d]
    OBVIOUS
  <2>3. e \in Events
    BY <2>2 DEF Events
  <2>4. hist' \in Seq(Events) /\ rev' = rev + 1 /\ \A r \in 1..rev : hist'[r] = hist[r]
    BY <1>0, <2>1, <2>2, <2>3 DEF StoreType, rev
  <2>5. UNCHANGED <<compacted, rows, checkpoint, aux_listed, stage, pos, todo, fresh, faults>>
    BY <1>1 DEF Write
  <2> QED
    BY <1>0, <2>4, <2>5 DEF TypeInv, StoreType, TableType, WorkType, Grows
<1>2. CASE Compact
  <2>1. rev' = rev
    BY <1>2 DEF Compact, rev
  <2> QED
    BY <1>0, <1>2, <2>1 DEF Compact, TypeInv, StoreType, TableType, WorkType, Grows
<1>3. ASSUME NEW w \in Workers, Step(w)
      PROVE  TypeInv' /\ Grows
  <2>1. UNCHANGED <<hist, compacted, faults>> /\ rev' = rev /\ StoreType'
    BY <1>0, <1>3 DEF Step, Elect, ReadProgress, List, AppendListed, SetListed, WatchCompacted, WatchEvent,
                      AppendEvent, SetProgress, StoreType, rev
  <2>2. pos[w] \in 0..rev /\ checkpoint \in 0..rev /\ todo[w] \subseteq 1..rev /\ Held \subseteq 1..rev
        /\ aux_listed \in 0..rev /\ (stage[w] = "row" => pos[w] > 0)
    BY <1>0 DEF WorkType, TableType, Held
  <2>3. TableType' /\ rows \subseteq rows' /\ aux_listed <= aux_listed'
    <3>1. CASE AppendListed(w)
      <4>1. rows' \subseteq rows \cup todo[w] /\ rows \subseteq rows' /\ UNCHANGED <<checkpoint, aux_listed>>
        BY <3>1 DEF AppendListed
      <4> QED
        BY <1>0, <2>1, <2>2, <4>1 DEF TableType
    <3>2. CASE SetListed(w)
      BY <1>0, <2>1, <2>2, <3>2 DEF SetListed, TableType
    <3>3. CASE AppendEvent(w)
      <4>1. rows' = rows \cup {pos[w]} /\ stage[w] = "row" /\ UNCHANGED <<checkpoint, aux_listed>>
        BY <3>3 DEF AppendEvent
      <4>2. pos[w] \in 1..rev
        BY <1>0, <2>2, <4>1
      <4>3. rows' \subseteq 1..rev
        BY <1>0, <4>1, <4>2 DEF TableType
      <4> QED
        BY <1>0, <2>1, <2>2, <4>1, <4>3 DEF TableType
    <3>4. CASE SetProgress(w)
      BY <1>0, <2>1, <2>2, <3>4 DEF SetProgress, TableType
    <3>5. CASE UNCHANGED tables
      BY <1>0, <2>1, <3>5 DEF TableType
    <3> QED
      BY <1>3, <3>1, <3>2, <3>3, <3>4, <3>5
      DEF Step, Elect, ReadProgress, List, WatchCompacted, WatchEvent
  <2>4. WorkType'
    <3>1. CASE Elect(w) \/ WatchCompacted(w) \/ AppendEvent(w) \/ SetProgress(w) \/ SetListed(w)
      BY <1>0, <2>1, <3>1
      DEF Elect, WatchCompacted, AppendEvent, SetProgress, SetListed, Goto, WorkType, Stages
    <3>2. CASE ReadProgress(w)
      BY <1>0, <2>1, <2>2, <3>2 DEF ReadProgress, Goto, WorkType, Stages
    <3>3. CASE List(w)
      <4>1. PICK l : l = {r \in Held : IsHsi(r)}
        OBVIOUS
      <4>2. l \in SUBSET (1..rev)
        BY <2>2, <4>1, Zenon
      <4>3. rev \in 0..rev
        BY <1>0
      <4> QED
        BY <1>0, <2>1, <3>3, <4>1, <4>2, <4>3 DEF List, Goto, WorkType, Stages
    <3>4. CASE AppendListed(w)
      BY <1>0, <2>1, <2>2, <3>4 DEF AppendListed, Goto, WorkType, Stages
    <3>5. CASE WatchEvent(w)
      BY <1>0, <2>1, <2>2, <3>5 DEF WatchEvent, Goto, WorkType, Stages
    <3> QED
      BY <1>3, <3>1, <3>2, <3>3, <3>4, <3>5 DEF Step
  <2> QED
    BY <1>0, <2>1, <2>3, <2>4 DEF TypeInv, Grows
<1>4. ASSUME NEW w \in Workers, Cancel(w) \/ Error(w)
      PROVE  TypeInv' /\ Grows
  <2>1. UNCHANGED <<hist, compacted, rows, checkpoint, aux_listed>> /\ rev' = rev
    BY <1>4 DEF Cancel, Error, rev
  <2>2. faults' \in 0..MaxFaults
    BY <1>0, <1>4 DEF Cancel, Error, TableType
  <2>3. WorkType'
    BY <1>0, <1>4, <2>1 DEF Cancel, Error, Goto, WorkType, Stages
  <2> QED
    BY <1>0, <2>1, <2>2, <2>3 DEF TypeInv, StoreType, TableType, Grows
<1>5. CASE UNCHANGED vars
  BY <1>0, <1>5 DEF vars, TypeInv, StoreType, TableType, WorkType, Grows, rev
<1> QED
  BY <1>1, <1>2, <1>3, <1>4, <1>5 DEF Next

-----------------------------------------------------------------------------
(* The inductive invariant *)

(* Change r has its row, or a reconcile stands for it.                     *)
Covered(r) ==
    IsHsi(r) => \/ r \in rows
                \/ r <= aux_listed /\ (hist[r].deleted \/ \E s \in Later(r) : s <= aux_listed)

UpTo(n) == \A r \in 1..n : Covered(r)

(* The same within a snapshot of revision n, of which l is still to do.    *)
Listed(n, l) ==
    \A r \in 1..n : IsHsi(r) =>
      r \in rows \/ r \in l \/ hist[r].deleted \/ \E s \in Later(r) : s <= n

(* What a worker may rely on in each stage, so that the checkpoint it will *)
(* write is safe whenever it gets to write it.                             *)
WorkerSafe(w) ==
    /\ stage[w] \in {"watch", "progress"} => UpTo(pos[w])
    /\ stage[w] = "row" => UpTo(pos[w] - 1)
    /\ stage[w] \in {"append", "listed"} => Listed(pos[w], todo[w])
    /\ stage[w] = "listed" => todo[w] = {}

IInv ==
    /\ TypeInv
    /\ UpTo(checkpoint)
    /\ \A w \in Workers : WorkerSafe(w)

(* Coverage is never lost.                                                 *)
LEMMA CoverageStays ==
    ASSUME TypeInv, TypeInv', Grows, NEW n \in Int, n <= rev
    PROVE  /\ UpTo(n) => UpTo(n)'
           /\ \A l : Listed(n, l) => Listed(n, l)'
<1>1. rev \in Nat /\ rev' \in Nat /\ aux_listed \in Nat /\ aux_listed' \in Nat
  BY DEF TypeInv, StoreType, TableType, rev
<1>2. ASSUME NEW r \in 1..n
      PROVE  /\ hist'[r] = hist[r] /\ IsHsi(r)' = IsHsi(r)
             /\ Later(r) \subseteq Later(r)'
  <2>1. r \in 1..rev /\ hist'[r] = hist[r]
    BY <1>1 DEF Grows
  <2>2. \A s \in (r + 1)..rev : s \in (r + 1)..rev' /\ hist'[s] = hist[s]
    BY <1>1, <2>1 DEF Grows
  <2> QED
    BY <2>1, <2>2 DEF IsHsi, Later
<1>3. ASSUME NEW r \in 1..n, Covered(r)
      PROVE  Covered(r)'
  <2>1. \A s \in Later(r) : s \in Nat
    BY <1>1 DEF Later
  <2> QED
    BY <1>1, <1>2, <1>3, <2>1 DEF Covered, Grows
<1>4. UpTo(n) => UpTo(n)'
  BY <1>3 DEF UpTo
<1>5. \A l : Listed(n, l) => Listed(n, l)'
  BY <1>2 DEF Listed, Grows
<1> QED
  BY <1>4, <1>5

LEMMA WorkerStays ==
    ASSUME TypeInv, TypeInv', Grows, NEW w \in Workers, WorkerSafe(w),
           stage'[w] \in {"off", "start", "list"}
             \/ (stage'[w] = stage[w] /\ pos'[w] = pos[w] /\ todo'[w] = todo[w])
    PROVE  WorkerSafe(w)'
<1>1. CASE stage'[w] \in {"off", "start", "list"}
  BY <1>1 DEF WorkerSafe
<1>2. CASE stage'[w] = stage[w] /\ pos'[w] = pos[w] /\ todo'[w] = todo[w]
  <2>1. PICK n, l : n = pos[w] /\ l = todo[w]
    OBVIOUS
  <2>2. n \in Int /\ n <= rev /\ n - 1 \in Int /\ n - 1 <= rev
    BY <2>1 DEF TypeInv, WorkType, StoreType, rev
  <2>3. (UpTo(n) => UpTo(n)') /\ (UpTo(n - 1) => UpTo(n - 1)') /\ (Listed(n, l) => Listed(n, l)')
    BY <2>2, CoverageStays
  <2> QED
    BY <1>2, <2>1, <2>3 DEF WorkerSafe
<1> QED
  BY <1>1, <1>2

-----------------------------------------------------------------------------
(* One worker's step; the others keep what they rely on.                   *)
LEMMA WorkerMoves ==
    ASSUME IInv, TypeInv', Grows, NEW w \in Workers, WorkerSafe(w)',
           \A v \in Workers \ {w} : stage'[v] = stage[v] /\ pos'[v] = pos[v] /\ todo'[v] = todo[v]
    PROVE  \A v \in Workers : WorkerSafe(v)'
  BY WorkerStays DEF IInv

LEMMA CheckpointStays ==
    ASSUME IInv, TypeInv', Grows, checkpoint' = checkpoint
    PROVE  UpTo(checkpoint)'
<1>1. PICK n : n = checkpoint
  OBVIOUS
<1>2. n \in Int /\ n <= rev
  BY <1>1 DEF IInv, TypeInv, TableType, StoreType, rev
<1> QED
  BY <1>1, <1>2, CoverageStays DEF IInv

LEMMA IInvStep == IInv /\ [Next]_vars => IInv'
<1> SUFFICES ASSUME IInv, [Next]_vars
             PROVE  IInv'
  OBVIOUS
<1>0. TypeInv /\ TypeInv' /\ Grows
  BY TypeStep DEF IInv
<1>t. /\ rev \in Nat /\ stage \in [Workers -> Stages] /\ pos \in [Workers -> 0..rev]
      /\ todo \in [Workers -> SUBSET (1..rev)] /\ checkpoint \in 0..rev
      /\ \A w \in Workers : stage[w] = "row" => pos[w] > 0
  BY <1>0 DEF TypeInv, WorkType, StoreType, TableType, rev
<1> USE DEF etcd, tables
(* Steps that make no new claim.                                           *)
<1>1. ASSUME checkpoint' = checkpoint,
             \A v \in Workers : stage'[v] \in {"off", "start", "list"}
               \/ (stage'[v] = stage[v] /\ pos'[v] = pos[v] /\ todo'[v] = todo[v])
      PROVE  IInv'
  <2>1. \A v \in Workers : WorkerSafe(v)'
    BY <1>0, <1>1, WorkerStays DEF IInv
  <2> QED
    BY <1>0, <1>1, <2>1, CheckpointStays DEF IInv
<1>2. CASE Write \/ Compact \/ UNCHANGED vars
  BY <1>1, <1>2 DEF Write, Compact, vars
<1>3. ASSUME NEW w \in Workers, Elect(w) \/ WatchCompacted(w) \/ Cancel(w) \/ Error(w)
      PROVE  IInv'
  BY <1>1, <1>3, <1>t DEF Elect, WatchCompacted, Cancel, Error, Goto
<1>4. ASSUME NEW w \in Workers, ReadProgress(w)
      PROVE  IInv'
  <2>1. /\ UNCHANGED <<hist, compacted, rows, checkpoint, aux_listed, todo>>
        /\ stage'[w] \in {"list", "watch"} /\ pos'[w] = checkpoint
        /\ \A v \in Workers \ {w} : stage'[v] = stage[v] /\ pos'[v] = pos[v]
    BY <1>4, <1>t DEF ReadProgress, Goto
  <2>2. UpTo(checkpoint)'
    BY <1>0, <2>1, CheckpointStays
  <2>3. WorkerSafe(w)'
    BY <2>1, <2>2 DEF WorkerSafe
  <2> QED
    BY <1>0, <2>1, <2>2, <2>3, WorkerMoves DEF IInv
<1>5. ASSUME NEW w \in Workers, List(w)
      PROVE  IInv'
  <2>1. /\ UNCHANGED <<hist, compacted, rows, checkpoint, aux_listed>>
        /\ stage'[w] = "append" /\ pos'[w] = rev /\ todo'[w] = {r \in Held : IsHsi(r)}
        /\ \A v \in Workers \ {w} : stage'[v] = stage[v] /\ pos'[v] = pos[v] /\ todo'[v] = todo[v]
    BY <1>5, <1>t DEF List, Goto
  <2>2. ASSUME NEW r \in 1..rev, IsHsi(r), r \notin Held, ~hist[r].deleted
        PROVE  \E s \in Later(r) : s <= rev
    <3>1. Later(r) # {} /\ \A s \in Later(r) : s <= rev
      BY <2>2 DEF Held, Later
    <3> QED
      BY <3>1
  <2>3. Listed(rev, {r \in Held : IsHsi(r)})
    BY <2>2 DEF Listed
  <2>4. WorkerSafe(w)'
    <3>1. Listed(pos'[w], todo'[w])
      BY <2>1, <2>3
    <3>2. Listed(pos[w], todo[w])'
      BY <2>1, <3>1 DEF Listed, IsHsi, Later, rev
    <3> QED
      BY <2>1, <3>2 DEF WorkerSafe
  <2> QED
    BY <1>0, <2>1, <2>4, WorkerMoves, CheckpointStays DEF IInv
<1>6. ASSUME NEW w \in Workers, AppendListed(w)
      PROVE  IInv'
  <2>1. /\ UNCHANGED <<hist, compacted, checkpoint, aux_listed, pos>> /\ stage[w] = "append"
        /\ stage'[w] \in {"append", "listed"} /\ todo[w] \ todo'[w] \subseteq rows'
        /\ stage'[w] = "listed" => todo'[w] = {}
        /\ \A v \in Workers \ {w} : stage'[v] = stage[v] /\ todo'[v] = todo[v]
    BY <1>6, <1>t DEF AppendListed, Goto
  <2>2. Listed(pos[w], todo[w])
    BY <2>1 DEF IInv, WorkerSafe
  <2>3. Listed(pos[w], todo[w])'
    BY <1>0, <2>1, <2>2 DEF Listed, IsHsi, Later, rev, Grows
  <2>4. WorkerSafe(w)'
    BY <2>1, <2>3 DEF WorkerSafe
  <2> QED
    BY <1>0, <2>1, <2>4, WorkerMoves, CheckpointStays DEF IInv
<1>7. ASSUME NEW w \in Workers, SetListed(w)
      PROVE  IInv'
  <2>1. /\ UNCHANGED <<hist, compacted, rows, pos, todo>> /\ stage[w] = "listed"
        /\ stage'[w] \in {"watch", "start"} /\ checkpoint' = pos[w]
        /\ \A v \in Workers \ {w} : stage'[v] = stage[v]
    BY <1>7, <1>t DEF SetListed, Goto
  <2>2. pos[w] <= aux_listed'
    BY <1>0, <1>7, <1>t DEF SetListed, TypeInv, TableType
  <2>3. Listed(pos[w], {})
    BY <2>1 DEF IInv, WorkerSafe
  <2>4. UpTo(pos[w])'
    <3> SUFFICES ASSUME NEW r \in 1..pos[w], IsHsi(r), r \notin rows
                 PROVE  r <= aux_listed' /\ (hist[r].deleted \/ \E s \in Later(r) : s <= aux_listed')
      BY <2>1 DEF UpTo, Covered, IsHsi, Later, rev
    <3>1. pos[w] \in Nat /\ aux_listed' \in Nat /\ \A s \in Later(r) : s \in Nat
      BY <1>0, <1>t DEF TypeInv, TableType, Later
    <3>2. hist[r].deleted \/ \E s \in Later(r) : s <= pos[w]
      BY <2>3 DEF Listed
    <3> QED
      BY <2>2, <3>1, <3>2
  <2>5. WorkerSafe(w)' /\ UpTo(checkpoint)'
    BY <2>1, <2>4 DEF WorkerSafe, UpTo
  <2> QED
    BY <1>0, <2>1, <2>5, WorkerMoves DEF IInv
<1>8. ASSUME NEW w \in Workers, WatchEvent(w)
      PROVE  IInv'
  <2>1. /\ UNCHANGED <<hist, compacted, rows, checkpoint, aux_listed, todo>> /\ stage[w] = "watch"
        /\ stage'[w] = IF IsHsi(pos[w] + 1) THEN "row" ELSE "progress"
        /\ pos'[w] = pos[w] + 1
        /\ \A v \in Workers \ {w} : stage'[v] = stage[v] /\ pos'[v] = pos[v]
    BY <1>8, <1>t DEF WatchEvent, Goto
  <2>2. UpTo(pos[w])
    BY <2>1 DEF IInv, WorkerSafe
  <2>3. \A r \in 1..pos[w] : Covered(r)'
    BY <2>1, <2>2 DEF UpTo, Covered, IsHsi, Later, rev
  <2>4. pos[w] \in Nat
    BY <1>t
  <2>5. stage'[w] = "progress" => Covered(pos[w])'
    BY <2>1 DEF Covered, IsHsi
  <2>6. /\ stage'[w] = "row" => UpTo(pos[w] - 1)'
        /\ stage'[w] = "progress" => UpTo(pos[w])'
    BY <2>1, <2>3, <2>4, <2>5 DEF UpTo
  <2>7. WorkerSafe(w)'
    BY <2>1, <2>6 DEF WorkerSafe
  <2> QED
    BY <1>0, <2>1, <2>7, WorkerMoves, CheckpointStays DEF IInv
<1>9. ASSUME NEW w \in Workers, AppendEvent(w)
      PROVE  IInv'
  <2>1. /\ UNCHANGED <<hist, compacted, checkpoint, aux_listed, pos, todo>> /\ stage[w] = "row"
        /\ stage'[w] = "progress" /\ rows' = rows \cup {pos[w]}
        /\ \A v \in Workers \ {w} : stage'[v] = stage[v]
    BY <1>9, <1>t DEF AppendEvent, Goto
  <2>2. UpTo(pos[w] - 1) /\ pos[w] \in Nat
    BY <1>t, <2>1 DEF IInv, WorkerSafe
  <2>3. \A r \in 1..(pos[w] - 1) : Covered(r)'
    BY <2>1, <2>2 DEF UpTo, Covered, IsHsi, Later, rev
  <2>4. Covered(pos[w])'
    BY <2>1 DEF Covered
  <2>5. UpTo(pos[w])'
    BY <2>1, <2>2, <2>3, <2>4 DEF UpTo
  <2>6. WorkerSafe(w)'
    BY <2>1, <2>5 DEF WorkerSafe
  <2> QED
    BY <1>0, <2>1, <2>6, WorkerMoves, CheckpointStays DEF IInv
<1>10. ASSUME NEW w \in Workers, SetProgress(w)
      PROVE  IInv'
  <2>1. /\ UNCHANGED <<hist, compacted, rows, aux_listed, pos, todo>> /\ stage[w] = "progress"
        /\ stage'[w] = "watch" /\ checkpoint' = pos[w]
        /\ \A v \in Workers \ {w} : stage'[v] = stage[v]
    BY <1>10, <1>t DEF SetProgress, Goto
  <2>2. UpTo(pos[w])
    BY <2>1 DEF IInv, WorkerSafe
  <2>3. UpTo(pos[w])' /\ UpTo(checkpoint)'
    BY <2>1, <2>2 DEF UpTo, Covered, IsHsi, Later, rev
  <2>4. WorkerSafe(w)'
    BY <2>1, <2>3 DEF WorkerSafe
  <2> QED
    BY <1>0, <2>1, <2>3, <2>4, WorkerMoves DEF IInv
<1> QED
  BY <1>2, <1>3, <1>4, <1>5, <1>6, <1>7, <1>8, <1>9, <1>10 DEF Next, Step

-----------------------------------------------------------------------------
LEMMA InitIInv == Init => IInv
<1> SUFFICES ASSUME Init
             PROVE  IInv
  OBVIOUS
<1>1. UpTo(checkpoint)
  BY DEF Init, UpTo, NoCheckpoint
<1>2. \A w \in Workers : WorkerSafe(w)
  BY DEF Init, WorkerSafe
<1> QED
  BY <1>1, <1>2, TypeInit DEF IInv

(* The state of store, tables and workers is well typed.                   *)
THEOREM Typing == Spec => []TypeOK
<1>1. IInv => TypeOK
  BY TypeInvImplies DEF IInv
<1> QED
  BY <1>1, InitIInv, IInvStep, PTL DEF Spec

(* However many leaders overlap, whatever fails between the row and the    *)
(* checkpoint (handleEvent) and whatever etcd compacts in between, nothing *)
(* below etcd_watch_progress is missing from hsi_config_history except     *)
(* what a later reconcile has replaced.                                    *)
THEOREM CheckpointCovered == Spec => []CheckpointIsCovered
<1>1. IInv => CheckpointIsCovered
  BY DEF IInv, UpTo, Covered, CheckpointIsCovered
<1> QED
  BY <1>1, InitIInv, IInvStep, PTL DEF Spec

=============================================================================
