--------------------------- MODULE HsiApi_proofs ---------------------------
(* For any users, VLANs, requests and faults: the admission checks of the  *)
(* HSI API leave no other way to a shared VLAN, or to a config beyond the  *)
(* subscriber count, than a write that had looked too early or not at all. *)
EXTENDS HsiApi, TLAPS

(* What a write that looked at the count at time `at' may rely on.         *)
CountSeen(u, at) ==
    (count # NoCount /\ u > count) => at = Unchecked \/ at < aux_countAt

(* The same for the VLANs.                                                 *)
VlanSeen(u, vlan, at) ==
    \A v \in Users : (v # u /\ cfg[v] = vlan) => at < aux_took[v].at

(* A request on its way holds what it needs, and has read in the past.     *)
RequestInv(q) ==
    /\ aux_read[q].count <= aux_n /\ aux_read[q].vlan <= aux_n
    /\ pc[q] = "vlan" => req[q] \in ConfigOps
    /\ pc[q] = "cas" => req[q] \in ConfigOps \cup DeleteOps
    /\ (pc[q] \in {"vlan", "cas"} /\ req[q] \in ConfigOps)
         => CountSeen(req[q].user, aux_read[q].count)
    /\ (pc[q] = "cas" /\ req[q] \in ConfigOps)
         => VlanSeen(req[q].user, req[q].vlan, aux_read[q].vlan)

Requests_Inv == \A q \in Requests : RequestInv(q)

(* Configs were written after what their writes had read.                  *)
TakenInv == \A u \in Users : aux_took[u].count <= aux_n

IInv == TypeOK /\ Requests_Inv /\ TakenInv /\ VlanClashIsARace /\ CountExcessIsARace

USE DEF NoCount, Unchecked
USE UsersAssumption, CountsAssumption, AbsentAssumption, BoundsAssumption

-----------------------------------------------------------------------------
(* What a commit does *)

(* The parts of TypeOK that speak of the store.                            *)
StoreType ==
    /\ cfg \in [Users -> Vlans \cup {Absent}]
    /\ held \in [Users -> SUBSET Vlans]
    /\ count \in Counts \cup {NoCount}
    /\ aux_n \in Nat /\ aux_countAt \in 0..aux_n
    /\ aux_took \in [Users -> Takes]
    /\ \A u \in Users : aux_took[u].at <= aux_n

(* What holds of the store between commits.                                *)
StoreInv == StoreType /\ TakenInv /\ VlanClashIsARace /\ CountExcessIsARace

(* A commit spoils nothing that a request has read before it.              *)
KeepsReads ==
    /\ aux_n <= aux_n'
    /\ \A u \in Users, at \in Int : (at <= aux_n /\ CountSeen(u, at)) => CountSeen(u, at)'
    /\ \A u \in Users, vlan \in Vlans, at \in Int :
         (at <= aux_n /\ VlanSeen(u, vlan, at)) => VlanSeen(u, vlan, at)'

(* A put keeps the store's invariants if its writer has seen count and     *)
(* VLANs, in the sense above.                                              *)
LEMMA PutKeeps ==
    ASSUME StoreInv, NEW u \in Users, NEW vlan \in Vlans, NEW checks \in Checks,
           checks.count <= aux_n, CountSeen(u, checks.count), VlanSeen(u, vlan, checks.vlan),
           Put(u, vlan, checks)
    PROVE  StoreInv' /\ KeepsReads
<1> DEFINE take == [at |-> aux_n + 1, count |-> checks.count, vlan |-> checks.vlan]
<1>1. /\ take \in Takes /\ aux_took' = [aux_took EXCEPT ![u] = take]
      /\ cfg' = [cfg EXCEPT ![u] = vlan] /\ aux_n' = aux_n + 1
      /\ count' = count /\ aux_countAt' = aux_countAt
      /\ held' = [held EXCEPT ![u] = @ \cup {vlan}]
  BY DEF Put, StoreInv, StoreType, Takes, Checks
<1> HIDE DEF take
<1>2. take.at = aux_n + 1 /\ take.count = checks.count /\ take.vlan = checks.vlan
  BY DEF take
<1>3. StoreType' /\ TakenInv'
  <2>1. \A v \in Users : aux_took'[v] = IF v = u THEN take ELSE aux_took[v]
    BY <1>1 DEF StoreInv, StoreType
  <2>2. \A v \in Users : aux_took[v].at \in Nat /\ aux_took[v].count \in Int
    BY DEF StoreInv, StoreType, Takes
  <2>3. \A v \in Users : aux_took'[v].at <= aux_n' /\ aux_took'[v].count <= aux_n'
    BY <1>1, <1>2, <2>1, <2>2 DEF StoreInv, StoreType, TakenInv, Checks
  <2> QED
    BY <1>1, <2>3 DEF StoreInv, StoreType, TakenInv
<1>4. VlanClashIsARace'
  <2> SUFFICES ASSUME NEW v \in Users, NEW w \in Users, v # w, cfg'[v] # Absent,
                      cfg'[v] = cfg'[w], aux_took'[v].at < aux_took'[w].at
               PROVE  aux_took'[w].vlan < aux_took'[v].at
    BY DEF VlanClashIsARace, MissedVlanOf
  <2>1. CASE w = u
    BY <2>1, <1>1, <1>2 DEF VlanSeen, StoreInv, StoreType, Takes, Checks
  <2>2. CASE v = u
    BY <2>2, <1>1, <1>2 DEF StoreInv, StoreType, Takes
  <2>3. CASE v # u /\ w # u
    BY <2>3, <1>1 DEF StoreInv, StoreType, VlanClashIsARace, MissedVlanOf
  <2> QED
    BY <2>1, <2>2, <2>3
<1>5. CountExcessIsARace'
  BY <1>1, <1>2 DEF CountExcessIsARace, CountSeen, StoreInv, StoreType
<1>6. KeepsReads
  <2>1. \A w \in Users, at \in Int : (at <= aux_n /\ CountSeen(w, at)) => CountSeen(w, at)'
    BY <1>1 DEF CountSeen
  <2>2. ASSUME NEW w \in Users, NEW l \in Vlans, NEW at \in Int, at <= aux_n, VlanSeen(w, l, at)
        PROVE  VlanSeen(w, l, at)'
    BY <2>2, <1>1, <1>2 DEF VlanSeen, StoreInv, StoreType
  <2>3. aux_n <= aux_n'
    BY <1>1 DEF StoreInv, StoreType
  <2> QED
    BY <2>1, <2>2, <2>3 DEF KeepsReads
<1> QED
  BY <1>3, <1>4, <1>5, <1>6 DEF StoreInv

(* So does a delete: it only takes a config away.                          *)
LEMMA DeleteKeeps ==
    ASSUME StoreInv, NEW u \in Users, Delete(u)
    PROVE  StoreInv' /\ KeepsReads
<1>1. /\ NotTaken \in Takes /\ NotTaken.at = 0 /\ NotTaken.count = -1
      /\ aux_took' = [aux_took EXCEPT ![u] = NotTaken]
      /\ cfg' = [cfg EXCEPT ![u] = Absent] /\ aux_n' = aux_n + 1
      /\ count' = count /\ aux_countAt' = aux_countAt /\ held' = held
  BY DEF Delete, NotTaken, Takes
<1>2. StoreType' /\ TakenInv'
  <2>1. \A v \in Users : aux_took'[v] = IF v = u THEN NotTaken ELSE aux_took[v]
    BY <1>1 DEF StoreInv, StoreType
  <2>2. \A v \in Users : aux_took[v].at \in Nat /\ aux_took[v].count \in Int
    BY DEF StoreInv, StoreType, Takes
  <2>3. \A v \in Users : aux_took'[v].at <= aux_n' /\ aux_took'[v].count <= aux_n'
    BY <1>1, <2>1, <2>2 DEF StoreInv, StoreType, TakenInv
  <2> QED
    BY <1>1, <2>3 DEF StoreInv, StoreType, TakenInv
<1>3. VlanClashIsARace'
  <2> SUFFICES ASSUME NEW v \in Users, NEW w \in Users, v # w, cfg'[v] # Absent,
                      cfg'[v] = cfg'[w], aux_took'[v].at < aux_took'[w].at
               PROVE  aux_took'[w].vlan < aux_took'[v].at
    BY DEF VlanClashIsARace, MissedVlanOf
  <2>1. v # u /\ w # u
    BY <1>1 DEF StoreInv, StoreType
  <2> QED
    BY <2>1, <1>1 DEF StoreInv, StoreType, VlanClashIsARace, MissedVlanOf
<1>4. CountExcessIsARace'
  BY <1>1 DEF CountExcessIsARace, StoreInv, StoreType
<1>5. KeepsReads
  <2>1. \A w \in Users, at \in Int : (at <= aux_n /\ CountSeen(w, at)) => CountSeen(w, at)'
    BY <1>1 DEF CountSeen
  <2>2. ASSUME NEW w \in Users, NEW l \in Vlans, NEW at \in Int, at <= aux_n, VlanSeen(w, l, at)
        PROVE  VlanSeen(w, l, at)'
    BY <2>2, <1>1 DEF VlanSeen, StoreInv, StoreType
  <2>3. aux_n <= aux_n'
    BY <1>1 DEF StoreInv, StoreType
  <2> QED
    BY <2>1, <2>2, <2>3 DEF KeepsReads
<1> QED
  BY <1>2, <1>3, <1>4, <1>5 DEF StoreInv

(* A new count comes after everything that has been read.                  *)
LEMMA SetCountKeeps ==
    ASSUME StoreInv, NEW value \in Counts, SetCount(value)
    PROVE  StoreInv' /\ KeepsReads
<1>1. /\ count' = value /\ aux_n' = aux_n + 1 /\ aux_countAt' = aux_n + 1
      /\ cfg' = cfg /\ held' = held /\ aux_took' = aux_took
  BY DEF SetCount
<1>2. \A v \in Users : aux_took[v].at \in Nat /\ aux_took[v].count \in Int
  BY DEF StoreInv, StoreType, Takes
<1>3. StoreType' /\ TakenInv'
  BY <1>1, <1>2 DEF StoreInv, StoreType, TakenInv
<1>4. VlanClashIsARace'
  BY <1>1 DEF StoreInv, VlanClashIsARace, MissedVlanOf
<1>5. CountExcessIsARace'
  BY <1>1, <1>2 DEF CountExcessIsARace, StoreInv, StoreType, TakenInv
<1>6. KeepsReads
  BY <1>1 DEF KeepsReads, CountSeen, VlanSeen, StoreInv, StoreType
<1> QED
  BY <1>3, <1>4, <1>5, <1>6 DEF StoreInv

(* A step that leaves the store alone keeps all of it.                     *)
LEMMA StoreUnchanged ==
    ASSUME StoreInv, UNCHANGED store
    PROVE  StoreInv' /\ KeepsReads
  BY DEF store, StoreInv, StoreType, TakenInv, VlanClashIsARace, MissedVlanOf,
         CountExcessIsARace, KeepsReads, CountSeen, VlanSeen

-----------------------------------------------------------------------------
(* The requests *)

HandlerType ==
    /\ pc \in [Requests -> {"idle", "vlan", "cas", "done"}]
    /\ req \in [Requests -> Ops \cup {NoRequest}]
    /\ aux_read \in [Requests -> Checks]

(* A request that stands still keeps its invariant through a commit.       *)
LEMMA RequestKept ==
    ASSUME HandlerType, aux_n \in Nat, aux_n' \in Nat, KeepsReads, NEW q \in Requests, RequestInv(q),
           pc'[q] = pc[q], req'[q] = req[q], aux_read'[q] = aux_read[q]
    PROVE  RequestInv(q)'
<1>1. aux_read[q].count \in Int /\ aux_read[q].vlan \in Int
  BY DEF HandlerType, Checks
<1>2. req[q] \in ConfigOps => req[q].user \in Users /\ req[q].vlan \in Vlans
  BY DEF ConfigOps
<1>3. aux_read'[q].count <= aux_n' /\ aux_read'[q].vlan <= aux_n'
  BY <1>1 DEF RequestInv, KeepsReads
<1>4. (pc'[q] = "vlan" => req'[q] \in ConfigOps) /\ (pc'[q] = "cas" => req'[q] \in ConfigOps \cup DeleteOps)
  BY DEF RequestInv
<1>5. ASSUME pc'[q] \in {"vlan", "cas"}, req'[q] \in ConfigOps
      PROVE  CountSeen(req[q].user, aux_read[q].count)'
  <2>1. CountSeen(req[q].user, aux_read[q].count)
    BY <1>5 DEF RequestInv
  <2> DEFINE u == req[q].user
             at == aux_read[q].count
  <2>2. CountSeen(u, at) /\ at <= aux_n /\ u \in Users /\ at \in Int
    BY <2>1, <1>1, <1>2, <1>5 DEF RequestInv
  <2>3. req'[q].user = u /\ aux_read'[q].count = at
    OBVIOUS
  <2> HIDE DEF u, at
  <2>4. (count' # NoCount /\ u > count') => at = Unchecked \/ at < aux_countAt'
    BY <2>2 DEF KeepsReads, CountSeen
  <2> QED
    BY <2>3, <2>4 DEF CountSeen
<1>6. ASSUME pc'[q] = "cas", req'[q] \in ConfigOps
      PROVE  VlanSeen(req[q].user, req[q].vlan, aux_read[q].vlan)'
  <2> DEFINE u == req[q].user
             l == req[q].vlan
             at == aux_read[q].vlan
  <2>1. VlanSeen(u, l, at) /\ at <= aux_n /\ u \in Users /\ l \in Vlans /\ at \in Int
    BY <1>1, <1>2, <1>6 DEF RequestInv
  <2>2. req'[q].user = u /\ req'[q].vlan = l /\ aux_read'[q].vlan = at
    OBVIOUS
  <2> HIDE DEF u, l, at
  <2>3. \A v \in Users : (v # u /\ cfg'[v] = l) => at < aux_took'[v].at
    BY <2>1 DEF KeepsReads, VlanSeen
  <2> QED
    BY <2>2, <2>3 DEF VlanSeen
<1> QED
  BY <1>3, <1>4, <1>5, <1>6 DEF RequestInv

(* One that is answered needs nothing any more.                            *)
LEMMA AnswerKeeps ==
    ASSUME HandlerType, aux_n \in Nat, aux_n' \in Nat, KeepsReads, Requests_Inv,
           NEW q \in Requests, Answer(q)
    PROVE  HandlerType' /\ Requests_Inv'
<1>1. /\ pc' = [pc EXCEPT ![q] = "done"]
      /\ req' = [req EXCEPT ![q] = NoRequest]
      /\ aux_read' = [aux_read EXCEPT ![q] = NoChecks]
      /\ NoChecks \in Checks /\ NoChecks.count = -1 /\ NoChecks.vlan = -1
  BY DEF Answer, Continue, NoChecks, Checks
<1>2. HandlerType'
  BY <1>1 DEF HandlerType
<1>3. RequestInv(q)'
  BY <1>1 DEF HandlerType, RequestInv
<1>4. ASSUME NEW p \in Requests, p # q
      PROVE  RequestInv(p)'
  BY <1>1, <1>4, RequestKept DEF HandlerType, Requests_Inv
<1> QED
  BY <1>2, <1>3, <1>4 DEF Requests_Inv

(* One that goes on brings the invariant of its next stage.                *)
LEMMA ContinueKeeps ==
    ASSUME HandlerType, aux_n \in Nat, UNCHANGED store, Requests_Inv, StoreInv,
           NEW q \in Requests, NEW stg \in {"vlan", "cas"}, NEW o \in Ops, NEW checks \in Checks,
           Continue(q, stg, o, checks),
           checks.count <= aux_n, checks.vlan <= aux_n,
           stg = "vlan" => o \in ConfigOps,
           o \in ConfigOps \cup DeleteOps,
           o \in ConfigOps => CountSeen(o.user, checks.count),
           (stg = "cas" /\ o \in ConfigOps) => VlanSeen(o.user, o.vlan, checks.vlan)
    PROVE  HandlerType' /\ Requests_Inv'
<1>1. /\ pc' = [pc EXCEPT ![q] = stg]
      /\ req' = [req EXCEPT ![q] = o]
      /\ aux_read' = [aux_read EXCEPT ![q] = checks]
      /\ cfg' = cfg /\ count' = count /\ aux_n' = aux_n
      /\ aux_took' = aux_took /\ aux_countAt' = aux_countAt
  BY DEF Continue, store
<1>2. HandlerType'
  BY <1>1 DEF HandlerType
<1>3. RequestInv(q)'
  <2>1. pc'[q] = stg /\ req'[q] = o /\ aux_read'[q] = checks
    BY <1>1 DEF HandlerType
  <2>2. o \in ConfigOps => CountSeen(o.user, checks.count)'
    BY <1>1 DEF CountSeen
  <2>3. (stg = "cas" /\ o \in ConfigOps) => VlanSeen(o.user, o.vlan, checks.vlan)'
    BY <1>1 DEF VlanSeen
  <2> QED
    BY <1>1, <2>1, <2>2, <2>3 DEF RequestInv, CountSeen, VlanSeen
<1>4. ASSUME NEW p \in Requests, p # q
      PROVE  RequestInv(p)'
  BY <1>1, <1>4, RequestKept, StoreUnchanged DEF HandlerType, Requests_Inv
<1> QED
  BY <1>2, <1>3, <1>4 DEF Requests_Inv

-----------------------------------------------------------------------------
(* The specification *)

(* The invariant in the parts that the lemmas are about.                   *)
LEMMA Parts ==
    IInv <=> /\ StoreInv /\ HandlerType /\ Requests_Inv
             /\ nodes \in 0..MaxNode /\ faults \in 0..MaxFaults
  BY DEF IInv, TypeOK, StoreInv, StoreType, HandlerType

(* Nothing is configured and nothing is on its way.                        *)
LEMMA InitInv == Init => IInv
<1> SUFFICES ASSUME Init
             PROVE  IInv
  OBVIOUS
<1>1. /\ NoChecks \in Checks /\ NoChecks.count = -1 /\ NoChecks.vlan = -1
      /\ NotTaken \in Takes /\ NotTaken.at = 0 /\ NotTaken.count = -1
  BY DEF NoChecks, Checks, NotTaken, Takes
<1>2. TypeOK
  BY <1>1 DEF Init, TypeOK
<1>3. Requests_Inv
  BY <1>1 DEF Init, Requests_Inv, RequestInv
<1>4. TakenInv /\ VlanClashIsARace /\ CountExcessIsARace
  BY <1>1 DEF Init, TakenInv, VlanClashIsARace, CountExcessIsARace
<1> QED
  BY <1>2, <1>3, <1>4 DEF IInv

(* Every commit of a request, whichever it is.                             *)
LEMMA CommitKeeps ==
    ASSUME StoreInv, NEW o \in Ops, NEW checks \in Checks, Commit(o, checks),
           checks.count <= aux_n,
           o \in ConfigOps => CountSeen(o.user, checks.count) /\ VlanSeen(o.user, o.vlan, checks.vlan)
    PROVE  StoreInv' /\ KeepsReads
<1>1. CASE o \in ConfigOps
  BY <1>1, PutKeeps DEF Commit, ConfigOps
<1>2. CASE o \in DeleteOps
  BY <1>2, DeleteKeeps DEF Commit, DeleteOps
<1>3. CASE o \in CountOps
  BY <1>3, SetCountKeeps DEF Commit, CountOps
<1> QED
  BY <1>1, <1>2, <1>3 DEF Ops

(* A write that did not look at all may rely on nothing.                   *)
LEMMA NothingSeen ==
    ASSUME StoreType, NEW u \in Users, NEW vlan \in Vlans
    PROVE  /\ NoChecks \in Checks /\ NoChecks.count = -1 /\ NoChecks.vlan = -1
           /\ CountSeen(u, -1) /\ VlanSeen(u, vlan, -1)
<1>1. \A v \in Users : aux_took[v].at \in Nat
  BY DEF StoreType, Takes
<1>2. NoChecks \in Checks /\ NoChecks.count = -1 /\ NoChecks.vlan = -1
  BY DEF NoChecks, Checks
<1>3. CountSeen(u, -1)
  BY DEF CountSeen
<1>4. VlanSeen(u, vlan, -1)
  BY <1>1 DEF VlanSeen
<1> QED
  BY <1>2, <1>3, <1>4

(* A write by the consumer leaves the requests where they are.             *)
LEMMA ConsumerKeeps ==
    ASSUME IInv, UNCHANGED <<handler, faults>>, ByConsumer, StoreInv', KeepsReads
    PROVE  IInv'
<1>1. HandlerType /\ aux_n \in Nat /\ aux_n' \in Nat /\ Requests_Inv
  BY Parts DEF StoreInv, StoreType
<1>2. HandlerType' /\ pc' = pc /\ req' = req /\ aux_read' = aux_read
  BY <1>1 DEF handler, HandlerType
<1>3. Requests_Inv'
  <2> SUFFICES ASSUME NEW q \in Requests
               PROVE  RequestInv(q)'
    BY DEF Requests_Inv
  <2> QED
    BY <1>1, <1>2, RequestKept DEF Requests_Inv
<1>4. nodes' \in 0..MaxNode /\ faults' \in 0..MaxFaults
  BY Parts DEF ByConsumer
<1> QED
  BY <1>2, <1>3, <1>4, Parts DEF IInv, TypeOK, StoreInv, StoreType, HandlerType

(* Every step of the handlers and of the consumer preserves it.            *)
LEMMA NextInv == IInv /\ [Next]_vars => IInv'
<1> SUFFICES ASSUME IInv, [Next]_vars
             PROVE  IInv'
  OBVIOUS
<1>p. /\ StoreInv /\ StoreType /\ HandlerType /\ Requests_Inv /\ aux_n \in Nat
      /\ nodes \in 0..MaxNode /\ faults \in 0..MaxFaults
  BY Parts DEF StoreInv, StoreType
<1>j. (/\ StoreInv' /\ HandlerType' /\ Requests_Inv'
       /\ nodes' \in 0..MaxNode /\ faults' \in 0..MaxFaults) => IInv'
  BY DEF IInv, TypeOK, StoreInv, StoreType, HandlerType
<1>n. StoreInv' => aux_n' \in Nat
  BY DEF StoreInv, StoreType
<1>1. ASSUME NEW q \in Requests, CheckCount(q)
      PROVE  IInv'
  <2>1. UNCHANGED store /\ nodes' = nodes /\ StoreInv' /\ KeepsReads
    BY <1>1, <1>p, StoreUnchanged DEF CheckCount
  <2>2. PICK o \in ConfigOps \cup {d \in DeleteOps : d.api = "rest"} :
          \E c \in {CountFor(o.api, count), NoCount} :
            /\ IF c = CountFor(o.api, count) THEN UNCHANGED faults ELSE Fault
            /\ IF CheckSubscriberCount(o.user, c)
               THEN Continue(q, IF o.kind = "delete" THEN "cas" ELSE "vlan", o,
                       [NoChecks EXCEPT !.count = IF c = count THEN aux_n ELSE Unchecked])
               ELSE Answer(q)
    BY <1>1 DEF CheckCount
  <2>3. PICK c \in {CountFor(o.api, count), NoCount} :
            /\ IF c = CountFor(o.api, count) THEN UNCHANGED faults ELSE Fault
            /\ IF CheckSubscriberCount(o.user, c)
               THEN Continue(q, IF o.kind = "delete" THEN "cas" ELSE "vlan", o,
                       [NoChecks EXCEPT !.count = IF c = count THEN aux_n ELSE Unchecked])
               ELSE Answer(q)
    BY <2>2
  <2>4. faults' \in 0..MaxFaults
    BY <2>3, <1>p DEF Fault
  <2>5. CASE CheckSubscriberCount(o.user, c)
    <3> DEFINE stg == IF o.kind = "delete" THEN "cas" ELSE "vlan"
               checks == [NoChecks EXCEPT !.count = IF c = count THEN aux_n ELSE Unchecked]
    <3>1. /\ checks \in Checks /\ checks.vlan = -1
          /\ checks.count = IF c = count THEN aux_n ELSE -1
      BY <1>p DEF NoChecks, Checks
    <3>2. /\ o \in Ops /\ stg \in {"vlan", "cas"} /\ (stg = "vlan" => o \in ConfigOps)
          /\ (o \in ConfigOps => stg # "cas")
      BY DEF Ops, ConfigOps, DeleteOps
    <3>3. o \in ConfigOps => CountSeen(o.user, checks.count)
      <4>1. count \in Nat \cup {-1}
        BY <1>p DEF StoreType
      <4>2. o \in ConfigOps => o.user \in Nat
        BY DEF ConfigOps
      <4> QED
        BY <2>5, <3>1, <4>1, <4>2 DEF CountSeen, CheckSubscriberCount
    <3>4. Continue(q, stg, o, checks)
      BY <2>3, <2>5
    <3> HIDE DEF stg, checks
    <3>5. HandlerType' /\ Requests_Inv'
      BY <1>p, <2>1, <3>1, <3>2, <3>3, <3>4, ContinueKeeps
    <3> QED
      BY <1>p, <1>j, <2>1, <2>4, <3>5
  <2>6. CASE ~CheckSubscriberCount(o.user, c)
    <3>1. HandlerType' /\ Requests_Inv'
      BY <1>p, <1>n, <2>1, <2>3, <2>6, AnswerKeeps
    <3> QED
      BY <1>p, <1>j, <2>1, <2>4, <3>1
  <2> QED
    BY <2>5, <2>6
<1>2. ASSUME NEW q \in Requests, CheckVlan(q)
      PROVE  IInv'
  <2>1. /\ UNCHANGED store /\ nodes' = nodes /\ faults' = faults
        /\ StoreInv' /\ KeepsReads /\ pc[q] = "vlan"
    BY <1>2, <1>p, StoreUnchanged DEF CheckVlan
  <2>2. /\ req[q] \in ConfigOps /\ CountSeen(req[q].user, aux_read[q].count)
        /\ aux_read[q].count <= aux_n /\ aux_read[q] \in Checks
    BY <1>p, <2>1 DEF Requests_Inv, RequestInv, HandlerType
  <2>3. CASE CheckVlanUnique(req[q].vlan, req[q].user, listVlanOwners)
    <3> DEFINE o == req[q]
               checks == [aux_read[q] EXCEPT !.vlan = aux_n]
    <3>1. checks \in Checks /\ checks.vlan = aux_n /\ checks.count = aux_read[q].count
      BY <1>p, <2>2 DEF Checks
    <3>2. o \in Ops /\ o \in ConfigOps /\ CountSeen(o.user, checks.count)
      BY <2>2, <3>1 DEF Ops
    <3>3. VlanSeen(o.user, o.vlan, checks.vlan)
      <4> SUFFICES ASSUME NEW v \in Users, v # o.user, cfg[v] = o.vlan
                   PROVE  FALSE
        BY DEF VlanSeen
      <4>1. cfg[v] # Absent
        BY <3>2 DEF ConfigOps
      <4>2. [user |-> v, vlan |-> cfg[v]] \in listVlanOwners
        BY <4>1 DEF listVlanOwners
      <4> QED
        BY <2>3, <4>2 DEF CheckVlanUnique
    <3>4. Continue(q, "cas", o, checks)
      BY <1>2, <2>3 DEF CheckVlan
    <3> HIDE DEF o, checks
    <3>5. HandlerType' /\ Requests_Inv'
      BY <1>p, <2>1, <2>2, <3>1, <3>2, <3>3, <3>4, ContinueKeeps
    <3> QED
      BY <1>p, <1>j, <2>1, <3>5
  <2>4. CASE ~CheckVlanUnique(req[q].vlan, req[q].user, listVlanOwners)
    BY <1>2, <1>p, <1>n, <1>j, <2>1, <2>4, AnswerKeeps DEF CheckVlan
  <2> QED
    BY <2>3, <2>4
<1>3. ASSUME NEW q \in Requests, CAS(q)
      PROVE  IInv'
  <2>1. Answer(q) /\ nodes' = nodes /\ faults' = faults /\ pc[q] = "cas"
    BY <1>3 DEF CAS
  <2>2. /\ req[q] \in Ops /\ aux_read[q] \in Checks /\ aux_read[q].count <= aux_n
        /\ req[q] \in ConfigOps => /\ CountSeen(req[q].user, aux_read[q].count)
                                   /\ VlanSeen(req[q].user, req[q].vlan, aux_read[q].vlan)
    BY <1>p, <2>1 DEF Requests_Inv, RequestInv, HandlerType, Ops
  <2>3. StoreInv' /\ KeepsReads
    BY <1>3, <1>p, <2>2, CommitKeeps, StoreUnchanged DEF CAS
  <2> QED
    BY <1>p, <1>n, <1>j, <2>1, <2>3, AnswerKeeps
<1>4. ASSUME NEW q \in Requests, DirectCAS(q)
      PROVE  IInv'
  <2>1. Answer(q) /\ nodes' = nodes /\ faults' = faults
    BY <1>4 DEF DirectCAS
  <2>2. PICK o \in CountOps \cup {d \in DeleteOps : d.api = "grpc"} :
          IF Rejects(o) THEN UNCHANGED store ELSE Commit(o, NoChecks)
    BY <1>4 DEF DirectCAS
  <2>3. o \in Ops /\ o \notin ConfigOps /\ NoChecks \in Checks /\ NoChecks.count <= aux_n
    BY <1>p DEF Ops, ConfigOps, CountOps, DeleteOps, NoChecks, Checks
  <2>4. StoreInv' /\ KeepsReads
    BY <1>p, <2>2, <2>3, CommitKeeps, StoreUnchanged
  <2> QED
    BY <1>p, <1>n, <1>j, <2>1, <2>4, AnswerKeeps
<1>5. ASSUME NEW q \in Requests, Fail(q)
      PROVE  IInv'
  <2>1. /\ UNCHANGED store /\ nodes' = nodes /\ faults' \in 0..MaxFaults
        /\ StoreInv' /\ KeepsReads /\ Answer(q)
    BY <1>5, <1>p, StoreUnchanged DEF Fail, Fault
  <2> QED
    BY <1>p, <1>n, <1>j, <2>1, AnswerKeeps
<1>6. ASSUME NEW u \in Users, Rollback(u)
      PROVE  IInv'
  <2>1. ASSUME NEW vlan \in held[u], Put(u, vlan, NoChecks)
        PROVE  StoreInv' /\ KeepsReads
    <3>1. vlan \in Vlans
      BY <1>p, <2>1 DEF StoreType
    <3>2. /\ NoChecks \in Checks /\ NoChecks.count <= aux_n
          /\ CountSeen(u, NoChecks.count) /\ VlanSeen(u, vlan, NoChecks.vlan)
      BY <1>p, <3>1, NothingSeen
    <3> QED
      BY <1>p, <2>1, <3>1, <3>2, PutKeeps
  <2>2. StoreInv' /\ KeepsReads
    BY <1>6, <1>p, <2>1, DeleteKeeps DEF Rollback
  <2> QED
    BY <1>6, <2>2, ConsumerKeeps DEF Rollback
<1>7. ASSUME NEW u \in Users, OfflineEdit(u)
      PROVE  IInv'
  <2>1. ASSUME NEW vlan \in Vlans, Put(u, vlan, NoChecks)
        PROVE  StoreInv' /\ KeepsReads
    BY <1>p, <2>1, NothingSeen, PutKeeps
  <2>2. StoreInv' /\ KeepsReads
    BY <1>7, <1>p, <2>1, DeleteKeeps DEF OfflineEdit
  <2> QED
    BY <1>7, <2>2, ConsumerKeeps DEF OfflineEdit
<1>8. CASE UNCHANGED vars
  <2>1. UNCHANGED store /\ pc' = pc /\ req' = req /\ aux_read' = aux_read
        /\ nodes' = nodes /\ faults' = faults
    BY <1>8 DEF vars, store
  <2>2. StoreInv' /\ KeepsReads /\ HandlerType'
    BY <1>p, <2>1, StoreUnchanged DEF HandlerType
  <2>3. ASSUME NEW q \in Requests
        PROVE  RequestInv(q)'
    BY <1>p, <1>n, <2>1, <2>2, RequestKept DEF Requests_Inv
  <2> QED
    BY <1>p, <1>j, <2>1, <2>2, <2>3 DEF Requests_Inv
<1> QED
  BY <1>1, <1>2, <1>3, <1>4, <1>5, <1>6, <1>7, <1>8 DEF Next

(* Two configs of a node share a VLAN only if the write of the later one   *)
(* had listed the VLANs before the earlier one was written, or had not     *)
(* listed them: what listVlanOwners and CheckVlanUnique guarantee.         *)
THEOREM VlanRace == Spec => []VlanClashIsARace
<1>1. IInv => VlanClashIsARace
  BY DEF IInv
<1> QED
  BY <1>1, InitInv, NextInv, PTL DEF Spec

(* A user beyond the subscriber count has a config only if the count was   *)
(* set after its write had looked, or the write did not look.              *)
THEOREM CountRace == Spec => []CountExcessIsARace
<1>1. IInv => CountExcessIsARace
  BY DEF IInv
<1> QED
  BY <1>1, InitInv, NextInv, PTL DEF Spec

(* The handlers keep the types of their state.                             *)
THEOREM Typing == Spec => []TypeOK
<1>1. IInv => TypeOK
  BY DEF IInv
<1> QED
  BY <1>1, InitInv, NextInv, PTL DEF Spec

=============================================================================
