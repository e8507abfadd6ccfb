------------------------ MODULE KafkaConsumer_proofs ------------------------
(* For batches of any length, any crashes, outages and losses of log data: *)
(* one batched write is as good as single ones, no offset is committed     *)
(* before its message is settled, and an outage parks nothing.             *)
EXTENDS KafkaConsumer, Integers, WellFoundedInduction, TLAPS

USE KindsAssumption, TimesAssumption, BoundsAssumption

-----------------------------------------------------------------------------
(* Induction on the natural numbers, as a fact about sets *)

LEMMA LeastElement ==
    ASSUME NEW S, S \subseteq Nat, S # {}
    PROVE  \E x \in S : \A y \in S : x <= y
<1> DEFINE R == OpToRel(<, Nat)
<1>1. IsWellFoundedOn(R, Nat)
  BY NatLessThanWellFounded
<1>2. \A x, y \in Nat : y < x => <<y, x>> \in R
  BY DEF OpToRel
<1> HIDE DEF R
<1>3. PICK x \in S : \A y \in S : ~(<<y, x>> \in R)
  BY <1>1, WFMin
<1>4. \A y \in S : ~(y < x)
  BY <1>2, <1>3
<1> QED
  BY <1>4

LEMMA SetInduction ==
    ASSUME NEW S \in SUBSET Nat, 0 \in S, \A n \in S : n + 1 \in S
    PROVE  \A n \in Nat : n \in S
<1> SUFFICES ASSUME Nat \ S # {}
             PROVE  FALSE
  OBVIOUS
<1>1. PICK x \in Nat \ S : \A y \in Nat \ S : x <= y
  BY LeastElement
<1>2. x # 0 /\ x - 1 \in Nat
  BY <1>1
<1>3. x - 1 \in S
  BY <1>1, <1>2
<1> QED
  BY <1>1, <1>2, <1>3

-----------------------------------------------------------------------------
(* The loop of pppoeRowsFromBatch *)

StatusRows == [time : {0} \cup Times, id : Nat]

(* The single upsert and the loop treat a row alike: f is a run of either, *)
(* over the first k messages.                                              *)
Loop(rows, ms, k, f) ==
    f = [n \in 0..k |-> IF n = 0 THEN rows ELSE Collapse(f[n - 1], ms[n])]

(* The loop can be run to the end of any batch.                            *)
LEMMA LoopExists ==
    ASSUME NEW rows, NEW ms, NEW k \in Nat
    PROVE  \E f : Loop(rows, ms, k, f)
<1> DEFINE S == {n \in Nat : \E f : Loop(rows, ms, n, f)}
<1>1. 0 \in S
  <2>1. Loop(rows, ms, 0, [n \in 0..0 |-> rows])
    BY DEF Loop
  <2> QED
    BY <2>1
<1>2. ASSUME NEW n \in S
      PROVE  n + 1 \in S
  <2>1. PICK f : Loop(rows, ms, n, f)
    OBVIOUS
  <2> DEFINE g == [i \in 0..(n + 1) |-> IF i <= n THEN f[i] ELSE Collapse(f[n], ms[n + 1])]
  <2>2. ASSUME NEW i \in 0..(n + 1)
        PROVE  g[i] = IF i = 0 THEN rows ELSE Collapse(g[i - 1], ms[i])
    <3>1. CASE i = n + 1
      BY <3>1
    <3>2. CASE i \in 0..n
      <4>1. g[i] = f[i] /\ (i # 0 => g[i - 1] = f[i - 1])
        BY <3>2
      <4>2. f[i] = IF i = 0 THEN rows ELSE Collapse(f[i - 1], ms[i])
        BY <2>1, <3>2 DEF Loop
      <4> QED
        BY <4>1, <4>2
    <3> QED
      BY <3>1, <3>2
  <2>3. Loop(rows, ms, n + 1, g)
    BY <2>2 DEF Loop
  <2> QED
    BY <2>3
<1>3. S \in SUBSET Nat /\ \A n \in S : n + 1 \in S
  BY <1>2
<1> HIDE DEF S
<1>4. k \in S
  BY <1>1, <1>3, SetInduction
<1> QED
  BY <1>4 DEF S

(* The operator is a run of the loop.                                      *)
LEMMA RowsFromBatchLoop ==
    ASSUME NEW ms \in Seq(Messages)
    PROVE  \E f : Loop(NoRows, ms, Len(ms), f) /\ pppoeRowsFromBatch(ms) = f[Len(ms)]
<1> DEFINE f == CHOOSE f : Loop(NoRows, ms, Len(ms), f)
<1>1. Loop(NoRows, ms, Len(ms), f)
  <2>1. Len(ms) \in Nat
    OBVIOUS
  <2>2. \E g : Loop(NoRows, ms, Len(ms), g)
    BY <2>1, LoopExists
  <2> QED
    BY <2>2, Zenon
<1>2. pppoeRowsFromBatch(ms) = f[Len(ms)]
  BY DEF pppoeRowsFromBatch, Loop
<1> QED
  BY <1>1, <1>2

(* Times are positive numbers.                                             *)
LEMMA RowTimes ==
    /\ \A m \in Messages : m.user \in Users /\ m.time \in Times /\ m.time \in Nat /\ m.time > 0 /\ m.id \in Nat
    /\ \A r \in StatusRows : r.time \in Nat
<1>1. \A t \in Times : t \in Nat /\ t > 0
  OBVIOUS
<1>2. ASSUME NEW m \in Messages
      PROVE  m.user \in Users /\ m.time \in Times /\ m.id \in Nat
  BY DEF Messages
<1>3. \A t \in {0} \cup Times : t \in Nat
  BY <1>1
<1>4. ASSUME NEW r \in StatusRows
      PROVE  r.time \in {0} \cup Times
  BY DEF StatusRows
<1> QED
  BY <1>1, <1>2, <1>3, <1>4, Zenon

LEMMA CollapseRows ==
    ASSUME NEW rows \in [Users -> StatusRows], NEW m \in Messages
    PROVE  /\ Collapse(rows, m) \in [Users -> StatusRows]
           /\ Collapse(rows, m)[m.user].time >= m.time
           /\ \A u \in Users : Collapse(rows, m)[u].time >= rows[u].time
<1>1. m.user \in Users /\ m.time \in Times /\ m.time \in Nat /\ m.id \in Nat
  BY RowTimes
<1>2. Row(m) \in StatusRows /\ Row(m).time = m.time
  BY <1>1 DEF Row, StatusRows
<1>3. \A u \in Users : rows[u].time \in Nat
  BY RowTimes
<1> QED
  BY <1>1, <1>2, <1>3 DEF Collapse

(* After n messages a subscriber's row is as new as any of its events.     *)
LEMMA LoopNewest ==
    ASSUME NEW ms \in Seq(Messages), NEW f, Loop(NoRows, ms, Len(ms), f)
    PROVE  \A n \in 0..Len(ms) : /\ f[n] \in [Users -> StatusRows]
                                 /\ \A i \in 1..n : f[n][ms[i].user].time >= ms[i].time
<1> DEFINE P(n) == /\ f[n] \in [Users -> StatusRows]
                   /\ \A i \in 1..n : f[n][ms[i].user].time >= ms[i].time
           S    == {n \in Nat : n <= Len(ms) => P(n)}
<1>1. 0 \in S
  <2>1. f[0] = NoRows
    BY DEF Loop
  <2>2. NoRows \in [Users -> StatusRows]
    BY DEF NoRows, StatusRows
  <2> QED
    BY <2>1, <2>2
<1>2. ASSUME NEW n \in S
      PROVE  n + 1 \in S
  <2> SUFFICES ASSUME n + 1 <= Len(ms)
               PROVE  P(n + 1)
    OBVIOUS
  <2>1. P(n) /\ n + 1 \in 1..Len(ms)
    OBVIOUS
  <2>2. f[n + 1] = Collapse(f[n], ms[n + 1])
    <3>1. n + 1 \in 0..Len(ms) /\ n + 1 # 0 /\ (n + 1) - 1 = n
      BY <2>1
    <3> QED
      BY <3>1 DEF Loop
  <2>3. \A i \in 1..(n + 1) : ms[i] \in Messages
    BY <2>1
  <2>4. /\ f[n + 1] \in [Users -> StatusRows]
        /\ f[n + 1][ms[n + 1].user].time >= ms[n + 1].time
        /\ \A u \in Users : f[n + 1][u].time >= f[n][u].time
    <3>1. PICK rows, m : rows = f[n] /\ m = ms[n + 1]
      OBVIOUS
    <3>2. rows \in [Users -> StatusRows] /\ m \in Messages
      BY <2>1, <2>3, <3>1
    <3> QED
      BY <2>2, <3>1, <3>2, CollapseRows
  <2>5. ASSUME NEW i \in 1..n
        PROVE  f[n + 1][ms[i].user].time >= ms[i].time
    <3>1. ms[i].user \in Users /\ ms[i].time \in Nat
      BY <2>3, RowTimes
    <3>2. PICK old, new, t : /\ old = f[n][ms[i].user].time /\ new = f[n + 1][ms[i].user].time
                             /\ t = ms[i].time
      OBVIOUS
    <3>3. old \in Nat /\ new \in Nat /\ t \in Nat /\ new >= old /\ old >= t
      BY <2>1, <2>4, <3>1, <3>2, RowTimes
    <3>4. new >= t
      BY ONLY <3>3
    <3> QED
      BY <3>2, <3>4
  <2>6. \A i \in 1..(n + 1) : f[n + 1][ms[i].user].time >= ms[i].time
    <3>1. \A i \in 1..(n + 1) : i \in 1..n \/ i = n + 1
      OBVIOUS
    <3> QED
      BY <2>4, <2>5, <3>1
  <2> QED
    BY <2>4, <2>6
<1>3. S \in SUBSET Nat /\ \A n \in S : n + 1 \in S
  BY <1>2
<1> HIDE DEF S
<1>4. \A n \in Nat : n \in S
  BY <1>1, <1>3, SetInduction
<1> HIDE DEF P
<1>5. \A n \in 0..Len(ms) : P(n)
  BY <1>4 DEF S
<1> QED
  BY <1>5 DEF P

(* The rows of a batch are at least as new as the batch, and the write     *)
(* makes no row of the table older.                                        *)
LEMMA BatchIsNewest ==
    ASSUME NEW st \in [Users -> StatusRows], NEW ms \in Seq(Messages)
    PROVE  /\ UpsertPPPoEStatusBatch(st, ms) \in [Users -> StatusRows]
           /\ \A u \in Users : UpsertPPPoEStatusBatch(st, ms)[u].time >= st[u].time
           /\ \A i \in 1..Len(ms) : UpsertPPPoEStatusBatch(st, ms)[ms[i].user].time >= ms[i].time
<1>1. PICK f : Loop(NoRows, ms, Len(ms), f) /\ pppoeRowsFromBatch(ms) = f[Len(ms)]
  BY RowsFromBatchLoop
<1>2. PICK rows : rows = pppoeRowsFromBatch(ms)
  OBVIOUS
<1>3. /\ rows \in [Users -> StatusRows]
      /\ \A i \in 1..Len(ms) : rows[ms[i].user].time >= ms[i].time
  BY <1>1, <1>2, LoopNewest
<1>4. UpsertPPPoEStatusBatch(st, ms) =
        [u \in Users |-> IF rows[u].time > 0 /\ st[u].time <= rows[u].time THEN rows[u] ELSE st[u]]
  BY <1>2 DEF UpsertPPPoEStatusBatch
<1>5. \A u \in Users : st[u].time \in Nat /\ rows[u].time \in Nat
  BY <1>3, RowTimes
<1>6. \A i \in 1..Len(ms) : ms[i].user \in Users /\ ms[i].time \in Nat /\ ms[i].time > 0
  BY RowTimes
<1>7. \A u \in Users : UpsertPPPoEStatusBatch(st, ms)[u] =
        IF rows[u].time > 0 /\ st[u].time <= rows[u].time THEN rows[u] ELSE st[u]
  BY <1>4
<1>8. UpsertPPPoEStatusBatch(st, ms) \in [Users -> StatusRows]
  BY <1>3, <1>4
<1>9. ASSUME NEW u \in Users
      PROVE  UpsertPPPoEStatusBatch(st, ms)[u].time >= st[u].time
  <2>1. PICK old, new : old = st[u].time /\ new = UpsertPPPoEStatusBatch(st, ms)[u].time
    OBVIOUS
  <2>2. old \in Nat /\ new \in Nat /\ (new = old \/ old <= new)
    BY <1>5, <1>7, <2>1
  <2> QED
    BY <2>1, <2>2
<1>10. ASSUME NEW i \in 1..Len(ms)
       PROVE  UpsertPPPoEStatusBatch(st, ms)[ms[i].user].time >= ms[i].time
  <2>0. PICK u \in Users : u = ms[i].user
    BY <1>6
  <2>1. PICK new : u = ms[i].user /\ new = UpsertPPPoEStatusBatch(st, ms)[u].time
    BY <2>0
  <2>2. rows[u].time >= ms[i].time /\ ms[i].time \in Nat /\ ms[i].time > 0
    BY <1>3, <1>6, <2>1
  <2>3. new = IF rows[u].time > 0 /\ st[u].time <= rows[u].time
              THEN rows[u].time ELSE st[u].time
    BY <1>7, <2>1
  <2>4. new >= ms[i].time
    BY <1>5, <2>2, <2>3
  <2> QED
    BY <2>1, <2>4
<1> QED
  BY <1>8, <1>9, <1>10

LEMMA OneByOneLoop ==
    ASSUME NEW st, NEW ms \in Seq(Messages)
    PROVE  \E g : Loop(st, ms, Len(ms), g) /\ OneByOne(st, ms) = g[Len(ms)]
<1> DEFINE g == CHOOSE g : Loop(st, ms, Len(ms), g)
<1>1. Loop(st, ms, Len(ms), g)
  <2>1. Len(ms) \in Nat
    OBVIOUS
  <2>2. \E h : Loop(st, ms, Len(ms), h)
    BY <2>1, LoopExists
  <2> QED
    BY <2>2, Zenon
<1>2. OneByOne(st, ms) = g[Len(ms)]
  BY DEF OneByOne, Loop, UpsertPPPoEStatus, Collapse
<1> QED
  BY <1>1, <1>2

(* The guard of the batched statement.                                     *)
Merge(st, rows) ==
    [u \in Users |-> IF rows[u].time > 0 /\ st[u].time <= rows[u].time THEN rows[u] ELSE st[u]]

(* One more message: guard and loop commute.                               *)
LEMMA MergeCollapse ==
    ASSUME NEW st \in [Users -> StatusRows], NEW rows \in [Users -> StatusRows], NEW m \in Messages
    PROVE  Collapse(Merge(st, rows), m) = Merge(st, Collapse(rows, m))
<1>1. m.user \in Users /\ m.time \in Nat /\ m.time > 0 /\ Row(m).time = m.time
  BY RowTimes DEF Row
<1>2. PICK r : r = Row(m)
  OBVIOUS
<1>3. \A u \in Users : st[u].time \in Nat /\ rows[u].time \in Nat
  BY RowTimes
<1> DEFINE a == Merge(st, rows)
           b == Collapse(rows, m)
<1>4. ASSUME NEW u \in Users
      PROVE  Collapse(a, m)[u] = Merge(st, b)[u]
  <2>1. /\ a[u] = IF rows[u].time > 0 /\ st[u].time <= rows[u].time THEN rows[u] ELSE st[u]
        /\ Merge(st, b)[u] = IF b[u].time > 0 /\ st[u].time <= b[u].time THEN b[u] ELSE st[u]
        /\ a \in [Users -> StatusRows]
    BY DEF Merge
  <2> HIDE DEF a
  <2>2. /\ b[u] = IF u = m.user /\ rows[u].time <= m.time THEN r ELSE rows[u]
        /\ Collapse(a, m)[u] = IF u = m.user /\ a[u].time <= m.time THEN r ELSE a[u]
    BY <1>1, <1>2, <2>1 DEF Collapse
  <2> HIDE DEF b
  <2>3. PICK x, y, t : x = st[u].time /\ y = rows[u].time /\ t = m.time
    OBVIOUS
  <2>4. x \in Nat /\ y \in Nat /\ t \in Nat /\ t > 0 /\ r.time = t
    BY <1>1, <1>2, <1>3, <2>3
  <2> QED
    BY <2>1, <2>2, <2>3, <2>4
<1>5. /\ Collapse(a, m) = [u \in Users |-> Collapse(a, m)[u]]
      /\ Merge(st, b) = [u \in Users |-> Merge(st, b)[u]]
  BY DEF Collapse, Merge
<1> QED
  BY <1>4, <1>5

(* Whatever the table holds and however many transitions of a subscriber a *)
(* batch carries, collapsing the batch and guarding the statement leaves   *)
(* what one upsert for each message would.                                 *)
THEOREM BatchIsOneByOne ==
    ASSUME NEW st \in [Users -> StatusRows], NEW ms \in Seq(Messages)
    PROVE  UpsertPPPoEStatusBatch(st, ms) = OneByOne(st, ms)
<1>1. PICK f : Loop(NoRows, ms, Len(ms), f) /\ pppoeRowsFromBatch(ms) = f[Len(ms)]
  BY RowsFromBatchLoop
<1>2. PICK g : Loop(st, ms, Len(ms), g) /\ OneByOne(st, ms) = g[Len(ms)]
  BY OneByOneLoop
<1> DEFINE S == {n \in Nat : n <= Len(ms) => g[n] = Merge(st, f[n])}
<1>3. 0 \in S
  <2>1. f[0] = NoRows /\ g[0] = st
    BY <1>1, <1>2 DEF Loop
  <2>2. st = Merge(st, NoRows)
    BY DEF Merge, NoRows
  <2> QED
    BY <2>1, <2>2
<1>4. ASSUME NEW n \in S
      PROVE  n + 1 \in S
  <2> SUFFICES ASSUME n + 1 <= Len(ms)
               PROVE  g[n + 1] = Merge(st, f[n + 1])
    OBVIOUS
  <2>1. n \in Nat /\ n + 1 \in 0..Len(ms) /\ n \in 0..Len(ms) /\ n + 1 # 0 /\ (n + 1) - 1 = n
        /\ g[n] = Merge(st, f[n])
    OBVIOUS
  <2>2. f[n + 1] = Collapse(f[n], ms[n + 1]) /\ g[n + 1] = Collapse(g[n], ms[n + 1])
    BY <1>1, <1>2, <2>1 DEF Loop
  <2>3. f[n] \in [Users -> StatusRows] /\ ms[n + 1] \in Messages
    BY <1>1, <2>1, LoopNewest
  <2> QED
    BY <2>1, <2>2, <2>3, MergeCollapse
<1>5. S \in SUBSET Nat /\ \A n \in S : n + 1 \in S
  BY <1>4
<1> HIDE DEF S
<1>6. Len(ms) \in S
  <2>1. Len(ms) \in Nat
    OBVIOUS
  <2> QED
    BY <1>3, <1>5, <2>1, SetInduction
<1>7. OneByOne(st, ms) = Merge(st, pppoeRowsFromBatch(ms))
  BY <1>1, <1>2, <1>6 DEF S
<1> QED
  BY <1>7 DEF UpsertPPPoEStatusBatch, Merge

-----------------------------------------------------------------------------
(* Types *)

(* With TypeOK: a message carries the number of its production, what the   *)
(* consumer has in hand lies between the offset it has marked and the one  *)
(* it fetches next, and what it is about to park is poison.                *)
LogType ==
    /\ log \in Seq(Messages) /\ Len(log) <= MaxLog /\ aux_made \in 0..MaxMsgs
    /\ \A i \in 1..Len(log) : log[i].id \in 1..aux_made
    /\ aux_passed \subseteq 1..aux_made
PlaceType ==
    /\ committed \in 0..MaxLog /\ pos \in 0..MaxLog /\ marked \in 0..MaxLog
    /\ up \in BOOLEAN /\ faults \in 0..MaxFaults
BatchType ==
    /\ batch \in Seq(Fetched) /\ Len(batch) <= maxBatchSize
    /\ \A i \in 1..Len(batch) : batch[i].m.id \in 1..aux_made
    /\ marked + Len(batch) = pos
    /\ \A i \in 1..Len(batch) : batch[i].off = marked + i - 1
StageType ==
    /\ phase \in {"down", "running", "unhealed"} /\ pc \in {"idle", "batch", "one", "dlq"}
    /\ pc = "idle" <=> batch = <<>>
    /\ phase = "down" => batch = <<>>
    /\ attempt \in 1..maxRetries
    /\ pc = "dlq" => msg.kind = "poison"
TableType ==
    /\ status \in [Users -> StatusRows]
    /\ dlq \in [0..(MaxLog - 1) -> 0..MaxMsgs]
    /\ aux_done \subseteq 1..MaxMsgs /\ aux_parked \subseteq Messages
    /\ OutagesParkNothing

TypeInv == LogType /\ PlaceType /\ BatchType /\ StageType /\ TableType

LEMMA TypeInvImplies == TypeInv => TypeOK
<1> SUFFICES ASSUME TypeInv
             PROVE  TypeOK
  OBVIOUS
<1>1. aux_passed \subseteq 1..MaxMsgs
  BY BoundsAssumption DEF TypeInv, LogType
<1>2. status \in [Users -> [time : {0} \cup Times, id : Nat]]
  BY DEF TypeInv, TableType, StatusRows
<1> QED
  BY <1>1, <1>2, Zenon DEF TypeInv, TypeOK, LogType, PlaceType, BatchType, StageType, TableType

LEMMA TypeInit == Init => TypeInv
<1> SUFFICES ASSUME Init
             PROVE  TypeInv
  OBVIOUS
<1>1. LogType
  BY DEF Init, LogType
<1>2. PlaceType
  BY DEF Init, PlaceType
<1>3. BatchType
  BY DEF Init, BatchType
<1>4. StageType
  BY DEF Init, StageType
<1>5. TableType
  BY DEF Init, TableType, OutagesParkNothing, StatusRows
<1> QED
  BY <1>1, <1>2, <1>3, <1>4, <1>5 DEF TypeInv

(* The message in hand.                                                    *)
LEMMA HeadType ==
    ASSUME TypeInv, pc # "idle"
    PROVE  /\ Len(batch) >= 1 /\ Head(batch) = batch[1] /\ msg = batch[1].m /\ batch[1].off = marked
           /\ msg \in Messages /\ msg.id \in 1..MaxMsgs /\ marked \in 0..(MaxLog - 1)
           /\ phase # "down"
<1>1. batch \in Seq(Fetched) /\ batch # <<>>
  BY DEF TypeInv, BatchType, StageType
<1>2. Len(batch) \in Nat /\ Len(batch) >= 1 /\ Head(batch) = batch[1] /\ batch[1] \in Fetched
  BY <1>1
<1>3. batch[1].m \in Messages
  BY <1>2 DEF Fetched
<1>4. batch[1].off = marked /\ marked + Len(batch) = pos /\ batch[1].m.id \in 1..aux_made
  <2>1. 1 \in 1..Len(batch)
    BY <1>2
  <2>2. marked + Len(batch) = pos /\ marked \in Nat
    BY DEF TypeInv, BatchType, PlaceType
  <2> QED
    BY <2>1, <2>2 DEF TypeInv, BatchType
<1>5. marked \in 0..(MaxLog - 1) /\ batch[1].m.id \in 1..MaxMsgs
  <2>1. pos \in 0..MaxLog /\ marked \in Nat /\ aux_made \in 0..MaxMsgs
    BY DEF TypeInv, PlaceType, LogType
  <2> QED
    BY <1>2, <1>4, <2>1
<1> QED
  BY <1>1, <1>2, <1>3, <1>4, <1>5 DEF msg, TypeInv, StageType

(* The single upsert makes no row older either.                            *)
LEMMA SingleIsNewest ==
    ASSUME NEW st \in [Users -> StatusRows], NEW m \in Messages
    PROVE  /\ UpsertPPPoEStatus(st, m) \in [Users -> StatusRows]
           /\ UpsertPPPoEStatus(st, m)[m.user].time >= m.time
           /\ \A u \in Users : UpsertPPPoEStatus(st, m)[u].time >= st[u].time
<1>1. UpsertPPPoEStatus(st, m) = Collapse(st, m)
  BY DEF UpsertPPPoEStatus, Collapse
<1> QED
  BY <1>1, CollapseRows

(* What no step takes back.                                                *)
TablesGrow ==
    /\ aux_done \subseteq aux_done' /\ aux_parked \subseteq aux_parked'
    /\ \A u \in Users : status'[u].time >= status[u].time

LEMMA TablesStay ==
    ASSUME TypeInv, UNCHANGED tables
    PROVE  TableType' /\ TablesGrow
<1>1. \A u \in Users : status[u].time \in Nat
  BY RowTimes DEF TypeInv, TableType
<1> QED
  BY <1>1 DEF tables, TypeInv, TableType, TablesGrow, OutagesParkNothing

LEMMA ContentsType ==
    ASSUME TypeInv
    PROVE  /\ Contents(batch) \in Seq(Messages) /\ Len(Contents(batch)) = Len(batch)
           /\ \A i \in 1..Len(batch) : Contents(batch)[i] = batch[i].m
           /\ Ids(Contents(batch)) \subseteq 1..MaxMsgs
<1>1. batch \in Seq(Fetched) /\ Len(batch) \in Nat
  BY DEF TypeInv, BatchType
<1>2. \A i \in 1..Len(batch) : batch[i].m \in Messages
  <2>1. \A i \in 1..Len(batch) : batch[i] \in Fetched
    BY <1>1
  <2>2. \A x \in Fetched : x.m \in Messages
    BY DEF Fetched
  <2> QED
    BY <2>1, <2>2
<1>3. /\ Contents(batch) \in Seq(Messages) /\ Len(Contents(batch)) = Len(batch)
      /\ \A i \in 1..Len(batch) : Contents(batch)[i] = batch[i].m
  BY <1>1, <1>2 DEF Contents
<1>4. \A i \in 1..Len(batch) : batch[i].m.id \in 1..MaxMsgs
  BY <1>1 DEF TypeInv, BatchType, LogType
<1> QED
  BY <1>3, <1>4 DEF Ids

LEMMA WriteRowsType ==
    ASSUME TypeInv, WriteRows
    PROVE  /\ TableType' /\ TablesGrow
           /\ \A i \in 1..Len(batch) : /\ batch[i].m.id \in aux_done'
                                       /\ status'[batch[i].m.user].time >= batch[i].m.time
<1>1. PICK ms : ms = Contents(batch)
  OBVIOUS
<1>2. /\ ms \in Seq(Messages) /\ Len(ms) = Len(batch) /\ Ids(ms) \subseteq 1..MaxMsgs
      /\ \A i \in 1..Len(batch) : ms[i] = batch[i].m
  BY <1>1, ContentsType
<1>3. /\ status' = UpsertPPPoEStatusBatch(status, ms) /\ aux_done' = aux_done \cup Ids(ms)
      /\ UNCHANGED <<dlq, aux_parked>>
  BY <1>1 DEF WriteRows
<1>4. /\ status' \in [Users -> StatusRows]
      /\ \A u \in Users : status'[u].time >= status[u].time
      /\ \A i \in 1..Len(ms) : status'[ms[i].user].time >= ms[i].time
  BY <1>2, <1>3, BatchIsNewest DEF TypeInv, TableType
<1>5. TableType' /\ TablesGrow
  BY <1>2, <1>3, <1>4 DEF TypeInv, TableType, TablesGrow, OutagesParkNothing
<1> QED
  BY <1>2, <1>3, <1>4, <1>5 DEF Ids

LEMMA EffectType ==
    ASSUME TypeInv, Effect, pc # "idle"
    PROVE  /\ TableType' /\ TablesGrow
           /\ msg.id \in aux_done' /\ (msg.kind = "pppoe" => status'[msg.user].time >= msg.time)
<1>1. PICK m : m = msg
  OBVIOUS
<1>2. m \in Messages /\ m.id \in 1..MaxMsgs /\ status \in [Users -> StatusRows]
  BY <1>1, HeadType DEF TypeInv, TableType
<1>3. /\ status' = IF m.kind = "pppoe" THEN UpsertPPPoEStatus(status, m) ELSE status
      /\ aux_done' = aux_done \cup {m.id} /\ UNCHANGED <<dlq, aux_parked>>
  BY <1>1 DEF Effect
<1>4. /\ status' \in [Users -> StatusRows]
      /\ \A u \in Users : status'[u].time >= status[u].time
      /\ m.kind = "pppoe" => status'[m.user].time >= m.time
  <2>1. \A u \in Users : status[u].time \in Nat
    BY <1>2, RowTimes
  <2>2. CASE m.kind = "pppoe"
    BY <1>2, <1>3, <2>2, SingleIsNewest
  <2>3. CASE m.kind # "pppoe"
    BY <1>2, <1>3, <2>1, <2>3
  <2> QED
    BY <2>2, <2>3
<1> QED
  BY <1>1, <1>2, <1>3, <1>4 DEF TypeInv, TableType, TablesGrow, OutagesParkNothing

(* The next message of the batch.                                          *)
LEMMA FinishType ==
    ASSUME TypeInv, Finish, pc # "idle"
    PROVE  /\ marked' = marked + 1 /\ marked' \in 0..MaxLog
           /\ BatchType' /\ StageType'
           /\ Len(batch') = Len(batch) - 1 /\ \A i \in 1..Len(batch') : batch'[i] = batch[i + 1]
<1>1. /\ Len(batch) >= 1 /\ Head(batch) = batch[1] /\ batch[1].off = marked
      /\ marked \in 0..(MaxLog - 1) /\ phase # "down" /\ MaxLog \in Nat
  BY HeadType
<1>2. /\ batch \in Seq(Fetched) /\ Len(batch) \in Nat /\ Len(batch) <= maxBatchSize
      /\ pos \in Nat /\ aux_made \in Nat /\ maxBatchSize \in Nat
  BY DEF TypeInv, BatchType, PlaceType, LogType
<1>3. /\ marked' = marked + 1 /\ batch' = Tail(batch) /\ pc' = IF Len(batch) = 1 THEN "idle" ELSE "one"
      /\ attempt' = 1 /\ UNCHANGED <<phase, pos, aux_made>>
  BY <1>1 DEF Finish, made
<1>4. /\ batch' \in Seq(Fetched) /\ Len(batch') = Len(batch) - 1
      /\ \A i \in 1..Len(batch') : batch'[i] = batch[i + 1]
  BY <1>1, <1>2, <1>3
<1>5. \A i \in 1..Len(batch') : i + 1 \in 1..Len(batch)
  BY <1>2, <1>4
<1>6. \A i \in 1..Len(batch') : batch'[i].m.id \in 1..aux_made /\ batch'[i].off = marked + (i + 1) - 1
  BY <1>4, <1>5 DEF TypeInv, BatchType
<1>7. marked + Len(batch) = pos
  BY DEF TypeInv, BatchType
<1>8. BatchType'
  <2>1. marked' + Len(batch') = pos'
    <3>1. PICK n, n1 : n = Len(batch) /\ n1 = Len(batch')
      OBVIOUS
    <3>2. n \in Nat /\ n1 = n - 1 /\ marked \in Nat /\ marked + n = pos
      BY <1>1, <1>2, <1>4, <1>7, <3>1
    <3>3. marked + 1 + n1 = pos
      BY ONLY <3>2
    <3> QED
      BY <1>3, <3>1, <3>3, Zenon
  <2>2. \A i \in 1..Len(batch') : batch'[i].m.id \in 1..aux_made' /\ batch'[i].off = marked' + i - 1
    <3>1. marked \in Nat
      BY <1>1
    <3>2. \A i \in 1..Len(batch') : marked + (i + 1) - 1 = marked + 1 + i - 1
      BY ONLY <3>1
    <3> QED
      BY <1>3, <1>6, <3>2, Zenon
  <2>3. Len(batch') <= maxBatchSize
    <3>1. PICK n, n1 : n = Len(batch) /\ n1 = Len(batch')
      OBVIOUS
    <3>2. n \in Nat /\ n <= maxBatchSize /\ maxBatchSize \in Nat /\ n1 = n - 1
      BY <1>2, <1>4, <3>1, Zenon
    <3>3. n1 <= maxBatchSize
      BY ONLY <3>2
    <3> QED
      BY <3>1, <3>3, Zenon
  <2> QED
    BY <1>4, <2>1, <2>2, <2>3 DEF BatchType
<1>9. StageType'
  <2>1. batch' = <<>> <=> Len(batch) = 1
    BY <1>1, <1>2, <1>4
  <2>2. 1 \in 1..maxRetries
    OBVIOUS
  <2> QED
    BY <1>1, <1>3, <2>1, <2>2 DEF TypeInv, StageType
<1> QED
  BY <1>1, <1>3, <1>4, <1>8, <1>9

LEMMA EmptyBatch ==
    ASSUME batch' = <<>>, marked' \in Nat, pos' = marked'
    PROVE  BatchType'
<1>1. batch' \in Seq(Fetched) /\ Len(batch') = 0 /\ 0 <= maxBatchSize
  OBVIOUS
<1>2. PICK a, n : a = marked' /\ n = Len(batch')
  OBVIOUS
<1>3. a \in Nat /\ n = 0
  BY <1>1, <1>2, Zenon
<1>4. a + n = a /\ \A i \in 1..n : FALSE
  BY ONLY <1>3
<1> QED
  BY ONLY <1>1, <1>2, <1>3, <1>4, pos' = marked' DEF BatchType

LEMMA FunctionIsSequence ==
    ASSUME NEW S, NEW n \in Nat, NEW f \in [1..n -> S]
    PROVE  f \in Seq(S) /\ Len(f) = n
  OBVIOUS

LEMMA TypeStep == TypeInv /\ [Next]_vars => TypeInv' /\ TablesGrow
<1> SUFFICES ASSUME TypeInv, [Next]_vars
             PROVE  TypeInv' /\ TablesGrow
  OBVIOUS
<1>0. LogType /\ PlaceType /\ BatchType /\ StageType /\ TableType
  BY DEF TypeInv
<1> USE DEF session, tables, made
<1>1. CASE Produce
  <2>1. PICK k \in Kinds, u \in Users, t \in Times :
          log' = Append(log, [id |-> aux_made + 1, kind |-> k, user |-> u, time |-> t])
    BY <1>1 DEF Produce
  <2>2. PICK m : m = [id |-> aux_made + 1, kind |-> k, user |-> u, time |-> t]
    OBVIOUS
  <2>3. /\ aux_made \in Nat /\ aux_made' = aux_made + 1 /\ aux_made' \in 0..MaxMsgs
        /\ Len(log) < MaxLog /\ log \in Seq(Messages)
        /\ UNCHANGED <<committed, up, phase, pos, batch, pc, attempt, marked, status, dlq, aux_done,
                       aux_parked, faults>>
    BY <1>0, <1>1 DEF Produce, LogType
  <2>4. m \in Messages /\ m.id = aux_made + 1
    BY <2>2, <2>3 DEF Messages
  <2>5. LogType'
    <3>1. log' = Append(log, m)
      BY <2>1, <2>2
    <3>2. /\ log' \in Seq(Messages) /\ Len(log') = Len(log) + 1 /\ log'[Len(log) + 1] = m
          /\ \A i \in 1..Len(log) : log'[i] = log[i]
      BY <2>3, <2>4, <3>1
    <3>3. \A i \in 1..Len(log') : i \in 1..Len(log) \/ i = Len(log) + 1
      BY <2>3, <3>2
    <3>4. \A i \in 1..Len(log') : log'[i].id \in 1..aux_made'
      <4>1. aux_made \in Nat /\ aux_made' = aux_made + 1
        BY <1>0, <2>3 DEF LogType
      <4>2. ASSUME NEW i \in 1..Len(log)
            PROVE  log'[i].id \in 1..aux_made'
        BY <1>0, <3>2, <4>1 DEF LogType
      <4>3. log'[Len(log) + 1].id \in 1..aux_made'
        BY <2>4, <3>2, <4>1
      <4> QED
        BY <3>3, <4>2, <4>3
    <3>5. aux_passed' \subseteq 1..aux_made'
      <4>1. aux_passed \subseteq 1..aux_made
        BY <1>0 DEF LogType
      <4>2. aux_passed' \subseteq aux_passed \cup {aux_made + 1}
        BY <1>1 DEF Produce
      <4>3. \A n \in 1..aux_made : n \in 1..(aux_made + 1)
        BY <2>3
      <4>4. aux_made + 1 \in 1..(aux_made + 1)
        BY <2>3
      <4> QED
        BY <2>3, <4>1, <4>2, <4>3, <4>4, Zenon
    <3> QED
      BY <2>3, <3>2, <3>4, <3>5 DEF LogType
  <2>6. BatchType'
    BY <1>0, <2>3 DEF BatchType
  <2>7. StageType' /\ PlaceType'
    BY <1>0, <2>3 DEF StageType, PlaceType, msg
  <2> QED
    BY <1>1, <2>5, <2>6, <2>7, TablesStay DEF Produce, TypeInv
<1>2. CASE Truncate
  <2>1. PICK n \in 0..(Len(log) - 1) : log' = SubSeq(log, 1, n)
    BY <1>2 DEF Truncate
  <2>2. /\ log' \in Seq(Messages) /\ Len(log') = n /\ Len(log) \in Nat
        /\ \A i \in 1..n : log'[i] = log[i] /\ i \in 1..Len(log)
    BY <1>0, <2>1 DEF LogType
  <2>3. LogType'
    BY <1>0, <1>2, <2>1, <2>2 DEF LogType, Truncate
  <2>4. PlaceType'
    BY <1>0, <1>2 DEF Truncate, Fault, PlaceType
  <2>5. BatchType' /\ StageType'
    BY <1>0, <1>2 DEF Truncate, BatchType, StageType, msg
  <2> QED
    BY <1>2, <2>3, <2>4, <2>5, TablesStay DEF Truncate, TypeInv
<1>3. CASE Outage \/ Recover
  <2>1. LogType' /\ BatchType' /\ StageType'
    BY <1>0, <1>3 DEF Outage, Recover, LogType, BatchType, StageType, msg
  <2>2. UNCHANGED <<committed, pos, marked>> /\ faults' \in 0..MaxFaults
    BY <1>0, <1>3 DEF Outage, Recover, Fault, PlaceType
  <2>3. up' \in BOOLEAN
    BY <1>3, Zenon DEF Outage, Recover
  <2>4. PlaceType'
    BY <1>0, <2>2, <2>3 DEF PlaceType
  <2> QED
    BY <1>3, <2>1, <2>4, TablesStay DEF Outage, Recover, TypeInv
<1>4. CASE Start \/ StartUnhealed
  <2>1. /\ phase = "down" /\ batch = <<>> /\ batch' = batch /\ phase' \in {"running", "unhealed"}
        /\ committed' \in {0, committed} /\ pos' = committed' /\ marked' = committed'
        /\ UNCHANGED <<log, up, pc, attempt, faults, made, tables>>
    BY <1>0, <1>4 DEF Start, StartUnhealed, Join, StageType
  <2>2. committed' \in 0..MaxLog
    BY <1>0, <2>1 DEF PlaceType
  <2>3. BatchType'
    BY <2>1, <2>2, EmptyBatch
  <2>4. StageType' /\ LogType' /\ PlaceType'
    BY <1>0, <2>1, <2>2 DEF LogType, PlaceType, StageType
  <2> QED
    BY <2>1, <2>3, <2>4, TablesStay DEF TypeInv
<1>5. CASE Crash \/ RestartOnAlert
  <2>1. /\ phase' = "down" /\ pos' = 0 /\ batch' = <<>> /\ pc' = "idle" /\ attempt' = 1 /\ marked' = 0
        /\ UNCHANGED <<log, committed, up, tables, made>> /\ faults' \in 0..MaxFaults
    BY <1>0, <1>5 DEF Crash, RestartOnAlert, Stop, Fault, PlaceType
  <2>2. 1 \in 1..maxRetries /\ 0 \in 0..MaxLog
    OBVIOUS
  <2>3. LogType' /\ PlaceType' /\ BatchType' /\ StageType'
    BY <1>0, <2>1, <2>2 DEF LogType, PlaceType, BatchType, StageType
  <2> QED
    BY <2>1, <2>3, TablesStay DEF TypeInv
<1>6. CASE Fetch
  <2>1. PICK n \in 1..maxBatchSize :
          /\ pos + n <= Len(log)
          /\ batch' = [i \in 1..n |-> [off |-> pos + i - 1, m |-> log[pos + i]]]
          /\ pos' = pos + n
    BY <1>6 DEF Fetch
  <2>2. /\ phase # "down" /\ pc = "idle" /\ pc' = "batch" /\ attempt' = 1
        /\ UNCHANGED <<log, committed, up, phase, marked, tables, faults, made>>
        /\ pos \in Nat /\ log \in Seq(Messages) /\ Len(log) <= MaxLog /\ n \in Nat /\ marked \in Nat
        /\ marked + Len(batch) = pos /\ batch = <<>> /\ n >= 1 /\ n <= maxBatchSize /\ pos' = pos + n
    BY <1>0, <1>6, <2>1 DEF Fetch, StageType, PlaceType, LogType, BatchType
  <2>3. marked = pos /\ \A i \in 1..n : pos + i \in 1..Len(log)
    BY <2>1, <2>2
  <2>4. \A i \in 1..n : log[pos + i] \in Messages /\ log[pos + i].id \in 1..aux_made
    <3>1. \A i \in 1..Len(log) : log[i] \in Messages /\ log[i].id \in 1..aux_made
      BY <1>0 DEF LogType
    <3> QED
      BY <2>3, <3>1
  <2>5. batch' \in [1..n -> Fetched]
    <3>1. \A o \in Nat, m \in Messages : [off |-> o, m |-> m] \in Fetched
      BY DEF Fetched
    <3>2. \A i \in 1..n : pos + i - 1 \in Nat
      BY <2>2
    <3> QED
      BY <2>1, <2>4, <3>1, <3>2
  <2>6. batch' \in Seq(Fetched) /\ Len(batch') = n
    BY <2>2, <2>5, FunctionIsSequence
  <2>7. \A i \in 1..n : batch'[i].off = marked + i - 1 /\ batch'[i].m = log[pos + i]
    BY <2>1, <2>3
  <2>8. BatchType'
    <3>1. \A i \in 1..n : batch'[i].m.id \in 1..aux_made'
      BY <2>2, <2>4, <2>7
    <3>2. \A i \in 1..n : batch'[i].off = marked' + i - 1
      BY <2>2, <2>7
    <3> QED
      BY <2>2, <2>3, <2>6, <3>1, <3>2 DEF BatchType
  <2>9. LogType' /\ PlaceType'
    <3>1. LogType'
      BY <1>0, <2>1, <2>2 DEF LogType
    <3>2. PlaceType'
      BY <1>0, <2>1, <2>2 DEF PlaceType
    <3> QED
      BY <3>1, <3>2
  <2>10. StageType'
    <3>1. batch' # <<>> /\ 1 \in 1..maxRetries
      BY <2>2, <2>6
    <3> QED
      BY <1>0, <2>2, <3>1 DEF StageType
  <2> QED
    BY <2>2, <2>8, <2>9, <2>10, TablesStay DEF TypeInv
<1>7. CASE Flush
  <2>1. LogType' /\ PlaceType' /\ BatchType' /\ StageType'
    BY <1>0, <1>7 DEF Flush, LogType, PlaceType, BatchType, StageType, msg
  <2> QED
    BY <1>7, <2>1, TablesStay DEF Flush, TypeInv
<1>8. CASE WritePPPoEBatch
  <2>1. /\ pc = "batch" /\ batch' = <<>> /\ pc' = "idle" /\ marked' = batch[Len(batch)].off + 1
        /\ UNCHANGED <<log, committed, up, phase, pos, attempt, faults, made>>
        /\ WriteRows
    BY <1>8 DEF WritePPPoEBatch
  <2>2. Len(batch) \in Nat /\ Len(batch) >= 1 /\ marked \in Nat /\ pos \in Nat /\ marked + Len(batch) = pos
    BY <2>1, HeadType DEF TypeInv, BatchType, PlaceType
  <2>3. Len(batch) \in 1..Len(batch)
    BY <2>2
  <2>4. marked' = pos
    BY <1>0, <2>1, <2>2, <2>3 DEF BatchType
  <2>5. LogType' /\ PlaceType' /\ BatchType' /\ StageType'
    BY <1>0, <2>1, <2>2, <2>4 DEF LogType, PlaceType, BatchType, StageType
  <2> QED
    BY <2>1, <2>5, WriteRowsType DEF TypeInv
<1>9. CASE OneAtATime
  <2>1. /\ pc = "batch" /\ pc' = "one"
        /\ UNCHANGED <<log, committed, up, phase, pos, batch, attempt, marked, made>>
        /\ UNCHANGED tables \/ WriteRows
        /\ UNCHANGED faults \/ Fault
    BY <1>9 DEF OneAtATime
  <2>2. faults' \in 0..MaxFaults
    BY <1>0, <2>1 DEF PlaceType, Fault
  <2>3. LogType' /\ PlaceType'
    BY <1>0, <2>1, <2>2 DEF LogType, PlaceType
  <2>4. BatchType' /\ StageType'
    BY <1>0, <2>1 DEF BatchType, StageType
  <2> QED
    BY <2>1, <2>3, <2>4, TablesStay, WriteRowsType DEF TypeInv
<1>10. CASE Handle
  <2>1. pc = "one" /\ Effect /\ Finish /\ UNCHANGED <<log, committed, up, pos, faults, made>>
    BY <1>10 DEF Handle, Finish
  <2>2. BatchType' /\ StageType' /\ marked' \in 0..MaxLog
    BY <2>1, FinishType
  <2>3. LogType' /\ PlaceType'
    BY <1>0, <2>1, <2>2 DEF LogType, PlaceType
  <2> QED
    BY <2>1, <2>2, <2>3, EffectType DEF TypeInv
<1>11. CASE SendToDLQ
  <2>1. /\ pc = "dlq" /\ Finish /\ UNCHANGED <<log, committed, up, pos, faults, made, status, aux_done>>
        /\ dlq' = [dlq EXCEPT ![Head(batch).off] = IF @ = 0 THEN msg.id ELSE @]
        /\ aux_parked' = aux_parked \cup {msg}
    BY <1>11 DEF SendToDLQ, Finish
  <2>2. BatchType' /\ StageType' /\ marked' \in 0..MaxLog
    BY <2>1, FinishType
  <2>3. LogType' /\ PlaceType'
    BY <1>0, <2>1, <2>2 DEF LogType, PlaceType
  <2>4. msg \in Messages /\ msg.id \in 1..MaxMsgs /\ msg.kind = "poison" /\ Head(batch).off \in 0..(MaxLog - 1)
    BY <1>0, <2>1, HeadType DEF StageType
  <2>5. dlq' \in [0..(MaxLog - 1) -> 0..MaxMsgs]
    BY <1>0, <2>1, <2>4 DEF TableType
  <2>6. \A u \in Users : status[u].time \in Nat
    BY <1>0, RowTimes DEF TableType
  <2>7. TableType' /\ TablesGrow
    BY <1>0, <2>1, <2>4, <2>5, <2>6 DEF TableType, TablesGrow, OutagesParkNothing
  <2> QED
    BY <2>2, <2>3, <2>7 DEF TypeInv
<1>12. CASE InfraError
  <2>1. /\ pc = "one" /\ pc' = "one" /\ attempt' = attempt
        /\ UNCHANGED <<log, committed, up, phase, pos, batch, marked, faults, made>>
        /\ Effect \/ UNCHANGED tables
    BY <1>12 DEF InfraError, AfterFailure
  <2>2. LogType' /\ PlaceType' /\ BatchType' /\ StageType'
    BY <1>0, <2>1 DEF LogType, PlaceType, BatchType, StageType
  <2> QED
    BY <2>1, <2>2, TablesStay, EffectType DEF TypeInv
<1>13. CASE HandleFails
  <2>1. /\ pc = "one" /\ pc' \in {"one", "dlq"} /\ attempt' \in {1, attempt + 1}
        /\ attempt' = attempt + 1 => attempt < maxRetries \/ attempt + 1 = 1
        /\ msg.kind = "poison"
        /\ UNCHANGED <<log, committed, up, phase, pos, batch, marked, tables, faults, made>>
    BY <1>0, <1>13 DEF HandleFails, AfterFailure, StageType
  <2>2. attempt' \in 1..maxRetries
    BY <1>0, <2>1 DEF StageType
  <2>3. LogType' /\ PlaceType' /\ BatchType' /\ StageType'
    BY <1>0, <2>1, <2>2 DEF LogType, PlaceType, BatchType, StageType, msg
  <2> QED
    BY <2>1, <2>3, TablesStay DEF TypeInv
<1>14. CASE UNCHANGED vars
  <2>1. LogType' /\ PlaceType' /\ BatchType' /\ StageType'
    BY <1>0, <1>14 DEF vars, LogType, PlaceType, BatchType, StageType, msg
  <2> QED
    BY <1>14, <2>1, TablesStay DEF vars, TypeInv
<1> QED
  BY <1>1, <1>2, <1>3, <1>4, <1>5, <1>6, <1>7, <1>8, <1>9, <1>10, <1>11, <1>12, <1>13, <1>14
  DEF Next, Step

(* The state of broker, session and tables is well typed.                  *)
THEOREM Typing == Spec => []TypeOK
  BY TypeInit, TypeStep, TypeInvImplies, PTL DEF Spec

(* An outage of PostgreSQL or etcd, of any length and at any point of a    *)
(* batch, never uses up an attempt of handleOne: nothing but poison goes   *)
(* to kafka_dlq.                                                           *)
THEOREM OutageParksNothing == Spec => []OutagesParkNothing
<1>1. TypeInv => OutagesParkNothing
  BY DEF TypeInv, TableType
<1> QED
  BY <1>1, TypeInit, TypeStep, PTL DEF Spec

(* Every batched write that the consumer makes, of any number of messages, *)
(* leaves in pppoe_status what writing them one by one would have.         *)
THEOREM BatchSingles == Spec => BatchEqualsSingles
<1>1. TypeInv /\ [Next]_vars =>
        [WritePPPoEBatch => status' = OneByOne(status, Contents(batch))]_vars
  <2> SUFFICES ASSUME TypeInv, WritePPPoEBatch
               PROVE  status' = OneByOne(status, Contents(batch))
    OBVIOUS
  <2>1. status \in [Users -> StatusRows] /\ Contents(batch) \in Seq(Messages)
    BY ContentsType DEF TypeInv, TableType
  <2> QED
    BY <2>1, BatchIsOneByOne DEF WritePPPoEBatch, WriteRows
<1> QED
  BY <1>1, TypeInit, TypeStep, PTL DEF Spec, BatchEqualsSingles

-----------------------------------------------------------------------------
(* Offsets and effects *)

(* Message m has had its effect, or is parked; a state of PPPoE that was   *)
(* handled shows in the table, or a newer one does.  Or the group was past *)
(* the offset of m when it came.                                           *)
Recorded(m) ==
    \/ m.id \in aux_passed
    \/ Settled(m.id) /\ (m.kind = "pppoe" => status[m.user].time >= m.time)

(* The first n messages of the log, as far as there are any, are recorded. *)
RecordedTo(n) == \A i \in 1..n, m \in Messages : i <= Len(log) /\ log[i] = m => Recorded(m)

(* What is in hand is what the log has there, if it has anything there and *)
(* that did not come after the batch was fetched.                          *)
BatchIsLog == \A i \in 1..Len(batch) : marked + i <= Len(log) =>
    log[marked + i] = batch[i].m \/ log[marked + i].id \in aux_passed

SettledInv == RecordedTo(committed) /\ RecordedTo(marked) /\ BatchIsLog

Grows == TablesGrow /\ aux_passed \subseteq aux_passed'

LEMMA GrowStep == ASSUME TypeInv, [Next]_vars PROVE Grows
<1>1. ASSUME Produce
      PROVE  aux_passed \subseteq aux_passed'
  BY <1>1 DEF Produce
<1>2. ASSUME \/ Truncate \/ Outage \/ Recover \/ Start \/ StartUnhealed \/ Crash \/ RestartOnAlert
             \/ Fetch \/ WritePPPoEBatch \/ OneAtATime \/ Handle \/ HandleFails \/ SendToDLQ
             \/ Flush \/ InfraError \/ UNCHANGED vars
      PROVE  aux_passed' = aux_passed
  BY <1>2 DEF Truncate, Outage, Recover, Start, StartUnhealed, Join, Crash, RestartOnAlert, Stop, Fetch,
     WritePPPoEBatch, OneAtATime, Handle, HandleFails, SendToDLQ, Finish, Flush, InfraError,
     made, vars
<1>3. aux_passed \subseteq aux_passed'
  BY <1>1, <1>2 DEF Next, Step
<1> QED
  BY <1>3, TypeStep DEF Grows

LEMMA RecordedStays ==
    ASSUME TypeInv, TypeInv', Grows, NEW m \in Messages, Recorded(m)
    PROVE  Recorded(m)'
<1> USE DEF Grows
<1>0. CASE m.id \in aux_passed
  BY <1>0 DEF Recorded
<1> SUFFICES ASSUME m.id \notin aux_passed
             PROVE  Settled(m.id)' /\ (m.kind = "pppoe" => status'[m.user].time >= m.time)
  BY <1>0 DEF Recorded
<1>1. Settled(m.id)'
  BY DEF Recorded, Settled, TablesGrow
<1>2. ASSUME m.kind = "pppoe"
      PROVE  status'[m.user].time >= m.time
  <2>1. PICK u, t, old, new : /\ u = m.user /\ t = m.time
                              /\ old = status[u].time /\ new = status'[u].time
    OBVIOUS
  <2>2. u \in Users /\ t \in Nat
    BY <2>1, RowTimes
  <2>3. status[u] \in StatusRows /\ status'[u] \in StatusRows
    BY <2>2 DEF TypeInv, TableType
  <2>4. old \in Nat /\ new \in Nat
    BY <2>1, <2>3, RowTimes
  <2>5. new >= old /\ old >= t
    BY <1>2, <2>1, <2>2 DEF Recorded, TablesGrow
  <2>6. new >= t
    BY ONLY <2>2, <2>4, <2>5
  <2> QED
    BY <2>1, <2>6
<1> QED
  BY <1>1, <1>2

(* Among its first n messages the log has none that is new, but for those  *)
(* that the group is past already.                                         *)
Kept(n) == \A i \in 1..n : i <= Len(log') =>
    (i <= Len(log) /\ log'[i] = log[i]) \/ log'[i].id \in aux_passed'

LEMMA RecordedToStays ==
    ASSUME TypeInv, TypeInv', Grows, NEW n \in Nat, RecordedTo(n), Kept(n)
    PROVE  RecordedTo(n)'
<1> SUFFICES ASSUME NEW i \in 1..n, NEW m \in Messages, i <= Len(log'), log'[i] = m
             PROVE  Recorded(m)'
  BY DEF RecordedTo
<1>1. CASE i <= Len(log) /\ log[i] = m
  <2>1. Recorded(m)
    BY <1>1 DEF RecordedTo
  <2> QED
    BY <2>1, RecordedStays
<1>2. CASE m.id \in aux_passed'
  BY <1>2 DEF Recorded
<1> QED
  BY <1>1, <1>2 DEF Kept

(* A step that moves neither offset nor batch.                             *)
LEMMA SettledStays ==
    ASSUME TypeInv, TypeInv', Grows, SettledInv, UNCHANGED <<committed, marked, batch>>,
           Kept(committed), Kept(marked), Kept(pos)
    PROVE  SettledInv'
<1>1. PICK c, k : c = committed /\ k = marked
  OBVIOUS
<1>2. c \in Nat /\ k \in Nat
  BY <1>1 DEF TypeInv, PlaceType
<1>3. RecordedTo(c)' /\ RecordedTo(k)'
  BY <1>1, <1>2, RecordedToStays DEF SettledInv
<1>4. BatchIsLog'
  <2> SUFFICES ASSUME NEW i \in 1..Len(batch), marked + i <= Len(log')
               PROVE  log'[marked + i] = batch[i].m \/ log'[marked + i].id \in aux_passed'
    BY DEF BatchIsLog
  <2>1. marked \in Nat /\ marked + Len(batch) = pos /\ Len(batch) \in Nat
    BY DEF TypeInv, BatchType, PlaceType
  <2>2. marked + i \in 1..pos
    BY <2>1
  <2> QED
    BY <2>2 DEF SettledInv, BatchIsLog, Kept, Grows
<1> QED
  BY <1>1, <1>3, <1>4 DEF SettledInv

LEMMA KeptSame == ASSUME log' = log
                  PROVE  \A n : Kept(n)
  BY DEF Kept

(* The first message of the batch is recorded and finished.                *)
LEMMA FinishSettles ==
    ASSUME TypeInv, TypeInv', Grows, SettledInv, Finish, pc # "idle",
           NEW x \in Messages, x = msg, Recorded(x)'
    PROVE  SettledInv'
<1>1. log' = log /\ committed' = committed
  BY DEF Finish
<1>2. PICK c, k : c = committed /\ k = marked
  OBVIOUS
<1>3. c \in Nat /\ k \in Nat
  BY <1>2 DEF TypeInv, PlaceType
<1>4. RecordedTo(c)' /\ RecordedTo(k)'
  BY <1>1, <1>2, <1>3, RecordedToStays, KeptSame DEF SettledInv
<1>5. /\ marked' = k + 1 /\ Len(batch) \in Nat /\ Len(batch) >= 1 /\ Len(batch') = Len(batch) - 1
      /\ \A i \in 1..Len(batch') : batch'[i] = batch[i + 1]
      /\ batch[1].m = x
  <2>1. Len(batch) \in Nat
    BY DEF TypeInv, BatchType
  <2>2. Len(batch) >= 1 /\ batch[1].m = x
    BY HeadType
  <2>3. /\ marked' = k + 1 /\ Len(batch') = Len(batch) - 1
        /\ \A i \in 1..Len(batch') : batch'[i] = batch[i + 1]
    BY <1>2, FinishType
  <2> QED
    BY <2>1, <2>2, <2>3
<1>6. \A i \in 1..Len(batch) : k + i <= Len(log) =>
        log[k + i] = batch[i].m \/ log[k + i].id \in aux_passed
  BY <1>2 DEF SettledInv, BatchIsLog
<1>7. RecordedTo(k + 1)'
  <2> SUFFICES ASSUME NEW i \in 1..(k + 1), NEW m \in Messages, i <= Len(log), log[i] = m
               PROVE  Recorded(m)'
    BY <1>1 DEF RecordedTo
  <2>1. CASE i \in 1..k
    BY <1>1, <1>4, <2>1 DEF RecordedTo
  <2>2. CASE i = k + 1
    <3>1. 1 \in 1..Len(batch)
      BY <1>5
    <3>2. m = x \/ m.id \in aux_passed
      BY <1>5, <1>6, <2>2, <3>1
    <3> QED
      BY <3>2 DEF Recorded, Grows
  <2> QED
    BY <1>3, <2>1, <2>2
<1>8. BatchIsLog'
  <2> SUFFICES ASSUME NEW i \in 1..Len(batch'), (k + 1) + i <= Len(log)
               PROVE  log[(k + 1) + i] = batch'[i].m \/ log[(k + 1) + i].id \in aux_passed'
    BY <1>1, <1>5 DEF BatchIsLog
  <2>1. i + 1 \in 1..Len(batch) /\ (k + 1) + i = k + (i + 1)
    BY <1>3, <1>5
  <2> QED
    BY <1>5, <1>6, <2>1 DEF Grows
<1> QED
  BY <1>1, <1>2, <1>4, <1>5, <1>7, <1>8 DEF SettledInv

LEMMA SettledStep == TypeInv /\ SettledInv /\ [Next]_vars => SettledInv'
<1> SUFFICES ASSUME TypeInv, SettledInv, [Next]_vars
             PROVE  SettledInv'
  OBVIOUS
<1>0. TypeInv' /\ Grows
  BY TypeStep, GrowStep
<1>t. /\ log \in Seq(Messages) /\ Len(log) \in Nat /\ committed \in Nat /\ pos \in Nat /\ marked \in Nat
  BY DEF TypeInv, LogType, PlaceType
<1> USE DEF session, tables
<1>1. CASE Produce
  <2>1. ASSUME ~LostData
        PROVE  Kept(committed) /\ Kept(pos) /\ Kept(marked)
    <3>1. committed <= Len(log) /\ pos <= Len(log) /\ marked <= Len(log)
      BY <1>t, <2>1 DEF LostData
    <3>2. \A i \in 1..Len(log) : log'[i] = log[i]
      <4>1. PICK m : log' = Append(log, m)
        BY <1>1 DEF Produce
      <4> QED
        BY <1>t, <4>1
    <3> QED
      BY <1>t, <3>1, <3>2 DEF Kept
  <2>2. ASSUME LostData, NEW n \in Nat
        PROVE  Kept(n)
    <3>1. PICK m : log' = Append(log, m) /\ m.id = aux_made + 1
      BY <1>1 DEF Produce
    <3>2. m.id \in aux_passed'
      BY <1>1, <2>2, <3>1 DEF Produce
    <3>3. /\ Len(log') = Len(log) + 1 /\ log'[Len(log) + 1] = m
          /\ \A i \in 1..Len(log) : log'[i] = log[i]
      BY <1>t, <3>1
    <3>4. \A i \in 1..n : i <= Len(log) + 1 => i \in 1..Len(log) \/ i = Len(log) + 1
      BY <1>t
    <3> QED
      BY <1>t, <3>2, <3>3, <3>4 DEF Kept
  <2>3. Kept(committed) /\ Kept(pos) /\ Kept(marked)
    BY <1>t, <2>1, <2>2
  <2> QED
    BY <1>0, <1>1, <2>3, SettledStays DEF Produce
<1>2. CASE Truncate
  <2>1. PICK n \in 0..(Len(log) - 1) : log' = SubSeq(log, 1, n)
    BY <1>2 DEF Truncate
  <2>2. Len(log') = n /\ \A i \in 1..n : log'[i] = log[i] /\ i <= Len(log)
    BY <1>t, <2>1
  <2>3. Kept(committed) /\ Kept(pos) /\ Kept(marked)
    BY <1>t, <2>1, <2>2 DEF Kept
  <2> QED
    BY <1>0, <1>2, <2>3, SettledStays DEF Truncate
(* Steps of the databases and of handlers that finish nothing.             *)
<1>3. ASSUME UNCHANGED <<log, committed, marked, batch>>
      PROVE  SettledInv'
  BY <1>0, <1>3, SettledStays, KeptSame
<1>4. CASE Outage \/ Recover \/ OneAtATime \/ InfraError \/ HandleFails \/ UNCHANGED vars
  BY <1>3, <1>4 DEF Outage, Recover, OneAtATime, InfraError, HandleFails, vars
(* Steps that move to an offset that was settled.                          *)
<1>5. ASSUME UNCHANGED log, NEW c \in Nat, NEW k \in Nat, committed' = c, marked' = k,
             RecordedTo(c), RecordedTo(k), BatchIsLog'
      PROVE  SettledInv'
  <2>1. RecordedTo(c)' /\ RecordedTo(k)'
    BY <1>0, <1>5, RecordedToStays, KeptSame
  <2> QED
    BY <1>5, <2>1 DEF SettledInv
<1>6. RecordedTo(0) /\ RecordedTo(committed) /\ RecordedTo(marked)
  <2>1. \A i \in 1..0 : FALSE
    OBVIOUS
  <2> QED
    BY <2>1 DEF RecordedTo, SettledInv
<1>7. ASSUME batch' = <<>>
      PROVE  BatchIsLog'
  <2>1. Len(batch') = 0
    BY <1>7
  <2>2. \A i \in 1..0 : FALSE
    OBVIOUS
  <2> QED
    BY <2>1, <2>2 DEF BatchIsLog
<1>8. CASE Start \/ StartUnhealed
  <2>1. /\ UNCHANGED log /\ batch' = <<>> /\ committed' \in {0, committed} /\ marked' = committed'
    BY <1>8 DEF Start, StartUnhealed, Join, TypeInv, StageType
  <2>2. RecordedTo(committed') /\ committed' \in Nat
    BY <1>6, <1>t, <2>1
  <2>3. PICK c : c = committed'
    OBVIOUS
  <2>4. c \in Nat /\ RecordedTo(c)
    BY <2>2, <2>3
  <2> QED
    BY <1>5, <1>7, <2>1, <2>3, <2>4
<1>9. CASE Crash \/ RestartOnAlert
  <2>1. /\ UNCHANGED <<log, committed>> /\ batch' = <<>> /\ marked' = 0
    BY <1>9 DEF Crash, RestartOnAlert, Stop
  <2>2. PICK c : c = committed
    OBVIOUS
  <2>3. c \in Nat /\ 0 \in Nat /\ RecordedTo(c)
    BY <1>6, <1>t, <2>2
  <2> QED
    BY <1>5, <1>6, <1>7, <2>1, <2>2, <2>3
<1>10. CASE Fetch
  <2>1. /\ UNCHANGED <<log, committed, marked>> /\ pc = "idle"
    BY <1>10 DEF Fetch
  <2>2. marked = pos
    <3>1. batch = <<>> /\ marked + Len(batch) = pos
      BY <2>1 DEF TypeInv, StageType, BatchType
    <3>2. Len(batch) = 0
      BY <3>1
    <3> QED
      BY <1>t, <3>1, <3>2
  <2>3. BatchIsLog'
    <3>1. PICK n \in 1..maxBatchSize :
            /\ batch' = [i \in 1..n |-> [off |-> pos + i - 1, m |-> log[pos + i]]]
            /\ pos' = pos + n
      BY <1>10 DEF Fetch
    <3>2. \A i \in 1..n : batch'[i].m = log[pos + i]
      BY <3>1
    <3>3. Len(batch') = n
      <4>1. marked' + Len(batch') = pos' /\ Len(batch') \in Nat
        BY <1>0 DEF TypeInv, BatchType
      <4> QED
        BY <1>t, <2>1, <2>2, <3>1, <4>1
    <3> QED
      BY <2>1, <2>2, <3>2, <3>3 DEF BatchIsLog
  <2>4. PICK c, k : c = committed /\ k = marked
    OBVIOUS
  <2>5. c \in Nat /\ k \in Nat /\ RecordedTo(c) /\ RecordedTo(k)
    BY <1>6, <1>t, <2>4
  <2> QED
    BY <1>5, <2>1, <2>3, <2>4, <2>5
<1>11. CASE Flush
  <2>1. UNCHANGED <<log, marked, batch>> /\ committed' = marked
    BY <1>11 DEF Flush
  <2>2. PICK k : k = marked
    OBVIOUS
  <2>3. k \in Nat /\ RecordedTo(k) /\ BatchIsLog'
    BY <1>0, <1>6, <1>t, <2>1, <2>2 DEF SettledInv, BatchIsLog, Grows
  <2> QED
    BY <1>5, <2>1, <2>2, <2>3
<1>12. CASE WritePPPoEBatch
  <2>1. /\ pc = "batch" /\ batch' = <<>> /\ UNCHANGED <<log, committed, pos>>
        /\ marked' = batch[Len(batch)].off + 1 /\ WriteRows
    BY <1>12 DEF WritePPPoEBatch
  <2>2. PICK c, k, n : c = committed /\ k = marked /\ n = Len(batch)
    OBVIOUS
  <2>3. c \in Nat /\ k \in Nat /\ n \in Nat /\ n >= 1 /\ batch[n].off = k + n - 1
    <3>1. n \in Nat /\ n >= 1
      BY <2>1, <2>2, HeadType DEF TypeInv, BatchType
    <3>2. n \in 1..Len(batch)
      BY <2>2, <3>1
    <3> QED
      BY <1>t, <2>2, <3>1, <3>2 DEF TypeInv, BatchType
  <2>4. marked' = k + n
    BY <2>1, <2>2, <2>3
  <2>5. RecordedTo(c)' /\ RecordedTo(k)'
    BY <1>0, <1>6, <2>1, <2>2, <2>3, RecordedToStays, KeptSame
  <2>6. ASSUME NEW i \in 1..n
        PROVE  batch[i].m.id \in aux_done' /\ status'[batch[i].m.user].time >= batch[i].m.time
    BY <2>1, <2>2, WriteRowsType
  <2>7. RecordedTo(k + n)'
    <3> SUFFICES ASSUME NEW i \in 1..(k + n), NEW m \in Messages, i <= Len(log), log[i] = m
                 PROVE  Recorded(m)'
      BY <2>1 DEF RecordedTo
    <3>1. CASE i \in 1..k
      BY <2>1, <2>5, <3>1 DEF RecordedTo
    <3>2. CASE i \notin 1..k
      <4>1. PICK j : j = i - k
        OBVIOUS
      <4>2. j \in 1..n /\ k + j = i
        BY <2>3, <3>2, <4>1
      <4>3. m = batch[j].m \/ m.id \in aux_passed
        BY <2>2, <4>2 DEF SettledInv, BatchIsLog
      <4> QED
        BY <1>0, <2>6, <4>2, <4>3 DEF Recorded, Settled, Grows
    <3> QED
      BY <3>1, <3>2
  <2> QED
    BY <1>7, <2>1, <2>2, <2>4, <2>5, <2>7 DEF SettledInv
<1>13. CASE Handle
  <2>1. pc # "idle" /\ Effect /\ Finish
    BY <1>13 DEF Handle
  <2>2. PICK x : x = msg
    OBVIOUS
  <2>3. x \in Messages /\ x.id \in aux_done' /\ (x.kind = "pppoe" => status'[x.user].time >= x.time)
    BY <2>1, <2>2, EffectType, HeadType
  <2>4. Recorded(x)'
    BY <2>3 DEF Recorded, Settled
  <2> QED
    BY <1>0, <2>1, <2>2, <2>3, <2>4, FinishSettles
<1>14. CASE SendToDLQ
  <2>1. pc = "dlq" /\ Finish /\ aux_parked' = aux_parked \cup {msg}
    BY <1>14 DEF SendToDLQ
  <2>2. PICK x : x = msg
    OBVIOUS
  <2>3. x \in Messages /\ x \in aux_parked' /\ x.kind = "poison"
    BY <2>1, <2>2, HeadType DEF TypeInv, StageType
  <2>4. Recorded(x)'
    BY <2>3 DEF Recorded, Settled
  <2> QED
    BY <1>0, <2>1, <2>2, <2>3, <2>4, FinishSettles
<1> QED
  BY <1>1, <1>2, <1>4, <1>8, <1>9, <1>10, <1>11, <1>12, <1>13, <1>14 DEF Next, Step

LEMMA SettledInit == Init => SettledInv
<1> SUFFICES ASSUME Init
             PROVE  SettledInv
  OBVIOUS
<1>1. \A i \in 1..0 : FALSE
  OBVIOUS
<1>2. Len(batch) = 0
  BY DEF Init
<1> QED
  BY <1>1, <1>2 DEF Init, SettledInv, RecordedTo, BatchIsLog

LEMMA SettledImplies == TypeInv /\ SettledInv => CommittedIsSettled /\ StatusIsNewest
<1> SUFFICES ASSUME TypeInv, SettledInv, NEW o \in 0..(committed - 1), o < Len(log),
                    log[o + 1].id \notin aux_passed
             PROVE  /\ Settled(log[o + 1].id)
                    /\ log[o + 1].kind = "pppoe" => status[log[o + 1].user].time >= log[o + 1].time
  BY DEF CommittedIsSettled, StatusIsNewest
<1>1. committed \in Nat /\ log \in Seq(Messages)
  BY DEF TypeInv, PlaceType, LogType
<1>2. PICK i, m : i = o + 1 /\ m = log[i]
  OBVIOUS
<1>3. i \in 1..committed /\ i \in 1..Len(log) /\ i <= Len(log) /\ m \in Messages
  BY <1>1, <1>2
<1>4. Recorded(m)
  BY <1>2, <1>3 DEF SettledInv, RecordedTo
<1> QED
  BY <1>2, <1>4 DEF Recorded

(* Offsets are committed after their messages took effect or were parked,  *)
(* whatever crashes, fails half-way or is lost: all that negativeLagGuard  *)
(* lets pass are messages that came at offsets the group was past.         *)
THEOREM CommittedSettled == Spec => []CommittedIsSettled
  BY TypeInit, TypeStep, SettledInit, SettledStep, SettledImplies, PTL DEF Spec

(* With the same exception no row of pppoe_status is older than a state    *)
(* whose offset is committed, in whatever order and batches they came.     *)
THEOREM StatusNewest == Spec => []StatusIsNewest
  BY TypeInit, TypeStep, SettledInit, SettledStep, SettledImplies, PTL DEF Spec

-----------------------------------------------------------------------------
(* The dead letter queue *)

(* Numbers are given once, and so a message in hand is in the log at its   *)
(* own offset or nowhere; what has come there since has a higher one.      *)
NumberInv ==
    /\ \A o \in 0..(MaxLog - 1) : dlq[o] <= aux_made
    /\ \A m \in aux_parked : m.id \in 1..aux_made
    /\ \A i, j \in 1..Len(log) : log[i].id = log[j].id => i = j

InHandInv == \A j \in 1..Len(batch) :
    /\ \A i \in 1..Len(log) : log[i].id = batch[j].m.id => i = marked + j
    /\ marked + j <= Len(log) => batch[j].m.id <= log[marked + j].id

RowInv == NumberInv /\ InHandInv /\ DeadLetterHasARow

(* The types of what the invariant is about, in one place.                 *)
LEMMA NumberType ==
    ASSUME TypeInv
    PROVE  /\ Len(log) \in Nat /\ Len(log) <= MaxLog /\ aux_made \in Nat /\ marked \in Nat
           /\ Len(batch) \in Nat /\ log \in Seq(Messages) /\ MaxLog \in Nat
           /\ \A i \in 1..Len(log) : log[i].id \in 1..aux_made /\ log[i].id \in Nat
           /\ \A j \in 1..Len(batch) : batch[j].m.id \in 1..aux_made /\ batch[j].m.id \in Nat
           /\ \A o \in 0..(MaxLog - 1) : dlq[o] \in Nat
<1>1. /\ Len(log) \in Nat /\ Len(log) <= MaxLog /\ aux_made \in Nat /\ marked \in Nat
      /\ Len(batch) \in Nat /\ log \in Seq(Messages) /\ MaxLog \in Nat
  BY DEF TypeInv, LogType, PlaceType, BatchType
<1>2. \A n \in 1..aux_made : n \in Nat
  BY <1>1
<1>3. \A i \in 1..Len(log) : log[i].id \in 1..aux_made
  BY DEF TypeInv, LogType
<1>4. \A j \in 1..Len(batch) : batch[j].m.id \in 1..aux_made
  BY DEF TypeInv, BatchType
<1>5. \A o \in 0..(MaxLog - 1) : dlq[o] \in Nat
  BY DEF TypeInv, TableType
<1> QED
  BY <1>1, <1>2, <1>3, <1>4, <1>5

(* A step that touches neither log nor queue, and keeps, drops or advances *)
(* what is in hand.                                                        *)
LEMMA RowsStay ==
    ASSUME TypeInv, RowInv, UNCHANGED <<log, aux_made, dlq, aux_parked>>, InHandInv'
    PROVE  RowInv'
  BY DEF RowInv, NumberInv, DeadLetterHasARow

LEMMA InHandSame ==
    ASSUME InHandInv, UNCHANGED <<log, batch, marked>>
    PROVE  InHandInv'
  BY DEF InHandInv

LEMMA InHandNothing == ASSUME batch' = <<>> PROVE InHandInv'
<1>1. Len(batch') = 0 /\ \A j \in 1..0 : FALSE
  OBVIOUS
<1> QED
  BY <1>1 DEF InHandInv

LEMMA InHandNext ==
    ASSUME TypeInv, InHandInv, Finish, pc # "idle"
    PROVE  InHandInv'
<1>1. PICK k, n : k = marked /\ n = Len(batch')
  OBVIOUS
<1>2. /\ marked' = k + 1 /\ log' = log /\ k \in Nat
      /\ n = Len(batch) - 1 /\ Len(batch) \in Nat /\ n \in Nat
      /\ \A j \in 1..n : batch'[j] = batch[j + 1]
  <2>1. marked' = k + 1 /\ log' = log
    BY <1>1, FinishType DEF Finish
  <2>2. k \in Nat /\ Len(batch) \in Nat
    BY <1>1, NumberType
  <2>3. n = Len(batch) - 1 /\ \A j \in 1..n : batch'[j] = batch[j + 1]
    BY <1>1, FinishType
  <2>4. Len(batch) >= 1
    BY HeadType
  <2> QED
    BY <2>1, <2>2, <2>3, <2>4
<1>3. ASSUME NEW j \in 1..n
      PROVE  /\ \A i \in 1..Len(log) : log[i].id = batch'[j].m.id => i = (k + 1) + j
             /\ (k + 1) + j <= Len(log) => batch'[j].m.id <= log[(k + 1) + j].id
  <2>1. j + 1 \in 1..Len(batch) /\ (k + 1) + j = k + (j + 1)
    BY <1>2
  <2> QED
    BY <1>1, <1>2, <2>1 DEF InHandInv
<1> QED
  BY <1>1, <1>2, <1>3 DEF InHandInv

(* Every step keeps the rows and the numbers.                              *)
LEMMA RowStep == TypeInv /\ RowInv /\ [Next]_vars => RowInv'
<1> SUFFICES ASSUME TypeInv, RowInv, [Next]_vars
             PROVE  RowInv'
  OBVIOUS
<1>0. NumberInv /\ InHandInv /\ DeadLetterHasARow
  BY DEF RowInv
<1>t. /\ Len(log) \in Nat /\ Len(log) <= MaxLog /\ aux_made \in Nat /\ marked \in Nat
      /\ Len(batch) \in Nat /\ log \in Seq(Messages) /\ MaxLog \in Nat
      /\ \A i \in 1..Len(log) : log[i].id \in 1..aux_made /\ log[i].id \in Nat
      /\ \A j \in 1..Len(batch) : batch[j].m.id \in 1..aux_made /\ batch[j].m.id \in Nat
      /\ \A o \in 0..(MaxLog - 1) : dlq[o] \in Nat
  BY NumberType
<1> USE DEF session, tables, made
<1>1. CASE Produce
  <2>1. PICK m : log' = Append(log, m) /\ m.id = aux_made + 1
    BY <1>1 DEF Produce
  <2>2. PICK n, a : n = Len(log) /\ a = aux_made
    OBVIOUS
  <2>3. /\ Len(log') = n + 1 /\ log'[n + 1] = m /\ m.id = a + 1 /\ n \in Nat /\ a \in Nat
        /\ \A i \in 1..n : log'[i] = log[i] /\ log[i].id \in 1..a
        /\ UNCHANGED <<batch, marked, dlq, aux_parked>> /\ aux_made' = a + 1 /\ n + 1 <= MaxLog
    BY <1>1, <1>t, <2>1, <2>2 DEF Produce
  <2>4. /\ \A i \in 1..(n + 1) : i \in 1..n \/ i = n + 1
        /\ \A x \in 1..a : x # a + 1 /\ x <= a + 1 /\ x \in 1..(a + 1)
    BY <2>3
  <2>5. NumberInv'
    <3>1. \A o \in 0..(MaxLog - 1) : dlq[o] <= a + 1
      <4>1. \A o \in 0..(MaxLog - 1) : dlq[o] \in Nat /\ dlq[o] <= a
        BY <1>0, <1>t, <2>2 DEF NumberInv
      <4>2. \A x \in Nat : x <= a => x <= a + 1
        BY <2>3
      <4> QED
        BY <4>1, <4>2
    <3>2. \A x \in aux_parked : x.id \in 1..(a + 1)
      BY <1>0, <2>2, <2>4 DEF NumberInv
    <3>3. ASSUME NEW i \in 1..(n + 1), NEW j \in 1..(n + 1), log'[i].id = log'[j].id
          PROVE  i = j
      <4>1. \A l \in 1..n : log'[l].id # a + 1
        BY <2>3, <2>4
      <4>2. log'[n + 1].id = a + 1
        BY <2>3
      <4>3. CASE i \in 1..n /\ j \in 1..n
        BY <1>0, <2>2, <2>3, <3>3, <4>3 DEF NumberInv
      <4>4. CASE i = n + 1 \/ j = n + 1
        BY <2>4, <3>3, <4>1, <4>2, <4>4
      <4> QED
        BY <2>4, <4>3, <4>4
    <3> QED
      BY <2>3, <3>1, <3>2, <3>3 DEF NumberInv
  <2>6. InHandInv'
    <3> SUFFICES ASSUME NEW j \in 1..Len(batch)
                 PROVE  /\ \A i \in 1..(n + 1) : log'[i].id = batch[j].m.id => i = marked + j
                        /\ marked + j <= n + 1 => batch[j].m.id <= log'[marked + j].id
      BY <2>3 DEF InHandInv
    <3>1. batch[j].m.id \in 1..a /\ marked + j \in Nat /\ marked + j >= 1
      BY <1>t, <2>2
    <3>2. \A i \in 1..(n + 1) : log'[i].id = batch[j].m.id => i = marked + j
      BY <1>0, <2>2, <2>3, <2>4, <3>1 DEF InHandInv
    <3>3. PICK p : p = marked + j
      OBVIOUS
    <3>4. ASSUME p <= n + 1
          PROVE  batch[j].m.id <= log'[p].id
      <4>1. CASE p \in 1..n
        <5>1. p <= Len(log) /\ log'[p] = log[p]
          BY <2>2, <2>3, <4>1
        <5> QED
          BY <1>0, <3>3, <5>1 DEF InHandInv
      <4>2. CASE p = n + 1
        <5>1. log'[p].id = a + 1
          BY <2>3, <4>2
        <5> QED
          BY <2>4, <3>1, <5>1
      <4> QED
        BY <2>3, <3>1, <3>3, <3>4, <4>1, <4>2
    <3> QED
      BY <3>2, <3>3, <3>4
  <2>7. DeadLetterHasARow'
    <3> SUFFICES ASSUME NEW o \in 0..n
                 PROVE  /\ log'[o + 1] \in aux_parked => dlq[o] # 0
                        /\ dlq[o] <= log'[o + 1].id
      BY <2>3 DEF DeadLetterHasARow
    <3>1. CASE o = n
      <4>1. m \notin aux_parked
        BY <1>0, <2>2, <2>3, <2>4 DEF NumberInv
      <4>2. n \in 0..(MaxLog - 1)
        BY <1>t, <2>3
      <4>3. dlq[n] <= a /\ dlq[n] \in Nat
        BY <1>0, <1>t, <2>2, <4>2 DEF NumberInv
      <4>4. dlq[n] <= a + 1
        BY <2>3, <4>3
      <4> QED
        BY <2>3, <3>1, <4>1, <4>4
    <3>2. CASE o # n
      <4>1. o \in 0..(n - 1) /\ o + 1 \in 1..n
        BY <2>3, <3>2
      <4> QED
        BY <1>0, <2>2, <2>3, <4>1 DEF DeadLetterHasARow
    <3> QED
      BY <3>1, <3>2
  <2> QED
    BY <2>5, <2>6, <2>7 DEF RowInv
<1>2. CASE Truncate
  <2>1. PICK n \in 0..(Len(log) - 1) : log' = SubSeq(log, 1, n)
    BY <1>2 DEF Truncate
  <2>2. /\ Len(log') = n /\ n \in Nat /\ n <= Len(log)
        /\ \A i \in 1..n : log'[i] = log[i] /\ i \in 1..Len(log)
        /\ UNCHANGED <<batch, marked, dlq, aux_parked, aux_made>>
    BY <1>2, <1>t, <2>1 DEF Truncate
  <2>3. NumberInv'
    BY <1>0, <2>2 DEF NumberInv
  <2>4. InHandInv'
    <3> SUFFICES ASSUME NEW j \in 1..Len(batch)
                 PROVE  /\ \A i \in 1..n : log'[i].id = batch[j].m.id => i = marked + j
                        /\ marked + j <= n => batch[j].m.id <= log'[marked + j].id
      BY <2>2 DEF InHandInv
    <3>1. marked + j <= n => marked + j \in 1..n /\ marked + j <= Len(log)
      BY <1>t, <2>2
    <3> QED
      BY <1>0, <2>2, <3>1 DEF InHandInv
  <2>5. DeadLetterHasARow'
    <3> SUFFICES ASSUME NEW o \in 0..(n - 1)
                 PROVE  /\ log'[o + 1] \in aux_parked => dlq[o] # 0
                        /\ dlq[o] <= log'[o + 1].id
      BY <2>2 DEF DeadLetterHasARow
    <3>1. o + 1 \in 1..n /\ o \in 0..(Len(log) - 1)
      BY <1>t, <2>2
    <3> QED
      BY <1>0, <2>2, <3>1 DEF DeadLetterHasARow
  <2> QED
    BY <2>3, <2>4, <2>5 DEF RowInv
<1>3. CASE \/ Outage \/ Recover \/ OneAtATime \/ InfraError \/ HandleFails \/ Flush
           \/ UNCHANGED vars
  <2>1. UNCHANGED <<log, batch, marked, aux_made, dlq, aux_parked>>
    BY <1>3 DEF Outage, Recover, OneAtATime, WriteRows, InfraError, Effect, HandleFails, Flush, vars
  <2> QED
    BY <1>0, <2>1, InHandSame, RowsStay
<1>4. CASE Start \/ StartUnhealed \/ Crash \/ RestartOnAlert \/ WritePPPoEBatch
  <2>1. batch' = <<>> /\ UNCHANGED <<log, aux_made, dlq, aux_parked>>
    BY <1>4 DEF Start, StartUnhealed, Join, Crash, RestartOnAlert, Stop, WritePPPoEBatch, WriteRows,
         TypeInv, StageType
  <2> QED
    BY <2>1, InHandNothing, RowsStay
<1>5. CASE Handle
  <2>1. pc # "idle" /\ Finish /\ UNCHANGED <<log, aux_made, dlq, aux_parked>>
    BY <1>5 DEF Handle, Effect, Finish
  <2> QED
    BY <1>0, <2>1, InHandNext, RowsStay
<1>6. CASE Fetch
  <2>1. UNCHANGED <<log, marked, aux_made, dlq, aux_parked>> /\ pc = "idle"
    BY <1>6 DEF Fetch
  <2>2. PICK n \in 1..maxBatchSize :
          /\ batch' = [i \in 1..n |-> [off |-> pos + i - 1, m |-> log[pos + i]]]
          /\ pos + n <= Len(log)
    BY <1>6 DEF Fetch
  <2>3. marked = pos
    <3>1. batch = <<>> /\ marked + Len(batch) = pos /\ pos \in Nat
      BY <2>1 DEF TypeInv, StageType, BatchType, PlaceType
    <3>2. Len(batch) = 0
      BY <3>1
    <3> QED
      BY <1>t, <3>1, <3>2
  <2>4. Len(batch') = n /\ \A j \in 1..n : batch'[j].m = log[marked + j]
    BY <2>2, <2>3
  <2>5. InHandInv'
    <3> SUFFICES ASSUME NEW j \in 1..n
                 PROVE  /\ \A i \in 1..Len(log) : log[i].id = log[marked + j].id => i = marked + j
                        /\ log[marked + j].id <= log[marked + j].id
      BY <2>1, <2>4 DEF InHandInv
    <3>1. marked + j \in 1..Len(log)
      BY <1>t, <2>2, <2>3
    <3> QED
      BY <1>0, <1>t, <3>1 DEF NumberInv
  <2> QED
    BY <2>1, <2>5, RowsStay
<1>7. CASE SendToDLQ
  <2>1. /\ pc = "dlq" /\ Finish /\ UNCHANGED <<log, aux_made>>
        /\ dlq' = [dlq EXCEPT ![Head(batch).off] = IF @ = 0 THEN msg.id ELSE @]
        /\ aux_parked' = aux_parked \cup {msg}
    BY <1>7 DEF SendToDLQ, Finish
  <2>2. PICK k, x : k = marked /\ x = msg
    OBVIOUS
  <2>3. k \in 0..(MaxLog - 1) /\ Head(batch).off = k /\ x = batch[1].m /\ 1 \in 1..Len(batch)
    <3>1. /\ Len(batch) >= 1 /\ Head(batch) = batch[1] /\ msg = batch[1].m /\ batch[1].off = marked
          /\ marked \in 0..(MaxLog - 1)
      BY <2>1, HeadType
    <3> QED
      BY <1>t, <2>2, <3>1
  <2>4. x.id \in 1..aux_made /\ x.id \in Nat /\ x.id # 0 /\ x.id <= aux_made
    <3>1. x.id \in 1..aux_made /\ aux_made \in Nat
      BY <1>t, <2>3
    <3> QED
      BY <3>1
  <2>5. /\ \A o \in 0..(MaxLog - 1) : o # k => dlq'[o] = dlq[o]
        /\ dlq'[k] = IF dlq[k] = 0 THEN x.id ELSE dlq[k]
        /\ aux_parked' = aux_parked \cup {x}
    <3>1. dlq' = [dlq EXCEPT ![k] = IF @ = 0 THEN x.id ELSE @]
      BY <2>1, <2>2, <2>3
    <3>2. dlq \in [0..(MaxLog - 1) -> 0..MaxMsgs]
      BY DEF TypeInv, TableType
    <3> QED
      BY <2>1, <2>2, <2>3, <3>1, <3>2
  <2>6. /\ \A i \in 1..Len(log) : log[i].id = x.id => i = k + 1
        /\ k + 1 <= Len(log) => x.id <= log[k + 1].id
    BY <1>0, <2>2, <2>3 DEF InHandInv
  <2>7. NumberInv'
    <3>1. \A o \in 0..(MaxLog - 1) : dlq'[o] <= aux_made
      BY <1>0, <2>4, <2>5 DEF NumberInv
    <3>2. \A m \in aux_parked' : m.id \in 1..aux_made
      BY <1>0, <2>4, <2>5 DEF NumberInv
    <3> QED
      BY <1>0, <2>1, <3>1, <3>2 DEF NumberInv
  <2>8. DeadLetterHasARow'
    <3> SUFFICES ASSUME NEW o \in 0..(Len(log) - 1)
                 PROVE  /\ log[o + 1] \in aux_parked' => dlq'[o] # 0
                        /\ dlq'[o] <= log[o + 1].id
      BY <2>1 DEF DeadLetterHasARow
    <3>1. o \in 0..(MaxLog - 1) /\ o + 1 \in 1..Len(log)
      BY <1>t
    <3>2. (log[o + 1] \in aux_parked => dlq[o] # 0) /\ dlq[o] <= log[o + 1].id
      BY <1>0 DEF DeadLetterHasARow
    <3>3. CASE o = k
      <4>1. dlq'[k] # 0
        BY <2>4, <2>5
      <4>2. k + 1 <= Len(log)
        BY <1>t, <3>1, <3>3
      <4> QED
        BY <2>5, <2>6, <3>2, <3>3, <4>1, <4>2
    <3>4. CASE o # k
      <4>1. log[o + 1] # x
        <5>1. o + 1 # k + 1
          BY <2>3, <3>4
        <5> QED
          BY <2>6, <3>1, <5>1
      <4> QED
        BY <2>5, <3>1, <3>2, <3>4, <4>1
    <3> QED
      BY <3>3, <3>4
  <2>9. InHandInv'
    BY <1>0, <2>1, InHandNext
  <2> QED
    BY <2>7, <2>8, <2>9 DEF RowInv
<1> QED
  BY <1>1, <1>2, <1>3, <1>4, <1>5, <1>6, <1>7 DEF Next, Step

(* SendToDLQ: whatever outages, crashes and losses of log data there were, *)
(* a message that is parked and still in the log has a row at its offset,  *)
(* and no row there is of a newer message.                                 *)
THEOREM ParkedHasRow == Spec => []DeadLetterHasARow
<1>1. Init => RowInv
  <2> SUFFICES ASSUME Init
               PROVE  RowInv
    OBVIOUS
  <2>1. Len(log) = 0 /\ Len(batch) = 0 /\ aux_parked = {} /\ aux_made = 0
    BY DEF Init
  <2>2. \A o \in 0..(MaxLog - 1) : dlq[o] <= 0
    BY DEF Init
  <2>3. (\A i \in 1..0 : FALSE) /\ (\A o \in 0..(0 - 1) : FALSE)
    OBVIOUS
  <2> QED
    BY <2>1, <2>2, <2>3 DEF RowInv, NumberInv, InHandInv, DeadLetterHasARow
<1>2. RowInv => DeadLetterHasARow
  BY DEF RowInv
<1> QED
  BY <1>1, <1>2, RowStep, TypeInit, TypeStep, PTL DEF Spec

=============================================================================
