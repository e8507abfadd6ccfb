------------------------- MODULE OfflineEdit_proofs -------------------------
(* For any payloads, clocks, edits, messages, requests and faults: a       *)
(* deletion that has been handled or answered leaves no DNS orphan, and a  *)
(* decided edit replaces nothing but what the node's clock is ahead of.    *)
EXTENDS OfflineEdit, TLAPS

(* A tombstone is one for the HSI config, any other edit has contents, and *)
(* both have a number.                                                     *)
EditInv == \A k \in Keys :
    /\ edits[k].id \in 0..aux_id
    /\ edits[k].deleted => k = "hsi"
    /\ edits[k] # NoEdit => /\ edits[k].id > 0
                            /\ edits[k].deleted \/ edits[k].pay \in Payloads

MessageInv == \A i \in 1..Len(log) :
    /\ log[i].id \in 1..aux_id
    /\ log[i].deleted => log[i].key = "hsi"
    /\ log[i].deleted \/ log[i].pay \in Payloads

TypeInv == TypeOK /\ EditInv /\ MessageInv

(* A deletion that owes its cascade has left no config, so its tombstone   *)
(* is decided as a repeated one whenever it is handled again, and never    *)
(* discarded.                                                              *)
OwedInv == aux_doom > 0 =>
    /\ kv["hsi"] = Absent
    /\ log[aux_doom].deleted
    /\ aux_doom = idx => pc # "audit"

OrphanInv == OwedInv /\ DeletionLeavesNoOrphan

-----------------------------------------------------------------------------
(* Two proposals of the same edit say the same.                            *)
SameEdit(p, q) ==
    p.rv = q.rv /\ p.pay = q.pay /\ p.deleted = q.deleted /\ p.edited = q.edited

IdInv ==
    /\ \A i, j \in 1..Len(log) : log[i].id = log[j].id =>
         log[i].key = log[j].key /\ SameEdit(log[i], log[j])
    /\ \A k \in Keys, i \in 1..Len(log) : edits[k].id = log[i].id =>
         log[i].key = k /\ SameEdit(edits[k], log[i])
    /\ \A k, l \in Keys : edits[k].id = edits[l].id /\ edits[k] # NoEdit => k = l

(* No edit is newer than what is written now, on the clock of the node.    *)
PastInv ==
    /\ \A k \in Keys : edits[k] # NoEdit => edits[k].edited <= nodeClock
    /\ \A i \in 1..Len(log) : log[i].edited <= nodeClock

(* A proposal would replace what was written before its edit was made.     *)
Replaces(p, cur) == Decision(p, cur) = "accept" /\ cur.at < p.edited - Skew

(* What is decided stays without effect on whatever the key holds since.   *)
DecidedInv ==
    /\ \A i \in aux_decided : \E j \in 1..Len(log) : log[j].id = i
    /\ \A i \in 1..Len(log) : log[i].id \in aux_decided =>
         ~Replaces(log[i], kv[log[i].key])

ReplayInv == IdInv /\ PastInv /\ DecidedInv

-----------------------------------------------------------------------------
(* Types *)

(* nextResourceVersion of whatever a key holds is a version.               *)
LEMMA NextRVType == ASSUME NEW cur \in Values \cup {Absent} PROVE NextRV(cur) \in Nat
  BY AbsentAssumption DEF NextRV, NoRV, Values

(* The first state has its types.                                          *)
LEMMA InitType == Init => TypeInv
<1> SUFFICES ASSUME Init PROVE TypeInv
  OBVIOUS
<1> USE BoundsAssumption, KeysAssumption
<1>1. PICK p \in Payloads : /\ kv = [k \in Keys |-> [rv |-> 1, pay |-> p, at |-> 0]]
                            /\ copy = [k \in Keys |-> [rv |-> 1, pay |-> p]]
  BY DEF Init
<1>2. kv \in [Keys -> Values \cup {Absent}]
  BY <1>1 DEF Values
<1>3. copy \in [Keys -> [rv : Nat, pay : Payloads \cup {Absent}]]
  BY <1>1
<1>4. edits \in [Keys -> [rv : Nat, pay : Payloads \cup {Absent}, deleted : BOOLEAN,
                          edited : Int, id : Nat]]
  BY DEF Init, NoEdit
<1>5. log \in Seq(Proposals) /\ Len(log) = 0
  BY DEF Init
<1>6. TypeOK
  BY <1>2, <1>3, <1>4, <1>5 DEF Init, TypeOK, NoDoom
<1>7. EditInv /\ MessageInv
  BY <1>5 DEF Init, EditInv, MessageInv, NoEdit
<1> QED
  BY <1>6, <1>7 DEF TypeInv

(* Every write of a key is typed, and owes at most what was owed before.   *)
LEMMA WriteType ==
    ASSUME TypeInv, NEW k \in Keys, NEW v \in Values, WriteKey(k, v)
    PROVE  /\ kv' \in [Keys -> Values \cup {Absent}]
           /\ aux_doom' \in {NoDoom} \cup 0..Len(log)
  BY DEF TypeInv, TypeOK, WriteKey

(* Deletions are.                                                          *)
LEMMA DeleteType ==
    ASSUME TypeInv, NEW by \in 0..Len(log), DeleteHSI(by) \/ DeleteSubscriberDNS
    PROVE  /\ kv' \in [Keys -> Values \cup {Absent}]
           /\ aux_doom' \in {NoDoom} \cup 0..Len(log)
  BY KeysAssumption DEF TypeInv, TypeOK, DeleteHSI, DeleteSubscriberDNS

(* The operators' requests keep the types.                                 *)
LEMMA OperatorType ==
    ASSUME TypeInv,
           \/ \E k \in Keys : OperatorWrite(k)
           \/ DeleteLastDnsRecord \/ RestDelete \/ RestCascade \/ RestCascadeFails
           \/ RollbackDelete
    PROVE  TypeInv'
<1>1. /\ kv' \in [Keys -> Values \cup {Absent}]
      /\ aux_doom' \in {NoDoom} \cup 0..Len(log)
  <2>1. ASSUME NEW k \in Keys, OperatorWrite(k)
        PROVE  <1>1!1 /\ <1>1!2
    <3>1. PICK p \in Payloads : WriteKey(k, [rv |-> NextRV(kv[k]), pay |-> p, at |-> now])
      BY <2>1 DEF OperatorWrite
    <3>2. kv[k] \in Values \cup {Absent} /\ now \in Nat
      BY BoundsAssumption DEF TypeInv, TypeOK
    <3>3. NextRV(kv[k]) \in Nat
      BY <3>2, NextRVType
    <3>4. [rv |-> NextRV(kv[k]), pay |-> p, at |-> now] \in Values
      BY <3>2, <3>3 DEF Values
    <3> QED
      BY <3>1, <3>4, WriteType
  <2>2. 0 \in 0..Len(log)
    BY DEF TypeInv, TypeOK
  <2>3. CASE DeleteLastDnsRecord \/ RestCascade
    BY <2>2, <2>3, DeleteType DEF DeleteLastDnsRecord, RestCascade
  <2>4. CASE RestDelete
    BY <2>2, <2>4, DeleteType DEF RestDelete, etcd, TypeInv, TypeOK
  <2>5. CASE RestCascadeFails \/ RollbackDelete
    BY <2>2, <2>5, KeysAssumption DEF RestCascadeFails, RollbackDelete, etcd, TypeInv, TypeOK
  <2> QED
    BY <2>1, <2>3, <2>4, <2>5
<1>2. /\ rest' \in {"none", "cascade", "ok", "failed", "notfound"}
      /\ ops' \in 0..MaxOps /\ faults' \in 0..MaxFaults
  <2>1. CASE (\E k \in Keys : OperatorWrite(k)) \/ DeleteLastDnsRecord \/ RollbackDelete
    <3>1. Request /\ UNCHANGED <<rest, faults>>
      BY <2>1 DEF OperatorWrite, DeleteLastDnsRecord, RollbackDelete
    <3> QED
      BY <3>1, BoundsAssumption DEF TypeInv, TypeOK, Request
  <2>2. CASE RestDelete
    BY <2>2, BoundsAssumption DEF TypeInv, TypeOK, Request, RestDelete
  <2>3. CASE RestCascade \/ RestCascadeFails
    BY <2>3, BoundsAssumption DEF TypeInv, TypeOK, RestCascade, RestCascadeFails
  <2> QED
    BY <2>1, <2>2, <2>3
<1>3. UNCHANGED <<now, node, log, reads>>
  BY DEF OperatorWrite, DeleteLastDnsRecord, RestDelete, RestCascade, RestCascadeFails,
     RollbackDelete
<1> QED
  BY <1>1, <1>2, <1>3 DEF TypeInv, TypeOK, EditInv, MessageInv, node, reads

(* What the node does keeps them.                                          *)
LEMMA NodeType ==
    ASSUME TypeInv, NodeSync \/ NodeDelete \/ \E k \in Keys : NodeEdit(k)
    PROVE  TypeInv'
<1>1. UNCHANGED <<now, etcd, log, reads, rest, ops, faults>>
  BY DEF NodeSync, NodeDelete, NodeEdit
<1>2. nodeClock \in Int
  BY SkewAssumption, BoundsAssumption DEF TypeInv, TypeOK, nodeClock
<1>3. CASE NodeSync
  <2>1. copy' \in [Keys -> [rv : Nat, pay : Payloads \cup {Absent}]]
    BY <1>3 DEF NodeSync, TypeInv, TypeOK, Values, NoCopy
  <2> QED
    BY <1>1, <1>3, <2>1 DEF NodeSync, TypeInv, TypeOK, EditInv, MessageInv, etcd, reads
<1>4. ASSUME NEW k \in Keys, NEW e, NEW c \in [rv : Nat, pay : Payloads \cup {Absent}],
             e \in [rv : Nat, pay : Payloads \cup {Absent}, deleted : BOOLEAN,
                    edited : Int, id : Nat],
             e.deleted => k = "hsi", e.deleted \/ e.pay \in Payloads, aux_id < MaxEdits, e.id = aux_id + 1,
             aux_id' = aux_id + 1,
             copy' = [copy EXCEPT ![k] = c], edits' = [edits EXCEPT ![k] = e]
      PROVE  TypeInv'
  <2>1. aux_id \in Nat /\ aux_id' \in 0..MaxEdits
    BY <1>4, BoundsAssumption DEF TypeInv, TypeOK
  <2>2. EditInv'
    <3> SUFFICES ASSUME NEW l \in Keys
                 PROVE  /\ edits'[l].id \in 0..aux_id'
                        /\ edits'[l].deleted => l = "hsi"
                        /\ edits'[l] # NoEdit => /\ edits'[l].id > 0
                                                 /\ edits'[l].deleted \/ edits'[l].pay \in Payloads
      BY DEF EditInv
    <3>1. edits'[l] = IF l = k THEN e ELSE edits[l]
      BY <1>4 DEF TypeInv, TypeOK
    <3>2. CASE l = k
      BY <1>4, <2>1, <3>1, <3>2
    <3>3. CASE l # k
      <4>1. edits'[l] = edits[l] /\ 0..aux_id \subseteq 0..aux_id'
        BY <1>4, <2>1, <3>1, <3>3
      <4> QED
        BY <4>1 DEF TypeInv, EditInv
    <3> QED
      BY <3>2, <3>3
  <2>3. MessageInv'
    BY <1>1, <1>4, <2>1 DEF TypeInv, MessageInv
  <2> QED
    <3>1. /\ copy' \in [Keys -> [rv : Nat, pay : Payloads \cup {Absent}]]
          /\ edits' \in [Keys -> [rv : Nat, pay : Payloads \cup {Absent}, deleted : BOOLEAN,
                                  edited : Int, id : Nat]]
      BY <1>4 DEF TypeInv, TypeOK
    <3>2. TypeOK'
      BY <1>1, <2>1, <3>1 DEF TypeInv, TypeOK, etcd, reads
    <3> QED
      BY <2>2, <2>3, <3>2 DEF TypeInv
<1>5. aux_id \in Nat /\ \A k \in Keys : copy[k].rv \in Nat /\ copy[k].rv + 1 \in Nat
  <2>1. aux_id \in Nat
    BY BoundsAssumption DEF TypeInv, TypeOK
  <2>2. \A k \in Keys : copy[k].rv \in Nat
    BY DEF TypeInv, TypeOK
  <2> QED
    BY <2>1, <2>2
<1>6. CASE NodeDelete
  <2> DEFINE e == [rv |-> copy["hsi"].rv, pay |-> Absent, deleted |-> TRUE,
                   edited |-> nodeClock, id |-> aux_id + 1]
  <2>1. "hsi" \in Keys
    BY KeysAssumption
  <2>2. /\ e \in [rv : Nat, pay : Payloads \cup {Absent}, deleted : BOOLEAN,
                  edited : Int, id : Nat]
        /\ e.id = aux_id + 1 /\ e.deleted
    BY <1>2, <1>5, <2>1
  <2>3. NoCopy \in [rv : Nat, pay : Payloads \cup {Absent}]
    BY DEF NoCopy
  <2>4. /\ aux_id < MaxEdits /\ aux_id' = aux_id + 1
        /\ copy' = [copy EXCEPT !["hsi"] = NoCopy] /\ edits' = [edits EXCEPT !["hsi"] = e]
    BY <1>6 DEF NodeDelete
  <2> HIDE DEF e
  <2> QED
    BY <1>4, <2>1, <2>2, <2>3, <2>4
<1>7. ASSUME NEW k \in Keys, NodeEdit(k)
      PROVE  TypeInv'
  <2>1. PICK p \in Payloads :
          /\ copy' = [copy EXCEPT ![k] = [rv |-> @.rv + 1, pay |-> p]]
          /\ edits' = [edits EXCEPT ![k] =
               [rv |-> copy[k].rv + 1, pay |-> p, deleted |-> FALSE,
                edited |-> nodeClock, id |-> aux_id + 1]]
    BY <1>7 DEF NodeEdit
  <2> DEFINE e == [rv |-> copy[k].rv + 1, pay |-> p, deleted |-> FALSE,
                   edited |-> nodeClock, id |-> aux_id + 1]
             c == [rv |-> copy[k].rv + 1, pay |-> p]
  <2>2. /\ e \in [rv : Nat, pay : Payloads \cup {Absent}, deleted : BOOLEAN,
                  edited : Int, id : Nat]
        /\ e.id = aux_id + 1 /\ ~e.deleted /\ e.pay \in Payloads
    BY <1>2, <1>5
  <2>3. c \in [rv : Nat, pay : Payloads \cup {Absent}]
    BY <1>5
  <2>4. /\ aux_id < MaxEdits /\ aux_id' = aux_id + 1
        /\ copy' = [copy EXCEPT ![k] = c] /\ edits' = [edits EXCEPT ![k] = e]
    BY <1>7, <2>1 DEF NodeEdit, TypeInv, TypeOK
  <2> HIDE DEF e, c
  <2> QED
    BY <1>4, <2>2, <2>3, <2>4
<1> QED
  BY <1>3, <1>6, <1>7

(* A proposal says what its edit says.                                     *)
LEMMA PublishType ==
    ASSUME TypeInv, NEW k \in Keys, Publish(k)
    PROVE  /\ TypeInv'
           /\ Len(log) \in Nat /\ Len(log') = Len(log) + 1
           /\ \A i \in 1..Len(log) : log'[i] = log[i]
           /\ log'[Len(log) + 1].key = k
           /\ log'[Len(log) + 1].id = edits[k].id
           /\ SameEdit(edits[k], log'[Len(log) + 1])
<1> DEFINE m == [key |-> k, rv |-> edits[k].rv, pay |-> edits[k].pay,
                 deleted |-> edits[k].deleted, edited |-> edits[k].edited,
                 id |-> edits[k].id, sent |-> nodeClock]
<1>1. nodeClock \in Int
  BY SkewAssumption, BoundsAssumption DEF TypeInv, TypeOK, nodeClock
<1>2. m \in Proposals /\ m.id \in 1..aux_id
  <2>1. edits[k] \in [rv : Nat, pay : Payloads \cup {Absent}, deleted : BOOLEAN,
                      edited : Int, id : Nat]
    BY DEF TypeInv, TypeOK
  <2>2. m \in Proposals
    BY <1>1, <2>1 DEF Proposals
  <2>3. edits[k].id \in 0..aux_id /\ edits[k].id > 0 /\ aux_id \in Nat
    BY BoundsAssumption DEF Publish, TypeInv, TypeOK, EditInv
  <2> QED
    BY <2>2, <2>3
<1>3. (m.deleted => k = "hsi") /\ (m.deleted \/ m.pay \in Payloads)
  BY DEF Publish, TypeInv, EditInv
<1>4. log' = Append(log, m) /\ log \in Seq(Proposals)
  BY DEF Publish, TypeInv, TypeOK
<1>5. m.key = k /\ m.id = edits[k].id /\ m.rv = edits[k].rv /\ m.pay = edits[k].pay
      /\ m.deleted = edits[k].deleted /\ m.edited = edits[k].edited
  OBVIOUS
<1> HIDE DEF m
<1>6. /\ log' \in Seq(Proposals) /\ Len(log') = Len(log) + 1 /\ Len(log) \in Nat
      /\ \A i \in 1..Len(log) : log'[i] = log[i]
      /\ log'[Len(log) + 1] = m
  BY <1>2, <1>4
<1>7. /\ edits' \in [Keys -> [rv : Nat, pay : Payloads \cup {Absent}, deleted : BOOLEAN,
                              edited : Int, id : Nat]]
      /\ \A l \in Keys : edits'[l] = edits[l] \/ edits'[l] = NoEdit
  BY DEF Publish, TypeInv, TypeOK, NoEdit
<1>8. UNCHANGED <<now, etcd, copy, aux_id, reads, rest, ops, faults>>
  BY DEF Publish
<1>9. TypeOK'
  <2>1. 0..Len(log) \subseteq 0..Len(log') /\ 1..Len(log) \subseteq 1..Len(log')
    BY <1>6
  <2> QED
    BY <1>6, <1>7, <1>8, <2>1 DEF TypeInv, TypeOK, etcd, reads
<1>10. EditInv'
  <2> SUFFICES ASSUME NEW l \in Keys
               PROVE  /\ edits'[l].id \in 0..aux_id
                      /\ edits'[l].deleted => l = "hsi"
                      /\ edits'[l] # NoEdit => /\ edits'[l].id > 0
                                               /\ edits'[l].deleted \/ edits'[l].pay \in Payloads
    BY <1>8 DEF EditInv
  <2>1. CASE edits'[l] = edits[l]
    BY <2>1 DEF TypeInv, EditInv
  <2>2. CASE edits'[l] = NoEdit
    BY <2>2, BoundsAssumption DEF TypeInv, TypeOK, NoEdit
  <2> QED
    BY <1>7, <2>1, <2>2
<1>11. MessageInv'
  <2> SUFFICES ASSUME NEW i \in 1..Len(log')
               PROVE  /\ log'[i].id \in 1..aux_id
                      /\ log'[i].deleted => log'[i].key = "hsi"
                      /\ log'[i].deleted \/ log'[i].pay \in Payloads
    BY <1>8 DEF MessageInv
  <2>1. CASE i \in 1..Len(log)
    BY <1>6, <2>1 DEF TypeInv, MessageInv
  <2>2. CASE i = Len(log) + 1
    BY <1>2, <1>3, <1>5, <1>6, <2>2
  <2> QED
    BY <1>6, <2>1, <2>2
<1>12. SameEdit(edits[k], m)
  BY <1>5 DEF SameEdit
<1> QED
  BY <1>5, <1>6, <1>9, <1>10, <1>11, <1>12 DEF TypeInv

(* The consumer keeps the types.                                           *)
LEMMA ConsumerType ==
    ASSUME TypeInv,
           \/ Fetch \/ AcceptEdit \/ AcceptTombstone \/ Replayed \/ Discard
           \/ Cascade \/ Audit \/ DeadLetter \/ HandlerError \/ Restart
    PROVE  TypeInv'
<1>1. UNCHANGED <<now, node, log, rest, ops>>
  BY DEF Fetch, Decide, AcceptEdit, AcceptTombstone, Replayed, Discard, Cascade, Audit,
     DeadLetter, HandlerError, Restart
<1>2. Len(log) \in Nat /\ idx \in 0..Len(log) /\ now \in Nat
  BY BoundsAssumption DEF TypeInv, TypeOK
<1>3. ASSUME pc # "idle"
      PROVE  /\ idx \in 1..Len(log) /\ msg \in Proposals
             /\ msg.id \in 1..MaxEdits /\ msg.key \in Keys
  <2>1. idx \in 1..Len(log)
    BY <1>2, <1>3 DEF TypeInv, TypeOK
  <2>2. msg \in Proposals
    BY <2>1 DEF TypeInv, TypeOK, msg
  <2>3. msg.id \in 1..aux_id /\ aux_id \in 0..MaxEdits
    BY <2>1 DEF TypeInv, TypeOK, MessageInv, msg
  <2> QED
    BY <2>1, <2>2, <2>3, BoundsAssumption DEF Proposals
<1>4. /\ kv' \in [Keys -> Values \cup {Absent}]
      /\ aux_doom' \in {NoDoom} \cup 0..Len(log)
  <2>1. CASE AcceptEdit
    <3>1. pc # "idle" /\ Decision(msg, kv[msg.key]) = "accept" /\ ~msg.deleted
      BY <2>1 DEF AcceptEdit, Decide
    <3>2. kv[msg.key] \in Values
      BY <1>3, <3>1 DEF Decision, TypeInv, TypeOK
    <3>3. msg.pay \in Payloads
      BY <1>3, <3>1 DEF TypeInv, MessageInv, msg
    <3>4. [rv |-> kv[msg.key].rv + 1, pay |-> msg.pay, at |-> now] \in Values
      BY <1>2, <3>2, <3>3 DEF Values
    <3> QED
      BY <1>3, <2>1, <3>1, <3>4, WriteType DEF AcceptEdit
  <2>2. CASE AcceptTombstone \/ Cascade
    BY <1>2, <2>2, DeleteType DEF AcceptTombstone, Cascade
  <2>3. CASE Fetch \/ Replayed \/ Discard \/ Audit \/ DeadLetter \/ HandlerError \/ Restart
    BY <2>3 DEF Fetch, Replayed, Discard, Audit, DeadLetter, HandlerError, Restart, etcd,
       TypeInv, TypeOK
  <2> QED
    BY <2>1, <2>2, <2>3
<1>5. /\ idx' \in 0..Len(log)
      /\ pc' \in {"idle", "cas", "cascade", "audit"}
      /\ pc' # "idle" => idx' > 0
  <2>1. CASE Restart
    BY <1>2, <2>1 DEF Restart, Handled, TypeInv, TypeOK
  <2>2. CASE Fetch
    BY <1>2, <2>2 DEF Fetch
  <2>3. CASE AcceptEdit \/ AcceptTombstone \/ Replayed \/ Discard
    BY <1>2, <2>3 DEF AcceptEdit, AcceptTombstone, Replayed, Discard, Decide, TypeInv, TypeOK
  <2>4. CASE Cascade \/ Audit \/ DeadLetter \/ HandlerError
    BY <1>2, <2>4 DEF Cascade, Audit, DeadLetter, HandlerError, TypeInv, TypeOK
  <2> QED
    BY <2>1, <2>2, <2>3, <2>4
<1>6. aux_decided' \subseteq 1..MaxEdits
  <2>1. CASE AcceptEdit \/ AcceptTombstone \/ Replayed \/ Discard
    BY <1>3, <2>1 DEF AcceptEdit, AcceptTombstone, Replayed, Discard, Decide, TypeInv, TypeOK
  <2>2. CASE Fetch \/ Cascade \/ Audit \/ DeadLetter \/ HandlerError \/ Restart
    BY <2>2 DEF Fetch, Cascade, Audit, DeadLetter, HandlerError, Restart, TypeInv, TypeOK
  <2> QED
    BY <2>1, <2>2
<1>7. events' \subseteq Rows /\ dlq' \subseteq 1..Len(log) /\ faults' \in 0..MaxFaults
  <2>1. CASE Audit
    <3>1. [user |-> UserOf(msg.key), time |-> msg.sent] \in Rows
      BY <1>3, <2>1 DEF Audit, UserOf, Rows, Proposals
    <3> QED
      BY <2>1, <3>1 DEF Audit, TypeInv, TypeOK
  <2>2. CASE DeadLetter \/ HandlerError \/ Restart
    <3>1. faults' \in 0..MaxFaults /\ events' = events
      <4>1. faults < MaxFaults /\ faults' = faults + 1 /\ events' = events
        BY <2>2 DEF DeadLetter, HandlerError, Restart
      <4>2. faults \in 0..MaxFaults /\ MaxFaults \in Nat
        BY BoundsAssumption DEF TypeInv, TypeOK
      <4> QED
        BY <4>1, <4>2
    <3>2. CASE DeadLetter
      BY <1>3, <3>1, <3>2 DEF DeadLetter, TypeInv, TypeOK
    <3>3. CASE HandlerError \/ Restart
      BY <3>1, <3>3 DEF HandlerError, Restart, TypeInv, TypeOK
    <3> QED
      BY <2>2, <3>2, <3>3
  <2>3. CASE AcceptEdit \/ AcceptTombstone \/ Replayed \/ Discard \/ Fetch \/ Cascade
    BY <2>3 DEF AcceptEdit, AcceptTombstone, Replayed, Discard, Decide, Fetch, Cascade,
       TypeInv, TypeOK
  <2> QED
    BY <2>1, <2>2, <2>3
<1> QED
  BY <1>1, <1>2, <1>4, <1>5, <1>6, <1>7 DEF TypeInv, TypeOK, EditInv, MessageInv, node

(* Every step keeps them.                                                  *)
LEMMA TypeStep == TypeInv /\ [Next]_vars => TypeInv'
<1> SUFFICES ASSUME TypeInv, [Next]_vars PROVE TypeInv'
  OBVIOUS
<1>1. CASE Tick
  <2>1. now' \in 0..MaxTime
    BY <1>1, BoundsAssumption DEF Tick, TypeInv, TypeOK
  <2>2. UNCHANGED <<kv, copy, edits, log, idx, pc, events, dlq, rest, ops, faults,
                    aux_id, aux_decided, aux_doom>>
    BY <1>1 DEF Tick, etcd, node, reads
  <2>3. TypeOK'
    BY <2>1, <2>2 DEF TypeInv, TypeOK
  <2>4. EditInv' /\ MessageInv'
    BY <2>2 DEF TypeInv, EditInv, MessageInv
  <2> QED
    BY <2>3, <2>4 DEF TypeInv
<1>2. CASE UNCHANGED vars
  BY <1>2 DEF vars, TypeInv, TypeOK, EditInv, MessageInv
<1> QED
  BY <1>1, <1>2, OperatorType, NodeType, PublishType, ConsumerType DEF Next

(* Offline-edit arbitration keeps its types: whatever is accepted is a     *)
(* value that an etcd key can hold.                                        *)
THEOREM Typing == Spec => []TypeOK
<1>1. TypeInv => TypeOK
  BY DEF TypeInv
<1> QED
  BY <1>1, InitType, TypeStep, PTL DEF Spec

-----------------------------------------------------------------------------
(* No orphan *)

(* Nothing is owed at first.                                               *)
LEMMA InitOrphan == Init => OrphanInv
  BY DEF Init, OrphanInv, OwedInv, DeletionLeavesNoOrphan, NoDoom

(* When nothing is owed, there is nothing to show.                         *)
LEMMA NothingOwed == ASSUME aux_doom' = NoDoom PROVE OrphanInv'
  BY DEF OrphanInv, OwedInv, DeletionLeavesNoOrphan, NoDoom

(* Requests: a new config, or DNS records that go, end what is owed; the   *)
(* delete request owes its cascade until it has run or failed.             *)
LEMMA OperatorOrphan ==
    ASSUME TypeInv, OrphanInv,
           \/ \E k \in Keys : OperatorWrite(k)
           \/ DeleteLastDnsRecord \/ RestDelete \/ RestCascade \/ RestCascadeFails
           \/ RollbackDelete
    PROVE  OrphanInv'
<1>1. CASE DeleteLastDnsRecord \/ RestCascade \/ RollbackDelete
  <2>1. aux_doom' = NoDoom
    BY <1>1 DEF DeleteLastDnsRecord, RestCascade, RollbackDelete, DeleteSubscriberDNS
  <2> QED
    BY <2>1, NothingOwed
<1>2. CASE RestCascadeFails
  BY <1>2 DEF RestCascadeFails, etcd, reads, OrphanInv, OwedInv, DeletionLeavesNoOrphan, Handled
<1>3. CASE RestDelete
  <2>1. CASE kv["hsi"] = Absent
    BY <1>3, <2>1 DEF RestDelete, etcd, reads, OrphanInv, OwedInv, DeletionLeavesNoOrphan, Handled
  <2>2. CASE kv["hsi"] # Absent
    BY <1>3, <2>2 DEF RestDelete, DeleteHSI, OrphanInv, OwedInv, DeletionLeavesNoOrphan, NoDoom
  <2> QED
    BY <2>1, <2>2
<1>4. ASSUME NEW k \in Keys, OperatorWrite(k)
      PROVE  OrphanInv'
  <2>1. CASE k = "hsi"
    BY <1>4, <2>1, NothingOwed DEF OperatorWrite, WriteKey
  <2>2. CASE k # "hsi"
    <3>1. kv'["hsi"] = kv["hsi"] /\ aux_doom' = aux_doom
      BY <1>4, <2>2, KeysAssumption DEF OperatorWrite, WriteKey, TypeInv, TypeOK
    <3>2. UNCHANGED <<log, reads, rest>>
      BY <1>4 DEF OperatorWrite
    <3> QED
      BY <3>1, <3>2 DEF reads, OrphanInv, OwedInv, DeletionLeavesNoOrphan, Handled
  <2> QED
    BY <2>1, <2>2
<1> QED
  BY <1>1, <1>2, <1>3, <1>4

(* A tombstone that owes its cascade is decided again as a noop, which     *)
(* cascades again: the consumer gets past it only through the cascade.     *)
LEMMA ConsumerOrphan ==
    ASSUME TypeInv, OrphanInv,
           \/ Fetch \/ AcceptEdit \/ AcceptTombstone \/ Replayed \/ Discard
           \/ Cascade \/ Audit \/ DeadLetter \/ HandlerError \/ Restart
    PROVE  OrphanInv'
<1>1. log' = log /\ rest' = rest
  BY DEF Fetch, Decide, AcceptEdit, AcceptTombstone, Replayed, Discard, Cascade, Audit,
     DeadLetter, HandlerError, Restart
<1>2. /\ idx \in Int /\ aux_doom \in Int /\ Handled \in Int
      /\ pc \in {"idle", "cas", "cascade", "audit"}
      /\ aux_doom > 0 => aux_doom \in 1..Len(log)
  BY DEF TypeInv, TypeOK, NoDoom, Handled
<1>3. ASSUME UNCHANGED <<kv, aux_doom>>, Handled' <= Handled, Handled' \in Int,
             idx' = aux_doom => pc' # "audit"
      PROVE  OrphanInv'
  BY <1>1, <1>2, <1>3 DEF OrphanInv, OwedInv, DeletionLeavesNoOrphan
<1>4. ASSUME aux_doom > 0, pc # "idle", idx = aux_doom
      PROVE  msg.deleted /\ msg.key = "hsi" /\ Decision(msg, kv[msg.key]) = "noop"
  <2>1. msg.deleted /\ kv["hsi"] = Absent
    BY <1>4 DEF OrphanInv, OwedInv, msg
  <2>2. msg.key = "hsi"
    BY <1>2, <1>4, <2>1 DEF TypeInv, MessageInv, msg
  <2> QED
    BY <2>1, <2>2 DEF Decision
<1>5. ASSUME aux_doom > 0, pc # "idle", idx # aux_doom
      PROVE  aux_doom > idx
  BY <1>2, <1>5 DEF OrphanInv, DeletionLeavesNoOrphan, Handled
<1>6. CASE Fetch
  BY <1>2, <1>3, <1>6 DEF Fetch, etcd, Handled
<1>7. CASE HandlerError
  BY <1>2, <1>3, <1>7 DEF HandlerError, etcd, Handled
<1>8. CASE Restart
  <2>1. Handled' = idx' /\ idx' \in 0..Handled
    BY <1>8 DEF Restart, Handled
  <2> QED
    BY <1>2, <1>3, <1>8, <2>1 DEF Restart, etcd
<1>9. CASE Cascade
  BY <1>9, NothingOwed DEF Cascade, DeleteSubscriberDNS
<1>10. CASE AcceptTombstone
  <2>1. pc' = "cascade" /\ idx' = idx /\ msg.deleted /\ idx > 0
    BY <1>10 DEF AcceptTombstone, Decide, TypeInv, TypeOK
  <2>2. kv'["hsi"] = Absent /\ aux_doom' \in {NoDoom, idx}
    BY <1>10, KeysAssumption DEF AcceptTombstone, DeleteHSI, TypeInv, TypeOK
  <2> QED
    BY <1>1, <1>2, <2>1, <2>2
       DEF OrphanInv, OwedInv, DeletionLeavesNoOrphan, Handled, NoDoom, msg
<1>11. ASSUME UNCHANGED <<kv, aux_doom, idx>>, pc' = "idle", pc # "idle",
              aux_doom > 0 => idx # aux_doom
       PROVE  OrphanInv'
  <2>1. Handled' = idx
    BY <1>11 DEF Handled
  <2> QED
    BY <1>1, <1>2, <1>5, <1>11, <2>1 DEF OrphanInv, OwedInv, DeletionLeavesNoOrphan
<1>12. CASE Audit
  <2>1. aux_doom > 0 => idx # aux_doom
    BY <1>12 DEF Audit, OrphanInv, OwedInv
  <2> QED
    BY <1>11, <1>12, <2>1 DEF Audit, etcd
<1>13. CASE DeadLetter
  <2>1. aux_doom > 0 => idx # aux_doom
    BY <1>4, <1>13 DEF DeadLetter
  <2> QED
    BY <1>11, <1>13, <2>1 DEF DeadLetter, etcd
<1>14. CASE Discard
  <2>1. aux_doom > 0 => idx # aux_doom
    BY <1>4, <1>14 DEF Discard, Decide
  <2>2. /\ pc = "cas" /\ pc' = "audit" /\ idx' = idx
        /\ kv' = kv /\ aux_doom' = aux_doom
    BY <1>14 DEF Discard, Decide, etcd
  <2>3. Handled' = Handled
    BY <2>2 DEF Handled
  <2> QED
    BY <1>1, <1>2, <2>1, <2>2, <2>3 DEF OrphanInv, OwedInv, DeletionLeavesNoOrphan
<1>15. CASE Replayed
  <2>1. /\ pc = "cas" /\ idx' = idx /\ kv' = kv /\ aux_doom' = aux_doom
        /\ pc' = IF msg.deleted THEN "cascade" ELSE "idle"
    BY <1>15 DEF Replayed, Decide, etcd
  <2>2. CASE msg.deleted
    BY <1>2, <1>3, <2>1, <2>2 DEF Handled
  <2>3. CASE ~msg.deleted
    <3>1. aux_doom > 0 => idx # aux_doom
      BY <1>4, <2>1, <2>3
    <3>2. pc' = "idle" /\ pc # "idle" /\ UNCHANGED <<kv, aux_doom, idx>>
      BY <2>1, <2>3
    <3> QED
      BY <1>11, <3>1, <3>2
  <2> QED
    BY <2>2, <2>3
<1>16. CASE AcceptEdit
  <2>1. /\ pc = "cas" /\ idx' = idx /\ pc' = "idle" /\ ~msg.deleted
        /\ WriteKey(msg.key, [rv |-> kv[msg.key].rv + 1, pay |-> msg.pay, at |-> now])
    BY <1>16 DEF AcceptEdit, Decide
  <2>2. CASE msg.key = "hsi"
    BY <2>1, <2>2, NothingOwed DEF WriteKey
  <2>3. CASE msg.key # "hsi"
    <3>1. kv'["hsi"] = kv["hsi"] /\ aux_doom' = aux_doom
      BY <2>1, <2>3, KeysAssumption DEF WriteKey, TypeInv, TypeOK
    <3>2. aux_doom > 0 => aux_doom > idx
      BY <1>4, <1>5, <2>1
    <3>3. Handled' = idx
      BY <2>1 DEF Handled
    <3> QED
      BY <1>1, <1>2, <2>1, <3>1, <3>2, <3>3 DEF OrphanInv, OwedInv, DeletionLeavesNoOrphan
  <2> QED
    BY <2>2, <2>3
<1> QED
  BY <1>6, <1>7, <1>8, <1>9, <1>10, <1>12, <1>13, <1>14, <1>15, <1>16

(* Every step keeps it.                                                    *)
LEMMA OrphanStep == TypeInv /\ OrphanInv /\ [Next]_vars => OrphanInv'
<1> SUFFICES ASSUME TypeInv, OrphanInv, [Next]_vars PROVE OrphanInv'
  OBVIOUS
<1>1. ASSUME UNCHANGED <<etcd, log, reads, rest>>
      PROVE  OrphanInv'
  BY <1>1 DEF etcd, reads, OrphanInv, OwedInv, DeletionLeavesNoOrphan, Handled
<1>2. CASE Tick \/ NodeSync \/ NodeDelete \/ (\E k \in Keys : NodeEdit(k)) \/ UNCHANGED vars
  BY <1>1, <1>2 DEF Tick, NodeSync, NodeDelete, NodeEdit, vars, etcd, reads
<1>3. ASSUME NEW k \in Keys, Publish(k)
      PROVE  OrphanInv'
  <2>1. aux_doom > 0 => log'[aux_doom] = log[aux_doom]
    <3>1. aux_doom > 0 => aux_doom \in 1..Len(log)
      BY DEF TypeInv, TypeOK, NoDoom
    <3>2. \A i \in 1..Len(log) : log'[i] = log[i]
      BY <1>3, PublishType
    <3> QED
      BY <3>1, <3>2
  <2>2. UNCHANGED <<etcd, reads, rest>>
    BY <1>3 DEF Publish
  <2> QED
    BY <2>1, <2>2 DEF etcd, reads, OrphanInv, OwedInv, DeletionLeavesNoOrphan, Handled
<1> QED
  BY <1>2, <1>3, OperatorOrphan, ConsumerOrphan DEF Next

(* handleOfflineEdit and DeleteHSIConfig: once a tombstone is handled, or  *)
(* a delete request answered with success, the DNS records of the deleted  *)
(* config are gone, wherever the consumer failed or restarted.             *)
THEOREM NoOrphan == Spec => []DeletionLeavesNoOrphan
<1>1. OrphanInv => DeletionLeavesNoOrphan
  BY DEF OrphanInv
<1> QED
  BY <1>1, InitType, InitOrphan, TypeStep, OrphanStep, PTL DEF Spec

-----------------------------------------------------------------------------
(* Replay *)

(* A message is a proposal for one of the keys.                            *)
LEMMA MessageType ==
    ASSUME TypeInv
    PROVE  \A i \in 1..Len(log) : log[i].key \in Keys /\ log[i].edited \in Int
<1>1. \A i \in 1..Len(log) : log[i] \in Proposals
  BY DEF TypeInv, TypeOK
<1> QED
  BY <1>1 DEF Proposals

(* Nothing is edited or decided at first.                                  *)
LEMMA InitReplay == Init => ReplayInv
<1> SUFFICES ASSUME Init PROVE ReplayInv
  OBVIOUS
<1>1. Len(log) = 0 /\ aux_decided = {} /\ \A k \in Keys : edits[k] = NoEdit
  BY DEF Init
<1> QED
  BY <1>1 DEF ReplayInv, IdInv, PastInv, DecidedInv

(* An edit replaces nothing that was written after it was made.            *)
LEMMA NotLater ==
    ASSUME NEW p, NEW cur, p.edited \in Int,
           cur = Absent \/ (cur.at \in Int /\ p.edited - Skew <= cur.at)
    PROVE  ~Replaces(p, cur)
  BY SkewAssumption DEF Replaces, Decision

(* Two proposals of one edit are decided alike.                            *)
LEMMA SameDecision ==
    ASSUME NEW p, NEW q, SameEdit(p, q), NEW cur
    PROVE  Replaces(p, cur) <=> Replaces(q, cur)
  BY DEF SameEdit, Replaces, Decision, Supersedes, Later

(* Whatever changes a key deletes it or stamps it with the time.           *)
LEMMA Stamps ==
    ASSUME TypeInv, [Next]_vars, NEW k \in Keys
    PROVE  kv'[k] = kv[k] \/ kv'[k] = Absent \/ kv'[k].at = now
<1>1. ASSUME NEW l \in Keys, NEW v, v.at = now, WriteKey(l, v)
      PROVE  kv'[k] = kv[k] \/ kv'[k].at = now
  BY <1>1 DEF WriteKey, TypeInv, TypeOK
<1>2. ASSUME NEW l \in Keys, OperatorWrite(l)
      PROVE  kv'[k] = kv[k] \/ kv'[k].at = now
  BY <1>1, <1>2 DEF OperatorWrite
<1>3. CASE AcceptEdit
  <2>1. msg.key \in Keys
    <3>1. idx \in 1..Len(log)
      BY <1>3 DEF AcceptEdit, Decide, TypeInv, TypeOK
    <3> QED
      BY <3>1, MessageType DEF msg
  <2> QED
    BY <1>1, <1>3, <2>1 DEF AcceptEdit
<1>4. CASE \/ DeleteLastDnsRecord \/ RestDelete \/ RestCascade \/ RollbackDelete
           \/ AcceptTombstone \/ Cascade
  BY <1>4, KeysAssumption
     DEF DeleteLastDnsRecord, RestDelete, RestCascade, RollbackDelete, AcceptTombstone,
         Cascade, DeleteHSI, DeleteSubscriberDNS, etcd, TypeInv, TypeOK
<1>5. CASE \/ Tick \/ RestCascadeFails \/ NodeSync \/ NodeDelete
           \/ \E l \in Keys : NodeEdit(l) \/ Publish(l)
           \/ Fetch \/ Replayed \/ Discard \/ Audit \/ DeadLetter \/ HandlerError \/ Restart
           \/ UNCHANGED vars
  BY <1>5 DEF Tick, RestCascadeFails, NodeSync, NodeDelete, NodeEdit, Publish, Fetch,
     Replayed, Discard, Audit, DeadLetter, HandlerError, Restart, vars, etcd
<1> QED
  BY <1>2, <1>3, <1>4, <1>5 DEF Next

(* The log changes only when a proposal is published, edits only on the    *)
(* node, and the decided ones only by a decision.                          *)
LEMMA Changes ==
    ASSUME [Next]_vars
    PROVE  /\ (\E k \in Keys : Publish(k)) \/ log' = log
           /\ (\E k \in Keys : Publish(k) \/ NodeEdit(k)) \/ NodeDelete
                \/ (edits' = edits /\ aux_id' = aux_id)
           /\ AcceptEdit \/ AcceptTombstone \/ Replayed \/ Discard \/ aux_decided' = aux_decided
<1>1. (\E k \in Keys : Publish(k)) \/ log' = log
  BY DEF Next, vars, Tick, OperatorWrite, NodeEdit, DeleteLastDnsRecord, RestDelete,
     RestCascade, RestCascadeFails, RollbackDelete, NodeSync, NodeDelete, Fetch, Decide,
     AcceptEdit, AcceptTombstone, Replayed, Discard, Cascade, Audit, DeadLetter,
     HandlerError, Restart
<1>2. \/ (\E k \in Keys : Publish(k) \/ NodeEdit(k)) \/ NodeDelete
      \/ (edits' = edits /\ aux_id' = aux_id)
  BY DEF Next, vars, Tick, OperatorWrite, DeleteLastDnsRecord, RestDelete, RestCascade,
     RestCascadeFails, RollbackDelete, NodeSync, Fetch, Decide, AcceptEdit,
     AcceptTombstone, Replayed, Discard, Cascade, Audit, DeadLetter, HandlerError,
     Restart, node
<1>3. AcceptEdit \/ AcceptTombstone \/ Replayed \/ Discard \/ aux_decided' = aux_decided
  BY DEF Next, vars, Tick, OperatorWrite, NodeEdit, Publish, DeleteLastDnsRecord, RestDelete,
     RestCascade, RestCascadeFails, RollbackDelete, NodeSync, NodeDelete, Fetch, Cascade,
     Audit, DeadLetter, HandlerError, Restart, reads
<1> QED
  BY <1>1, <1>2, <1>3

(* A new edit, of a key that it belongs to, made now.                      *)
LEMMA NewEdit ==
    ASSUME TypeInv, NodeDelete \/ \E k \in Keys : NodeEdit(k)
    PROVE  \E k \in Keys :
             /\ \A l \in Keys \ {k} : edits'[l] = edits[l]
             /\ edits'[k].id = aux_id + 1 /\ edits'[k].edited = nodeClock
             /\ log' = log /\ now' = now
<1>1. CASE NodeDelete
  <2>1. "hsi" \in Keys
    BY KeysAssumption
  <2> QED
    BY <1>1, <2>1 DEF NodeDelete, TypeInv, TypeOK
<1>2. ASSUME NEW k \in Keys, NodeEdit(k)
      PROVE  /\ \A l \in Keys \ {k} : edits'[l] = edits[l]
             /\ edits'[k].id = aux_id + 1 /\ edits'[k].edited = nodeClock
             /\ log' = log /\ now' = now
  BY <1>2 DEF NodeEdit, TypeInv, TypeOK
<1> QED
  BY <1>1, <1>2

(* Proposals of the same edit go on saying the same.                       *)
LEMMA IdStep == ASSUME TypeInv, IdInv, [Next]_vars PROVE IdInv'
<1>1. CASE NodeDelete \/ \E k \in Keys : NodeEdit(k)
  <2>1. PICK k \in Keys :
          /\ \A l \in Keys \ {k} : edits'[l] = edits[l]
          /\ edits'[k].id = aux_id + 1 /\ log' = log
    BY <1>1, NewEdit
  <2>2. /\ aux_id \in Int
        /\ \A i \in 1..Len(log) : log[i].id \in Int /\ log[i].id <= aux_id
        /\ \A l \in Keys : edits[l].id \in Int /\ edits[l].id <= aux_id
    BY DEF TypeInv, TypeOK, EditInv, MessageInv
  <2> QED
    BY <2>1, <2>2 DEF IdInv
<1>2. ASSUME NEW k \in Keys, Publish(k)
      PROVE  IdInv'
  <2> DEFINE n == Len(log) + 1
  <2>1. /\ Len(log') = n /\ Len(log) \in Nat
        /\ \A i \in 1..Len(log) : log'[i] = log[i]
        /\ log'[n].key = k /\ log'[n].id = edits[k].id /\ SameEdit(edits[k], log'[n])
    BY <1>2, PublishType
  <2>2. \A l \in Keys : edits'[l] = edits[l] \/ edits'[l] = NoEdit
    <3>1. edits' = edits \/ edits' = [edits EXCEPT ![k] = NoEdit]
      BY <1>2 DEF Publish
    <3> QED
      BY <3>1 DEF TypeInv, TypeOK
  <2>3. edits[k] # NoEdit /\ NoEdit.id = 0 /\ edits[k].id # 0
    <3>1. edits[k] # NoEdit /\ edits[k].id > 0
      BY <1>2 DEF Publish, TypeInv, EditInv
    <3>2. NoEdit.id = 0
      BY DEF NoEdit
    <3> QED
      BY <3>1, <3>2
  <2>4. \A i \in 1..Len(log) : log[i].id # 0
    BY DEF TypeInv, MessageInv
  <2> HIDE DEF n
  <2>5. \A i \in 1..Len(log') : i \in 1..Len(log) \/ i = n
    BY <2>1 DEF n
  <2>6. \A i \in 1..Len(log) : log'[n].id = log[i].id =>
           log[i].key = k /\ SameEdit(log'[n], log[i])
    <3> SUFFICES ASSUME NEW i \in 1..Len(log), edits[k].id = log[i].id
                 PROVE  log[i].key = k /\ SameEdit(log'[n], log[i])
      BY <2>1
    <3>1. log[i].key = k /\ SameEdit(edits[k], log[i])
      BY DEF IdInv
    <3> QED
      BY <2>1, <3>1 DEF SameEdit
  <2>7. ASSUME NEW i \in 1..Len(log'), NEW j \in 1..Len(log'), log'[i].id = log'[j].id
        PROVE  log'[i].key = log'[j].key /\ SameEdit(log'[i], log'[j])
    <3>1. CASE i \in 1..Len(log) /\ j \in 1..Len(log)
      BY <2>1, <2>7, <3>1 DEF IdInv
    <3>2. CASE i = n /\ j \in 1..Len(log)
      BY <2>1, <2>6, <2>7, <3>2
    <3>3. CASE i \in 1..Len(log) /\ j = n
      BY <2>1, <2>6, <2>7, <3>3 DEF SameEdit
    <3>4. CASE i = n /\ j = n
      BY <3>4 DEF SameEdit
    <3> QED
      BY <2>5, <3>1, <3>2, <3>3, <3>4
  <2>8. ASSUME NEW l \in Keys, NEW i \in 1..Len(log'), edits'[l].id = log'[i].id
        PROVE  log'[i].key = l /\ SameEdit(edits'[l], log'[i])
    <3>1. edits'[l] = edits[l]
      BY <2>1, <2>2, <2>3, <2>4, <2>5, <2>8
    <3>2. CASE i \in 1..Len(log)
      BY <2>1, <2>8, <3>1, <3>2 DEF IdInv
    <3>3. CASE i = n
      <4>1. l = k
        BY <2>1, <2>3, <2>8, <3>1, <3>3 DEF IdInv
      <4> QED
        BY <2>1, <3>1, <3>3, <4>1
    <3> QED
      BY <2>5, <3>2, <3>3
  <2>9. ASSUME NEW h \in Keys, NEW l \in Keys, edits'[h].id = edits'[l].id, edits'[h] # NoEdit
        PROVE  h = l
    <3>1. edits'[h] = edits[h] /\ edits[h].id # 0
      BY <2>2, <2>9 DEF TypeInv, EditInv
    <3>2. edits'[l] = edits[l]
      BY <2>2, <2>3, <2>9, <3>1
    <3> QED
      BY <2>9, <3>1, <3>2 DEF IdInv
  <2> QED
    BY <2>7, <2>8, <2>9 DEF IdInv
<1>3. CASE log' = log /\ edits' = edits
  BY <1>3 DEF IdInv
<1> QED
  BY <1>1, <1>2, <1>3, Changes

(* Time goes on, and the node's clock with it.                             *)
LEMMA PastStep == ASSUME TypeInv, PastInv, [Next]_vars PROVE PastInv'
<1>1. now \in Int /\ now' \in Int /\ now <= now'
  <2>1. now' = now \/ now' = now + 1
    BY DEF Next, vars, Tick, OperatorWrite, NodeEdit, Publish, DeleteLastDnsRecord, RestDelete,
       RestCascade, RestCascadeFails, RollbackDelete, NodeSync, NodeDelete, Fetch, Decide,
       AcceptEdit, AcceptTombstone, Replayed, Discard, Cascade, Audit, DeadLetter,
       HandlerError, Restart
  <2> QED
    BY <2>1, BoundsAssumption DEF TypeInv, TypeOK
<1>2. /\ \A k \in Keys : edits[k].edited \in Int
      /\ \A i \in 1..Len(log) : log[i].edited \in Int
  BY MessageType DEF TypeInv, TypeOK
<1>3. CASE NodeDelete \/ \E k \in Keys : NodeEdit(k)
  <2>1. PICK k \in Keys :
          /\ \A l \in Keys \ {k} : edits'[l] = edits[l]
          /\ edits'[k].edited = nodeClock /\ log' = log /\ now' = now
    BY <1>3, NewEdit
  <2>2. nodeClock' = nodeClock /\ nodeClock \in Int
    BY <1>1, <2>1, SkewAssumption DEF nodeClock
  <2> QED
    BY <2>1, <2>2 DEF PastInv
<1>4. ASSUME NEW k \in Keys, Publish(k)
      PROVE  PastInv'
  <2>1. /\ Len(log') = Len(log) + 1 /\ Len(log) \in Nat
        /\ \A i \in 1..Len(log) : log'[i] = log[i]
        /\ SameEdit(edits[k], log'[Len(log) + 1])
    BY <1>4, PublishType
  <2>2. edits[k] # NoEdit /\ now' = now /\ \A l \in Keys : edits'[l] \in {edits[l], NoEdit}
    BY <1>4 DEF Publish, TypeInv, TypeOK
  <2>3. nodeClock' = nodeClock
    BY <2>2 DEF nodeClock
  <2>4. \A i \in 1..Len(log') : log'[i].edited <= nodeClock
    <3>1. \A i \in 1..Len(log') : i \in 1..Len(log) \/ i = Len(log) + 1
      BY <2>1
    <3> QED
      BY <2>1, <2>2, <3>1 DEF PastInv, SameEdit
  <2>5. \A l \in Keys : edits'[l] # NoEdit => edits'[l].edited <= nodeClock
    BY <2>2 DEF PastInv
  <2> QED
    BY <2>3, <2>4, <2>5 DEF PastInv
<1>5. CASE log' = log /\ edits' = edits
  <2>1. PICK m \in Int, n \in Int : m = now /\ n = now' /\ m <= n
    BY <1>1
  <2>2. \A e \in Int : e <= m + Skew => e <= n + Skew
    <3>1. m <= n
      BY <2>1
    <3> QED
      BY <3>1, SkewAssumption
  <2>3. nodeClock' = n + Skew /\ nodeClock = m + Skew
    BY <2>1 DEF nodeClock
  <2>4. /\ \A k \in Keys : edits[k] # NoEdit => edits[k].edited <= n + Skew
        /\ \A i \in 1..Len(log) : log[i].edited <= n + Skew
    BY <1>2, <2>2, <2>3 DEF PastInv
  <2> QED
    BY <1>5, <2>3, <2>4 DEF PastInv
<1> QED
  BY <1>3, <1>4, <1>5, Changes

(* What has no effect on a key has none after a step either.               *)
LEMMA StaysOut ==
    ASSUME TypeInv, PastInv, [Next]_vars, NEW i \in 1..Len(log),
           ~Replaces(log[i], kv[log[i].key])
    PROVE  ~Replaces(log[i], kv'[log[i].key])
<1>1. log[i].key \in Keys /\ log[i].edited \in Int
  BY MessageType
<1>2. now \in Int /\ log[i].edited - Skew <= now
  BY <1>1, BoundsAssumption, SkewAssumption DEF PastInv, nodeClock, TypeInv, TypeOK
<1>3. \/ kv'[log[i].key] = kv[log[i].key] \/ kv'[log[i].key] = Absent
      \/ kv'[log[i].key].at = now
  BY <1>1, Stamps
<1> QED
  BY <1>1, <1>2, <1>3, NotLater

(* What is decided has no effect any more: it was accepted, and the key is *)
(* stamped or gone, or it had none.                                        *)
LEMMA DecidedStep ==
    ASSUME TypeInv, ReplayInv, [Next]_vars
    PROVE  DecidedInv'
<1> USE DEF ReplayInv
<1>1. CASE log' = log /\ aux_decided' = aux_decided
  BY <1>1, StaysOut DEF DecidedInv
<1>2. ASSUME NEW k \in Keys, Publish(k)
      PROVE  DecidedInv'
  <2> DEFINE n == Len(log) + 1
  <2>1. /\ Len(log') = n /\ Len(log) \in Nat
        /\ \A i \in 1..Len(log) : log'[i] = log[i]
        /\ log'[n].key = k /\ log'[n].id = edits[k].id /\ SameEdit(edits[k], log'[n])
    BY <1>2, PublishType
  <2>2. UNCHANGED <<kv, aux_decided>>
    BY <1>2 DEF Publish, etcd, reads
  <2> HIDE DEF n
  <2>3. 1..Len(log) \subseteq 1..Len(log') /\ \A i \in 1..Len(log') : i \in 1..Len(log) \/ i = n
    BY <2>1 DEF n
  <2>4. ASSUME log'[n].id \in aux_decided
        PROVE  ~Replaces(log'[n], kv[k])
    <3>1. PICK j \in 1..Len(log) : log[j].id = edits[k].id
      BY <2>1, <2>4 DEF DecidedInv
    <3>2. log[j].key = k /\ SameEdit(edits[k], log[j])
      BY <3>1 DEF IdInv
    <3>3. SameEdit(log'[n], log[j])
      BY <2>1, <3>2 DEF SameEdit
    <3>4. ~Replaces(log[j], kv[k])
      BY <2>1, <2>4, <3>1, <3>2 DEF DecidedInv
    <3>5. Replaces(log'[n], kv[k]) <=> Replaces(log[j], kv[k])
      BY <3>3, SameDecision
    <3> QED
      BY <3>4, <3>5
  <2> QED
    BY <2>1, <2>2, <2>3, <2>4 DEF DecidedInv
<1>3. CASE AcceptEdit \/ AcceptTombstone \/ Replayed \/ Discard
  <2>1. log' = log /\ aux_decided' = aux_decided \cup {msg.id} /\ pc = "cas"
    BY <1>3 DEF AcceptEdit, AcceptTombstone, Replayed, Discard, Decide
  <2>2. idx \in 1..Len(log) /\ msg = log[idx]
    BY <2>1 DEF TypeInv, TypeOK, msg
  <2>3. ~Replaces(msg, kv'[msg.key])
    <3>1. msg.key \in Keys /\ msg.edited \in Int /\ msg.edited - Skew <= now /\ now \in Int
      <4>1. msg.key \in Keys /\ msg.edited \in Int
        BY <2>2, MessageType
      <4>2. msg.edited <= nodeClock
        BY <2>2 DEF PastInv
      <4>3. now \in Int
        BY BoundsAssumption DEF TypeInv, TypeOK
      <4> QED
        BY <4>1, <4>2, <4>3, SkewAssumption DEF nodeClock
    <3>2. CASE AcceptEdit
      <4>1. kv'[msg.key].at = now
        BY <3>1, <3>2 DEF AcceptEdit, WriteKey, TypeInv, TypeOK
      <4> QED
        BY <3>1, <4>1, NotLater
    <3>3. CASE AcceptTombstone
      <4>1. msg.key = "hsi"
        BY <2>2, <3>3 DEF AcceptTombstone, TypeInv, MessageInv
      <4>2. kv'[msg.key] = Absent
        BY <3>1, <3>3, <4>1 DEF AcceptTombstone, DeleteHSI, TypeInv, TypeOK
      <4> QED
        BY <3>1, <4>2, NotLater
    <3>4. CASE Replayed \/ Discard
      BY <3>4 DEF Replaces, Replayed, Discard, Decide, etcd
    <3> QED
      BY <1>3, <3>2, <3>3, <3>4
  <2>4. ASSUME NEW i \in 1..Len(log), log[i].id = msg.id
        PROVE  ~Replaces(log[i], kv'[log[i].key])
    <3>1. log[i].key = msg.key /\ SameEdit(log[i], msg)
      BY <2>2, <2>4 DEF IdInv
    <3>2. Replaces(log[i], kv'[msg.key]) <=> Replaces(msg, kv'[msg.key])
      BY <3>1, SameDecision
    <3> QED
      BY <2>3, <3>1, <3>2
  <2> QED
    BY <2>1, <2>2, <2>4, StaysOut DEF DecidedInv
<1> QED
  BY <1>1, <1>2, <1>3, Changes

(* "Replay is safe": an offline edit that handleOfflineEdit has decided    *)
(* replaces, when it is delivered again, at most what was written in the   *)
(* seconds that the node's clock is ahead.                                 *)
THEOREM ReplayIsSafe == Spec => DecidedEditsStayDecided
<1>1. TypeInv /\ ReplayInv /\ [Next]_vars => ReplayInv'
  BY IdStep, PastStep, DecidedStep DEF ReplayInv
<1>2. TypeInv /\ ReplayInv /\ [Next]_vars =>
        [(AcceptEdit \/ AcceptTombstone) /\ msg.id \in aux_decided
           => kv[msg.key].at \in (msg.edited - Skew)..(msg.edited - 1)]_vars
  <2> SUFFICES ASSUME TypeInv, ReplayInv, AcceptEdit \/ AcceptTombstone,
                      msg.id \in aux_decided
               PROVE  kv[msg.key].at \in (msg.edited - Skew)..(msg.edited - 1)
    OBVIOUS
  <2>1. pc = "cas" /\ Decision(msg, kv[msg.key]) = "accept"
    BY DEF AcceptEdit, AcceptTombstone, Decide
  <2>2. idx \in 1..Len(log) /\ msg = log[idx]
    BY <2>1 DEF TypeInv, TypeOK, msg
  <2>3. ~Replaces(msg, kv[msg.key])
    BY <2>2 DEF ReplayInv, DecidedInv
  <2>4. kv[msg.key] # Absent /\ kv[msg.key].at < msg.edited
    BY <2>1 DEF Decision, Supersedes, Later
  <2>5. msg.edited \in Int /\ kv[msg.key].at \in Int
    <3>1. msg.edited \in Int /\ msg.key \in Keys
      BY <2>2, MessageType
    <3>2. kv[msg.key] \in Values
      BY <2>4, <3>1 DEF TypeInv, TypeOK
    <3> QED
      BY <3>1, <3>2 DEF Values
  <2> QED
    BY <2>1, <2>3, <2>4, <2>5, SkewAssumption DEF Replaces
<1> QED
  BY <1>1, <1>2, InitType, InitReplay, TypeStep, PTL DEF Spec, DecidedEditsStayDecided

(* And of a node whose clock is not ahead it replaces nothing: no decided  *)
(* edit is ever accepted.                                                  *)
COROLLARY NeverAppliesAgain ==
    ASSUME Skew <= 0
    PROVE  Spec => [][(AcceptEdit \/ AcceptTombstone) => msg.id \notin aux_decided]_vars
<1>1. TypeInv =>
        ([(AcceptEdit \/ AcceptTombstone) /\ msg.id \in aux_decided
            => kv[msg.key].at \in (msg.edited - Skew)..(msg.edited - 1)]_vars
         => [(AcceptEdit \/ AcceptTombstone) => msg.id \notin aux_decided]_vars)
  <2> SUFFICES ASSUME TypeInv, AcceptEdit \/ AcceptTombstone
               PROVE  (msg.edited - Skew)..(msg.edited - 1) = {}
    OBVIOUS
  <2>1. idx \in 1..Len(log) /\ msg = log[idx]
    BY DEF AcceptEdit, AcceptTombstone, Decide, TypeInv, TypeOK, msg
  <2> QED
    BY <2>1, MessageType, SkewAssumption
<1> QED
  BY <1>1, ReplayIsSafe, InitType, TypeStep, PTL DEF Spec, DecidedEditsStayDecided

=============================================================================
