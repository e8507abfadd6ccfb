--------------------------- MODULE EtcdCAS_proofs ---------------------------
(* Proofs about EtcdCAS for any set of clients, any menu of operations and  *)
(* any casMaxRetries.                                                       *)
EXTENDS EtcdCAS, TLAPS

-----------------------------------------------------------------------------
(* Dial and hangup keep a stored value well formed.                         *)
LEMMA SetDesireType ==
    ASSUME NEW d \in Desires, NEW cur \in Values \cup {Absent}
    PROVE  SetDesireStatus(d, cur) \in Results
<1>1. CASE cur = Absent
  BY <1>1 DEF SetDesireStatus, Results
<1>2. CASE cur # Absent
  <2> DEFINE v == [cur EXCEPT !.desire = d, !.rv = NextRV(cur)]
  <2>1. cur \in Values
    BY <1>2
  <2>2. NextRV(cur) \in Nat
    BY <2>1, <1>2 DEF NextRV, Values
  <2>3. v \in Values
    BY <2>1, <2>2 DEF Values
  <2>4. SetDesireStatus(d, cur) = Put(v)
    BY <1>2 DEF SetDesireStatus
  <2> HIDE DEF v
  <2> QED
    BY <2>3, <2>4 DEF Put, Results
<1> QED
  BY <1>1, <1>2

(* The mutate closures produce well-formed values from well-formed values.  *)
LEMMA MutateType ==
    ASSUME NEW o \in Ops, NEW cur \in Values \cup {Absent}
    PROVE  Mutate(o, cur) \in Results
<1> USE DefaultsAssumption, OmittedAssumption, AbsentAssumption
<1>1. NextRV(cur) \in Nat
  BY DEF NextRV, Values
<1>2. CASE o.kind = "create"
  <2>1. o.arg \in ConfigRequests /\ Mutate(o, cur) = CreateHSIConfig(o.arg, cur)
    BY <1>2 DEF Ops, Mutate
  <2>2. OrDefault(o.arg.opt, DefaultOpt) \in Opts
    BY <2>1 DEF ConfigRequests, OrDefault
  <2> QED
    BY <1>1, <2>1, <2>2 DEF CreateHSIConfig, Put, Fail, Results, Values, ConfigRequests, Desires
<1>3. CASE o.kind = "update"
  <2>1. o.arg \in ConfigRequests /\ Mutate(o, cur) = UpdateHSIConfig(o.arg, cur)
    BY <1>3 DEF Ops, Mutate
  <2> DEFINE p == MergeHSIConfigUpdate(o.arg, cur)
  <2>2. p.req \in Reqs /\ p.tog \in Togs /\ p.opt \in Opts /\ p.desire \in Desires
    BY <2>1 DEF ConfigRequests, OrDefault, MergeHSIConfigUpdate, Values, Desires
  <2> QED
    BY <1>1, <2>1, <2>2 DEF UpdateHSIConfig, Stamp, Put, Results, Values
<1>4. CASE o.kind = "delete"
  BY <1>4 DEF Mutate, DeleteHSIConfig, Results
<1>5. CASE o.kind = "dial"
  BY <1>5, SetDesireType DEF Mutate, Desires
<1>6. CASE o.kind = "hangup"
  BY <1>6, SetDesireType DEF Mutate, Desires
<1> QED
  BY <1>2, <1>3, <1>4, <1>5, <1>6 DEF Ops

-----------------------------------------------------------------------------
(* The inductive invariant.                                                 *)
IInv == TypeOK /\ CASInv /\ ConflictNeedsInterference

LEMMA InitIInv == Init => IInv
<1> SUFFICES ASSUME Init PROVE IInv
  OBVIOUS
<1> USE InitialAssumption, RetriesAssumption, AbsentAssumption
<1>1. TypeOK
  BY DEF Init, TypeOK, NotRead, Running, Done
<1>2. CASInv
  BY DEF Init, CASInv, StoreInv, SeenInv, TxnInv, NotRead
<1>3. ConflictNeedsInterference
  BY DEF Init, ConflictNeedsInterference, Running
<1> QED
  BY <1>1, <1>2, <1>3 DEF IInv

(* What a request may rely on when its transaction's guard holds: the value *)
(* it read is the value it replaces, and its mutation is a put or a delete. *)
LEMMA GuardMeansUnchanged ==
    ASSUME IInv, NEW c \in Clients, pc[c] = "txn", Guard(c)
    PROVE  /\ seen[c].val = kv
           /\ Mutate(op[c], kv) \in Results \ {Fail}
<1>1. seen[c].val = kv
  BY DEF IInv, TypeOK, CASInv, StoreInv, SeenInv, Guard
<1>2. op[c] \in Ops /\ kv \in Values \cup {Absent} /\ Mutate(op[c], kv) # Fail
  BY <1>1 DEF IInv, TypeOK, CASInv, TxnInv
<1> QED
  BY <1>1, <1>2, MutateType

(* A commit preserves the invariant of the store and everyone's reads.      *)
LEMMA CommitIInv ==
    ASSUME IInv, NEW c \in Clients, pc[c] = "txn", Guard(c), Commit(c),
           NEW a \in {"ok", "error"}, pc' = [pc EXCEPT ![c] = a],
           UNCHANGED <<op, seen, attempt, aux_start>>
    PROVE  IInv'
<1> DEFINE m == Mutate(op[c], kv)
<1>1. seen[c].val = kv /\ m \in Results \ {Fail}
  BY GuardMeansUnchanged
<1>2. /\ kv' = m.val /\ rev' = rev + 1 /\ aux_writes' = aux_writes + 1
      /\ mod' = IF m.kind = "delete" THEN 0 ELSE rev + 1
  BY <1>1 DEF Commit
<1>3. /\ kv' \in Values \cup {Absent}
      /\ m.kind = "delete" <=> kv' = Absent
  BY <1>1, <1>2, AbsentAssumption DEF Results, Delete, Fail
<1> HIDE DEF m
<1>4. TypeOK'
  BY <1>2, <1>3 DEF IInv, TypeOK, Running, Done
<1>5. StoreInv'
  BY <1>2, <1>3 DEF IInv, TypeOK, CASInv, StoreInv
<1>6. SeenInv'
  BY <1>2 DEF IInv, TypeOK, CASInv, SeenInv
<1>7. TxnInv'
  BY DEF IInv, TypeOK, CASInv, TxnInv
<1>8. ConflictNeedsInterference'
  BY <1>2 DEF IInv, TypeOK, ConflictNeedsInterference, Running
<1> QED
  BY <1>4, <1>5, <1>6, <1>7, <1>8 DEF IInv, CASInv

LEMMA NextIInv == IInv /\ [Next]_vars => IInv'
<1> SUFFICES ASSUME IInv, [Next]_vars PROVE IInv'
  OBVIOUS
<1> USE DEF IInv, CASInv
<1>1. ASSUME NEW c \in Clients, Call(c) PROVE IInv'
  <2>1. op'[c] \in Ops
    BY <1>1, OpMenuAssumption DEF Call, TypeOK
  <2>2. TypeOK'
    BY <1>1, OpMenuAssumption, RetriesAssumption DEF Call, TypeOK, store, Running
  <2>3. StoreInv' /\ SeenInv'
    BY <1>1 DEF Call, StoreInv, SeenInv, store
  <2>4. TxnInv'
    BY <1>1, <2>1 DEF Call, TxnInv, TypeOK
  <2>5. ConflictNeedsInterference'
    BY <1>1, RetriesAssumption DEF Call, ConflictNeedsInterference, TypeOK, Guard, store, Running
  <2> QED
    BY <2>2, <2>3, <2>4, <2>5
<1>2. ASSUME NEW c \in Clients, Get(c) PROVE IInv'
  <2>1. TypeOK'
    BY <1>2 DEF Get, TypeOK, store, Running, Done
  <2>2. StoreInv' /\ SeenInv'
    BY <1>2 DEF Get, StoreInv, SeenInv, TypeOK, store
  <2>3. TxnInv'
    BY <1>2 DEF Get, TxnInv, TypeOK
  <2>4. ConflictNeedsInterference'
    BY <1>2 DEF Get, ConflictNeedsInterference, TypeOK, Guard, store, Running
  <2> QED
    BY <2>1, <2>2, <2>3, <2>4
<1>3. ASSUME NEW c \in Clients, TxnCommit(c) PROVE IInv'
  BY <1>3, CommitIInv DEF TxnCommit
<1>4. ASSUME NEW c \in Clients, TxnCommitReplyLost(c) PROVE IInv'
  BY <1>4, CommitIInv DEF TxnCommitReplyLost
<1>5. ASSUME NEW c \in Clients, TxnConflict(c) \/ Abort(c) PROVE IInv'
  <2>1. TypeOK'
    BY <1>5 DEF TxnConflict, Abort, TypeOK, store, Running, Done
  <2>2. StoreInv' /\ SeenInv'
    BY <1>5 DEF TxnConflict, Abort, StoreInv, SeenInv, store
  <2>3. TxnInv'
    BY <1>5 DEF TxnConflict, Abort, TxnInv, TypeOK, Running
  <2>4. ConflictNeedsInterference'
    BY <1>5 DEF TxnConflict, Abort, ConflictNeedsInterference, TypeOK, Guard, store, Running
  <2> QED
    BY <2>1, <2>2, <2>3, <2>4
<1>6. ASSUME NEW c \in Clients, Retry(c) PROVE IInv'
  <2>1. TypeOK'
    BY <1>6, RetriesAssumption DEF Retry, TypeOK, store, Running, Done
  <2>2. StoreInv' /\ SeenInv'
    BY <1>6 DEF Retry, StoreInv, SeenInv, store
  <2>3. TxnInv'
    BY <1>6 DEF Retry, TxnInv, TypeOK
  <2>4. ConflictNeedsInterference'
    BY <1>6, RetriesAssumption DEF Retry, ConflictNeedsInterference, TypeOK, Guard, store, Running
  <2> QED
    BY <2>1, <2>2, <2>3, <2>4
<1>7. CASE OtherKeyWrite
  <2>1. TypeOK'
    BY <1>7 DEF OtherKeyWrite, TypeOK
  <2>2. StoreInv' /\ SeenInv' /\ TxnInv'
    BY <1>7 DEF OtherKeyWrite, StoreInv, SeenInv, TxnInv, TypeOK
  <2>3. ConflictNeedsInterference'
    BY <1>7 DEF OtherKeyWrite, ConflictNeedsInterference, Guard
  <2> QED
    BY <2>1, <2>2, <2>3
<1>8. CASE UNCHANGED vars
  BY <1>8 DEF vars, TypeOK, StoreInv, SeenInv, TxnInv, ConflictNeedsInterference, Guard
<1> QED
  BY <1>1, <1>2, <1>3, <1>4, <1>5, <1>6, <1>7, <1>8 DEF Next, Step

(* Whatever the number of requests: the store stays coherent, no request    *)
(* acts on a stale read, and ErrCASConflict needs casMaxRetries commits by  *)
(* others.                                                                  *)
THEOREM Invariance == Spec => [](TypeOK /\ CASInv /\ ConflictNeedsInterference)
<1>1. IInv => TypeOK /\ CASInv /\ ConflictNeedsInterference
  BY DEF IInv
<1> QED
  BY InitIInv, NextIInv, <1>1, PTL DEF Spec

(* CASWithRevision keeps its types; in particular no request makes more    *)
(* attempts than casMaxRetries.                                            *)
THEOREM Typing == Spec => []TypeOK
  BY Invariance, PTL

-----------------------------------------------------------------------------
(* Every put stamps the successor of the version it was computed from.      *)
LEMMA MutateStampsNextRV ==
    ASSUME NEW o \in Ops, NEW cur \in Values \cup {Absent},
           Mutate(o, cur).val # Absent
    PROVE  Mutate(o, cur).val.rv = NextRV(cur)
<1>1. CASE o.kind = "create"
  BY <1>1 DEF Mutate, CreateHSIConfig, Put, Fail
<1>2. CASE o.kind = "update"
  BY <1>2 DEF Mutate, UpdateHSIConfig, Stamp, Put
<1>3. CASE o.kind = "delete"
  BY <1>3 DEF Mutate, DeleteHSIConfig, Delete, Fail
<1>4. CASE o.kind \in {"dial", "hangup"}
  <2>1. PICK d \in Desires : Mutate(o, cur) = SetDesireStatus(d, cur)
    BY <1>4 DEF Mutate, Desires
  <2>2. cur \in Values
    BY <2>1 DEF SetDesireStatus, Fail
  <2>3. Mutate(o, cur).val = [cur EXCEPT !.desire = d, !.rv = NextRV(cur)]
    BY <2>1, <2>2, AbsentAssumption DEF SetDesireStatus, Put
  <2> QED
    BY <2>2, <2>3 DEF Values
<1> QED
  BY <1>1, <1>2, <1>3, <1>4 DEF Ops

(* A step that changes the key is the commit of one request on the value    *)
(* the key holds.                                                           *)
LEMMA ChangeIsACommit ==
    ASSUME IInv, [Next]_vars, kv' # kv
    PROVE  \E c \in Clients :
             /\ pc[c] = "txn"
             /\ pc'[c] \in {"ok", "error"}
             /\ op[c] \in Ops
             /\ kv' = Mutate(op[c], kv).val
<1>1. PICK c \in Clients : TxnCommit(c) \/ TxnCommitReplyLost(c)
  BY DEF Next, Step, vars, store, Call, Get, TxnConflict, Retry, Abort, OtherKeyWrite
<1>2. pc[c] = "txn" /\ Guard(c) /\ Commit(c) /\ pc'[c] \in {"ok", "error"}
  BY <1>1 DEF TxnCommit, TxnCommitReplyLost, IInv, TypeOK
<1>3. seen[c].val = kv
  BY <1>2, GuardMeansUnchanged
<1>4. op[c] \in Ops
  BY <1>2 DEF IInv, CASInv, TxnInv
<1> QED
  BY <1>2, <1>3, <1>4 DEF Commit

(* The resourceVersion chain never skips, repeats or regresses, however     *)
(* many requests race for the key.                                          *)
THEOREM VersionChain == Spec => ResourceVersionChain
<1>1. IInv /\ [Next]_vars => [kv' # kv /\ kv' # Absent => kv'.rv = NextRV(kv)]_vars
  <2> SUFFICES ASSUME IInv, [Next]_vars, kv' # kv, kv' # Absent
               PROVE  kv'.rv = NextRV(kv)
    OBVIOUS
  <2>1. PICK c \in Clients : op[c] \in Ops /\ kv' = Mutate(op[c], kv).val
    BY ChangeIsACommit
  <2> QED
    BY <2>1, MutateStampsNextRV DEF IInv, TypeOK
<1> QED
  BY InitIInv, NextIInv, <1>1, PTL DEF Spec, ResourceVersionChain

(* Only a dial or a hangup moves desire_status.                             *)
THEOREM DesirePreserved == Spec => OnlyDesireRequestsChangeDesire
<1> DEFINE Changed == kv # Absent /\ kv' # Absent /\ kv'.desire # kv.desire
<1> DEFINE ByDial == \E c \in Clients :
                       pc[c] = "txn" /\ pc'[c] # "txn" /\ op[c].kind \in {"dial", "hangup"}
<1>1. IInv /\ [Next]_vars => [Changed => ByDial]_vars
  <2> SUFFICES ASSUME IInv, [Next]_vars, Changed PROVE ByDial
    OBVIOUS
  <2>1. PICK c \in Clients : /\ pc[c] = "txn" /\ pc'[c] \in {"ok", "error"}
                             /\ op[c] \in Ops /\ kv' = Mutate(op[c], kv).val
    BY ChangeIsACommit
  <2>2. op[c].kind # "create"
    BY <2>1 DEF Mutate, CreateHSIConfig, Fail
  <2>3. op[c].kind # "delete"
    BY <2>1 DEF Mutate, DeleteHSIConfig, Fail, Delete
  <2>4. op[c].kind # "update"
    BY <2>1 DEF Mutate, UpdateHSIConfig, MergeHSIConfigUpdate, Stamp, Put
  <2> QED
    BY <2>1, <2>2, <2>3, <2>4 DEF Ops
<1> QED
  BY InitIInv, NextIInv, <1>1, PTL DEF Spec, OnlyDesireRequestsChangeDesire

-----------------------------------------------------------------------------
(* The refinement mapping on the places of a request.                       *)
LEMMA AnswerValues ==
    /\ AnswerOf("idle") = "none"
    /\ \A p \in Running : AnswerOf(p) = "pending"
    /\ \A p \in Done : AnswerOf(p) = p
BY DEF AnswerOf, Running, Done

(* A running request that stops gets its answer and leaves the others'      *)
(* answers alone; one that goes on running changes no answer.               *)
LEMMA MappedAnswer ==
    ASSUME TypeOK, NEW c \in Clients, pc[c] \in Running,
           NEW p \in Running \cup Done, pc' = [pc EXCEPT ![c] = p]
    PROVE  /\ [d \in Clients |-> AnswerOf(pc[d])][c] = "pending"
           /\ p \in Done => [d \in Clients |-> AnswerOf(pc[d])]'
                = [[d \in Clients |-> AnswerOf(pc[d])] EXCEPT ![c] = p]
           /\ p \in Running => [d \in Clients |-> AnswerOf(pc[d])]'
                                 = [d \in Clients |-> AnswerOf(pc[d])]
BY AnswerValues DEF TypeOK

(* EtcdClient.CAS is atomic for its callers: Get, mutate and the guarded    *)
(* transaction, retried, implement the one-step requests of AtomicConfig.   *)
THEOREM Refinement == Spec => CASIsAtomic
<1>1. Init => Atomic!Init
  <2> SUFFICES ASSUME Init PROVE Atomic!Init
    OBVIOUS
  <2> QED
    BY InitIInv, AnswerValues DEF Init, Atomic!Init, IInv, TypeOK
<1>2. IInv /\ [Next]_vars => [Atomic!Next]_(Atomic!vars)
  <2> SUFFICES ASSUME IInv, [Next]_vars
               PROVE  Atomic!Next \/ UNCHANGED Atomic!vars
    OBVIOUS
  <2>a. TypeOK
    BY DEF IInv
  <2>1. ASSUME NEW c \in Clients, Call(c) PROVE Atomic!Invoke(c)
    <3>1. /\ [d \in Clients |-> AnswerOf(pc[d])][c] = "none"
          /\ [d \in Clients |-> AnswerOf(pc[d])]'
               = [[d \in Clients |-> AnswerOf(pc[d])] EXCEPT ![c] = "pending"]
      BY <2>1, <2>a, AnswerValues DEF Call, TypeOK, Running
    <3> QED
      BY <2>1, <3>1, OpMenuAssumption DEF Call, Atomic!Invoke, store
  <2>2. ASSUME NEW c \in Clients, Get(c)
        PROVE  Atomic!Reject(c) \/ UNCHANGED Atomic!vars
    <3>1. CASE Mutate(op[c], kv) = Fail
      <4>1. pc[c] \in Running /\ pc' = [pc EXCEPT ![c] = "rejected"] /\ "rejected" \in Done
        BY <2>2, <3>1 DEF Get, Running, Done
      <4> QED
        BY <2>2, <2>a, <3>1, <4>1, MappedAnswer DEF Get, Atomic!Reject, Atomic!Answer, store
    <3>2. CASE Mutate(op[c], kv) # Fail
      <4>1. pc[c] \in Running /\ pc' = [pc EXCEPT ![c] = "txn"] /\ "txn" \in Running
        BY <2>2, <3>2 DEF Get, Running
      <4> QED
        BY <2>2, <2>a, <4>1, MappedAnswer DEF Get, Atomic!vars, store
    <3> QED
      BY <3>1, <3>2
  <2>3. ASSUME NEW c \in Clients, TxnCommit(c) PROVE Atomic!Succeed(c)
    <3>1. pc[c] \in Running /\ pc' = [pc EXCEPT ![c] = "ok"] /\ "ok" \in Done
      BY <2>3 DEF TxnCommit, Running, Done
    <3>2. Atomic!Answer(c, "ok")
      BY <2>3, <2>a, <3>1, MappedAnswer DEF TxnCommit, Atomic!Answer
    <3>3. Atomic!TakeEffect(c)
      BY <2>3, GuardMeansUnchanged DEF TxnCommit, Commit, Atomic!TakeEffect
    <3> QED
      BY <3>2, <3>3 DEF Atomic!Succeed
  <2>4. ASSUME NEW c \in Clients, TxnCommitReplyLost(c) PROVE Atomic!Unknown(c)
    <3>1. pc[c] \in Running /\ pc' = [pc EXCEPT ![c] = "error"] /\ "error" \in Done
      BY <2>4 DEF TxnCommitReplyLost, Running, Done
    <3>2. Atomic!Answer(c, "error")
      BY <2>4, <2>a, <3>1, MappedAnswer DEF TxnCommitReplyLost, Atomic!Answer
    <3>3. Atomic!TakeEffect(c)
      BY <2>4, GuardMeansUnchanged DEF TxnCommitReplyLost, Commit, Atomic!TakeEffect
    <3> QED
      BY <3>2, <3>3 DEF Atomic!Unknown
  <2>5. ASSUME NEW c \in Clients, TxnConflict(c) PROVE UNCHANGED Atomic!vars
    <3>1. pc[c] \in Running /\ pc' = [pc EXCEPT ![c] = "backoff"] /\ "backoff" \in Running
      BY <2>5 DEF TxnConflict, Running
    <3> QED
      BY <2>5, <2>a, <3>1, MappedAnswer DEF TxnConflict, Atomic!vars, store
  <2>6. ASSUME NEW c \in Clients, Retry(c)
        PROVE  Atomic!GiveUp(c) \/ UNCHANGED Atomic!vars
    <3>1. CASE attempt[c] < casMaxRetries
      <4>1. pc[c] \in Running /\ pc' = [pc EXCEPT ![c] = "get"] /\ "get" \in Running
        BY <2>6, <3>1 DEF Retry, Running
      <4> QED
        BY <2>6, <2>a, <4>1, MappedAnswer DEF Retry, Atomic!vars, store
    <3>2. CASE ~(attempt[c] < casMaxRetries)
      <4>1. pc[c] \in Running /\ pc' = [pc EXCEPT ![c] = "conflict"] /\ "conflict" \in Done
        BY <2>6, <3>2 DEF Retry, Running, Done
      <4> QED
        BY <2>6, <2>a, <4>1, MappedAnswer DEF Retry, Atomic!GiveUp, Atomic!Answer, store
    <3> QED
      BY <3>1, <3>2
  <2>7. ASSUME NEW c \in Clients, Abort(c) PROVE Atomic!Unknown(c)
    <3>1. pc[c] \in Running /\ pc' = [pc EXCEPT ![c] = "error"] /\ "error" \in Done
      BY <2>7 DEF Abort, Done
    <3> QED
      BY <2>7, <2>a, <3>1, MappedAnswer DEF Abort, Atomic!Unknown, Atomic!Answer, store
  <2>8. CASE OtherKeyWrite
    BY <2>8 DEF OtherKeyWrite, Atomic!vars
  <2>9. CASE UNCHANGED vars
    BY <2>9 DEF vars, Atomic!vars
  <2> QED
    BY <2>1, <2>2, <2>3, <2>4, <2>5, <2>6, <2>7, <2>8, <2>9 DEF Next, Step, Atomic!Next
<1> QED
  BY InitIInv, NextIInv, <1>1, <1>2, PTL DEF Spec, CASIsAtomic, Atomic!Spec

-----------------------------------------------------------------------------
(* How long a request may take *)

(* The most steps that the request can still take: Get, transaction and    *)
(* backoff of every attempt that is left.                                  *)
StepsLeft(c) ==
    LET later == 3 * (casMaxRetries - attempt[c]) IN
    CASE pc[c] = "idle"    -> 3 * casMaxRetries + 1
      [] pc[c] = "get"     -> later + 3
      [] pc[c] = "txn"     -> later + 2
      [] pc[c] = "backoff" -> later + 1
      [] OTHER             -> 0

(* Whatever a step of a request is, also an error or a lost conflict, the  *)
(* request is nearer to its answer after it, and nothing that others do    *)
(* sets it back.                                                           *)
EveryStepCounts ==
    [][\A c \in Clients : StepsLeft(c)' < StepsLeft(c) \/ UNCHANGED <<pc[c], attempt[c]>>]_vars

(* The first attempt is the first.                                         *)
AttemptInv == \A c \in Clients : pc[c] # "idle" => attempt[c] >= 1

LEMMA StepsLeftValue ==
    ASSUME TypeOK, AttemptInv, NEW c \in Clients
    PROVE  /\ StepsLeft(c) \in 0..(3 * casMaxRetries + 1)
           /\ StepsLeft(c) = 0 <=> pc[c] \in Done
<1>1. attempt[c] \in 0..casMaxRetries /\ casMaxRetries \in Nat
  BY RetriesAssumption DEF TypeOK
<1>2. pc[c] \in {"idle", "get", "txn", "backoff"} \cup Done
  BY DEF TypeOK, Running
<1>3. pc[c] \in {"get", "txn", "backoff"} => StepsLeft(c) \in 1..(3 * casMaxRetries)
  BY <1>1 DEF StepsLeft, AttemptInv
<1>4. pc[c] = "idle" => StepsLeft(c) \in 1..(3 * casMaxRetries + 1)
  BY <1>1 DEF StepsLeft
<1>5. pc[c] \in Done => StepsLeft(c) = 0
  BY DEF StepsLeft, Done
<1> QED
  BY <1>1, <1>2, <1>3, <1>4, <1>5 DEF Done

(* One step of one request, and what it leaves of the others.              *)
LEMMA OneStepsAtATime ==
    ASSUME TypeOK, [Next]_vars
    PROVE  \/ UNCHANGED <<pc, attempt>>
           \/ \E c \in Clients :
                /\ \A d \in Clients \ {c} : UNCHANGED <<pc[d], attempt[d]>>
                /\ \/ pc[c] = "idle" /\ pc'[c] = "get" /\ attempt'[c] = 1
                   \/ pc[c] = "get" /\ pc'[c] = "txn" /\ attempt'[c] = attempt[c]
                   \/ pc[c] = "txn" /\ pc'[c] = "backoff" /\ attempt'[c] = attempt[c]
                   \/ /\ pc[c] = "backoff" /\ pc'[c] = "get"
                      /\ attempt[c] < casMaxRetries /\ attempt'[c] = attempt[c] + 1
                   \/ pc[c] \in Running /\ pc'[c] \in Done /\ attempt'[c] = attempt[c]
<1> DEFINE Others(c) == \A d \in Clients \ {c} : UNCHANGED <<pc[d], attempt[d]>>
<1>t. pc \in [Clients -> {"idle"} \cup Running \cup Done] /\ attempt \in [Clients -> 0..casMaxRetries]
  BY DEF TypeOK
<1>1. ASSUME NEW c \in Clients, Call(c)
      PROVE  Others(c) /\ pc[c] = "idle" /\ pc'[c] = "get" /\ attempt'[c] = 1
  BY <1>1, <1>t DEF Call
<1>2. ASSUME NEW c \in Clients, Get(c)
      PROVE  /\ Others(c) /\ attempt'[c] = attempt[c]
             /\ pc[c] = "get" /\ pc'[c] \in {"txn", "rejected"}
  BY <1>2, <1>t DEF Get
<1>3. ASSUME NEW c \in Clients, TxnCommit(c) \/ TxnCommitReplyLost(c) \/ TxnConflict(c)
      PROVE  /\ Others(c) /\ attempt'[c] = attempt[c]
             /\ pc[c] = "txn" /\ pc'[c] \in {"ok", "error", "backoff"}
  BY <1>3, <1>t DEF TxnCommit, TxnCommitReplyLost, TxnConflict
<1>4. ASSUME NEW c \in Clients, Retry(c)
      PROVE  /\ Others(c) /\ pc[c] = "backoff"
             /\ \/ pc'[c] = "get" /\ attempt[c] < casMaxRetries /\ attempt'[c] = attempt[c] + 1
                \/ pc'[c] = "conflict" /\ attempt'[c] = attempt[c]
  BY <1>4, <1>t DEF Retry
<1>5. ASSUME NEW c \in Clients, Abort(c)
      PROVE  /\ Others(c) /\ attempt'[c] = attempt[c]
             /\ pc[c] \in Running /\ pc'[c] = "error"
  BY <1>5, <1>t DEF Abort
<1>6. CASE OtherKeyWrite \/ UNCHANGED vars
  BY <1>6 DEF OtherKeyWrite, vars
<1> QED
  BY <1>1, <1>2, <1>3, <1>4, <1>5, <1>6 DEF Next, Step, Running, Done

LEMMA AttemptStep == TypeOK /\ AttemptInv /\ [Next]_vars => AttemptInv'
<1> SUFFICES ASSUME TypeOK, AttemptInv, [Next]_vars, NEW c \in Clients, pc'[c] # "idle"
             PROVE  attempt'[c] >= 1
  BY DEF AttemptInv
<1>1. attempt[c] \in Nat /\ (pc[c] # "idle" => attempt[c] >= 1)
  BY DEF TypeOK, AttemptInv
<1> QED
  BY <1>1, OneStepsAtATime DEF Running

LEMMA StepCounts ==
    ASSUME TypeOK, AttemptInv, [Next]_vars, NEW c \in Clients
    PROVE  StepsLeft(c)' < StepsLeft(c) \/ UNCHANGED <<pc[c], attempt[c]>>
<1>1. attempt[c] \in 0..casMaxRetries /\ casMaxRetries \in Nat
  BY RetriesAssumption DEF TypeOK
<1>2. StepsLeft(c)' = LET later == 3 * (casMaxRetries - attempt'[c]) IN
                      CASE pc'[c] = "idle"    -> 3 * casMaxRetries + 1
                        [] pc'[c] = "get"     -> later + 3
                        [] pc'[c] = "txn"     -> later + 2
                        [] pc'[c] = "backoff" -> later + 1
                        [] OTHER              -> 0
  BY DEF StepsLeft
<1>3. CASE pc[c] = "idle" /\ pc'[c] = "get" /\ attempt'[c] = 1
  BY <1>1, <1>2, <1>3 DEF StepsLeft
<1>4. CASE pc[c] = "get" /\ pc'[c] = "txn" /\ attempt'[c] = attempt[c]
  BY <1>1, <1>2, <1>4 DEF StepsLeft
<1>5. CASE pc[c] = "txn" /\ pc'[c] = "backoff" /\ attempt'[c] = attempt[c]
  BY <1>1, <1>2, <1>5 DEF StepsLeft
<1>6. CASE /\ pc[c] = "backoff" /\ pc'[c] = "get"
           /\ attempt[c] < casMaxRetries /\ attempt'[c] = attempt[c] + 1
  BY <1>1, <1>2, <1>6 DEF StepsLeft
<1>7. CASE pc[c] \in Running /\ pc'[c] \in Done
  <2>1. StepsLeft(c)' = 0
    BY <1>2, <1>7 DEF Done
  <2>2. StepsLeft(c) \in Nat /\ StepsLeft(c) # 0
    BY <1>7, StepsLeftValue DEF Running, Done
  <2> QED
    BY <2>1, <2>2
<1> QED
  BY <1>3, <1>4, <1>5, <1>6, <1>7, OneStepsAtATime

(* A request takes at most three steps for each of its attempts and one to *)
(* start with, under any contention: the retry loop of CASWithRevision     *)
(* cannot turn for ever, and a request with no step left is answered.      *)
(* EveryRequestIsAnswered is this and the fairness of the request's steps. *)
THEOREM BoundedWork ==
    Spec => /\ EveryStepCounts
            /\ [](\A c \in Clients : /\ StepsLeft(c) \in 0..(3 * casMaxRetries + 1)
                                     /\ StepsLeft(c) = 0 <=> pc[c] \in Done)
<1> DEFINE Bounded == \A c \in Clients : /\ StepsLeft(c) \in 0..(3 * casMaxRetries + 1)
                                         /\ StepsLeft(c) = 0 <=> pc[c] \in Done
           Counts == \A c \in Clients : StepsLeft(c)' < StepsLeft(c) \/ UNCHANGED <<pc[c], attempt[c]>>
<1>1. Init => AttemptInv
  BY DEF Init, AttemptInv
<1>2. TypeOK /\ AttemptInv => Bounded
  BY StepsLeftValue
<1>3. TypeOK /\ AttemptInv /\ [Next]_vars => [Counts]_vars
  BY StepCounts
<1> HIDE DEF Bounded, Counts
<1>4. Spec => [][Counts]_vars /\ []Bounded
  BY <1>1, <1>2, <1>3, AttemptStep, Typing, PTL DEF Spec
<1> QED
  BY <1>4 DEF Bounded, Counts, EveryStepCounts

=============================================================================
