------------------------------- MODULE EtcdCAS -------------------------------
(***************************************************************************)
(* EtcdClient.CASWithRevision (internal/storage/etcd.go) as concurrent     *)
(* requests run it against one config key: Get, mutate, a transaction      *)
(* guarded by the revision that was read, and up to casMaxRetries attempts.*)
(* The requests come from any number of REST and gRPC handlers of any      *)
(* number of replicas; a client of the model is one request.               *)
(***************************************************************************)
EXTENDS HsiMutations

CONSTANTS
    Clients,        \* the requests
    OpMenu,         \* the operations they may carry
    InitialValues,  \* what the key may hold before the first of them
    casMaxRetries,  \* attempts before ErrCASConflict
    MaxRev          \* bound on the store revision reached by other keys' writes

ASSUME OpMenuAssumption  == OpMenu \subseteq Ops
ASSUME InitialAssumption == InitialValues \subseteq Values \cup {Absent}
ASSUME RetriesAssumption == casMaxRetries \in Nat \ {0}
ASSUME MaxRevAssumption  == MaxRev \in Nat

VARIABLES
    kv,      \* value of the key in etcd, or Absent
    mod,     \* its ModRevision, 0 when absent
    rev,     \* the revision of the store
    pc,      \* where each request is
    op,      \* its operation
    seen,    \* what its last Get returned: value and ModRevision
    attempt, \* the attempt it is in
    aux_writes,   \* number of commits on the key
    aux_start     \* that number when the request's first Get could run

vars == <<kv, mod, rev, pc, op, seen, attempt, aux_writes, aux_start>>

NotRead == [val |-> Absent, mod |-> 0]

Running == {"get", "txn", "backoff"}
Done    == {"ok", "rejected", "conflict", "error"}

TypeOK ==
    /\ kv \in Values \cup {Absent}
    /\ mod \in Nat
    /\ rev \in Nat
    /\ pc \in [Clients -> {"idle"} \cup Running \cup Done]
    /\ op \in [Clients -> Ops \cup {Omitted}]
    /\ seen \in [Clients -> [val : Values \cup {Absent}, mod : Nat]]
    /\ attempt \in [Clients -> 0..casMaxRetries]
    /\ aux_writes \in Nat
    /\ aux_start \in [Clients -> Nat]

Init ==
    /\ kv \in InitialValues
    /\ rev = 1
    /\ mod = IF kv = Absent THEN 0 ELSE 1
    /\ pc = [c \in Clients |-> "idle"]
    /\ op = [c \in Clients |-> Omitted]
    /\ seen = [c \in Clients |-> NotRead]
    /\ attempt = [c \in Clients |-> 0]
    /\ aux_writes = 0
    /\ aux_start = [c \in Clients |-> 0]

store == <<kv, mod, rev, aux_writes>>

-----------------------------------------------------------------------------
(* A handler has validated its request and calls CAS.                      *)
Call(c) ==
    /\ pc[c] = "idle"
    /\ \E o \in OpMenu : op' = [op EXCEPT ![c] = o]
    /\ pc' = [pc EXCEPT ![c] = "get"]
    /\ attempt' = [attempt EXCEPT ![c] = 1]
    /\ aux_start' = [aux_start EXCEPT ![c] = aux_writes]
    /\ UNCHANGED <<store, seen>>

(* client.Get, then mutate on what it returned: an error of mutate ends    *)
(* the CAS without a write, anything else goes on to the transaction.      *)
Get(c) ==
    /\ pc[c] = "get"
    /\ seen' = [seen EXCEPT ![c] = [val |-> kv, mod |-> mod]]
    /\ pc' = [pc EXCEPT ![c] = IF Mutate(op[c], kv) = Fail THEN "rejected" ELSE "txn"]
    /\ UNCHANGED <<store, op, attempt, aux_start>>

(* Faults of the guard: none at all; none for a key believed absent; the   *)
(* revision of the store in place of the key's.                            *)
Guard_Missing(c) == TRUE

Guard_NoneForCreate(c) == seen[c].mod = 0 \/ mod = seen[c].mod

Guard_StoreRevision(c) == IF seen[c].mod = 0 THEN mod = 0 ELSE rev = seen[c].mod

(* If(guard): Version = 0 when the key was absent, else the ModRevision.   *)
Guard(c) == IF seen[c].mod = 0 THEN mod = 0 ELSE mod = seen[c].mod

(* Then(op): a put or a delete, each of which is one revision of the store.*)
Commit(c) ==
    LET m == Mutate(op[c], seen[c].val) IN
    /\ kv' = m.val
    /\ rev' = rev + 1
    /\ mod' = IF m.kind = "delete" THEN 0 ELSE rev + 1
    /\ aux_writes' = aux_writes + 1

(* The transaction succeeds and its response arrives.                      *)
TxnCommit(c) ==
    /\ pc[c] = "txn"
    /\ Guard(c)
    /\ Commit(c)
    /\ pc' = [pc EXCEPT ![c] = "ok"]
    /\ UNCHANGED <<op, seen, attempt, aux_start>>

(* The transaction commits in etcd and the caller gets an error instead of *)
(* the response.                                                           *)
TxnCommitReplyLost(c) ==
    /\ pc[c] = "txn"
    /\ Guard(c)
    /\ Commit(c)
    /\ pc' = [pc EXCEPT ![c] = "error"]
    /\ UNCHANGED <<op, seen, attempt, aux_start>>

(* The guard does not hold: back off.                                      *)
TxnConflict(c) ==
    /\ pc[c] = "txn"
    /\ ~Guard(c)
    /\ pc' = [pc EXCEPT ![c] = "backoff"]
    /\ UNCHANGED <<store, op, seen, attempt, aux_start>>

(* Faults: one attempt too many; no way out after the last one.            *)
Retry_OneMore(c) ==
    /\ pc[c] = "backoff"
    /\ IF attempt[c] <= casMaxRetries
       THEN /\ pc' = [pc EXCEPT ![c] = "get"]
            /\ attempt' = [attempt EXCEPT ![c] = attempt[c] + 1]
       ELSE /\ pc' = [pc EXCEPT ![c] = "conflict"]
            /\ UNCHANGED attempt
    /\ UNCHANGED <<store, op, seen, aux_start>>

Retry_NoConflictError(c) ==
    /\ pc[c] = "backoff"
    /\ attempt[c] < casMaxRetries
    /\ pc' = [pc EXCEPT ![c] = "get"]
    /\ attempt' = [attempt EXCEPT ![c] = attempt[c] + 1]
    /\ UNCHANGED <<store, op, seen, aux_start>>

(* The backoff has passed: the next attempt, or ErrCASConflict.            *)
Retry(c) ==
    /\ pc[c] = "backoff"
    /\ IF attempt[c] < casMaxRetries
       THEN /\ pc' = [pc EXCEPT ![c] = "get"]
            /\ attempt' = [attempt EXCEPT ![c] = attempt[c] + 1]
       ELSE /\ pc' = [pc EXCEPT ![c] = "conflict"]
            /\ UNCHANGED attempt
    /\ UNCHANGED <<store, op, seen, aux_start>>

(* The Get fails, the transaction fails without being applied, or the      *)
(* context ends during the backoff: the error is returned.                 *)
Abort(c) ==
    /\ pc[c] \in Running
    /\ pc' = [pc EXCEPT ![c] = "error"]
    /\ UNCHANGED <<store, op, seen, attempt, aux_start>>

(* A write to any other key of the store takes a revision.                 *)
OtherKeyWrite ==
    /\ rev < MaxRev
    /\ rev' = rev + 1
    /\ UNCHANGED <<kv, mod, pc, op, seen, attempt, aux_writes, aux_start>>

Step(c) == Get(c) \/ TxnCommit(c) \/ TxnConflict(c) \/ Retry(c)

Next ==
    \/ \E c \in Clients :
         Call(c) \/ Step(c) \/ TxnCommitReplyLost(c) \/ Abort(c)
    \/ OtherKeyWrite

Spec == Init /\ [][Next]_vars

(* etcd answers and backoffs end, so a request that can take a step does;  *)
(* nothing obliges a request to be made or an error to happen.             *)
FairSpec == Spec /\ \A c \in Clients : WF_vars(Step(c))

-----------------------------------------------------------------------------
(* The store: ModRevision 0 stands for absence, and revisions only grow.   *)
StoreInv ==
    /\ mod = 0 <=> kv = Absent
    /\ mod <= rev

(* What a request holds from its Get is either still what the key holds or *)
(* has a ModRevision the key will never have again.                        *)
SeenInv == \A c \in Clients :
    /\ seen[c].mod = 0 <=> seen[c].val = Absent
    /\ seen[c].mod <= rev
    /\ seen[c].mod # 0 /\ seen[c].mod = mod => seen[c].val = kv

(* A request reaches its transaction only with a mutation to commit.       *)
TxnInv == \A c \in Clients :
    /\ pc[c] # "idle" => op[c] \in Ops
    /\ pc[c] = "txn" => Mutate(op[c], seen[c].val) # Fail

CASInv == StoreInv /\ SeenInv /\ TxnInv

(* Attempts are paid for by other requests: a request that is in attempt n *)
(* has seen n-1 transactions fail, each on a commit made by somebody else  *)
(* since its own first read.  ErrCASConflict therefore never means that    *)
(* nobody got through.                                                     *)
ConflictNeedsInterference == \A c \in Clients :
    /\ pc[c] \in Running \cup {"conflict"} => aux_start[c] <= aux_writes
    /\ pc[c] \in {"get", "txn"} => attempt[c] - 1 <= aux_writes - aux_start[c]
    /\ pc[c] = "txn" /\ ~Guard(c) => attempt[c] <= aux_writes - aux_start[c]
    /\ pc[c] \in {"backoff", "conflict"} => attempt[c] <= aux_writes - aux_start[c]

-----------------------------------------------------------------------------
(* Every write continues the resourceVersion chain of the value it         *)
(* overwrites: 1 on a fresh key, one more than before otherwise.           *)
ResourceVersionChain ==
    [][kv' # kv /\ kv' # Absent => kv'.rv = NextRV(kv)]_vars

(* Only dial and hangup change desire_status: "ordinary config edits       *)
(* preserve it", however they interleave with a concurrent dial.           *)
OnlyDesireRequestsChangeDesire ==
    [][(kv # Absent /\ kv' # Absent /\ kv'.desire # kv.desire) =>
         \E c \in Clients : pc[c] = "txn" /\ pc'[c] # "txn" /\ op[c].kind \in {"dial", "hangup"}]_vars

(* What a request has been told, seen from outside of CASWithRevision.     *)
AnswerOf(p) == CASE p = "idle" -> "none"
                 [] p \in Running -> "pending"
                 [] OTHER -> p

Atomic == INSTANCE AtomicConfig WITH
    value   <- kv,
    request <- op,
    answer  <- [c \in Clients |-> AnswerOf(pc[c])]

(* CAS is atomic: with the Get, the mutation and the transaction of the    *)
(* code hidden, every behaviour is one of AtomicConfig.                    *)
CASIsAtomic == Atomic!Spec

(* Every request is answered.                                              *)
EveryRequestIsAnswered == \A c \in Clients : pc[c] = "get" ~> pc[c] \in Done

=============================================================================
