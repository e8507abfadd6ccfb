-------------------------- MODULE Sessions_proofs --------------------------
(* For any replicas, requests, clocks and faults: whatever replica signs a *)
(* token, every other one that serves accepts the signature.               *)
EXTENDS Sessions, FiniteSetTheorems, TLAPS

(* The secret that the cluster has agreed on, once it has.                 *)
Shared  == IF env THEN EnvSecret ELSE stored
Decided == env \/ stored # NoSecret

StartType ==
    /\ env \in BOOLEAN /\ stored \in Nat /\ made \in Nat
    /\ stage \in [Replicas -> {"get", "create", "adopt", "up"}]
    /\ secret \in [Replicas -> Secrets]

(* A replica that serves has the shared secret, one that is about to       *)
(* create it has a candidate, and one that adopts it finds it.             *)
ReplicaInv(r) ==
    /\ stage[r] = "up" => secret[r] = Shared /\ Decided
    /\ stage[r] = "create" => ~env /\ secret[r] \in Nat \ {NoSecret}
    /\ stage[r] = "adopt" => ~env /\ stored # NoSecret

Signed == \A t \in tokens : t.key = Shared /\ Decided

IInv == StartType /\ Signed /\ \A r \in Replicas : ReplicaInv(r)

USE DEF NoSecret, EnvSecret, Secrets

(* Nobody serves and no token is there.                                    *)
LEMMA InitInv == Init => IInv
  BY DEF Init, IInv, StartType, Signed, ReplicaInv

(* Steps that neither start a replica nor issue a token.                   *)
LEMMA Unrelated ==
    ASSUME IInv, UNCHANGED <<env, stored, made, secret, tokens>>,
           \/ UNCHANGED stage
           \/ \E r \in Replicas : stage' = [stage EXCEPT ![r] = "get"]
    PROVE  IInv'
<1>1. StartType' /\ Signed'
  BY DEF IInv, StartType, Signed, Shared, Decided
<1>2. ASSUME NEW r \in Replicas
      PROVE  ReplicaInv(r)'
  <2>1. stage'[r] = stage[r] \/ stage'[r] = "get"
    BY DEF IInv, StartType
  <2> QED
    BY <2>1 DEF IInv, ReplicaInv, Shared, Decided
<1> QED
  BY <1>1, <1>2 DEF IInv

(* The secret is written once, by the transaction that finds none.         *)
LEMMA Created ==
    ASSUME IInv, NEW r \in Replicas, stage[r] = "create", stored = NoSecret,
           stored' = secret[r], secret' = secret, UNCHANGED <<env, made, tokens>>,
           NEW next \in {"up", "get"}, stage' = [stage EXCEPT ![r] = next]
    PROVE  IInv'
<1>1. ~env /\ stored' \in Nat \ {NoSecret}
  BY DEF IInv, ReplicaInv
<1>2. StartType'
  BY <1>1 DEF IInv, StartType
<1>3. tokens = {}
  BY <1>1 DEF IInv, Signed, Decided
<1>4. ASSUME NEW s \in Replicas
      PROVE  ReplicaInv(s)'
  <2>1. CASE s = r
    BY <1>1, <2>1 DEF IInv, StartType, ReplicaInv, Shared, Decided
  <2>2. CASE s # r
    <3>1. stage'[s] = stage[s] /\ secret'[s] = secret[s] /\ stage[s] # "up"
      BY <1>1, <2>2 DEF IInv, StartType, ReplicaInv, Decided
    <3> QED
      BY <1>1, <3>1 DEF IInv, ReplicaInv
  <2> QED
    BY <2>1, <2>2
<1> QED
  BY <1>2, <1>3, <1>4 DEF IInv, Signed

(* A replica that resolves the shared secret may serve.                    *)
LEMMA ResolvedKeeps ==
    ASSUME IInv, NEW r \in Replicas, Resolved(r, Shared), Decided,
           UNCHANGED <<env, stored, made, tokens>>
    PROVE  IInv'
<1>1. /\ secret' = [secret EXCEPT ![r] = Shared]
      /\ stage' = [stage EXCEPT ![r] = "up"]
      /\ Shared \in Secrets /\ Shared' = Shared /\ Decided'
  BY DEF Resolved, IInv, StartType, Shared, Decided
<1>2. StartType' /\ Signed'
  BY <1>1 DEF IInv, StartType, Signed
<1>3. ASSUME NEW s \in Replicas
      PROVE  ReplicaInv(s)'
  <2>1. CASE s = r
    BY <1>1, <2>1 DEF IInv, StartType, ReplicaInv
  <2>2. CASE s # r
    <3>1. stage'[s] = stage[s] /\ secret'[s] = secret[s]
      BY <1>1, <2>2 DEF IInv, StartType
    <3> QED
      BY <1>1, <3>1 DEF IInv, ReplicaInv
  <2> QED
    BY <2>1, <2>2
<1> QED
  BY <1>2, <1>3 DEF IInv

(* Every step of a start, a request or the clock preserves it.             *)
LEMMA NextInv == IInv /\ [Next]_vars => IInv'
<1> SUFFICES ASSUME IInv, [Next]_vars
             PROVE  IInv'
  OBVIOUS
<1>1. ASSUME NEW r \in Replicas, GetSecret(r)
      PROVE  IInv'
  <2>1. CASE env
    BY <1>1, <2>1, ResolvedKeeps DEF GetSecret, session, Shared, Decided
  <2>2. CASE ~env /\ stored # NoSecret
    BY <1>1, <2>2, ResolvedKeeps DEF GetSecret, session, Shared, Decided
  <2>3. CASE ~env /\ stored = NoSecret
    <3>1. /\ made' = made + 1 /\ secret' = [secret EXCEPT ![r] = made + 1]
          /\ stage' = [stage EXCEPT ![r] = "create"]
          /\ UNCHANGED <<env, stored, tokens>>
      BY <1>1, <2>3 DEF GetSecret, session
    <3>2. StartType' /\ Signed'
      BY <3>1 DEF IInv, StartType, Signed, Shared, Decided
    <3>3. ASSUME NEW s \in Replicas
          PROVE  ReplicaInv(s)'
      BY <2>3, <3>1 DEF IInv, StartType, ReplicaInv, Shared, Decided
    <3> QED
      BY <3>2, <3>3 DEF IInv
  <2> QED
    BY <2>1, <2>2, <2>3
<1>2. ASSUME NEW r \in Replicas, CreateSecret(r)
      PROVE  IInv'
  <2>1. CASE stored = NoSecret
    <3>1. secret' = secret
      BY <1>2, <2>1 DEF CreateSecret, Resolved, IInv, StartType
    <3> QED
      BY <1>2, <2>1, <3>1, Created DEF CreateSecret, Resolved, session
  <2>2. CASE stored # NoSecret
    <3>1. /\ stage' = [stage EXCEPT ![r] = "adopt"] /\ ~env
          /\ UNCHANGED <<env, stored, made, secret, tokens>>
      BY <1>2, <2>2 DEF CreateSecret, session, IInv, ReplicaInv
    <3>2. StartType' /\ Signed'
      BY <3>1 DEF IInv, StartType, Signed, Shared, Decided
    <3>3. ASSUME NEW s \in Replicas
          PROVE  ReplicaInv(s)'
      BY <2>2, <3>1 DEF IInv, StartType, ReplicaInv, Shared, Decided
    <3> QED
      BY <3>2, <3>3 DEF IInv
  <2> QED
    BY <2>1, <2>2
<1>3. ASSUME NEW r \in Replicas, CreateReplyLost(r)
      PROVE  IInv'
  BY <1>3, Created DEF CreateReplyLost, session
<1>4. ASSUME NEW r \in Replicas, AdoptSecret(r)
      PROVE  IInv'
  BY <1>4, ResolvedKeeps DEF AdoptSecret, session, Shared, Decided, IInv, ReplicaInv
<1>5. ASSUME NEW r \in Replicas, Crash(r)
      PROVE  IInv'
  BY <1>5, Unrelated DEF Crash, session
<1>6. ASSUME NEW r \in Replicas, Login(r)
      PROVE  IInv'
  <2>1. UNCHANGED <<env, stored, made, stage, secret>> /\ secret[r] = Shared /\ Decided
    BY <1>6 DEF Login, start, IInv, ReplicaInv
  <2>2. PICK u \in users :
          tokens' = tokens \cup {[user |-> u, exp |-> Clock(r) + Lifetime, key |-> secret[r]]}
    BY <1>6 DEF Login
  <2>3. StartType' /\ Signed'
    BY <2>1, <2>2 DEF IInv, StartType, Signed, Shared, Decided
  <2>4. ASSUME NEW s \in Replicas
        PROVE  ReplicaInv(s)'
    BY <2>1 DEF IInv, ReplicaInv, Shared, Decided
  <2> QED
    BY <2>3, <2>4 DEF IInv
<1>7. ASSUME NEW q \in Requests, NEW r \in Replicas, Arrive(q, r) \/ DeleteUser(q, r)
      PROVE  IInv'
  BY <1>7, Unrelated DEF Arrive, DeleteUser, start, session
<1>8. ASSUME NEW q \in Requests, Lookup(q) \/ LogoutTTL(q) \/ Grant(q) \/ CountUsers(q) \/ RemoveUser(q)
      PROVE  IInv'
  BY <1>8, Unrelated DEF Lookup, LogoutTTL, Grant, CountUsers, RemoveUser, start, session
<1>9. ASSUME NEW q \in Requests, Put(q) \/ Fail(q)
      PROVE  IInv'
  BY <1>9, Unrelated DEF Put, Fail, start
<1>10. ASSUME NEW r \in Replicas, AddUser(r)
       PROVE  IInv'
  BY <1>10, Unrelated DEF AddUser, start, session
<1>11. ASSUME NEW e \in revoked, ExpireLease(e)
       PROVE  IInv'
  BY <1>11, Unrelated DEF ExpireLease, start
<1>12. CASE Tick
  BY <1>12, Unrelated DEF Tick, start, session
<1>13. CASE UNCHANGED vars
  BY <1>13, Unrelated DEF vars
<1> QED
  BY <1>1, <1>2, <1>3, <1>4, <1>5, <1>6, <1>7, <1>8, <1>9, <1>10, <1>11, <1>12, <1>13 DEF Next

(* However the replicas' starts, crashes and lost answers interleave in    *)
(* ResolveJWTSecret, a token of one replica is good on all that serve.     *)
THEOREM SharedSecret == Spec => []TokensAreShared
<1>1. IInv => TokensAreShared
  BY DEF IInv, Signed, ReplicaInv, TokensAreShared
<1> QED
  BY <1>1, InitInv, NextInv, PTL DEF Spec

-----------------------------------------------------------------------------
(* Requests *)

HandlerType ==
    /\ pc \in [Requests -> {"idle", "lookup", "ttl", "grant", "put", "count", "delete"}]
    /\ DOMAIN req = Requests
    /\ aux_late \in [Requests -> BOOLEAN]

(* One request goes on, the others stay where they are.                    *)
LEMMA Continues ==
    ASSUME HandlerType, NEW q \in Requests, NEW r,
           NEW stg \in {"idle", "lookup", "ttl", "grant", "put", "count", "delete"},
           Continue(q, stg, r)
    PROVE  /\ pc' \in [Requests -> {"idle", "lookup", "ttl", "grant", "put", "count", "delete"}]
           /\ DOMAIN req' = Requests
           /\ pc'[q] = stg /\ req'[q] = r
           /\ \A p \in Requests \ {q} : pc'[p] = pc[p] /\ req'[p] = req[p]
  BY DEF Continue, HandlerType

(* A request is answered.                                                  *)
LEMMA Answers ==
    ASSUME HandlerType, NEW q \in Requests, Answer(q)
    PROVE  /\ HandlerType'
           /\ pc'[q] = "idle" /\ aux_late'[q] = FALSE
           /\ \A p \in Requests \ {q} :
                pc'[p] = pc[p] /\ req'[p] = req[p] /\ aux_late'[p] = aux_late[p]
<1>1. /\ pc' \in [Requests -> {"idle", "lookup", "ttl", "grant", "put", "count", "delete"}]
      /\ DOMAIN req' = Requests /\ pc'[q] = "idle"
      /\ \A p \in Requests \ {q} : pc'[p] = pc[p] /\ req'[p] = req[p]
  BY Continues DEF Answer
<1>2. /\ aux_late' \in [Requests -> BOOLEAN] /\ aux_late'[q] = FALSE
      /\ \A p \in Requests \ {q} : aux_late'[p] = aux_late[p]
  BY DEF Answer, HandlerType
<1> QED
  BY <1>1, <1>2 DEF HandlerType

(* What a step may do to a request: nothing, end it, or take it one stage  *)
(* further.                                                                *)
Goes(q) ==
    \/ /\ pc'[q] = pc[q] /\ req'[q] = req[q]
       /\ aux_late'[q] = aux_late[q] \/ (pc[q] \in {"count", "delete"} /\ aux_late'[q])
    \/ pc'[q] = "idle"
    \/ \E r \in Replicas : Arrive(q, r) \/ DeleteUser(q, r)
    \/ (Lookup(q) \/ LogoutTTL(q) \/ Grant(q) \/ CountUsers(q)) /\ aux_late'[q] = aux_late[q]
         /\ pc'[q] # "idle"

(* Every step does that to every request.                                  *)
LEMMA Handling ==
    ASSUME HandlerType, [Next]_vars
    PROVE  HandlerType' /\ \A q \in Requests : Goes(q)
<1>1. ASSUME UNCHANGED handler
      PROVE  HandlerType' /\ \A q \in Requests : Goes(q)
  BY <1>1 DEF handler, HandlerType, Goes
<1>2. ASSUME NEW r \in Replicas,
             GetSecret(r) \/ CreateSecret(r) \/ CreateReplyLost(r) \/ AdoptSecret(r)
               \/ Login(r) \/ AddUser(r)
      PROVE  UNCHANGED handler
  BY <1>2 DEF GetSecret, CreateSecret, CreateReplyLost, AdoptSecret, Login, AddUser
<1>3. ASSUME Tick \/ (\E e \in revoked : ExpireLease(e)) \/ UNCHANGED vars
      PROVE  UNCHANGED handler
  BY <1>3 DEF Tick, ExpireLease, vars, handler
<1>4. ASSUME NEW q \in Requests, Answer(q)
      PROVE  HandlerType' /\ \A p \in Requests : Goes(p)
  BY <1>4, Answers DEF Goes
<1>5. ASSUME NEW q \in Requests, NEW r, aux_late' \in [Requests -> BOOLEAN],
             NEW stg \in {"idle", "lookup", "ttl", "grant", "put", "count", "delete"},
             Continue(q, stg, r), \A p \in Requests \ {q} : aux_late'[p] = aux_late[p], Goes(q)
      PROVE  HandlerType' /\ \A p \in Requests : Goes(p)
  <2>1. HandlerType' /\ \A p \in Requests \ {q} : pc'[p] = pc[p] /\ req'[p] = req[p]
    BY <1>5, Continues DEF HandlerType
  <2> QED
    BY <1>5, <2>1 DEF Goes
<1>6. ASSUME NEW q \in Requests, NEW r \in Replicas, Arrive(q, r)
      PROVE  HandlerType' /\ \A p \in Requests : Goes(p)
  <2>1. PICK t \in tokens, logout \in BOOLEAN :
          /\ Continue(q, "lookup", [at |-> r, token |-> t, logout |-> logout])
          /\ aux_late' = [aux_late EXCEPT ![q] = t \in aux_out]
    BY <1>6 DEF Arrive
  <2>2. aux_late' \in [Requests -> BOOLEAN] /\ \A p \in Requests \ {q} : aux_late'[p] = aux_late[p]
    BY <2>1 DEF HandlerType
  <2>3. Goes(q)
    BY <1>6 DEF Goes
  <2> QED
    BY <1>5, <2>1, <2>2, <2>3
<1>7. ASSUME NEW q \in Requests, NEW r \in Replicas, DeleteUser(q, r)
      PROVE  HandlerType' /\ \A p \in Requests : Goes(p)
  <2>1. PICK u \in users : Continue(q, "count", [at |-> r, user |-> u])
    BY <1>7 DEF DeleteUser
  <2>2. Goes(q) /\ aux_late' = aux_late
    BY <1>7 DEF DeleteUser, Goes
  <2> QED
    BY <1>5, <2>1, <2>2 DEF HandlerType
<1>8. ASSUME NEW q \in Requests, NEW r, NEW stg \in {"ttl", "grant", "put", "delete"},
             Continue(q, stg, r), aux_late' = aux_late,
             Lookup(q) \/ LogoutTTL(q) \/ Grant(q) \/ CountUsers(q)
      PROVE  HandlerType' /\ \A p \in Requests : Goes(p)
  <2>1. pc'[q] = stg
    BY <1>8, Continues
  <2>2. Goes(q)
    BY <1>8, <2>1 DEF Goes
  <2> QED
    BY <1>5, <1>8, <2>2 DEF HandlerType
<1>9. ASSUME NEW q \in Requests, Lookup(q) \/ LogoutTTL(q) \/ Grant(q) \/ CountUsers(q)
      PROVE  HandlerType' /\ \A p \in Requests : Goes(p)
  <2>1. \/ Answer(q)
        \/ \E r, stg : /\ stg \in {"ttl", "grant", "put", "delete"}
                       /\ Continue(q, stg, r) /\ aux_late' = aux_late
    <3>1. CASE Lookup(q)
      BY <3>1 DEF Lookup
    <3>2. CASE LogoutTTL(q)
      BY <3>2 DEF LogoutTTL
    <3>3. CASE Grant(q)
      BY <3>3 DEF Grant
    <3>4. CASE CountUsers(q)
      BY <3>4 DEF CountUsers
    <3> QED
      BY <1>9, <3>1, <3>2, <3>3, <3>4
  <2> QED
    BY <1>4, <1>8, <1>9, <2>1
<1>10. ASSUME NEW q \in Requests, Put(q) \/ Fail(q)
       PROVE  Answer(q)
  BY <1>10 DEF Put, Fail
<1>11. ASSUME NEW q \in Requests, RemoveUser(q)
       PROVE  HandlerType' /\ \A p \in Requests : Goes(p)
  <2>1. /\ pc' \in [Requests -> {"idle", "lookup", "ttl", "grant", "put", "count", "delete"}]
        /\ DOMAIN req' = Requests /\ pc'[q] = "idle"
        /\ \A p \in Requests \ {q} : pc'[p] = pc[p] /\ req'[p] = req[p]
    BY <1>11, Continues DEF RemoveUser
  <2>2. /\ aux_late' \in [Requests -> BOOLEAN]
        /\ \A p \in Requests \ {q} :
             aux_late'[p] = (aux_late[p] \/ (pc[p] \in {"count", "delete"} /\ req[q].user \in users))
    BY <1>11, Zenon DEF RemoveUser, HandlerType
  <2>3. ASSUME NEW p \in Requests \ {q}
        PROVE  aux_late'[p] = aux_late[p] \/ (pc[p] \in {"count", "delete"} /\ aux_late'[p])
    BY <2>2, Zenon DEF HandlerType
  <2> QED
    BY <2>1, <2>2, <2>3 DEF Goes, HandlerType
<1>12. ASSUME NEW r \in Replicas, Crash(r)
       PROVE  HandlerType' /\ \A p \in Requests : Goes(p)
  <2> DEFINE lost == {q \in Requests : req[q].at = r}
  <2>1. /\ pc' = [q \in Requests |-> IF q \in lost THEN "idle" ELSE pc[q]]
        /\ req' = [q \in Requests |-> IF q \in lost THEN NoRequest ELSE req[q]]
        /\ aux_late' = [q \in Requests |-> aux_late[q] /\ q \notin lost]
    BY <1>12 DEF Crash
  <2> HIDE DEF lost
  <2>2. HandlerType'
    BY <2>1 DEF HandlerType
  <2>3. ASSUME NEW p \in Requests
        PROVE  Goes(p)
    <3>1. CASE p \in lost
      BY <2>1, <3>1 DEF Goes
    <3>2. CASE p \notin lost
      <4>1. pc'[p] = pc[p] /\ req'[p] = req[p]
        BY <2>1, <3>2
      <4>2. aux_late'[p] = aux_late[p]
        BY <2>1, <3>2, Zenon DEF HandlerType
      <4> QED
        BY <4>1, <4>2 DEF Goes
    <3> QED
      BY <3>1, <3>2
  <2> QED
    BY <2>2, <2>3
<1> QED
  BY <1>1, <1>2, <1>3, <1>4, <1>6, <1>7, <1>9, <1>10, <1>11, <1>12 DEF Next

(* No request is there at first.                                           *)
LEMMA InitHandler == Init => HandlerType
  BY DEF Init, HandlerType

-----------------------------------------------------------------------------
(* Deletions of users *)

(* As long as no other deletion has come in between, the user that a       *)
(* request has found is there, and is not alone once it was counted.       *)
FoundInv(q) ==
    pc[q] \in {"count", "delete"} /\ ~aux_late[q] =>
      /\ req[q].user \in users
      /\ pc[q] = "delete" => users # {req[q].user}

(* Users go only by a deletion that all the other deletions notice.        *)
LEMMA UsersStep ==
    ASSUME HandlerType, [Next]_vars
    PROVE  \/ users \subseteq users'
           \/ \A q \in Requests : pc'[q] \in {"count", "delete"} => aux_late'[q]
<1>1. ASSUME NEW q \in Requests, RemoveUser(q)
      PROVE  \/ users \subseteq users'
             \/ \A p \in Requests : pc'[p] \in {"count", "delete"} => aux_late'[p]
  <2>1. CASE req[q].user \notin users
    BY <1>1, <2>1 DEF RemoveUser
  <2>2. CASE req[q].user \in users
    <3>1. /\ pc'[q] = "idle"
          /\ \A p \in Requests \ {q} : pc'[p] = pc[p]
      BY <1>1, Continues DEF RemoveUser
    <3>2. ASSUME NEW p \in Requests \ {q}, pc[p] \in {"count", "delete"}
          PROVE  aux_late'[p]
      BY <1>1, <2>2, <3>2, Zenon DEF RemoveUser
    <3> QED
      BY <3>1, <3>2
  <2> QED
    BY <2>1, <2>2
<1>2. ASSUME NEW r \in Replicas,
             \/ GetSecret(r) \/ CreateSecret(r) \/ CreateReplyLost(r) \/ AdoptSecret(r)
             \/ Crash(r) \/ Login(r) \/ AddUser(r)
             \/ \E q \in Requests : Arrive(q, r) \/ DeleteUser(q, r)
      PROVE  users \subseteq users'
  BY <1>2 DEF GetSecret, CreateSecret, CreateReplyLost, AdoptSecret, Crash, Login, AddUser,
     Arrive, DeleteUser
<1>3. ASSUME NEW q \in Requests,
             Lookup(q) \/ LogoutTTL(q) \/ Grant(q) \/ Put(q) \/ Fail(q) \/ CountUsers(q)
      PROVE  users \subseteq users'
  BY <1>3 DEF Lookup, LogoutTTL, Grant, Put, Fail, CountUsers
<1>4. ASSUME Tick \/ (\E e \in revoked : ExpireLease(e)) \/ UNCHANGED vars
      PROVE  users \subseteq users'
  BY <1>4 DEF Tick, ExpireLease, vars
<1> QED
  BY <1>1, <1>2, <1>3, <1>4 DEF Next

(* Every step keeps what a deletion has found, or the deletion notices.    *)
LEMMA FoundStep ==
    ASSUME HandlerType, [Next]_vars, NEW q \in Requests, FoundInv(q)
    PROVE  FoundInv(q)'
<1>1. CASE \A p \in Requests : pc'[p] \in {"count", "delete"} => aux_late'[p]
  BY <1>1 DEF FoundInv
<1>2. CASE users \subseteq users'
  <2>1. CASE /\ pc'[q] = pc[q] /\ req'[q] = req[q]
             /\ aux_late'[q] = aux_late[q] \/ (pc[q] \in {"count", "delete"} /\ aux_late'[q])
    BY <1>2, <2>1 DEF FoundInv
  <2>2. CASE pc'[q] = "idle"
    BY <2>2 DEF FoundInv
  <2>3. ASSUME NEW r \in Replicas, Arrive(q, r)
        PROVE  FoundInv(q)'
    <3>1. PICK x : Continue(q, "lookup", x)
      BY <2>3 DEF Arrive
    <3>2. pc'[q] = "lookup"
      BY <3>1, Continues
    <3> QED
      BY <3>2 DEF FoundInv
  <2>4. ASSUME NEW r \in Replicas, DeleteUser(q, r)
        PROVE  FoundInv(q)'
    <3>1. PICK u \in users : Continue(q, "count", [at |-> r, user |-> u])
      BY <2>4 DEF DeleteUser
    <3>2. pc'[q] = "count" /\ req'[q] = [at |-> r, user |-> u]
      BY <3>1, Continues
    <3> QED
      BY <1>2, <3>2 DEF FoundInv
  <2>5. CASE CountUsers(q) /\ aux_late'[q] = aux_late[q] /\ pc'[q] # "idle"
    <3>1. ~IsLast /\ Continue(q, "delete", req[q]) /\ pc[q] = "count"
      BY <2>5, Answers DEF CountUsers
    <3>2. pc'[q] = "delete" /\ req'[q] = req[q]
      BY <3>1, Continues
    <3>3. users # {req[q].user}
      BY <3>1, FS_Singleton DEF IsLast
    <3> QED
      BY <1>2, <2>5, <3>1, <3>2, <3>3 DEF FoundInv
  <2>6. CASE (Lookup(q) \/ LogoutTTL(q) \/ Grant(q)) /\ pc'[q] # "idle"
    <3>1. \E x, stg : stg \in {"ttl", "grant", "put"} /\ Continue(q, stg, x)
      BY <2>6, Answers DEF Lookup, LogoutTTL, Grant
    <3>2. pc'[q] \in {"ttl", "grant", "put"}
      BY <3>1, Continues
    <3> QED
      BY <3>2 DEF FoundInv
  <2>7. Goes(q)
    BY Handling
  <2> QED
    BY <2>1, <2>2, <2>3, <2>4, <2>5, <2>6, <2>7 DEF Goes
<1> QED
  BY <1>1, <1>2, UsersStep

(* DeleteUser takes the last user only when deletions overlap, whatever    *)
(* requests, crashes and replicas there are.                               *)
THEOREM LastUserRace == Spec => LastUserGoesInARace
<1> DEFINE Found == HandlerType /\ \A q \in Requests : FoundInv(q)
<1>1. Init => Found
  <2> SUFFICES ASSUME Init, NEW q \in Requests PROVE pc[q] = "idle"
    BY InitHandler DEF FoundInv
  <2> QED
    BY DEF Init
<1>2. Found /\ [Next]_vars => Found'
  <2> SUFFICES ASSUME Found, [Next]_vars PROVE Found'
    OBVIOUS
  <2> QED
    BY Handling, FoundStep
<1>3. Found /\ [Next]_vars =>
        [\A q \in Requests : (RemoveUser(q) /\ users # {} /\ users' = {}) => aux_late[q]]_vars
  <2> SUFFICES ASSUME Found, NEW q \in Requests, RemoveUser(q), users' = {}, ~aux_late[q]
               PROVE  users = {}
    OBVIOUS
  <2>1. pc[q] = "delete" /\ users' = users \ {req[q].user}
    BY DEF RemoveUser
  <2>2. FoundInv(q)
    OBVIOUS
  <2> QED
    BY <2>1, <2>2 DEF FoundInv
<1> HIDE DEF Found
<1> QED
  BY <1>1, <1>2, <1>3, PTL DEF Spec, LastUserGoesInARace

-----------------------------------------------------------------------------
(* The blacklist *)

(* Every entry lasts as long as its token, but for the seconds that the    *)
(* clocks differ by, and so does the one that a logout on its way will     *)
(* make.                                                                   *)
EntryInv ==
    /\ now \in Int /\ skew \in [Replicas -> 0..Skew]
    /\ \A t \in tokens : t.exp \in Int
    /\ \A e \in revoked : e.until \in Int /\ e.token.exp \in Int /\ e.token.exp <= e.until + Skew

LogoutInv(q) ==
    /\ pc[q] \in {"lookup", "ttl", "grant", "put"} => req[q].token.exp \in Int
    /\ pc[q] \in {"lookup", "ttl"} => req[q].at \in Replicas
    /\ pc[q] = "grant" => req[q].ttl \in Int /\ req[q].token.exp <= now + req[q].ttl + Skew
    /\ pc[q] = "put" => req[q].until \in Int /\ req[q].token.exp <= req[q].until + Skew
    /\ pc[q] = "lookup" /\ aux_late[q] => req[q].token \in aux_out

(* What is logged out is on the list, or about to expire.                  *)
OutInv == \A t \in aux_out : t.exp \in Int /\ (t.exp <= now + Skew \/ Blacklisted(t))

BlacklistInv ==
    /\ HandlerType /\ EntryInv /\ OutInv
    /\ \A q \in Requests : LogoutInv(q)

(* How the list, the tokens and the clock may change.                      *)
ListKept == revoked' = revoked /\ aux_out' = aux_out

Revokes(q) ==
    /\ pc[q] = "put" /\ req[q].until > now /\ now' = now
    /\ revoked' = {e \in revoked : e.token # req[q].token}
                    \cup {[token |-> req[q].token, until |-> req[q].until]}
    /\ aux_out' \in {aux_out, aux_out \cup {req[q].token}}

(* Entries come from logouts that put them, and go when their leases end.  *)
LEMMA ListStep ==
    ASSUME [Next]_vars
    PROVE  \/ ListKept
           \/ \E q \in Requests : Revokes(q)
           \/ \E e \in revoked : ExpireLease(e)
<1>1. ASSUME NEW r \in Replicas,
             \/ GetSecret(r) \/ CreateSecret(r) \/ CreateReplyLost(r) \/ AdoptSecret(r)
             \/ Crash(r) \/ Login(r) \/ AddUser(r)
             \/ \E q \in Requests : Arrive(q, r) \/ DeleteUser(q, r)
      PROVE  ListKept
  BY <1>1 DEF GetSecret, CreateSecret, CreateReplyLost, AdoptSecret, Crash, Login, AddUser,
     Arrive, DeleteUser, session, ListKept
<1>2. ASSUME NEW q \in Requests,
             Lookup(q) \/ LogoutTTL(q) \/ Grant(q) \/ CountUsers(q) \/ RemoveUser(q)
      PROVE  ListKept
  BY <1>2 DEF Lookup, LogoutTTL, Grant, CountUsers, RemoveUser, session, ListKept
<1>3. ASSUME NEW q \in Requests, Put(q) \/ Fail(q)
      PROVE  ListKept \/ Revokes(q)
  BY <1>3 DEF Put, Fail, ListKept, Revokes
<1>4. ASSUME Tick \/ UNCHANGED vars
      PROVE  ListKept
  BY <1>4 DEF Tick, vars, session, ListKept
<1> QED
  BY <1>1, <1>2, <1>3, <1>4 DEF Next

(* Time does not go back, the clocks keep their difference, and tokens are *)
(* only added, with an expiry.                                             *)
LEMMA ClockStep ==
    ASSUME EntryInv, [Next]_vars
    PROVE  /\ now' \in Int /\ now <= now' /\ skew' = skew
           /\ \A t \in tokens' : t.exp \in Int
<1>1. CASE Tick
  BY <1>1 DEF Tick, session, EntryInv
<1>2. ASSUME NEW r \in Replicas, Login(r)
      PROVE  /\ now' = now /\ skew' = skew
             /\ \A t \in tokens' : t.exp \in Int
  <2>1. Clock(r) + Lifetime \in Int
    BY LifetimeAssumption, SkewAssumption DEF EntryInv, Clock
  <2> QED
    BY <1>2, <2>1 DEF Login, EntryInv
<1>3. ASSUME NEW r \in Replicas,
             \/ GetSecret(r) \/ CreateSecret(r) \/ CreateReplyLost(r) \/ AdoptSecret(r)
             \/ Crash(r) \/ AddUser(r)
             \/ \E q \in Requests : Arrive(q, r) \/ DeleteUser(q, r)
      PROVE  UNCHANGED <<now, skew, tokens>>
  BY <1>3 DEF GetSecret, CreateSecret, CreateReplyLost, AdoptSecret, Crash, AddUser,
     Arrive, DeleteUser, session
<1>4. ASSUME NEW q \in Requests,
             \/ Lookup(q) \/ LogoutTTL(q) \/ Grant(q) \/ Put(q) \/ Fail(q)
             \/ CountUsers(q) \/ RemoveUser(q)
      PROVE  UNCHANGED <<now, skew, tokens>>
  BY <1>4 DEF Lookup, LogoutTTL, Grant, Put, Fail, CountUsers, RemoveUser, session
<1>5. ASSUME (\E e \in revoked : ExpireLease(e)) \/ UNCHANGED vars
      PROVE  UNCHANGED <<now, skew, tokens>>
  BY <1>5 DEF ExpireLease, vars
<1> QED
  BY <1>1, <1>2, <1>3, <1>4, <1>5 DEF Next, EntryInv

(* The entries stay long enough.                                           *)
LEMMA EntryStep == ASSUME BlacklistInv, [Next]_vars PROVE EntryInv'
<1>1. EntryInv
  BY DEF BlacklistInv
<1>2. /\ now' \in Int /\ skew' \in [Replicas -> 0..Skew]
      /\ \A t \in tokens' : t.exp \in Int
  BY <1>1, ClockStep DEF EntryInv
<1>3. ASSUME NEW q \in Requests, Revokes(q), NEW e \in revoked'
      PROVE  e.until \in Int /\ e.token.exp \in Int /\ e.token.exp <= e.until + Skew
  <2>1. LogoutInv(q)
    BY DEF BlacklistInv
  <2>2. e \in revoked \/ e = [token |-> req[q].token, until |-> req[q].until]
    BY <1>3 DEF Revokes
  <2> QED
    BY <1>1, <1>3, <2>1, <2>2, SkewAssumption DEF Revokes, LogoutInv, EntryInv
<1>4. CASE ListKept \/ \E e \in revoked : ExpireLease(e)
  BY <1>1, <1>2, <1>4 DEF ListKept, ExpireLease, EntryInv
<1> QED
  BY <1>2, <1>3, <1>4, ListStep DEF EntryInv

(* What is logged out stays on the list until it is about to expire.       *)
LEMMA OutStep == ASSUME BlacklistInv, [Next]_vars PROVE OutInv'
<1>1. EntryInv /\ OutInv
  BY DEF BlacklistInv
<1>2. now' \in Int /\ now \in Int /\ now <= now'
  BY <1>1, ClockStep DEF EntryInv
<1>3. CASE ListKept
  BY <1>1, <1>2, <1>3, SkewAssumption DEF ListKept, OutInv, Blacklisted
<1>4. ASSUME NEW q \in Requests, Revokes(q), NEW t \in aux_out'
      PROVE  t.exp \in Int /\ (t.exp <= now' + Skew \/ Blacklisted(t)')
  <2>1. LogoutInv(q)
    BY DEF BlacklistInv
  <2>2. CASE t = req[q].token
    <3>1. [token |-> t, until |-> req[q].until] \in revoked'
      BY <1>4, <2>2 DEF Revokes
    <3> QED
      BY <1>4, <2>1, <2>2, <3>1 DEF Revokes, LogoutInv, Blacklisted
  <2>3. CASE t # req[q].token
    <3>1. t \in aux_out
      BY <1>4, <2>3 DEF Revokes
    <3>2. \A e \in revoked : e.token = t => e \in revoked'
      BY <1>4, <2>3 DEF Revokes
    <3> QED
      BY <1>1, <1>2, <3>1, <3>2, SkewAssumption DEF OutInv, Blacklisted
  <2> QED
    BY <2>2, <2>3
<1>5. ASSUME NEW e \in revoked, ExpireLease(e), NEW t \in aux_out'
      PROVE  t.exp \in Int /\ (t.exp <= now' + Skew \/ Blacklisted(t)')
  <2>1. /\ t \in aux_out /\ revoked' = revoked \ {e} /\ e.until <= now /\ now' = now
        /\ t.exp \in Int /\ (t.exp <= now + Skew \/ Blacklisted(t))
    BY <1>1, <1>5 DEF ExpireLease, OutInv
  <2>2. CASE e.token = t
    BY <1>1, <1>2, <2>1, <2>2, SkewAssumption DEF EntryInv
  <2>3. CASE e.token # t
    BY <2>1, <2>3 DEF Blacklisted
  <2> QED
    BY <2>1, <2>2, <2>3
<1> QED
  BY <1>3, <1>4, <1>5, ListStep DEF OutInv

(* A logout that goes on keeps the token's life covered: the lease takes   *)
(* what remains of it on a clock that is at most Skew seconds ahead, and   *)
(* time that passes before the grant only makes it longer.                 *)
LEMMA LogoutStep ==
    ASSUME BlacklistInv, [Next]_vars, NEW q \in Requests
    PROVE  LogoutInv(q)'
<1>1. EntryInv /\ HandlerType /\ LogoutInv(q)
  BY DEF BlacklistInv
<1>2. now' \in Int /\ now \in Int /\ now <= now' /\ aux_out \subseteq aux_out'
  <2>1. aux_out \subseteq aux_out'
    BY ListStep DEF ListKept, Revokes, ExpireLease
  <2> QED
    BY <1>1, <2>1, ClockStep DEF EntryInv
<1>3. CASE /\ pc'[q] = pc[q] /\ req'[q] = req[q]
           /\ aux_late'[q] = aux_late[q] \/ (pc[q] \in {"count", "delete"} /\ aux_late'[q])
  BY <1>1, <1>2, <1>3, SkewAssumption DEF LogoutInv
<1>4. CASE pc'[q] = "idle"
  BY <1>4 DEF LogoutInv
<1>5. ASSUME NEW r \in Replicas, Arrive(q, r)
      PROVE  LogoutInv(q)'
  <2>1. PICK t \in tokens, logout \in BOOLEAN :
          /\ Continue(q, "lookup", [at |-> r, token |-> t, logout |-> logout])
          /\ aux_late' = [aux_late EXCEPT ![q] = t \in aux_out]
    BY <1>5 DEF Arrive
  <2>2. pc'[q] = "lookup" /\ req'[q] = [at |-> r, token |-> t, logout |-> logout]
    BY <1>1, <2>1, Continues
  <2>3. t.exp \in Int /\ (aux_late'[q] => t \in aux_out)
    BY <1>1, <2>1 DEF EntryInv, HandlerType
  <2> QED
    BY <1>2, <2>2, <2>3 DEF LogoutInv
<1>6. ASSUME NEW r \in Replicas, DeleteUser(q, r)
      PROVE  LogoutInv(q)'
  <2>1. PICK u \in users : Continue(q, "count", [at |-> r, user |-> u])
    BY <1>6 DEF DeleteUser
  <2>2. pc'[q] = "count"
    BY <1>1, <2>1, Continues
  <2> QED
    BY <2>2 DEF LogoutInv
<1>7. CASE Lookup(q) /\ pc'[q] # "idle"
  <2>1. pc[q] = "lookup" /\ Continue(q, "ttl", req[q])
    BY <1>1, <1>7, Answers DEF Lookup
  <2>2. pc'[q] = "ttl" /\ req'[q] = req[q]
    BY <1>1, <2>1, Continues
  <2> QED
    BY <1>1, <2>1, <2>2 DEF LogoutInv
<1>8. CASE LogoutTTL(q) /\ pc'[q] # "idle"
  <2> DEFINE t == req[q].token
             r == req[q].at
  <2>1. pc[q] = "ttl" /\ Continue(q, "grant", [at |-> r, token |-> t, ttl |-> TTL(t, r)])
    BY <1>1, <1>8, Answers DEF LogoutTTL
  <2>2. pc'[q] = "grant" /\ req'[q] = [at |-> r, token |-> t, ttl |-> TTL(t, r)]
    BY <1>1, <2>1, Continues
  <2>3. r \in Replicas /\ t.exp \in Int
    BY <1>1, <2>1 DEF LogoutInv
  <2>4. TTL(t, r) \in Int /\ t.exp <= now + TTL(t, r) + Skew
    <3>1. skew[r] \in 0..Skew
      BY <1>1, <2>3 DEF EntryInv
    <3> QED
      BY <1>2, <2>3, <3>1, SkewAssumption DEF TTL, Clock
  <2>5. /\ req'[q].token = t /\ req'[q].ttl = TTL(t, r)
    BY <2>2
  <2> HIDE DEF t, r
  <2> QED
    <3>1. now' = now
      BY <1>8 DEF LogoutTTL
    <3> QED
      BY <1>2, <2>2, <2>3, <2>4, <2>5, <3>1, SkewAssumption DEF LogoutInv
<1>9. CASE Grant(q) /\ pc'[q] # "idle"
  <2>1. /\ pc[q] = "grant"
        /\ Continue(q, "put", [at |-> req[q].at, token |-> req[q].token,
                               until |-> now + req[q].ttl])
    BY <1>9 DEF Grant
  <2>2. /\ pc'[q] = "put" /\ req'[q].token = req[q].token
        /\ req'[q].until = now + req[q].ttl
    BY <1>1, <2>1, Continues
  <2> QED
    BY <1>1, <1>2, <2>1, <2>2, SkewAssumption DEF LogoutInv
<1>10. CASE CountUsers(q) /\ pc'[q] # "idle"
  <2>1. Continue(q, "delete", req[q])
    BY <1>1, <1>10, Answers DEF CountUsers
  <2>2. pc'[q] = "delete"
    BY <1>1, <2>1, Continues
  <2> QED
    BY <2>2 DEF LogoutInv
<1>11. Goes(q)
  BY <1>1, Handling
<1> QED
  BY <1>3, <1>4, <1>5, <1>6, <1>7, <1>8, <1>9, <1>10, <1>11 DEF Goes

(* A token whose logout was answered with success passes authMiddleware on *)
(* no replica before the last Skew seconds of its life, however logouts of *)
(* it overlap, time out or take effect unseen, and on whatever clocks.     *)
THEOREM StaysOut == Spec => LoggedOutStaysOut
<1>1. Init => BlacklistInv
  <2> SUFFICES ASSUME Init PROVE BlacklistInv
    OBVIOUS
  <2>1. EntryInv /\ OutInv
    BY DEF Init, EntryInv, OutInv
  <2>2. \A q \in Requests : pc[q] = "idle"
    BY DEF Init
  <2> QED
    BY <2>1, <2>2, InitHandler DEF BlacklistInv, LogoutInv
<1>2. BlacklistInv /\ [Next]_vars => BlacklistInv'
  <2> SUFFICES ASSUME BlacklistInv, [Next]_vars PROVE BlacklistInv'
    OBVIOUS
  <2>1. HandlerType'
    BY Handling DEF BlacklistInv
  <2> QED
    BY <2>1, EntryStep, OutStep, LogoutStep DEF BlacklistInv
<1>3. BlacklistInv /\ [Next]_vars =>
        [\A q \in Requests :
           (Lookup(q) /\ aux_late[q] /\ ~Blacklisted(req[q].token))
             => Clock(req[q].at) + Skew >= req[q].token.exp]_vars
  <2> SUFFICES ASSUME BlacklistInv, NEW q \in Requests, Lookup(q), aux_late[q],
                      ~Blacklisted(req[q].token)
               PROVE  Clock(req[q].at) + Skew >= req[q].token.exp
    OBVIOUS
  <2>1. pc[q] = "lookup" /\ LogoutInv(q)
    BY DEF Lookup, BlacklistInv
  <2>2. req[q].token \in aux_out /\ req[q].at \in Replicas
    BY <2>1 DEF LogoutInv
  <2>3. req[q].token.exp \in Int /\ req[q].token.exp <= now + Skew
    BY <2>2 DEF BlacklistInv, OutInv
  <2>4. skew[req[q].at] \in Nat /\ now \in Int
    BY <2>2, SkewAssumption DEF BlacklistInv, EntryInv
  <2> QED
    BY <2>3, <2>4, SkewAssumption DEF Clock
<1> QED
  BY <1>1, <1>2, <1>3, PTL DEF Spec, LoggedOutStaysOut

=============================================================================
