------------------------------ MODULE Sessions ------------------------------
(***************************************************************************)
(* Users, tokens and the signing secret (rest_server.go, jwt_secret.go,    *)
(* and the same checks in config_grpc_server.go).  Every replica signs and *)
(* checks tokens with the secret it resolved when it started.  A logout    *)
(* puts the token on a blacklist in etcd, under a lease that is to end no  *)
(* earlier than the token.                                                 *)
(*                                                                         *)
(* Time is in seconds.  A token is what is signed: two logins of a user in *)
(* one second get the same one.  That AddUser and DeleteUser need a token  *)
(* themselves is left out.                                                 *)
(***************************************************************************)
EXTENDS Integers, FiniteSets

CONSTANTS
    Replicas,
    Names,      \* names of users
    Requests,   \* requests in progress at one time
    Lifetime,   \* seconds a token is valid: two hours in the code
    Skew,       \* how far a replica's clock may be ahead
    MaxTime, MaxLogins, MaxFaults

ASSUME LifetimeAssumption == Lifetime \in Nat \ {0}
ASSUME SkewAssumption     == Skew \in Nat
ASSUME BoundsAssumption   == MaxTime \in Nat /\ MaxLogins \in Nat /\ MaxFaults \in Nat

NoSecret  == 0
EnvSecret == -1   \* JWT_SECRET of the deployment
Secrets   == {EnvSecret} \cup Nat

Tokens  == [user : Names, exp : Int, key : Secrets]
NoToken == [exp |-> 0]

VARIABLES
    now,
    skew,     \* by how much each replica's clock is ahead
    env,      \* whether the deployment sets JWT_SECRET
    stored,   \* auth/jwt_secret in etcd
    made,     \* number of secrets generated so far; the n-th is n
    stage,    \* where each replica's start is
    secret,   \* jwtSecret of each replica; while it starts, its candidate
    users,    \* users/ in etcd
    tokens,   \* the tokens handed out
    revoked,  \* token_blacklist/ in etcd: token and end of the lease
    pc, req,  \* the requests in progress
    logins, faults,
    aux_out,  \* tokens whose logout was answered with success
    aux_late  \* by request: its token was among them when it came;
              \* for the deletion of a user: another one came in between

vars == <<now, skew, env, stored, made, stage, secret, users, tokens, revoked,
          pc, req, logins, faults, aux_out, aux_late>>

NoRequest == [at |-> "none"]

Entries == [token : Tokens, until : Int]

TypeOK ==
    /\ now \in 0..MaxTime /\ skew \in [Replicas -> 0..Skew]
    /\ env \in BOOLEAN /\ stored \in Nat /\ made \in Nat
    /\ stage \in [Replicas -> {"get", "create", "adopt", "up"}]
    /\ secret \in [Replicas -> Secrets]
    /\ users \subseteq Names
    /\ tokens \subseteq Tokens
    /\ revoked \subseteq Entries
    /\ pc \in [Requests -> {"idle", "lookup", "ttl", "grant", "put", "count", "delete"}]
    /\ logins \in 0..MaxLogins /\ faults \in 0..MaxFaults
    /\ aux_out \subseteq tokens /\ aux_late \in [Requests -> BOOLEAN]

Init ==
    /\ now = 0 /\ skew \in [Replicas -> 0..Skew]
    /\ env \in BOOLEAN /\ stored = NoSecret /\ made = 0
    /\ stage = [r \in Replicas |-> "get"]
    /\ secret = [r \in Replicas |-> NoSecret]
    /\ users \in SUBSET Names \ {{}}
    /\ tokens = {} /\ revoked = {}
    /\ pc = [q \in Requests |-> "idle"]
    /\ req = [q \in Requests |-> NoRequest]
    /\ logins = 0 /\ faults = 0
    /\ aux_out = {} /\ aux_late = [q \in Requests |-> FALSE]

start   == <<env, stored, made, stage, secret>>
session == <<tokens, revoked, logins, aux_out>>
handler == <<pc, req, aux_late>>

Fault == faults < MaxFaults /\ faults' = faults + 1

Clock(r) == now + skew[r]

Continue(q, stg, r) ==
    /\ pc' = [pc EXCEPT ![q] = stg]
    /\ req' = [req EXCEPT ![q] = r]

Answer(q) == Continue(q, "idle", NoRequest) /\ aux_late' = [aux_late EXCEPT ![q] = FALSE]

-----------------------------------------------------------------------------
(* ResolveJWTSecret *)

Resolved(r, s) ==
    /\ secret' = [secret EXCEPT ![r] = s]
    /\ stage' = [stage EXCEPT ![r] = "up"]

(* The environment, then the first Get; without a secret in etcd the       *)
(* replica generates one.                                                  *)
GetSecret(r) ==
    /\ stage[r] = "get"
    /\ IF env THEN Resolved(r, EnvSecret) /\ UNCHANGED made
       ELSE IF stored # NoSecret THEN Resolved(r, stored) /\ UNCHANGED made
       ELSE /\ made' = made + 1
            /\ secret' = [secret EXCEPT ![r] = made + 1]
            /\ stage' = [stage EXCEPT ![r] = "create"]
    /\ UNCHANGED <<now, skew, env, stored, users, session, handler, faults>>

(* Fault: a plain put.                                                     *)
CreateSecret_Put(r) ==
    /\ stage[r] = "create"
    /\ stored' = secret[r] /\ Resolved(r, secret[r])
    /\ UNCHANGED <<now, skew, env, made, users, session, handler, faults>>

(* The transaction that creates the key if it is absent.                   *)
CreateSecret(r) ==
    /\ stage[r] = "create"
    /\ IF stored = NoSecret
       THEN stored' = secret[r] /\ Resolved(r, secret[r])
       ELSE stage' = [stage EXCEPT ![r] = "adopt"] /\ UNCHANGED <<stored, secret>>
    /\ UNCHANGED <<now, skew, env, made, users, session, handler, faults>>

(* The transaction takes effect, its response is lost, and main exits.     *)
CreateReplyLost(r) ==
    /\ stage[r] = "create" /\ stored = NoSecret /\ Fault
    /\ stored' = secret[r]
    /\ stage' = [stage EXCEPT ![r] = "get"]
    /\ UNCHANGED <<now, skew, env, made, secret, users, session, handler>>

AdoptSecret(r) ==
    /\ stage[r] = "adopt"
    /\ Resolved(r, stored)
    /\ UNCHANGED <<now, skew, env, stored, made, users, session, handler, faults>>

(* The process ends, on an error of its start or a crash, and starts       *)
(* again; its requests are never answered.                                 *)
Crash(r) ==
    /\ Fault
    /\ stage' = [stage EXCEPT ![r] = "get"]
    /\ LET lost == {q \in Requests : req[q].at = r} IN
       /\ pc' = [q \in Requests |-> IF q \in lost THEN "idle" ELSE pc[q]]
       /\ req' = [q \in Requests |-> IF q \in lost THEN NoRequest ELSE req[q]]
       /\ aux_late' = [q \in Requests |-> aux_late[q] /\ q \notin lost]
    /\ UNCHANGED <<now, skew, env, stored, made, secret, users, session>>

-----------------------------------------------------------------------------
(* Tokens *)

(* getUserPassword finds the user, the password is right, and              *)
(* generateToken signs.                                                    *)
Login(r) ==
    /\ stage[r] = "up" /\ logins < MaxLogins
    /\ logins' = logins + 1
    /\ \E u \in users :
         tokens' = tokens \cup {[user |-> u, exp |-> Clock(r) + Lifetime, key |-> secret[r]]}
    /\ UNCHANGED <<now, skew, start, users, revoked, handler, faults, aux_out>>

(* validateToken: the signature and the expiry.                            *)
Valid(t, r) == t.key = secret[r] /\ Clock(r) < t.exp

(* A request with a token passes the first half of the middleware, or of   *)
(* callerFromCtx.  It is a logout or anything else.                        *)
Arrive(q, r) ==
    /\ pc[q] = "idle" /\ stage[r] = "up"
    /\ \E t \in tokens, logout \in BOOLEAN :
         /\ Valid(t, r)
         /\ Continue(q, "lookup", [at |-> r, token |-> t, logout |-> logout])
         /\ aux_late' = [aux_late EXCEPT ![q] = t \in aux_out]
    /\ UNCHANGED <<now, skew, start, users, session, faults>>

Blacklisted(t) == \E e \in revoked : e.token = t

(* The second half: the blacklist.  An error of etcd refuses the request.  *)
Lookup(q) ==
    /\ pc[q] = "lookup"
    /\ IF req[q].logout /\ ~Blacklisted(req[q].token)
       THEN Continue(q, "ttl", req[q]) /\ UNCHANGED aux_late
       ELSE Answer(q)
    /\ UNCHANGED <<now, skew, start, users, session, faults>>

(* Fault: the lease ends a second early.                                   *)
TTL_Short(t, r) == t.exp - Clock(r) - 1

(* What remains of the token's life on the clock of this replica.          *)
TTL(t, r) == t.exp - Clock(r)

(* Logout validates the token again and computes the lease; with nothing   *)
(* left of the token it has nothing to do.                                 *)
LogoutTTL(q) ==
    /\ pc[q] = "ttl"
    /\ LET t == req[q].token
           r == req[q].at IN
       IF Valid(t, r)
       THEN Continue(q, "grant", [at |-> r, token |-> t, ttl |-> TTL(t, r)]) /\ UNCHANGED aux_late
       ELSE Answer(q)
    /\ UNCHANGED <<now, skew, start, users, session, faults>>

Grant(q) ==
    /\ pc[q] = "grant"
    /\ Continue(q, "put", [at |-> req[q].at, token |-> req[q].token, until |-> now + req[q].ttl])
    /\ UNCHANGED <<now, skew, start, users, session, faults, aux_late>>

(* The put replaces an older entry of the token and its lease; it fails    *)
(* when the lease has already ended.                                       *)
Put(q) ==
    /\ pc[q] = "put"
    /\ LET t == req[q].token IN
       IF req[q].until > now
       THEN /\ revoked' = {e \in revoked : e.token # t} \cup {[token |-> t, until |-> req[q].until]}
            /\ aux_out' = aux_out \cup {t}
       ELSE UNCHANGED <<revoked, aux_out>>
    /\ Answer(q)
    /\ UNCHANGED <<now, skew, start, users, tokens, logins, faults>>

(* etcd fails a read, a grant or a put: the request is answered with an    *)
(* error, and the put may have taken effect.                               *)
Fail(q) ==
    /\ pc[q] # "idle" /\ Fault
    /\ \/ UNCHANGED revoked
       \/ /\ pc[q] = "put" /\ req[q].until > now
          /\ revoked' = {e \in revoked : e.token # req[q].token}
                          \cup {[token |-> req[q].token, until |-> req[q].until]}
    /\ Answer(q)
    /\ UNCHANGED <<now, skew, start, users, tokens, logins, aux_out>>

-----------------------------------------------------------------------------
(* Users *)

(* AddUser: create if absent.                                              *)
AddUser(r) ==
    /\ stage[r] = "up"
    /\ \E u \in Names \ users : users' = users \cup {u}
    /\ UNCHANGED <<now, skew, start, session, handler, faults>>

(* DeleteUser: the user exists ...                                         *)
DeleteUser(q, r) ==
    /\ pc[q] = "idle" /\ stage[r] = "up"
    /\ \E u \in users : Continue(q, "count", [at |-> r, user |-> u])
    /\ UNCHANGED <<now, skew, start, users, session, faults, aux_late>>

(* Fault: the count includes the user that is to go, and is compared with  *)
(* none.                                                                   *)
IsLast_None == Cardinality(users) = 0

IsLast == Cardinality(users) = 1

(* ... and is not the last ...                                             *)
CountUsers(q) ==
    /\ pc[q] = "count"
    /\ IF IsLast THEN Answer(q) ELSE Continue(q, "delete", req[q]) /\ UNCHANGED aux_late
    /\ UNCHANGED <<now, skew, start, users, session, faults>>

(* ... and is deleted, whatever has happened in between.                   *)
RemoveUser(q) ==
    /\ pc[q] = "delete"
    /\ users' = users \ {req[q].user}
    /\ Continue(q, "idle", NoRequest)
    /\ aux_late' = [p \in Requests |->
                      p # q /\ (aux_late[p] \/ (pc[p] \in {"count", "delete"} /\ req[q].user \in users))]
    /\ UNCHANGED <<now, skew, start, session, faults>>

-----------------------------------------------------------------------------
Tick ==
    /\ now < MaxTime
    /\ now' = now + 1
    /\ UNCHANGED <<skew, start, users, session, handler, faults>>

(* A lease ends, not before its time.                                      *)
ExpireLease(e) ==
    /\ e.until <= now
    /\ revoked' = revoked \ {e}
    /\ UNCHANGED <<now, skew, start, users, tokens, logins, handler, faults, aux_out>>

Next ==
    \/ \E r \in Replicas :
         \/ GetSecret(r) \/ CreateSecret(r) \/ CreateReplyLost(r) \/ AdoptSecret(r)
         \/ Crash(r) \/ Login(r) \/ AddUser(r)
         \/ \E q \in Requests : Arrive(q, r) \/ DeleteUser(q, r)
    \/ \E q \in Requests :
         Lookup(q) \/ LogoutTTL(q) \/ Grant(q) \/ Put(q) \/ Fail(q) \/ CountUsers(q) \/ RemoveUser(q)
    \/ \E e \in revoked : ExpireLease(e)
    \/ Tick

Spec == Init /\ [][Next]_vars

-----------------------------------------------------------------------------
(* "Every replica uses the stored value": whatever replica issued a token  *)
(* and however often replicas have started since, every replica that       *)
(* serves requests has the secret the token was signed with.               *)
TokensAreShared ==
    \A r \in Replicas, t \in tokens : stage[r] = "up" => t.key = secret[r]

(* Once a logout is answered with success, no replica lets the token pass  *)
(* before it expires, but for the last seconds that the clocks differ by:  *)
(* the lease is what is left of the token on the clock of the replica that *)
(* serves the logout, and that may be ahead of the one that lets it pass.  *)
LoggedOutStaysOut ==
    [][\A q \in Requests :
         (Lookup(q) /\ aux_late[q] /\ ~Blacklisted(req[q].token))
           => Clock(req[q].at) + Skew >= req[q].token.exp]_vars

(* "Concurrent deletes can still remove the final users", and nothing else *)
(* can: a delete takes the last user only if another one took effect after *)
(* it had found its user.                                                  *)
LastUserGoesInARace ==
    [][\A q \in Requests :
         (RemoveUser(q) /\ users # {} /\ users' = {}) => aux_late[q]]_vars

=============================================================================
