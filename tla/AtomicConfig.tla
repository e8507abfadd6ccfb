---------------------------- MODULE AtomicConfig ----------------------------
(***************************************************************************)
(* What EtcdClient.CAS promises its callers: every request takes effect on *)
(* the config key at one instant, or not at all, and its answer says which *)
(* - except that an etcd error leaves the outcome of the write unknown.    *)
(***************************************************************************)
CONSTANTS
    Clients,      \* one request each; any number of controller replicas
    Ops,          \* the operations a request may carry
    Omitted,      \* no operation
    Values,       \* what the key may hold
    Absent,       \* the key does not exist
    Mutate(_, _), \* what an operation makes of the key's content,
    Fail          \* or its refusal

VARIABLES
    value,   \* the config value, or Absent
    request, \* the operation of each client, once it is known
    answer   \* what each client has been told

vars == <<value, request, answer>>

Answers == {"none", "pending", "ok", "rejected", "conflict", "error"}

Init ==
    /\ value \in Values \cup {Absent}
    /\ request \in [Clients -> Ops \cup {Omitted}]
    /\ answer = [c \in Clients |-> "none"]

Invoke(c) ==
    /\ answer[c] = "none"
    /\ answer' = [answer EXCEPT ![c] = "pending"]
    /\ \E o \in Ops : request' = [request EXCEPT ![c] = o]
    /\ UNCHANGED value

Answer(c, a) ==
    /\ answer[c] = "pending"
    /\ answer' = [answer EXCEPT ![c] = a]
    /\ UNCHANGED request

(* The mutation of c, evaluated on the value it replaces.                  *)
TakeEffect(c) ==
    /\ Mutate(request[c], value) # Fail
    /\ value' = Mutate(request[c], value).val

Succeed(c) == Answer(c, "ok") /\ TakeEffect(c)

(* not found / already exists                                              *)
Reject(c) ==
    /\ Answer(c, "rejected")
    /\ Mutate(request[c], value) = Fail
    /\ UNCHANGED value

(* ErrCASConflict                                                          *)
GiveUp(c) == Answer(c, "conflict") /\ UNCHANGED value

(* etcd unavailable, or its answer lost                                    *)
Unknown(c) == Answer(c, "error") /\ (TakeEffect(c) \/ UNCHANGED value)

Next == \E c \in Clients :
    Invoke(c) \/ Succeed(c) \/ Reject(c) \/ GiveUp(c) \/ Unknown(c)

Spec == Init /\ [][Next]_vars

=============================================================================
