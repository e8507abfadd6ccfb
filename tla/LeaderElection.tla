--------------------------- MODULE LeaderElection ---------------------------
(***************************************************************************)
(* Leader election of the controller's replicas (internal/leader/leader.go)*)
(* and the callback that starts the singleton workers (main.go).           *)
(*                                                                         *)
(* A term is one session with etcd: a lease, and a key bound to it whose   *)
(* creation orders the candidates.  Campaign waits until every older key   *)
(* is gone and never looks at its own.  What a term starts runs in         *)
(* goroutines of its own, and each of them sees the end of the term when   *)
(* it is scheduled.                                                        *)
(***************************************************************************)
EXTENDS Naturals, FiniteSets

CONSTANTS
    Replicas,
    MaxTerms,   \* bound on sessions
    MaxFaults   \* bound on expiries, failed calls, outages and crashes

ASSUME BoundsAssumption == MaxTerms \in Nat /\ MaxFaults \in Nat

VARIABLES
    terms,   \* sessions made so far: a term is one of 1..terms
    holder,  \* the replica of each term
    keys,    \* etcd: the terms whose election key exists
    done,    \* terms whose session.Done() is closed: leaderCtx is cancelled
    stage,   \* where each replica's runOnce is
    term,    \* the term it is in
    working, \* terms whose projection and confirmation sweep run
    resets,  \* terms whose goroutine has yet to call SetLeader(false)
    leader,  \* nmm.leader of each replica
    faults

vars == <<terms, holder, keys, done, stage, term, working, resets, leader, faults>>

Terms == 1..MaxTerms
None  == 0

TypeOK ==
    /\ terms \in 0..MaxTerms
    /\ holder \in [Terms -> Replicas]
    /\ keys \subseteq 1..terms /\ done \subseteq 1..terms
    /\ working \subseteq 1..terms /\ resets \subseteq 1..terms
    /\ stage \in [Replicas -> {"off", "campaign", "lead"}]
    /\ term \in [Replicas -> 0..terms]
    /\ \A r \in Replicas : stage[r] # "off" => term[r] # None /\ holder[term[r]] = r
    /\ leader \in [Replicas -> BOOLEAN]
    /\ faults \in 0..MaxFaults

Init ==
    /\ terms = 0
    /\ \E r \in Replicas : holder = [t \in Terms |-> r]
    /\ keys = {} /\ done = {} /\ working = {} /\ resets = {}
    /\ stage = [r \in Replicas |-> "off"]
    /\ term = [r \in Replicas |-> None]
    /\ leader = [r \in Replicas |-> FALSE]
    /\ faults = 0

Fault == faults < MaxFaults /\ faults' = faults + 1

InTerm(t) == \E r \in Replicas : stage[r] # "off" /\ term[r] = t

-----------------------------------------------------------------------------
(* etcd *)

(* The lease of a running term expires: its keep-alives are late.          *)
Expire(t) ==
    /\ t \in keys /\ InTerm(t) /\ Fault
    /\ keys' = keys \ {t}
    /\ UNCHANGED <<terms, holder, done, stage, term, working, resets, leader>>

(* Nobody keeps the lease of a term that is over: it runs out.             *)
ExpireOrphan(t) ==
    /\ t \in keys /\ ~InTerm(t)
    /\ keys' = keys \ {t}
    /\ UNCHANGED <<terms, holder, done, stage, term, working, resets, leader, faults>>

(* Fault: nobody waits for session.Done() while the replica leads.         *)
Notice_Candidates(t) ==
    /\ \E r \in Replicas : stage[r] = "campaign" /\ term[r] = t
    /\ t \notin keys /\ t \notin done
    /\ done' = done \cup {t}
    /\ UNCHANGED <<terms, holder, keys, stage, term, working, resets, leader, faults>>

(* The client closes session.Done() after the lease is gone ...            *)
Notice(t) ==
    /\ InTerm(t) /\ t \notin keys /\ t \notin done
    /\ done' = done \cup {t}
    /\ UNCHANGED <<terms, holder, keys, stage, term, working, resets, leader, faults>>

(* ... or because it has not heard from etcd for as long.                  *)
Outage(t) ==
    /\ InTerm(t) /\ t \in keys /\ t \notin done /\ Fault
    /\ done' = done \cup {t}
    /\ UNCHANGED <<terms, holder, keys, stage, term, working, resets, leader>>

-----------------------------------------------------------------------------
(* runOnce *)

(* NewSession, and the first half of Campaign: a key under the new lease.  *)
Campaign(r) ==
    /\ stage[r] = "off" /\ terms < MaxTerms
    /\ terms' = terms + 1
    /\ holder' = [holder EXCEPT ![terms + 1] = r]
    /\ keys' = keys \cup {terms + 1}
    /\ term' = [term EXCEPT ![r] = terms + 1]
    /\ stage' = [stage EXCEPT ![r] = "campaign"]
    /\ UNCHANGED <<done, working, resets, leader, faults>>

(* The wait fails; session.Close revokes the lease, unless that fails too. *)
CampaignFails(r) ==
    /\ stage[r] = "campaign" /\ Fault
    /\ keys' \in {keys, keys \ {term[r]}}
    /\ stage' = [stage EXCEPT ![r] = "off"]
    /\ UNCHANGED <<terms, holder, done, term, working, resets, leader>>

(* Fault: the candidate does not wait for the keys before its own.         *)
Win_NoWait(r) ==
    /\ stage[r] = "campaign"
    /\ stage' = [stage EXCEPT ![r] = "lead"]
    /\ leader' = [leader EXCEPT ![r] = TRUE]
    /\ working' = working \cup {term[r]}
    /\ resets' = resets \cup {term[r]}
    /\ UNCHANGED <<terms, holder, keys, done, term, faults>>

(* Every older key is gone: Campaign returns, onElected sets the flag and  *)
(* starts the workers and the goroutine that will clear the flag.          *)
Win(r) ==
    /\ stage[r] = "campaign"
    /\ \A t \in keys : t >= term[r]
    /\ stage' = [stage EXCEPT ![r] = "lead"]
    /\ leader' = [leader EXCEPT ![r] = TRUE]
    /\ working' = working \cup {term[r]}
    /\ resets' = resets \cup {term[r]}
    /\ UNCHANGED <<terms, holder, keys, done, term, faults>>

(* leaderCtx is done: Resign and session.Close delete the key, or fail,    *)
(* and Run campaigns again.                                                *)
Resign(r) ==
    /\ stage[r] = "lead" /\ term[r] \in done
    /\ \/ keys' = keys \ {term[r]} /\ UNCHANGED faults
       \/ keys' = keys /\ Fault
    /\ stage' = [stage EXCEPT ![r] = "off"]
    /\ UNCHANGED <<terms, holder, done, term, working, resets, leader>>

-----------------------------------------------------------------------------
(* The goroutines of a term *)

StopWorkers(t) ==
    /\ t \in working \cap done
    /\ working' = working \ {t}
    /\ UNCHANGED <<terms, holder, keys, done, stage, term, resets, leader, faults>>

ClearLeader(t) ==
    /\ t \in resets \cap done
    /\ resets' = resets \ {t}
    /\ leader' = [leader EXCEPT ![holder[t]] = FALSE]
    /\ UNCHANGED <<terms, holder, keys, done, stage, term, working, faults>>

(* The process dies and is started again; its lease is left to expire.     *)
Crash(r) ==
    /\ Fault
    /\ stage' = [stage EXCEPT ![r] = "off"]
    /\ leader' = [leader EXCEPT ![r] = FALSE]
    /\ working' = {t \in working : holder[t] # r}
    /\ resets' = {t \in resets : holder[t] # r}
    /\ UNCHANGED <<terms, holder, keys, done, term>>

-----------------------------------------------------------------------------
TermStep(t) == ExpireOrphan(t) \/ Notice(t) \/ StopWorkers(t) \/ ClearLeader(t)

Next ==
    \/ \E t \in Terms : TermStep(t) \/ Expire(t) \/ Outage(t)
    \/ \E r \in Replicas :
         Campaign(r) \/ CampaignFails(r) \/ Win(r) \/ Resign(r) \/ Crash(r)

Spec == Init /\ [][Next]_vars

(* Goroutines are scheduled, leases run out, and calls return.             *)
FairSpec ==
    /\ Spec
    /\ \A t \in Terms : /\ WF_vars(ExpireOrphan(t)) /\ WF_vars(Notice(t))
                        /\ WF_vars(StopWorkers(t)) /\ WF_vars(ClearLeader(t))
    /\ \A r \in Replicas : /\ WF_vars(Campaign(r)) /\ WF_vars(Win(r))
                           /\ WF_vars(Resign(r))

-----------------------------------------------------------------------------
(* "Only the elected leader runs the singleton workers": workers of two    *)
(* terms may run at once, but at most one of those terms holds its lease.  *)
LeaseIsExclusive ==
    \A s, t \in working : s \in keys /\ t \in keys => s = t

(* A term that has lost its lease stops its workers and gives up the flag. *)
DeposedStops == \A t \in Terms :
    (t \in working \cup resets /\ t \notin keys) ~> (t \notin working \cup resets)

(* "IsLeader reports whether this replica currently holds leadership": the *)
(* flag that the stale-node eviction looks at comes on while its replica   *)
(* leads.                                                                  *)
Leading(r) == stage[r] = "lead" /\ term[r] \in keys

LeaderIsFlagged == \A r \in Replicas : Leading(r) ~> (leader[r] \/ ~Leading(r))

=============================================================================
