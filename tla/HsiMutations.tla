---------------------------- MODULE HsiMutations ----------------------------
(***************************************************************************)
(* The mutate closures that the REST server, the gRPC config server and    *)
(* the Kafka consumer pass to EtcdClient.CAS for the key                   *)
(* configs/<node>/hsi/<user>, as pure operators from the value a CAS       *)
(* attempt has read to what the attempt asks etcd to commit.               *)
(*                                                                         *)
(* A stored value keeps only what the properties tell apart:               *)
(*   rv     metadata.resourceVersion (NoRV: missing or unparseable, as in  *)
(*          a value written before the version chain existed)              *)
(*   req    the fields every request must carry (account, VLAN, DHCP)      *)
(*   tog    dns_proxy_enable and tcp_conntrack_enable                      *)
(*   opt    ipv6_enable and port-mapping                                   *)
(*   desire desire_status                                                  *)
(***************************************************************************)
EXTENDS Naturals

CONSTANTS
    Reqs,        \* contents of the required fields
    Togs,        \* contents of the two default-true toggles
    DefaultTog,  \* their create default
    Opts,        \* contents of the other optional fields
    DefaultOpt,  \* their create default
    Omitted,     \* an optional field that the request leaves out
    Absent       \* the key does not exist

ASSUME DefaultsAssumption == DefaultTog \in Togs /\ DefaultOpt \in Opts
ASSUME OmittedAssumption  == Omitted \notin Togs /\ Omitted \notin Opts

NoRV == 0

Desires == {"connect", "disconnect"}

(* HSIConfigWithMetadata, and the part of it that is configuration.        *)
Values == [rv : Nat, req : Reqs, tog : Togs, opt : Opts, desire : Desires]

ASSUME AbsentAssumption == Absent \notin Values

Payload(v) == [req |-> v.req, tog |-> v.tog, opt |-> v.opt, desire |-> v.desire]

(* CASResult: a put, a delete, or the error that aborts the CAS.           *)
Put(v)  == [kind |-> "put", val |-> v]
Delete  == [kind |-> "delete", val |-> Absent]
Fail    == [kind |-> "fail", val |-> Absent]
Results == [kind : {"put"}, val : Values] \cup {Delete, Fail}

-----------------------------------------------------------------------------
(* nextResourceVersion.                                                    *)
NextRV(cur) ==
    IF cur = Absent THEN 1
    ELSE IF cur.rv = NoRV THEN 2
    ELSE cur.rv + 1

(* The two requests that carry a configuration body.                       *)
ConfigRequests == [req : Reqs, tog : Togs \cup {Omitted}, opt : Opts \cup {Omitted}]

OrDefault(x, default) == IF x = Omitted THEN default ELSE x

(* The create closure: an existing config is an error; the two toggles are *)
(* forced to their default whatever the request says; a new config starts  *)
(* disconnected.                                                           *)
CreateHSIConfig(r, cur) ==
    IF cur # Absent THEN Fail
    ELSE Put([rv     |-> NextRV(cur),
              req    |-> r.req,
              tog    |-> DefaultTog,
              opt    |-> OrDefault(r.opt, DefaultOpt),
              desire |-> "disconnect"])

(* mergeRESTHSIConfigUpdate / mergeGRPCHSIConfigUpdate: required fields    *)
(* come from the request, omitted optional ones and desire_status from the *)
(* stored value, or from the create defaults when there is none.           *)
MergeHSIConfigUpdate(r, cur) ==
    [req    |-> r.req,
     tog    |-> OrDefault(r.tog, IF cur = Absent THEN DefaultTog ELSE cur.tog),
     opt    |-> OrDefault(r.opt, IF cur = Absent THEN DefaultOpt ELSE cur.opt),
     desire |-> IF cur = Absent THEN "disconnect" ELSE cur.desire]

Stamp(p, version) ==
    [rv |-> version, req |-> p.req, tog |-> p.tog, opt |-> p.opt, desire |-> p.desire]

(* The update closure is an upsert.                                        *)
UpdateHSIConfig(r, cur) == Put(Stamp(MergeHSIConfigUpdate(r, cur), NextRV(cur)))

(* The delete closure.                                                     *)
DeleteHSIConfig(cur) == IF cur = Absent THEN Fail ELSE Delete

(* setDesireStatus, shared by dial and hangup.                             *)
SetDesireStatus(d, cur) ==
    IF cur = Absent THEN Fail
    ELSE Put([cur EXCEPT !.desire = d, !.rv = NextRV(cur)])

-----------------------------------------------------------------------------
(* The operator requests that end in one CAS on the config key.            *)
Ops == [kind : {"create", "update"}, arg : ConfigRequests]
         \cup [kind : {"delete", "dial", "hangup"}, arg : {Omitted}]

Mutate(op, cur) ==
    CASE op.kind = "create" -> CreateHSIConfig(op.arg, cur)
      [] op.kind = "update" -> UpdateHSIConfig(op.arg, cur)
      [] op.kind = "delete" -> DeleteHSIConfig(cur)
      [] op.kind = "dial"   -> SetDesireStatus("connect", cur)
      [] op.kind = "hangup" -> SetDesireStatus("disconnect", cur)

-----------------------------------------------------------------------------
(* Fault: the ModRevision side check is missing.                           *)
FailedVersionIsCurrent_NoGeneration(prev, cur, mod, arv, corr) ==
    /\ cur # Absent
    /\ cur.rv # NoRV
    /\ IF arv = NoRV
       THEN IF prev = Absent THEN cur.rv = 1
            ELSE prev.rv # NoRV /\ cur.rv = prev.rv + 1
       ELSE cur.rv = arv

(* guardedRollbackMutation of the Kafka consumer: prev is the last         *)
(* successful value (Absent: none), mod the ModRevision read with cur, arv *)
(* and corr the versions the failure event names (NoRV and 0: not named).  *)
(* Fail stands for errRollbackSuperseded, which skips the rollback.        *)
FailedVersionIsCurrent(prev, cur, mod, arv, corr) ==
    /\ cur # Absent
    /\ cur.rv # NoRV
    /\ IF arv = NoRV
       THEN IF prev = Absent THEN cur.rv = 1
            ELSE prev.rv # NoRV /\ cur.rv = prev.rv + 1
       ELSE cur.rv = arv /\ (corr # 0 => corr = mod)

(* Fault: the metadata comes back with the payload.                        *)
RollbackConfigValue_OldMetadata(prev, cur) == Stamp(Payload(prev), prev.rv)

(* rollbackConfigValue: the old payload under fresh metadata.              *)
RollbackConfigValue(prev, cur) == Stamp(Payload(prev), cur.rv + 1)

GuardedRollback(prev, cur, mod, arv, corr) ==
    IF ~FailedVersionIsCurrent(prev, cur, mod, arv, corr) THEN Fail
    ELSE IF prev = Absent THEN Delete
    ELSE Put(RollbackConfigValue(prev, cur))

=============================================================================
