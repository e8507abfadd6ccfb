------------------------------ MODULE MCEtcdCAS ------------------------------
(* A small instance of EtcdCAS: a menu of operator requests, with optional  *)
(* fields that are set and that are omitted; hangup is dial with another    *)
(* value.                                                                   *)
EXTENDS EtcdCAS

Request(r, t, o) == [req |-> r, tog |-> t, opt |-> o]

MCOpMenu ==
    {[kind |-> "create", arg |-> Request("A", Omitted, "ports")],
     [kind |-> "update", arg |-> Request("B", FALSE, Omitted)],
     [kind |-> "delete", arg |-> Omitted],
     [kind |-> "dial", arg |-> Omitted]}

(* A fresh key, a config in use, and a legacy value without a version.      *)
MCInitialValues ==
    {Absent,
     [rv |-> 1, req |-> "A", tog |-> TRUE, opt |-> "none", desire |-> "disconnect"],
     [rv |-> NoRV, req |-> "A", tog |-> TRUE, opt |-> "none", desire |-> "disconnect"]}

=============================================================================
