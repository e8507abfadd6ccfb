-------------------------- MODULE MCConfigLifecycle --------------------------
(* Small instances of ConfigLifecycle.                                      *)
EXTENDS ConfigLifecycle

Request(r) == [req |-> r, tog |-> Omitted, opt |-> Omitted]

MCEdits ==
    {[kind |-> "create", arg |-> Request("A")],
     [kind |-> "update", arg |-> Request("B")],
     [kind |-> "delete", arg |-> Omitted]}

=============================================================================
