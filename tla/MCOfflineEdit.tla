---------------------------- MODULE MCOfflineEdit ----------------------------
(* Small instances of OfflineEdit; contents are interchangeable.            *)
EXTENDS OfflineEdit, TLC

PayloadSymmetry == Permutations(Payloads)

=============================================================================
