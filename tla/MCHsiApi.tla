------------------------------ MODULE MCHsiApi ------------------------------
(* HsiApi for TLC: requests and VLANs are interchangeable.                 *)
EXTENDS HsiApi, TLC

Symmetry == Permutations(Requests) \cup Permutations(Vlans)

=============================================================================
