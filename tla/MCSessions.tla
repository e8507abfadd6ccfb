----------------------------- MODULE MCSessions -----------------------------
(* Sessions for TLC: replicas, users and requests are interchangeable, for *)
(* the clocks differ at first in every way they can.                       *)
EXTENDS Sessions, TLC

Symmetry == Permutations(Replicas) \cup Permutations(Names) \cup Permutations(Requests)

=============================================================================
