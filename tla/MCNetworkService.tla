-------------------------- MODULE MCNetworkService --------------------------
EXTENDS NetworkService, TLC

CONSTANTS r1, r2, r3, a, b, br

(* Names and IDs that do not meet. *)
NoPrefix == {}

(* The name a (say "db") is a prefix of the hexadecimal ID of network b. *)
PrefixAB == {<<a, b>>}

Symmetry == Permutations(Requests)
=============================================================================
