-------------------------- MODULE MCNetworkConnect --------------------------
EXTENDS NetworkConnect, TLC

CONSTANTS r1, r2, r3, r4, d, m, n

Symmetry == Permutations(Requests)

(* One Connect at a time; containers stop and pause, and networks go, meanwhile. *)
OneConnect ==
    {{"connect", x} : x \in {"stop", "pause", "unpause", "remove"}} \cup {{"stop", "pause"}}

(* Two Connects at a time. *)
TwoConnects == {{"connect"}}
=============================================================================
