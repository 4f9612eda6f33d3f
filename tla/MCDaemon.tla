------------------------------ MODULE MCDaemon ------------------------------
EXTENDS Daemon, TLC

CONSTANTS p1, p2, p3

AllPlain == {[p \in Processes |-> "plain"]}

(* Two processes alike, or one of them without a pid file. *)
TwoModes ==
    {p1 :> a @@ p2 :> a : a \in {"plain", "fd"}} \cup {p1 :> "plain" @@ p2 :> "nopid"}
=============================================================================
