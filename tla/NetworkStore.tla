---------------------------- MODULE NetworkStore ----------------------------
(***************************************************************************)
(* What the per-name mutexes of the network service promise: a name's      *)
(* config is changed only by the one request that owns the name, and       *)
(* requests on different names do not wait for each other.                 *)
(***************************************************************************)
CONSTANTS Requests, Names, Configs, NoConfig, None

VARIABLES owner, networks

Init ==
    /\ owner = [n \in Names |-> None]
    /\ networks \in [Names -> Configs \cup {NoConfig}]

Enter(r, n) ==
    /\ owner[n] = None
    /\ owner' = [owner EXCEPT ![n] = r]
    /\ UNCHANGED networks

(* The owner creates, rewrites or removes the config of the name it owns. *)
Write(r, n) ==
    /\ owner[n] = r
    /\ \E c \in Configs \cup {NoConfig} : networks' = [networks EXCEPT ![n] = c]
    /\ UNCHANGED owner

Leave(r, n) ==
    /\ owner[n] = r
    /\ owner' = [owner EXCEPT ![n] = None]
    /\ UNCHANGED networks

Next == \E r \in Requests, n \in Names : Enter(r, n) \/ Write(r, n) \/ Leave(r, n)

Spec == Init /\ [][Next]_<<owner, networks>>
=============================================================================
