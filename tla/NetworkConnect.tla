--------------------------- MODULE NetworkConnect ---------------------------
(***************************************************************************)
(* Connecting one container to networks (internal/service/network/         *)
(* connect.go): the container's network list and index label are read,     *)
(* extended and written back without a lock, the network is then attached  *)
(* under the interface name the index label gives, and the label change is *)
(* undone when that fails.  Starting and stopping the container, and       *)
(* removing networks, go on at the same time.                              *)
(*                                                                         *)
(* Interface ethN is written N.  The list in the OCI spec's annotations is *)
(* written by the same update as the label and is not kept apart.          *)
(***************************************************************************)
EXTENDS Integers, Sequences, FiniteSets

CONSTANTS
    Requests,       \* the requests that concern the container or its networks
    Networks,       \* CNI networks a request may name
    Default,        \* the network the container was created with
    Overlap,        \* the pairs of operations that may be in progress together
    MayFail,        \* calls that may fail
    None

Operations == {"connect", "remove", "start", "stop", "pause", "unpause"}

ASSUME ConnectAssumption ==
    /\ Default \in Networks
    /\ Overlap \subseteq SUBSET Operations
    /\ None \notin Networks \cup Int
    /\ MayFail \subseteq {"Status", "verifyNetworkConfig", "Update", "AddNetworkList", "Rollback"}

VARIABLES
    pc, req, resp,  \* the requests
    opts,           \* the labels each Connect has read
    live,           \* whether each Connect saw a running or paused container
    ifIndex,        \* the network index each Connect has read
    labels,         \* the container's labels: network list and index
    status,         \* the container's status
    attached,       \* the pairs <<N, n>>: network n is attached as ethN
    existing        \* the networks that exist

vars == <<pc, req, resp, opts, live, ifIndex, labels, status, attached, existing>>

(* finch/network-index is absent until the first Connect. *)
Labels == [networks : Seq(Networks), index : Int \cup {None}]

Connected(l) == {l.networks[i] : i \in 1..Len(l.networks)}

Asked == [op : {"connect", "remove"}, net : Networks \ {Default}]
            \cup [op : Operations \ {"connect", "remove"}, net : {Default}]

Goto(r, l) == pc' = [pc EXCEPT ![r] = l]

Answer(r, a) ==
    /\ resp' = [resp EXCEPT ![r] = a]
    /\ Goto(r, "done")

InProgress == {r \in Requests : pc[r] \notin {"idle", "done"}}

Setup(networks) == {<<i - 1, networks[i]>> : i \in 1..Len(networks)}

Init ==
    /\ pc = [r \in Requests |-> "idle"]
    /\ req \in [Requests -> Asked]
    /\ resp = [r \in Requests |-> "none"]
    /\ labels = [networks |-> <<Default>>, index |-> None]
    /\ opts = [r \in Requests |-> labels]
    /\ live = [r \in Requests |-> FALSE]
    /\ ifIndex = [r \in Requests |-> 0]
    /\ status \in {"created", "running"}
    /\ attached = IF status = "running" THEN Setup(labels.networks) ELSE {}
    /\ existing = Networks

Begin(r) ==
    /\ pc[r] = "idle"
    /\ \A s \in InProgress : {req[r].op, req[s].op} \in Overlap
    /\ Goto(r, req[r].op)
    /\ UNCHANGED <<req, resp, opts, live, ifIndex, labels, status, attached, existing>>

-----------------------------------------------------------------------------
(* A task that a network namespace belongs to. *)
HasTask == status \in {"running", "pausing", "paused"}

(* getNetwork and getContainerStatus.  A pausing container, or one whose
   status cannot be told, is refused. *)
ConnectLookup(r) ==
    /\ pc[r] = "connect"
    /\ \/ /\ req[r].net \in existing
          /\ status # "pausing"
          /\ live' = [live EXCEPT ![r] = status \in {"running", "paused"}]
          /\ Goto(r, "read")
          /\ UNCHANGED resp
       \/ /\ req[r].net \notin existing \/ status = "pausing" \/ "Status" \in MayFail
          /\ Answer(r, "error")
          /\ UNCHANGED live
    /\ UNCHANGED <<req, opts, ifIndex, labels, status, attached, existing>>

(* addNetworkConfig, first half: read the labels and refuse a network that is
   listed, or that verifyNetworkConfig refuses. *)
ReadLabels(r) ==
    /\ pc[r] = "read"
    /\ opts' = [opts EXCEPT ![r] = labels]
    /\ \/ /\ req[r].net \notin Connected(labels)
          /\ Goto(r, "update")
          /\ UNCHANGED resp
       \/ /\ req[r].net \in Connected(labels) \/ "verifyNetworkConfig" \in MayFail
          /\ Answer(r, "error")
    /\ UNCHANGED <<req, live, ifIndex, labels, status, attached, existing>>

(* The index the new network gets: one more than the label, else its place in the list. *)
NewIndex(l) == IF l.index = None THEN Len(l.networks) ELSE l.index + 1

(* addNetworkConfig, second half: container.Update replaces the labels by the
   ones that were read, extended. *)
UpdateLabels(r) ==
    /\ pc[r] = "update"
    /\ \/ /\ labels' = [networks |-> Append(opts[r].networks, req[r].net),
                        index |-> NewIndex(opts[r])]
          /\ \/ live[r] /\ Goto(r, "index") /\ UNCHANGED resp
             \/ ~live[r] /\ Answer(r, "connected")
       \/ /\ "Update" \in MayFail
          /\ Answer(r, "error")
          /\ UNCHANGED labels
    /\ UNCHANGED <<req, opts, live, ifIndex, status, attached, existing>>

(* getNetworkIndex: the label, else the last place in the list. *)
NetworkIndex(l) == IF l.index = None THEN Len(l.networks) - 1 ELSE l.index

(* connectNetwork: the task must still be there; the index is read afresh, and
   set where there is none. *)
ReadIndex(r) ==
    /\ pc[r] = "index"
    /\ \/ /\ HasTask
          /\ ifIndex' = [ifIndex EXCEPT ![r] = NetworkIndex(labels)]
          /\ labels' = [labels EXCEPT !.index = NetworkIndex(labels)]
          /\ Goto(r, "add")
       \/ /\ ~HasTask
          /\ Goto(r, "delete")
          /\ UNCHANGED <<ifIndex, labels>>
    /\ UNCHANGED <<req, resp, opts, live, status, attached, existing>>

(* CNI ADD refuses an interface name that the namespace already has. *)
AddNetworkList(r) ==
    /\ pc[r] = "add"
    /\ LET possible == HasTask /\ \A a \in attached : a[1] # ifIndex[r]
       IN  \/ /\ possible
              /\ attached' = attached \cup {<<ifIndex[r], req[r].net>>}
              /\ Answer(r, "connected")
           \/ /\ ~possible \/ "AddNetworkList" \in MayFail
              /\ Goto(r, "delete")
              /\ UNCHANGED <<resp, attached>>
    /\ UNCHANGED <<req, opts, live, ifIndex, labels, status, existing>>

(* Mutant: nothing is put back. *)
DeleteNetNothing(r) ==
    /\ pc[r] = "delete"
    /\ Answer(r, "error")
    /\ UNCHANGED <<req, opts, live, ifIndex, labels, status, attached, existing>>

(* Mutant: the index is put back twice. *)
DeleteNetTwice(r) ==
    /\ pc[r] = "delete"
    /\ labels' = [networks |-> opts[r].networks, index |-> NewIndex(opts[r]) - 2]
    /\ Answer(r, "error")
    /\ UNCHANGED <<req, opts, live, ifIndex, status, attached, existing>>

(* deleteFunc writes the labels that were read back, with the index before. *)
DeleteNet(r) ==
    /\ pc[r] = "delete"
    /\ labels' \in {[networks |-> opts[r].networks, index |-> NewIndex(opts[r]) - 1]}
                      \cup (IF "Rollback" \in MayFail THEN {labels} ELSE {})
    /\ Answer(r, "error")
    /\ UNCHANGED <<req, opts, live, ifIndex, status, attached, existing>>

-----------------------------------------------------------------------------
(* UsedNetworkInfo: the listed networks of running and paused containers. *)
Used == IF status \in {"running", "paused"} THEN Connected(labels) ELSE {}

(* Remove of the network service: its lookup and in-use check ... *)
RemoveCheck(r) ==
    /\ pc[r] = "remove"
    /\ \/ /\ req[r].net \in existing \ Used
          /\ Goto(r, "removing")
          /\ UNCHANGED resp
       \/ /\ req[r].net \notin existing \/ req[r].net \in Used
          /\ Answer(r, "error")
    /\ UNCHANGED <<req, opts, live, ifIndex, labels, status, attached, existing>>

(* ... and the removal that follows. *)
RemoveNetwork(r) ==
    /\ pc[r] = "removing"
    /\ existing' = existing \ {req[r].net}
    /\ Answer(r, "removed")
    /\ UNCHANGED <<req, opts, live, ifIndex, labels, status, attached>>

-----------------------------------------------------------------------------
(* Starting the container attaches the listed networks in order. *)
Start(r) ==
    /\ pc[r] = "start"
    /\ \/ /\ status \in {"created", "stopped"}
          /\ Connected(labels) \subseteq existing
          /\ status' = "running"
          /\ attached' = Setup(labels.networks)
          /\ Answer(r, "started")
       \/ /\ status \notin {"created", "stopped"} \/ ~(Connected(labels) \subseteq existing)
          /\ Answer(r, "error")
          /\ UNCHANGED <<status, attached>>
    /\ UNCHANGED <<req, opts, live, ifIndex, labels, existing>>

(* Stopping it removes the network namespace; one that is stopped is not modified. *)
Stop(r) ==
    /\ pc[r] = "stop"
    /\ \/ /\ HasTask
          /\ status' = "stopped"
          /\ attached' = {}
          /\ Answer(r, "stopped")
       \/ /\ ~HasTask
          /\ Answer(r, "error")
          /\ UNCHANGED <<status, attached>>
    /\ UNCHANGED <<req, opts, live, ifIndex, labels, existing>>

(* The runtime passes through pausing when it pauses a container. *)
Pause(r) ==
    /\ \/ /\ pc[r] = "pause" /\ status = "running"
          /\ status' = "pausing"
          /\ Goto(r, "pausing")
          /\ UNCHANGED resp
       \/ /\ pc[r] = "pausing" /\ status = "pausing"
          /\ status' = "paused"
          /\ Answer(r, "paused")
       \/ /\ \/ pc[r] = "pause" /\ status # "running"
             \/ pc[r] = "pausing" /\ status # "pausing"
          /\ Answer(r, "error")
          /\ UNCHANGED status
    /\ UNCHANGED <<req, opts, live, ifIndex, labels, attached, existing>>

Unpause(r) ==
    /\ pc[r] = "unpause"
    /\ status' = IF status = "paused" THEN "running" ELSE status
    /\ Answer(r, IF status = "paused" THEN "unpaused" ELSE "error")
    /\ UNCHANGED <<req, opts, live, ifIndex, labels, attached, existing>>

Step(r) ==
    \/ Begin(r) \/ ConnectLookup(r) \/ ReadLabels(r) \/ UpdateLabels(r)
    \/ ReadIndex(r) \/ AddNetworkList(r) \/ DeleteNet(r)
    \/ RemoveCheck(r) \/ RemoveNetwork(r)
    \/ Start(r) \/ Stop(r) \/ Pause(r) \/ Unpause(r)

Next == \E r \in Requests : Step(r)

Spec == Init /\ [][Next]_vars

-----------------------------------------------------------------------------
AtRest == InProgress = {}

(* Once no request is in progress, the network list of a running container is
   the set of networks that are attached to it: a Connect that fails after it
   has changed the labels has put them back. *)
LabelsMatchAttached ==
    AtRest /\ HasTask => Connected(labels) = {a[2] : a \in attached}

(* connect.go:28, "This container label stores the current maximum network
   index": once no request is in progress, no interface lies above it. *)
IndexIsMaximum ==
    AtRest /\ labels.index # None => \A a \in attached : a[1] <= labels.index
=============================================================================
