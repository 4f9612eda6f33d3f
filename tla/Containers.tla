----------------------------- MODULE Containers -----------------------------
(***************************************************************************)
(* The container service (internal/service/container): requests look a     *)
(* container up by name or ID prefix, look at its status, and then ask     *)
(* nerdctl to act.  There is no lock: each call to containerd or nerdctl   *)
(* is a step, and other requests come in between.  Some calls get the      *)
(* container that was found, others the reference the client sent, which   *)
(* nerdctl resolves again.                                                 *)
(*                                                                         *)
(* containerd keeps the container's name as a label; nerdctl keeps it in   *)
(* its name store as well, where a name is taken at most once.  Create,    *)
(* and Connect of the network service (NetworkConnect has its networks),   *)
(* read all labels of a container and write them back later; the name is   *)
(* the label that is modelled here.                                        *)
(***************************************************************************)
EXTENDS FiniteSets, Naturals

CONSTANTS
    Requests,       \* the requests of clients
    Ids,            \* container IDs; a new container gets one that was not used
    Names,          \* names of containers
    Prefix,         \* the pairs <<n, i>>: the text of name n begins ID i
    Workloads,      \* what the requests ask for: the sets of operations studied together
    MayFail,        \* calls that may fail
    None

Operations ==
    {"create", "start", "stop", "restart", "kill", "pause", "unpause", "remove",
     "rename", "wait", "getArchive", "putArchive", "connect"}

ASSUME ContainersAssumption ==
    /\ Names \cap Ids = {} /\ None \notin Names \cup Ids
    /\ Prefix \subseteq Names \X Ids
    /\ Workloads \subseteq [Requests -> Operations \cup {"none"}]
    /\ MayFail \subseteq
         {"handler", "SearchContainer", "GetContainerStatus", "nerdctl", "CreateContainer",
          "updateContainerMetadata", "Task", "mountSnapshot", "MountAll", "Stat", "tar", "Unmount",
          "getNetwork", "addNetworkConfig", "connectNetwork", "deleteNet"}

VARIABLES
    pc, req, resp,  \* the requests, and the HTTP status each was answered with
    con,            \* the container each request has found or created
    acted,          \* the container nerdctl last worked on for each request
    read,           \* the name among the labels each Create or Connect has read
    again,          \* the name a Connect has read when it looked for the index
    written,        \* the name each has last written back
    live,           \* the Connects that found a running or paused container
    status,         \* containers: the status of their tasks
    label,          \* the name among each container's labels
    store           \* the name nerdctl's name store has for each container

labelVars == <<read, again, written, live>>
vars == <<pc, req, resp, con, acted, labelVars, status, label, store>>
requestVars == <<req, labelVars>>
containerVars == <<status, label, store>>

Exists(c) == status[c] \notin {"none", "gone"}

Refs == Names \cup Ids

(* The argument of an operation: the name of a create or rename, the force flag
   of a remove, and whether the path of a putArchive is read-only. *)
Arguments(op) ==
    CASE op \in {"create", "rename"} -> Names
      [] op = "remove" -> {None, "force"}
      [] op = "putArchive" -> {None, "readonly"}
      [] OTHER -> {None}

Requested == [op : Operations \cup {"none"}, ref : Refs \cup {None},
              arg : Names \cup {None, "force", "readonly"}]

(* A request to be made: the client has not said more than the operation. *)
Unasked(op) == [op |-> op, ref |-> None, arg |-> None]

Goto(r, l) == pc' = [pc EXCEPT ![r] = l] /\ UNCHANGED resp

Answer(r, code) ==
    /\ resp' = [resp EXCEPT ![r] = code]
    /\ pc' = [pc EXCEPT ![r] = "done"]

Fails(call) == call \in MayFail

(* Containers that exist have names of their own, and none has been stopped yet. *)
Init ==
    /\ pc = [r \in Requests |-> "idle"]
    /\ \E w \in Workloads : req = [r \in Requests |-> Unasked(w[r])]
    /\ resp = [r \in Requests |-> 0]
    /\ con = [r \in Requests |-> None]
    /\ acted = [r \in Requests |-> None]
    /\ read = [r \in Requests |-> None]
    /\ again = [r \in Requests |-> None]
    /\ written = [r \in Requests |-> None]
    /\ live = {}
    /\ status \in [Ids -> {"none", "created", "running", "paused"}]
    /\ label \in [Ids -> Names \cup {None}]
    /\ \A c \in Ids : label[c] = None <=> status[c] = "none"
    /\ \A c, d \in Ids : c # d /\ Exists(c) => label[c] # label[d]
    /\ store = label

-----------------------------------------------------------------------------
(* The containers a name or ID prefix stands for. *)
SearchContainer(ref) ==
    {c \in Ids : Exists(c) /\ (label[c] = ref \/ c = ref \/ <<ref, c>> \in Prefix)}

(* The operations whose handlers refuse a request they cannot read (400). *)
Refusable == Operations \ {"stop", "remove", "rename"}

Receive(r) ==
    /\ pc[r] = "idle" /\ req[r].op # "none"
    /\ \/ /\ \E n \in Refs, a \in Arguments(req[r].op) :
                /\ req[r].op = "create" => n = a
                /\ req' = [req EXCEPT ![r] = [op |-> @.op, ref |-> n, arg |-> a]]
          /\ Goto(r, CASE req[r].op = "create" -> "create"
                       [] req[r].op = "rename" -> "taken"
                       [] OTHER -> "find")
       \/ /\ req[r].op \in Refusable /\ Fails("handler")
          /\ Answer(r, 400)
          /\ UNCHANGED req
    /\ UNCHANGED <<labelVars, containerVars, con, acted>>

(* What follows getContainer in each operation. *)
AfterFind(op) ==
    CASE op \in {"start", "stop", "kill", "pause", "unpause"} -> "status"
      [] op = "restart" -> "stop"
      [] op = "getArchive" -> "task"
      [] op = "putArchive" -> "readonly"
      [] OTHER -> op

(* getContainer: exactly one container must match.  Connect has looked its
   network up before. *)
GetContainer(r) ==
    /\ pc[r] = "find"
    /\ LET found == SearchContainer(req[r].ref)
       IN  \/ \E c \in found :
                 /\ found = {c}
                 /\ con' = [con EXCEPT ![r] = c]
                 /\ Goto(r, AfterFind(req[r].op))
           \/ /\ found = {} \/ (req[r].op = "connect" /\ Fails("getNetwork"))
              /\ Answer(r, 404)
              /\ UNCHANGED con
           \/ /\ Cardinality(found) > 1 \/ Fails("SearchContainer")
              /\ Answer(r, 500)
              /\ UNCHANGED con
    /\ UNCHANGED <<requestVars, containerVars, acted>>

(* Rename looks for the new name first.  An error, of the search or because
   several containers match, counts as not taken. *)
NameTaken(r) ==
    /\ pc[r] = "taken"
    /\ LET found == SearchContainer(req[r].arg)
       IN  \/ Cardinality(found) = 1 /\ Answer(r, 409)
           \/ /\ Cardinality(found) # 1 \/ Fails("SearchContainer")
              /\ Goto(r, "find")
    /\ UNCHANGED <<requestVars, containerVars, con, acted>>

(* GetContainerStatus: a container without a task, or that is gone, is "created". *)
GetContainerStatus(c) ==
    {IF status[c] = "gone" THEN "created" ELSE status[c]}
        \cup (IF Fails("GetContainerStatus") THEN {"unknown"} ELSE {})

(* The answer a status refuses an operation with, 0 if it does not.  A status
   that is not known stops no start and no stop. *)
AssertStartContainer(s) ==
    CASE s = "running" -> 304
      [] s = "paused" -> 500
      [] OTHER -> 0

IsContainerStopped(s) == s \in {"stopped", "created"}

Refusal(op, s) ==
    CASE op = "start" -> AssertStartContainer(s)
      [] op = "stop" /\ IsContainerStopped(s) -> 304
      [] op \in {"kill", "pause"} /\ s # "running" -> 409
      [] op = "unpause" /\ s # "paused" -> 409
      [] OTHER -> 0

CheckStatus(r) ==
    /\ pc[r] = "status"
    /\ \E s \in GetContainerStatus(con[r]) :
          IF Refusal(req[r].op, s) = 0
          THEN Goto(r, req[r].op)
          ELSE Answer(r, Refusal(req[r].op, s))
    /\ UNCHANGED <<requestVars, containerVars, con, acted>>

-----------------------------------------------------------------------------
SetStatus(c, s) == status' = [status EXCEPT ![c] = s] /\ UNCHANGED <<label, store>>

(* nerdctl works on container c for request r, which becomes s. *)
Act(r, c, s) ==
    /\ acted' = [acted EXCEPT ![r] = c]
    /\ SetStatus(c, s)

(* nerdctl resolves the reference again, to one container in a status it can
   act on, or returns an error. *)
ByReference(r, l, from, to) ==
    /\ pc[r] = l
    /\ LET found == SearchContainer(req[r].ref)
       IN  \/ \E c \in found, s \in to :
                 /\ found = {c} /\ status[c] \in from
                 /\ Act(r, c, s)
                 /\ Answer(r, 204)
           \/ /\ \/ Cardinality(found) # 1
                 \/ \E c \in found : status[c] \notin from
                 \/ Fails("nerdctl")
              /\ Answer(r, 500)
              /\ UNCHANGED <<containerVars, acted>>
    /\ UNCHANGED <<requestVars, con>>

(* StartContainer gets the client's reference, in Start and in Restart. *)
StartContainer(r) == ByReference(r, "start", {"created", "stopped"}, {"running"})

(* The signal may be one that the container survives. *)
KillContainer(r) == ByReference(r, "kill", {"running"}, {"running", "stopped"})

PauseContainer(r) == ByReference(r, "pause", {"running"}, {"paused"})

UnpauseContainer(r) == ByReference(r, "unpause", {"paused"}, {"running"})

(* nerdctl works on the container that was found, unless it is gone. *)
Found(r) == {c \in {con[r]} : Exists(c)}

(* Mutant: StopContainer gets the client's reference. *)
StopContainerByRef(r) ==
    /\ pc[r] = "stop"
    /\ \E c \in SearchContainer(req[r].ref) :
          /\ Act(r, c, IF status[c] = "created" THEN "created" ELSE "stopped")
          /\ Answer(r, 204)
    /\ UNCHANGED <<requestVars, con>>

(* StopContainer gets con.ID().  One that is stopped is no error, or one that
   Restart ignores; Restart goes on to start. *)
StopContainer(r) ==
    /\ pc[r] = "stop"
    /\ \/ \E c \in Found(r) :
             /\ Act(r, c, IF status[c] = "created" THEN "created" ELSE "stopped")
             /\ IF req[r].op = "restart" THEN Goto(r, "start") ELSE Answer(r, 204)
       \/ /\ Found(r) = {} \/ Fails("nerdctl")
          /\ Answer(r, 500)
          /\ UNCHANGED <<containerVars, acted>>
    /\ UNCHANGED <<requestVars, con>>

(* RemoveContainer: a running or paused container goes only by force (409). *)
RemoveContainer(r) ==
    /\ pc[r] = "remove"
    /\ \/ \E c \in Found(r) :
             IF status[c] \in {"running", "paused"} /\ req[r].arg # "force"
             THEN Answer(r, 409) /\ UNCHANGED <<containerVars, acted>>
             ELSE /\ status' = [status EXCEPT ![c] = "gone"]
                  /\ store' = [store EXCEPT ![c] = None]
                  /\ acted' = [acted EXCEPT ![r] = c]
                  /\ Answer(r, 204)
                  /\ UNCHANGED label
       \/ /\ Found(r) = {} \/ Fails("nerdctl")
          /\ Answer(r, 500)
          /\ UNCHANGED <<containerVars, acted>>
    /\ UNCHANGED <<requestVars, con>>

Stored(n) == \E c \in Ids : store[c] = n

(* Mutant: nobody looks at the name store; the check of NameTaken must do. *)
RenameUnchecked(r) ==
    /\ pc[r] = "rename"
    /\ \E c \in Found(r) :
          /\ store' = [store EXCEPT ![c] = req[r].arg]
          /\ label' = [label EXCEPT ![c] = req[r].arg]
          /\ acted' = [acted EXCEPT ![r] = c]
    /\ Answer(r, 204)
    /\ UNCHANGED <<requestVars, con, status>>

(* RenameContainer gets con.ID(): the name store refuses a name it has. *)
RenameContainer(r) ==
    /\ pc[r] = "rename"
    /\ \/ \E c \in Found(r) :
             /\ ~Stored(req[r].arg)
             /\ store' = [store EXCEPT ![c] = req[r].arg]
             /\ label' = [label EXCEPT ![c] = req[r].arg]
             /\ acted' = [acted EXCEPT ![r] = c]
             /\ Answer(r, 204)
             /\ UNCHANGED status
       \/ /\ Found(r) = {} \/ Stored(req[r].arg) \/ Fails("nerdctl")
          /\ Answer(r, 500)
          /\ UNCHANGED <<containerVars, acted>>
    /\ UNCHANGED <<requestVars, con>>

(* ContainerWait returns when the task has ended; without a task it fails. *)
ContainerWait(r) ==
    /\ pc[r] = "wait"
    /\ \/ status[con[r]] \in {"stopped", "gone"} /\ Answer(r, 200)
       \/ /\ status[con[r]] \in {"created", "gone"} \/ Fails("nerdctl")
          /\ Answer(r, 500)
    /\ UNCHANGED <<requestVars, containerVars, con, acted>>

-----------------------------------------------------------------------------
New(c, n) ==
    /\ status' = [status EXCEPT ![c] = "created"]
    /\ label' = [label EXCEPT ![c] = n]
    /\ store' = [store EXCEPT ![c] = n]

(* What Create translates the errors of CreateContainer to. *)
CreateErrors == {400, 404, 409, 500}

(* CreateContainer: when it fails late it leaves a container, and a function
   that clears it. *)
CreateContainer(r) ==
    /\ pc[r] = "create"
    /\ \/ \E c \in Ids :
             /\ status[c] = "none" /\ ~Stored(req[r].arg)
             /\ New(c, req[r].arg)
             /\ con' = [con EXCEPT ![r] = c]
             /\ \/ Goto(r, "labels")
                \/ Fails("CreateContainer") /\ Goto(r, "gc")
       \/ /\ Stored(req[r].arg) \/ Fails("CreateContainer")
          /\ \E e \in CreateErrors : Answer(r, e)
          /\ UNCHANGED <<con, status, label, store>>
    /\ UNCHANGED <<requestVars, acted>>

(* gc() is nerdctl's: it reports nothing, and may or may not have deleted the
   container when it returns. *)
CollectContainer(r) ==
    /\ pc[r] = "gc"
    /\ \/ /\ status[con[r]] \in {"created", "stopped"}
          /\ status' = [status EXCEPT ![con[r]] = "gone"]
          /\ store' = [store EXCEPT ![con[r]] = None]
       \/ UNCHANGED <<status, store>>
    /\ \E e \in CreateErrors : Answer(r, e)
    /\ UNCHANGED <<requestVars, con, acted, label>>

(* updateContainerMetadata reads labels and OCI spec.  Create ignores its errors. *)
ReadMetadata(r) ==
    /\ pc[r] = "labels"
    /\ \/ /\ Exists(con[r])
          /\ read' = [read EXCEPT ![r] = label[con[r]]]
          /\ Goto(r, "update")
       \/ /\ ~Exists(con[r]) \/ Fails("updateContainerMetadata")
          /\ Answer(r, 201)
          /\ UNCHANGED read
    /\ UNCHANGED <<req, again, written, live, containerVars, con, acted>>

(* The labels of r's container are replaced by ones read before, name n among
   them. *)
WriteBack(r, n) ==
    /\ Exists(con[r])
    /\ label' = [label EXCEPT ![con[r]] = n]
    /\ written' = [written EXCEPT ![r] = n]

(* The container is gone, or the call fails. *)
NoWriteBack(r, call) ==
    /\ ~Exists(con[r]) \/ Fails(call)
    /\ UNCHANGED <<label, written>>

(* Mutant: the labels are replaced by the log URI alone. *)
UpdateMetadataAlone(r) ==
    /\ pc[r] = "update"
    /\ WriteBack(r, None) \/ NoWriteBack(r, "updateContainerMetadata")
    /\ Answer(r, 201)
    /\ UNCHANGED <<req, read, again, live, con, acted, status, store>>

(* cont.Update: the labels that were read, with the log URI and the ports. *)
UpdateMetadata(r) ==
    /\ pc[r] = "update"
    /\ WriteBack(r, read[r]) \/ NoWriteBack(r, "updateContainerMetadata")
    /\ Answer(r, 201)
    /\ UNCHANGED <<req, read, again, live, con, acted, status, store>>

-----------------------------------------------------------------------------
(* Connect, once its network and its container are found. *)
ConnectStatus(r) ==
    /\ pc[r] = "connect"
    /\ \E s \in GetContainerStatus(con[r]) :
          IF s = "unknown"
          THEN Answer(r, 500) /\ UNCHANGED live
          ELSE /\ live' = IF s \in {"running", "paused"} THEN live \cup {r} ELSE live
               /\ Goto(r, "networks")
    /\ UNCHANGED <<req, read, again, written, containerVars, con, acted>>

(* addNetworkConfig reads the labels; the network may be one the container has
   or cannot have. *)
ReadNetworks(r) ==
    /\ pc[r] = "networks"
    /\ \/ /\ Exists(con[r])
          /\ read' = [read EXCEPT ![r] = label[con[r]]]
          /\ Goto(r, "addNetwork")
       \/ /\ ~Exists(con[r]) \/ Fails("addNetworkConfig")
          /\ Answer(r, 500)
          /\ UNCHANGED read
    /\ UNCHANGED <<req, again, written, live, containerVars, con, acted>>

(* It writes them back with the network and the index; that is all for a
   container that does not run. *)
AddNetworkConfig(r) ==
    /\ pc[r] = "addNetwork"
    /\ \/ /\ WriteBack(r, read[r])
          /\ IF r \in live THEN Goto(r, "index") ELSE Answer(r, 200)
       \/ NoWriteBack(r, "addNetworkConfig") /\ Answer(r, 500)
    /\ UNCHANGED <<req, read, again, live, con, acted, status, store>>

(* A Create that has ended may have written back labels without the index. *)
IndexOverwritten(c) == \E s \in Requests : req[s].op = "create" /\ con[s] = c /\ pc[s] = "done"

(* connectNetwork reads the index from the labels, and needs the task's network
   namespace. *)
GetNetworkIndex(r) ==
    /\ pc[r] = "index"
    /\ \/ /\ Exists(con[r])
          /\ Goto(r, "attach")
          /\ UNCHANGED again
       \/ /\ Exists(con[r]) /\ IndexOverwritten(con[r])
          /\ again' = [again EXCEPT ![r] = label[con[r]]]
          /\ Goto(r, "setIndex")
       \/ /\ ~Exists(con[r]) \/ Fails("connectNetwork")
          /\ Goto(r, "deleteNet")
          /\ UNCHANGED again
    /\ UNCHANGED <<req, read, written, live, containerVars, con, acted>>

(* An index that was not there is set, with all the labels just read. *)
SetNetworkIndex(r) ==
    /\ pc[r] = "setIndex"
    /\ \/ WriteBack(r, again[r]) /\ Goto(r, "attach")
       \/ NoWriteBack(r, "connectNetwork") /\ Goto(r, "deleteNet")
    /\ UNCHANGED <<req, read, again, live, con, acted, status, store>>

AttachNetwork(r) ==
    /\ pc[r] = "attach"
    /\ \/ Exists(con[r]) /\ Answer(r, 200)
       \/ (~Exists(con[r]) \/ Fails("connectNetwork")) /\ Goto(r, "deleteNet")
    /\ UNCHANGED <<requestVars, containerVars, con, acted>>

(* deleteNet writes the labels back that addNetworkConfig read; its error is
   only logged. *)
DeleteNet(r) ==
    /\ pc[r] = "deleteNet"
    /\ WriteBack(r, read[r]) \/ NoWriteBack(r, "deleteNet")
    /\ Answer(r, 500)
    /\ UNCHANGED <<req, read, again, live, con, acted, status, store>>

ConnectStep(r) ==
    \/ ConnectStatus(r) \/ ReadNetworks(r) \/ AddNetworkConfig(r) \/ GetNetworkIndex(r)
    \/ SetNetworkIndex(r) \/ AttachNetwork(r) \/ DeleteNet(r)

(* The process of a container ends by itself. *)
Exit(c) ==
    /\ status[c] = "running"
    /\ SetStatus(c, "stopped")
    /\ UNCHANGED <<pc, requestVars, resp, con, acted>>

Lifecycle(r) ==
    \/ Receive(r) \/ GetContainer(r) \/ NameTaken(r) \/ CheckStatus(r)
    \/ StartContainer(r) \/ KillContainer(r) \/ PauseContainer(r) \/ UnpauseContainer(r)
    \/ StopContainer(r) \/ RemoveContainer(r) \/ RenameContainer(r) \/ ContainerWait(r)
    \/ CreateContainer(r) \/ CollectContainer(r) \/ ReadMetadata(r) \/ UpdateMetadata(r)
    \/ ConnectStep(r)

Next == (\E r \in Requests : Lifecycle(r)) \/ (\E c \in Ids : Exit(c))

Spec == Init /\ [][Next]_vars

-----------------------------------------------------------------------------
Labels == Operations \cup {"idle", "find", "taken", "status", "gc", "labels", "update", "readonly",
                         "task", "mount", "mountAll", "stat", "tar", "unmount", "removeAll", "networks",
                         "addNetwork", "index", "setIndex", "attach", "deleteNet", "done"}

(* Every variable has its type; the name store has a name exactly for the
   containers that exist, and no name twice. *)
TypeOK ==
    /\ pc \in [Requests -> Labels]
    /\ req \in [Requests -> Requested]
    /\ resp \in [Requests -> {0, 200, 201, 204, 304, 400, 403, 404, 409, 500}]
    /\ con \in [Requests -> Ids \cup {None}]
    /\ acted \in [Requests -> Ids \cup {None}]
    /\ read \in [Requests -> Names \cup {None}]
    /\ again \in [Requests -> Names \cup {None}]
    /\ written \in [Requests -> Names \cup {None}]
    /\ live \subseteq Requests
    /\ status \in [Ids -> {"none", "created", "running", "paused", "stopped", "gone"}]
    /\ label \in [Ids -> Names \cup {None}]
    /\ store \in [Ids -> Names \cup {None}]
    /\ \A c \in Ids : store[c] = None <=> ~Exists(c)
    /\ \A c, d \in Ids : c # d /\ Exists(c) => store[c] # store[d]

(* The operations whose nerdctl call gets the client's reference. *)
Rereferenced == {"start", "restart", "kill", "pause", "unpause"}

(* Stop, remove and rename act on the container that getContainer found,
   whatever is renamed meanwhile; so do all requests that give an ID.  Only a
   start, restart, kill, pause or unpause by name may check one container and
   act on another that has got the name since. *)
ActsOnChecked ==
    \A r \in Requests : acted[r] \notin {None, con[r]} =>
        req[r].op \in Rereferenced /\ req[r].ref \in Names

(* The name a container is found by is the one nerdctl has for it, unless a
   Create or a network's Connect, in its rollback too, has written back the
   labels it read before the container was renamed; a name it always has. *)
NameLostOnlyByWriteBack ==
    \A c \in Ids : Exists(c) /\ label[c] # store[c] =>
        /\ label[c] \in Names
        /\ \E r \in Requests :
              req[r].op \in {"create", "connect"} /\ con[r] = c /\ written[r] = label[c]
=============================================================================
