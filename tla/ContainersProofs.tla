-------------------------- MODULE ContainersProofs --------------------------
(***************************************************************************)
(* For any requests, containers and names, and any calls that fail: the    *)
(* variables keep their types, nerdctl's name store names the containers   *)
(* that exist and none twice, and an operation acts on the container it    *)
(* has checked unless it hands the client's name to nerdctl.  Then what    *)
(* requests leave behind: the name among a container's labels, a copy's    *)
(* temporary directory and the files of the snapshot mounted on it.        *)
(***************************************************************************)
EXTENDS Archive, TLAPS

ArchivePCs == {"getArchive", "putArchive", "readonly", "task", "mount", "mountAll", "stat", "tar",
               "unmount", "removeAll"}
ConnectPCs == {"connect", "networks", "addNetwork", "index", "setIndex", "attach", "deleteNet"}

(* The operations that reach a place in the code. *)
OperationsAt(l) ==
    CASE l \in {"create", "gc", "labels", "update"} -> {"create"}
      [] l \in {"taken", "rename"} -> {"rename"}
      [] l \in {"kill", "pause", "unpause", "remove", "wait"} -> {l}
      [] l = "start" -> {"start", "restart"}
      [] l = "stop" -> {"stop", "restart"}
      [] l = "status" -> {"start", "stop", "kill", "pause", "unpause"}
      [] l = "find" -> Operations \ {"create"}
      [] l \in ArchivePCs -> {"getArchive", "putArchive"}
      [] l \in ConnectPCs -> {"connect"}
      [] OTHER -> Operations \cup {"none"}

Before == {"idle", "taken", "find", "create"}

(* A request is where its operation leads, with the argument the operation
   needs, and has found a container once it is past getContainer. *)
Placed(r) ==
    /\ req[r].op \in OperationsAt(pc[r])
    /\ pc[r] \notin {"idle", "done"} => req[r].ref \in Refs
    /\ pc[r] \notin {"idle", "done"} /\ req[r].op \in {"create", "rename"} => req[r].arg \in Names
    /\ pc[r] \notin Before \cup {"done"} => con[r] \in Ids

(* Nothing is acted on before a container is found, and nothing by Create. *)
Passive(r) ==
    /\ pc[r] \in Before => con[r] = None
    /\ pc[r] \in Before \/ req[r].op = "create" => acted[r] = None

(* An ID finds no container but its own. *)
FoundById(r) ==
    req[r].op # "create" /\ req[r].ref \in Ids /\ con[r] # None => con[r] = req[r].ref

ActedOn(r) ==
    acted[r] \notin {None, con[r]} => req[r].op \in Rereferenced /\ req[r].ref \in Names

Codes == {0, 200, 201, 204, 304, 400, 403, 404, 409, 500}

ContainersInv ==
    /\ TypeOK
    /\ code \in [Requests -> Codes]
    /\ \A r \in Requests : Placed(r) /\ Passive(r) /\ FoundById(r) /\ ActedOn(r)
-----------------------------------------------------------------------------
LEMMA InitContainers == ArchiveInit => ContainersInv
<1> SUFFICES ASSUME ArchiveInit PROVE ContainersInv
  OBVIOUS
<1> USE ContainersAssumption DEF ArchiveInit, Init
<1>1. PICK w \in Workloads : req = [r \in Requests |-> Unasked(w[r])]
  OBVIOUS
<1>2. \A r \in Requests : req[r] = Unasked(w[r]) /\ w[r] \in Operations \cup {"none"}
  BY <1>1
<1>3. req \in [Requests -> Requested]
  BY <1>1, <1>2 DEF Unasked, Requested
<1>4. TypeOK
  BY <1>3 DEF TypeOK, Labels, Exists
<1>5. ASSUME NEW r \in Requests
      PROVE  Placed(r) /\ Passive(r) /\ FoundById(r) /\ ActedOn(r)
  BY <1>2, <1>5 DEF Placed, Passive, FoundById, ActedOn, OperationsAt, Before, ArchivePCs, ConnectPCs, Unasked
<1> QED
  BY <1>4, <1>5 DEF ContainersInv, Codes

(* An ID finds no container but its own: no label and no prefix is an ID. *)
LEMMA SearchById ==
    ASSUME TypeOK, NEW ref \in Ids, NEW c \in SearchContainer(ref)
    PROVE  c = ref
  BY ContainersAssumption DEF SearchContainer, TypeOK

(* The requests other than r are where they were. *)
Others(r) ==
    \A s \in Requests \ {r} :
        /\ pc'[s] = pc[s] /\ req'[s] = req[s] /\ con'[s] = con[s] /\ acted'[s] = acted[s]

LEMMA OthersKept ==
    ASSUME ContainersInv, NEW r \in Requests, Others(r)
    PROVE  \A s \in Requests \ {r} : (Placed(s) /\ Passive(s) /\ FoundById(s) /\ ActedOn(s))'
<1> SUFFICES ASSUME NEW s \in Requests, s # r
             PROVE  (Placed(s) /\ Passive(s) /\ FoundById(s) /\ ActedOn(s))'
  OBVIOUS
<1>1. pc'[s] = pc[s] /\ req'[s] = req[s] /\ con'[s] = con[s] /\ acted'[s] = acted[s]
  BY DEF Others
<1>2. Placed(s) /\ Passive(s) /\ FoundById(s) /\ ActedOn(s)
  BY DEF ContainersInv
<1> QED
  BY <1>1, <1>2 DEF Placed, Passive, FoundById, ActedOn, OperationsAt

(* The operations at the places that steps lead to. *)
LEMMA Places ==
    /\ OperationsAt("done") = Operations \cup {"none"}
    /\ OperationsAt("find") = Operations \ {"create"}
    /\ OperationsAt("status") = {"start", "stop", "kill", "pause", "unpause"}
    /\ OperationsAt("start") = {"start", "restart"} /\ OperationsAt("stop") = {"stop", "restart"}
    /\ \A l \in {"kill", "pause", "unpause", "remove", "wait", "rename", "create"} :
          OperationsAt(l) = {l}
    /\ OperationsAt("taken") = {"rename"}
    /\ \A l \in {"gc", "labels", "update"} : OperationsAt(l) = {"create"}
    /\ \A l \in ArchivePCs : OperationsAt(l) = {"getArchive", "putArchive"}
    /\ \A l \in ConnectPCs : OperationsAt(l) = {"connect"}
  BY DEF OperationsAt, ArchivePCs, ConnectPCs

(* Where a request has to be for its argument and its container to be known. *)
LEMMA Known ==
    ASSUME ContainersInv, NEW r \in Requests
    PROVE  /\ pc[r] \in {"create", "rename"} => req[r].arg \in Names
           /\ pc[r] \notin Before \cup {"done"} => con[r] \in Ids
           /\ pc[r] = "find" => req[r].op \in Operations \ {"create"}
           /\ pc[r] = "status" => req[r].op \in {"start", "stop", "kill", "pause", "unpause"}
           /\ pc[r] = "stop" => req[r].op \in {"stop", "restart"}
<1> Placed(r)
  BY DEF ContainersInv
<1>1. pc[r] \in {"create", "rename"} => req[r].op \in {"create", "rename"}
  BY Places DEF Placed
<1> QED
  BY <1>1, Places DEF Placed

(* Where a request is tells its operation. *)
LEMMA KnownOperation ==
    ASSUME ContainersInv, NEW r \in Requests
    PROVE  /\ req[r].op \in Operations \cup {"none"}
           /\ pc[r] \notin {"idle", "done"} => req[r].ref \in Refs
           /\ pc[r] \in {"start", "kill", "pause", "unpause"} => req[r].op \in Rereferenced
           /\ pc[r] \in {"remove", "rename"} => req[r].op = pc[r]
           /\ pc[r] \in {"create", "gc", "labels", "update"} => req[r].op = "create"
           /\ pc[r] \in ArchivePCs => req[r].op \in {"getArchive", "putArchive"}
           /\ pc[r] \in ConnectPCs => req[r].op = "connect"
           /\ pc[r] = "taken" => req[r].op = "rename"
<1>1. Placed(r) /\ req[r] \in Requested
  BY DEF ContainersInv, TypeOK
<1>2. req[r].op \in Operations \cup {"none"}
  BY <1>1 DEF Requested
<1>3. pc[r] \in {"start", "kill", "pause", "unpause"} => req[r].op \in Rereferenced
  BY <1>1, Places DEF Placed, Rereferenced
<1> QED
  BY <1>1, <1>2, <1>3, Places DEF Placed

Live == {"created", "running", "paused", "stopped"}

LEMMA ByReferenceTypes ==
    ASSUME TypeOK, NEW r \in Requests, NEW l, NEW from \in SUBSET Live, NEW to \in SUBSET Live,
           ByReference(r, l, from, to)
    PROVE  TypeOK'
<1> DEFINE found == SearchContainer(req[r].ref)
<1> USE DEF TypeOK, requestVars, labelVars, Answer, Labels
<1>1. CASE Answer(r, 500) /\ UNCHANGED <<containerVars, acted, requestVars, con>>
  BY <1>1 DEF containerVars, Exists
<1>2. ASSUME NEW c \in found, NEW t \in to, status[c] \in from, Act(r, c, t), Answer(r, 204),
             UNCHANGED <<requestVars, con>>
      PROVE  TypeOK'
  <2>1. c \in Ids /\ Exists(c)
    BY DEF SearchContainer
  <2>2. \A d \in Ids : Exists(d)' <=> Exists(d)
    BY <1>2, <2>1 DEF Act, SetStatus, Exists, Live
  <2>3. status' \in [Ids -> {"none", "created", "running", "paused", "stopped", "gone"}]
    BY <1>2, <2>1 DEF Act, SetStatus, Live
  <2> QED
    BY <1>2, <2>1, <2>2, <2>3 DEF Act, SetStatus
<1> QED
  BY <1>1, <1>2 DEF ByReference

LEMMA ReferencedTypes ==
    ASSUME TypeOK, NEW r \in Requests,
           StartContainer(r) \/ KillContainer(r) \/ PauseContainer(r) \/ UnpauseContainer(r)
    PROVE  TypeOK'
<1>1. CASE StartContainer(r)
  BY <1>1, ByReferenceTypes, {"created", "stopped"} \in SUBSET Live, {"running"} \in SUBSET Live
     DEF StartContainer, Live
<1>2. CASE KillContainer(r)
  BY <1>2, ByReferenceTypes, {"running"} \in SUBSET Live, {"running", "stopped"} \in SUBSET Live
     DEF KillContainer, Live
<1>3. CASE PauseContainer(r)
  BY <1>3, ByReferenceTypes, {"running"} \in SUBSET Live, {"paused"} \in SUBSET Live
     DEF PauseContainer, Live
<1>4. CASE UnpauseContainer(r)
  BY <1>4, ByReferenceTypes, {"paused"} \in SUBSET Live, {"running"} \in SUBSET Live
     DEF UnpauseContainer, Live
<1> QED
  BY <1>1, <1>2, <1>3, <1>4

LEMMA NextTypes == ContainersInv /\ [ArchiveNext]_allVars => TypeOK' /\ (code \in [Requests -> Codes])'
<1> SUFFICES ASSUME ContainersInv, [ArchiveNext]_allVars
             PROVE  TypeOK' /\ (code \in [Requests -> Codes])'
  OBVIOUS
<1> USE ContainersAssumption DEF Goto, Answer, requestVars, labelVars, containerVars, archiveVars
<1>0. TypeOK /\ code \in [Requests -> Codes]
  BY DEF ContainersInv
<1>1. CASE UNCHANGED allVars
  BY <1>0, <1>1 DEF allVars, vars, TypeOK, Exists
<1>2. ASSUME NEW r \in Requests, Lifecycle(r), UNCHANGED archiveVars
      PROVE  TypeOK' /\ (code \in [Requests -> Codes])'
  <2> USE <1>0, Known DEF TypeOK, Labels, Before
  <2>1. CASE Receive(r)
    <3>1. req' \in [Requests -> Requested]
      <4>1. CASE UNCHANGED req
        BY <4>1
      <4>2. ASSUME NEW n \in Refs, NEW a \in Arguments(req[r].op),
                   req' = [req EXCEPT ![r] = [op |-> @.op, ref |-> n, arg |-> a]]
            PROVE  req' \in [Requests -> Requested]
        BY <4>2 DEF Arguments, Requested
      <4> QED
        BY <2>1, <4>1, <4>2 DEF Receive
    <3>2. pc' \in [Requests -> Labels]
      BY <2>1 DEF Receive, Operations
    <3> QED
      BY <1>2, <2>1, <3>1, <3>2 DEF Receive, Exists
  <2>2. CASE GetContainer(r)
    <3>1. AfterFind(req[r].op) \in Labels
      BY <2>2 DEF GetContainer, AfterFind, Operations
    <3>2. SearchContainer(req[r].ref) \subseteq Ids
      BY DEF SearchContainer
    <3> QED
      BY <1>2, <2>2, <3>1, <3>2 DEF GetContainer, Exists
  <2>3. CASE NameTaken(r)
    BY <1>2, <2>3 DEF NameTaken, Exists
  <2>4. CASE CheckStatus(r)
    BY <1>2, <2>4 DEF CheckStatus, Refusal, AssertStartContainer, Operations, Exists
  <2>5. CASE StartContainer(r) \/ KillContainer(r) \/ PauseContainer(r) \/ UnpauseContainer(r)
    BY <1>2, <2>5, ReferencedTypes
  <2>9. CASE StopContainer(r)
    BY <1>2, <2>9, SMTT(30) DEF StopContainer, Act, SetStatus, Found, Exists, Operations
  <2>10. CASE RemoveContainer(r)
    BY <1>2, <2>10, SMTT(30) DEF RemoveContainer, Found, Exists
  <2>11. CASE RenameContainer(r)
    <3>1. ASSUME NEW c \in Found(r), ~Stored(req[r].arg), store' = [store EXCEPT ![c] = req[r].arg], UNCHANGED status
          PROVE  /\ \A d \in Ids : store'[d] = None <=> ~Exists(d)'
                 /\ \A d, e \in Ids : d # e /\ Exists(d)' => store'[d] # store'[e]
      BY <1>2, <2>11, <3>1 DEF RenameContainer, Found, Stored, Exists
    <3>2. CASE UNCHANGED <<status, store>>
      BY <1>2, <2>11, <3>2 DEF RenameContainer, Found, Exists
    <3>3. CASE ~UNCHANGED <<status, store>>
      <4>1. PICK c \in Found(r) :
              /\ ~Stored(req[r].arg) /\ store' = [store EXCEPT ![c] = req[r].arg]
              /\ label' = [label EXCEPT ![c] = req[r].arg] /\ acted' = [acted EXCEPT ![r] = c]
              /\ Answer(r, 204) /\ UNCHANGED <<status, requestVars, con>>
        BY <2>11, <3>3 DEF RenameContainer, containerVars
      <4>2. c \in Ids /\ req[r].arg \in Names \cup {None}
        BY <1>2, <2>11, <4>1 DEF RenameContainer, Found
      <4>3. /\ \A d \in Ids : store'[d] = None <=> ~Exists(d)'
            /\ \A d, e \in Ids : d # e /\ Exists(d)' => store'[d] # store'[e]
        BY <3>1, <4>1
      <4>4. /\ store' \in [Ids -> Names \cup {None}] /\ label' \in [Ids -> Names \cup {None}]
            /\ acted' \in [Requests -> Ids \cup {None}]
        BY <4>1, <4>2
      <4> QED
        BY <1>2, <4>1, <4>3, <4>4
    <3> QED
      BY <3>2, <3>3
  <2>12. CASE ContainerWait(r)
    BY <1>2, <2>12, SMTT(30) DEF ContainerWait, Exists
  <2>13. CASE CreateContainer(r)
    BY <1>2, <2>13, SMTT(30) DEF CreateContainer, CreateErrors, New, Stored, Exists
  <2>14. CASE CollectContainer(r)
    BY <1>2, <2>14, SMTT(30) DEF CollectContainer, CreateErrors, Exists
  <2>15. CASE ReadMetadata(r)
    BY <1>2, <2>15 DEF ReadMetadata, Exists
  <2>16. CASE UpdateMetadata(r)
    BY <1>2, <2>16 DEF UpdateMetadata, WriteBack, NoWriteBack, Exists
  <2>17. CASE ConnectStatus(r)
    BY <1>2, <2>17 DEF ConnectStatus, Exists
  <2>18. CASE ReadNetworks(r)
    BY <1>2, <2>18, SMTT(30) DEF ReadNetworks, Exists
  <2>19. CASE AddNetworkConfig(r)
    BY <1>2, <2>19, SMTT(30) DEF AddNetworkConfig, WriteBack, NoWriteBack, Exists
  <2>20. CASE GetNetworkIndex(r)
    BY <1>2, <2>20 DEF GetNetworkIndex, Exists
  <2>21. CASE SetNetworkIndex(r)
    BY <1>2, <2>21, SMTT(30) DEF SetNetworkIndex, WriteBack, NoWriteBack, Exists
  <2>22. CASE AttachNetwork(r)
    BY <1>2, <2>22 DEF AttachNetwork, Exists
  <2>23. CASE DeleteNet(r)
    BY <1>2, <2>23, SMTT(30) DEF DeleteNet, WriteBack, NoWriteBack, Exists
  <2> QED
    BY <1>2, <2>1, <2>2, <2>3, <2>4, <2>5, <2>9, <2>10, <2>11, <2>12, <2>13, <2>14, <2>15, <2>16,
       <2>17, <2>18, <2>19, <2>20, <2>21, <2>22, <2>23 DEF Lifecycle, ConnectStep
<1>3. ASSUME NEW r \in Requests, ArchiveStep(r)
      PROVE  TypeOK' /\ (code \in [Requests -> Codes])'
  <2> USE <1>0 DEF TypeOK, Exists, Labels, Codes
  <2>1. CASE IsReadOnlyMount(r)
    BY <2>1 DEF IsReadOnlyMount
  <2>2. CASE ReadTask(r)
    BY <2>2 DEF ReadTask
  <2>3. CASE MakeTempDir(r)
    BY <2>3 DEF MakeTempDir
  <2>4. CASE MountAll(r)
    BY <2>4 DEF MountAll, AnswerThenRemove
  <2>5. CASE Stat(r)
    BY <2>5 DEF Stat, Finish, AnswerThenClean, CleanThenAnswer, CleanupFrom
  <2>6. CASE RunTar(r)
    BY <2>6 DEF RunTar, Finish, AnswerThenClean, CleanThenAnswer, CleanupFrom
  <2>7. CASE Unmount(r)
    BY <2>7 DEF Unmount
  <2>8. CASE RemoveAll(r)
    BY <2>8 DEF RemoveAll
  <2> QED
    BY <1>3, <2>1, <2>2, <2>3, <2>4, <2>5, <2>6, <2>7, <2>8 DEF ArchiveStep
<1>4. ASSUME NEW c \in Ids, Exit(c), UNCHANGED archiveVars
      PROVE  TypeOK' /\ (code \in [Requests -> Codes])'
  BY <1>0, <1>4 DEF Exit, SetStatus, TypeOK, Exists
<1> QED
  BY <1>1, <1>2, <1>3, <1>4 DEF ArchiveNext, Next

Kept(s) == Placed(s) /\ Passive(s) /\ FoundById(s) /\ ActedOn(s)

(* A step that leads past getContainer, acts on nothing, and finds nothing new. *)
LEMMA QuietStep ==
    ASSUME ContainersInv, NEW r \in Requests, NEW l \in Labels \ Before,
           pc' = [pc EXCEPT ![r] = l], UNCHANGED <<req, con, acted>>,
           req[r].op \in OperationsAt(l), l = "done" \/ con[r] \in Ids,
           l = "done" \/ pc[r] \notin {"idle", "done"}
    PROVE  \A s \in Requests : Kept(s)'
<1>1. Others(r)
  BY DEF Others, ContainersInv, TypeOK
<1>2. pc'[r] = l /\ Kept(r)
  BY DEF ContainersInv, TypeOK, Kept
<1>3. Kept(r)'
  BY <1>2 DEF Kept, Placed, Passive, FoundById, ActedOn, Before, OperationsAt
<1> QED
  BY <1>1, <1>3, OthersKept DEF Kept

(* A step that acts on the container that was found, or on one that the client's
   name stands for. *)
LEMMA ActingStep ==
    ASSUME ContainersInv, NEW r \in Requests, NEW l \in {"start", "done"}, NEW c \in Ids,
           pc' = [pc EXCEPT ![r] = l], acted' = [acted EXCEPT ![r] = c], UNCHANGED <<req, con>>,
           req[r].op \in OperationsAt(l), req[r].op # "create", con[r] \in Ids,
           pc[r] \notin {"idle", "done"},
           \/ c = con[r]
           \/ req[r].op \in Rereferenced /\ c \in SearchContainer(req[r].ref) /\ req[r].ref \in Refs
    PROVE  \A s \in Requests : Kept(s)'
<1>1. Others(r)
  BY DEF Others, ContainersInv, TypeOK
<1>2. pc'[r] = l /\ acted'[r] = c /\ Kept(r)
  BY DEF ContainersInv, TypeOK, Kept
<1>3. req[r].ref \in Ids => c = con[r]
  BY <1>2, SearchById, ContainersAssumption DEF ContainersInv, Kept, FoundById
<1>4. Placed(r)'
  BY <1>2 DEF Kept, Placed, Before, OperationsAt, Rereferenced, ArchivePCs
<1>5. (Passive(r) /\ FoundById(r) /\ ActedOn(r))'
  BY <1>2, <1>3 DEF Kept, Passive, FoundById, ActedOn, Before, Refs
<1>6. Kept(r)'
  BY <1>4, <1>5 DEF Kept
<1> QED
  BY <1>1, <1>6, OthersKept DEF Kept

(* A step that ends a request and does no more with it. *)
LEMMA LastStep ==
    ASSUME ContainersInv, NEW r \in Requests, pc' = [pc EXCEPT ![r] = "done"],
           UNCHANGED <<req, con, acted>>
    PROVE  \A s \in Requests : Kept(s)'
<1>1. "done" \in Labels \ Before
  BY DEF Labels, Before
<1> QED
  BY <1>1, QuietStep, Known, KnownOperation, Places

(* The steps of a Connect after it has found its container. *)
LEMMA ConnectKept ==
    ASSUME ContainersInv, NEW r \in Requests, ConnectStep(r)
    PROVE  \A s \in Requests : Kept(s)'
<1>1. pc[r] \in ConnectPCs /\ UNCHANGED <<req, con, acted>>
  BY DEF ConnectStep, ConnectStatus, ReadNetworks, AddNetworkConfig, GetNetworkIndex, SetNetworkIndex,
         AttachNetwork, DeleteNet, ConnectPCs, requestVars
<1>2. PICK l \in ConnectPCs \cup {"done"} : pc' = [pc EXCEPT ![r] = l]
  BY DEF ConnectStep, ConnectStatus, ReadNetworks, AddNetworkConfig, GetNetworkIndex, SetNetworkIndex,
         AttachNetwork, DeleteNet, Goto, Answer, ConnectPCs
<1>3. req[r].op = "connect" /\ con[r] \in Ids
  BY <1>1, Known, KnownOperation DEF Before, ConnectPCs
<1>4. l \in Labels \ Before /\ req[r].op \in OperationsAt(l)
  BY <1>3, Places DEF Labels, Before, ConnectPCs, Operations
<1> QED
  BY <1>1, <1>2, <1>3, <1>4, QuietStep DEF ConnectPCs

LEMMA LifecycleKept ==
    ASSUME ContainersInv, NEW r \in Requests, Lifecycle(r)
    PROVE  \A s \in Requests : Kept(s)'
<1> USE LastStep DEF Answer, Goto, requestVars
<1>0. con \in [Requests -> Ids \cup {None}] /\ pc \in [Requests -> Labels]
  BY DEF ContainersInv, TypeOK
<1>1. CASE Receive(r)
  <2>1. pc[r] = "idle" /\ con[r] = None /\ acted[r] = None /\ req[r].op \in Operations
    BY <1>1, KnownOperation DEF Receive, ContainersInv, Passive, Before
  <2>2. ASSUME NEW n \in Refs, NEW a \in Arguments(req[r].op),
               req' = [req EXCEPT ![r] = [op |-> @.op, ref |-> n, arg |-> a]],
               pc' = [pc EXCEPT ![r] = CASE req[r].op = "create" -> "create"
                                         [] req[r].op = "rename" -> "taken"
                                         [] OTHER -> "find"],
               UNCHANGED <<con, acted>>
        PROVE  \A s \in Requests : Kept(s)'
    <3>1. Others(r)
      BY <2>2 DEF Others, ContainersInv, TypeOK
    <3>2. req'[r].op = req[r].op /\ req'[r].ref = n /\ req'[r].arg = a
      BY <2>2 DEF ContainersInv, TypeOK
    <3>3. /\ pc'[r] \in Before \ {"idle"}
          /\ req'[r].op \in OperationsAt(pc'[r])
      BY <1>0, <2>1, <2>2, <3>2, Places DEF Before
    <3>4. req[r].op \in {"create", "rename"} => a \in Names
      BY DEF Arguments
    <3>5. con'[r] = None /\ acted'[r] = None
      BY <2>1, <2>2
    <3>6. Kept(r)'
      BY <3>2, <3>3, <3>4, <3>5 DEF Kept, Placed, Passive, FoundById, ActedOn
    <3> QED
      BY <3>1, <3>6, OthersKept DEF Kept
  <2> QED
    BY <1>1, <2>2 DEF Receive
<1>2. CASE GetContainer(r)
  <2>1. /\ pc[r] = "find" /\ req[r].op \in Operations \ {"create"} /\ req[r].ref \in Refs
        /\ acted[r] = None /\ Kept(r)
    BY <1>2, Known, KnownOperation DEF GetContainer, ContainersInv, Passive, Before, Kept
  <2>2. ASSUME NEW c \in SearchContainer(req[r].ref), con' = [con EXCEPT ![r] = c],
               pc' = [pc EXCEPT ![r] = AfterFind(req[r].op)], UNCHANGED <<req, acted>>
        PROVE  \A s \in Requests : Kept(s)'
    <3>1. Others(r)
      BY <2>2 DEF Others, ContainersInv, TypeOK
    <3>2. c \in Ids /\ (req[r].ref \in Ids => c = req[r].ref)
      BY SearchById DEF SearchContainer, ContainersInv
    <3>3. con'[r] = c /\ pc'[r] = AfterFind(req[r].op) /\ acted'[r] = None
      BY <1>0, <2>1, <2>2
    <3>4. AfterFind(req[r].op) \notin Before /\ req[r].op \in OperationsAt(AfterFind(req[r].op))
      BY <2>1, Places DEF AfterFind, Before, Operations, ArchivePCs, ConnectPCs
    <3>5. Placed(r)'
      BY <2>1, <2>2, <3>2, <3>3, <3>4 DEF Kept, Placed
    <3>6. (Passive(r) /\ FoundById(r) /\ ActedOn(r))'
      BY <2>1, <2>2, <3>2, <3>3, <3>4 DEF Passive, FoundById, ActedOn
    <3> QED
      BY <3>1, <3>5, <3>6, OthersKept DEF Kept
  <2> QED
    BY <1>2, <2>2 DEF GetContainer
<1>3. CASE NameTaken(r)
  <2>1. CASE pc' = [pc EXCEPT ![r] = "find"]
    <3>1. Others(r)
      BY <1>3, <2>1 DEF NameTaken, Others, ContainersInv, TypeOK
    <3>2. pc'[r] = "find" /\ pc[r] = "taken" /\ req[r].op = "rename" /\ Kept(r)
      BY <1>0, <1>3, <2>1, KnownOperation DEF NameTaken, ContainersInv, Kept
    <3>3. UNCHANGED <<req, con, acted>>
      BY <1>3 DEF NameTaken
    <3>4. "rename" \in OperationsAt("find")
      BY Places DEF Operations
    <3>5. Kept(r)'
      BY <3>2, <3>3, <3>4 DEF Kept, Placed, Passive, FoundById, ActedOn, Before
    <3> QED
      BY <3>1, <3>5, OthersKept DEF Kept
  <2> QED
    BY <1>3, <2>1 DEF NameTaken
<1>4. CASE CheckStatus(r)
  <2>1. req[r].op \in {"start", "stop", "kill", "pause", "unpause"} /\ con[r] \in Ids
    BY <1>4, Known, KnownOperation DEF CheckStatus, Before
  <2>2. req[r].op \in Labels \ Before /\ req[r].op \in OperationsAt(req[r].op)
    BY <2>1, Places DEF Labels, Before, Operations
  <2>3. CASE pc' = [pc EXCEPT ![r] = req[r].op]
    BY <1>4, <2>1, <2>2, <2>3, QuietStep DEF CheckStatus
  <2> QED
    BY <1>4, <2>3 DEF CheckStatus
<1>5. CASE StartContainer(r) \/ KillContainer(r) \/ PauseContainer(r) \/ UnpauseContainer(r)
  <2>1. PICK l, from, to :
           l \in {"start", "kill", "pause", "unpause"} /\ ByReference(r, l, from, to)
    BY <1>5 DEF StartContainer, KillContainer, PauseContainer, UnpauseContainer
  <2>2. /\ req[r].op \in Rereferenced /\ req[r].ref \in Refs /\ con[r] \in Ids
        /\ req[r].op \in OperationsAt("done") /\ req[r].op # "create"
    BY <2>1, Known, KnownOperation, Places DEF ByReference, Before, Rereferenced
  <2>3. ASSUME NEW c \in SearchContainer(req[r].ref), acted' = [acted EXCEPT ![r] = c],
               pc' = [pc EXCEPT ![r] = "done"]
        PROVE  \A s \in Requests : Kept(s)'
    <3>1. c \in Ids
      BY DEF SearchContainer
    <3>2. pc[r] \notin {"idle", "done"} /\ UNCHANGED <<req, con>>
      BY <2>1 DEF ByReference
    <3> QED
      BY <2>2, <2>3, <3>1, <3>2, ActingStep
  <2> QED
    BY <2>1, <2>3 DEF ByReference, Act
<1>6. CASE StopContainer(r)
  <2>1. req[r].op \in {"stop", "restart"} /\ con[r] \in Ids
    BY <1>6, Known, KnownOperation DEF StopContainer, Before
  <2>2. req[r].op \in OperationsAt("done") /\ (req[r].op = "restart" => req[r].op \in OperationsAt("start"))
    BY Known, KnownOperation, Places
  <2> QED
    BY <1>6, <2>1, <2>2, ActingStep DEF StopContainer, Found, Act
<1>7. CASE RemoveContainer(r) \/ RenameContainer(r)
  <2>1. req[r].op \in {"remove", "rename"} /\ con[r] \in Ids /\ req[r].op \in OperationsAt("done")
    BY <1>7, Known, KnownOperation, Places DEF RemoveContainer, RenameContainer, Before
  <2> QED
    BY <1>7, <2>1, ActingStep DEF RemoveContainer, RenameContainer, Found
<1>8. CASE ContainerWait(r) \/ CollectContainer(r) \/ UpdateMetadata(r)
  BY <1>8 DEF ContainerWait, CollectContainer, UpdateMetadata
<1>9. CASE CreateContainer(r)
  <2>1. /\ pc[r] = "create" /\ req[r].op = "create" /\ acted[r] = None
        /\ req[r].ref \in Refs /\ req[r].arg \in Names
    BY <1>9, Known, KnownOperation DEF CreateContainer, ContainersInv, Passive, Before
  <2>2. ASSUME NEW c \in Ids, con' = [con EXCEPT ![r] = c], NEW l \in {"labels", "gc"},
               pc' = [pc EXCEPT ![r] = l], UNCHANGED <<req, acted>>
        PROVE  \A s \in Requests : Kept(s)'
    <3>1. Others(r)
      BY <2>2 DEF Others, ContainersInv, TypeOK
    <3>2. con'[r] = c /\ pc'[r] = l /\ acted'[r] = None
      BY <1>0, <2>1, <2>2
    <3>3. l \notin Before /\ "create" \in OperationsAt(l)
      BY Places DEF Before
    <3>4. Kept(r)'
      BY <2>1, <2>2, <3>2, <3>3 DEF Kept, Placed, Passive, FoundById, ActedOn
    <3> QED
      BY <3>1, <3>4, OthersKept DEF Kept
  <2> QED
    BY <1>9, <2>2 DEF CreateContainer
<1>10. CASE ReadMetadata(r)
  <2>1. con[r] \in Ids /\ req[r].op \in OperationsAt("update") /\ "update" \in Labels \ Before
    BY <1>10, Known, KnownOperation, Places DEF ReadMetadata, Before, Labels
  <2> QED
    BY <1>10, <2>1, QuietStep DEF ReadMetadata
<1>11. CASE ConnectStep(r)
  BY <1>11, ConnectKept
<1> QED
  BY <1>1, <1>2, <1>3, <1>4, <1>5, <1>6, <1>7, <1>8, <1>9, <1>10, <1>11 DEF Lifecycle

LEMMA ArchiveKept ==
    ASSUME ContainersInv, NEW r \in Requests, ArchiveStep(r)
    PROVE  \A s \in Requests : Kept(s)'
<1> DEFINE Ahead == {"task", "mount", "mountAll", "stat", "tar", "unmount", "removeAll", "done"}
<1>1. pc[r] \in ArchivePCs /\ UNCHANGED <<req, con, acted>>
  BY DEF ArchiveStep, IsReadOnlyMount, ReadTask, MakeTempDir, MountAll, Stat, RunTar, Unmount,
         RemoveAll, ArchivePCs, requestVars
<1>2. PICK l \in Ahead : pc' = [pc EXCEPT ![r] = l]
  BY DEF ArchiveStep, IsReadOnlyMount, ReadTask, MakeTempDir, MountAll, Stat, RunTar, Unmount,
         RemoveAll, Goto, Answer, Finish, AnswerThenClean, AnswerThenRemove, CleanThenAnswer, CleanupFrom
<1>3. req[r].op \in {"getArchive", "putArchive"} /\ con[r] \in Ids
  BY <1>1, Known, KnownOperation DEF Before, ArchivePCs
<1>4. l \in Labels \ Before /\ req[r].op \in OperationsAt(l)
  BY <1>3, Places DEF Labels, Before, ArchivePCs, Operations
<1> QED
  BY <1>1, <1>2, <1>3, <1>4, QuietStep DEF ArchivePCs

(* The invariant is inductive. *)
LEMMA NextContainers == ContainersInv /\ [ArchiveNext]_allVars => ContainersInv'
<1> SUFFICES ASSUME ContainersInv, [ArchiveNext]_allVars PROVE ContainersInv'
  OBVIOUS
<1>1. CASE UNCHANGED <<pc, req, con, acted>>
  BY <1>1, NextTypes, ZenonT(30) DEF ContainersInv, Placed, Passive, FoundById, ActedOn, OperationsAt
<1>2. CASE \E r \in Requests : Lifecycle(r) \/ ArchiveStep(r)
  BY <1>2, NextTypes, LifecycleKept, ArchiveKept DEF ContainersInv, Kept
<1> QED
  BY <1>1, <1>2 DEF ArchiveNext, Next, Exit, allVars, vars, requestVars

(* TypeOK always holds: among others, nerdctl's name store has a name exactly
   for the containers that exist and gives no name twice, though Rename's own
   look for the name is neither atomic nor conclusive. *)
THEOREM TypeCorrect == ArchiveSpec => []TypeOK
<1>1. ContainersInv => TypeOK
  BY DEF ContainersInv
<1> QED
  BY <1>1, InitContainers, NextContainers, PTL DEF ArchiveSpec

(* ActsOnChecked always holds: a stop, remove or rename acts on the container
   that getContainer found, and so does every request that gives an ID. *)
THEOREM ActsOnCheckedHolds == ArchiveSpec => []ActsOnChecked
<1>1. ContainersInv => ActsOnChecked
  BY DEF ContainersInv, ActedOn, ActsOnChecked
<1> QED
  BY <1>1, InitContainers, NextContainers, PTL DEF ArchiveSpec

-----------------------------------------------------------------------------
(* The places where a request has read labels, and may write them back. *)
WithRead == {"update", "addNetwork", "index", "setIndex", "attach", "deleteNet"}

ReadTracked(r) ==
    /\ pc[r] \in WithRead => read[r] \in Names
    /\ pc[r] = "setIndex" => again[r] \in Names

Labelled == \A c \in Ids : Exists(c) => label[c] \in Names

Dirs == {"none", "made", "mounted", "partly"}

(* The temporary directory of a request, by where the request is. *)
DirTracked(r) ==
    /\ pc[r] \notin {"mountAll", "stat", "tar", "unmount", "removeAll", "done"} => dir[r] = "none"
    /\ pc[r] = "mountAll" => dir[r] = "made"
    /\ pc[r] \in {"stat", "tar"} => dir[r] \in {"none", "mounted"}
    /\ pc[r] = "unmount" => dir[r] = "mounted"
    /\ pc[r] = "removeAll" => dir[r] \in {"made", "mounted", "partly"}
    /\ dir[r] = "partly" /\ pc[r] # "done" => req[r].op = "getArchive"
    /\ pc[r] = "done" =>
          \/ dir[r] = "none"
          \/ dir[r] \in {"mounted", "partly"} /\ con[r] \notin intact
          \/ dir[r] \in {"made", "partly"} /\ req[r].op = "putArchive" /\ resp[r] = 500

TrackedInv ==
    /\ dir \in [Requests -> Dirs]
    /\ intact \subseteq Ids
    /\ Labelled
    /\ NameLostOnlyByWriteBack
    /\ SnapshotLostOnlyByFailure
    /\ \A r \in Requests : ReadTracked(r) /\ DirTracked(r)

(* The requests other than r have changed nothing of theirs. *)
Untouched(r) ==
    \A s \in Requests \ {r} :
        /\ pc'[s] = pc[s] /\ req'[s] = req[s] /\ resp'[s] = resp[s] /\ con'[s] = con[s]
        /\ acted'[s] = acted[s] /\ read'[s] = read[s] /\ again'[s] = again[s]
        /\ written'[s] = written[s] /\ dir'[s] = dir[s]

Typed == TypeOK /\ dir \in [Requests -> Dirs]

(* nerdctl is asked to work on what the client's reference stands for. *)
LEMMA ByReferenceSteps ==
    ASSUME NEW r, StartContainer(r) \/ KillContainer(r) \/ PauseContainer(r) \/ UnpauseContainer(r)
    PROVE  \E l \in {"start", "kill", "pause", "unpause"}, from \in SUBSET Live, to \in SUBSET Live :
              /\ ByReference(r, l, from, to)
              /\ l = "start" \/ from \subseteq {"running", "paused"}
<1>1. /\ {"created", "stopped"} \in SUBSET Live /\ {"running"} \in SUBSET Live
      /\ {"paused"} \in SUBSET Live /\ {"running", "stopped"} \in SUBSET Live
  BY DEF Live
<1>2. CASE StartContainer(r)
  BY <1>1, <1>2 DEF StartContainer
<1>3. CASE KillContainer(r)
  <2>1. ByReference(r, "kill", {"running"}, {"running", "stopped"}) /\ {"running"} \subseteq {"running", "paused"}
    BY <1>3 DEF KillContainer
  <2> QED
    BY <1>1, <2>1
<1>4. CASE PauseContainer(r)
  <2>1. ByReference(r, "pause", {"running"}, {"paused"}) /\ {"running"} \subseteq {"running", "paused"}
    BY <1>4 DEF PauseContainer
  <2> QED
    BY <1>1, <2>1
<1>5. CASE UnpauseContainer(r)
  <2>1. ByReference(r, "unpause", {"paused"}, {"running"}) /\ {"paused"} \subseteq {"running", "paused"}
    BY <1>5 DEF UnpauseContainer
  <2> QED
    BY <1>1, <2>1
<1> QED
  BY <1>2, <1>3, <1>4, <1>5

LEMMA LifecycleFrame ==
    ASSUME Typed, NEW r \in Requests, Lifecycle(r), UNCHANGED archiveVars
    PROVE  Untouched(r) /\ pc[r] # "done"
<1> USE DEF Typed, TypeOK, Goto, Answer, requestVars, labelVars, archiveVars, Untouched
<1>1. CASE Receive(r)
  BY <1>1 DEF Receive, Typed
<1>2. CASE GetContainer(r)
  BY <1>2 DEF GetContainer
<1>3. CASE NameTaken(r)
  BY <1>3 DEF NameTaken
<1>4. CASE CheckStatus(r)
  BY <1>4 DEF CheckStatus
<1>5. CASE StopContainer(r)
  BY <1>5 DEF StopContainer, Act
<1>6. CASE RemoveContainer(r)
  BY <1>6 DEF RemoveContainer
<1>7. CASE RenameContainer(r)
  BY <1>7 DEF RenameContainer
<1>8. CASE ContainerWait(r)
  BY <1>8 DEF ContainerWait
<1>9. CASE CreateContainer(r)
  BY <1>9 DEF CreateContainer
<1>10. CASE CollectContainer(r)
  BY <1>10 DEF CollectContainer
<1>11. CASE ReadMetadata(r)
  BY <1>11 DEF ReadMetadata
<1>12. CASE UpdateMetadata(r)
  BY <1>12 DEF UpdateMetadata, WriteBack, NoWriteBack
<1>13. CASE StartContainer(r) \/ KillContainer(r) \/ PauseContainer(r) \/ UnpauseContainer(r)
  BY <1>13, ByReferenceSteps DEF ByReference, Act
<1>14. CASE ConnectStatus(r) \/ ReadNetworks(r) \/ GetNetworkIndex(r) \/ AttachNetwork(r)
  BY <1>14 DEF ConnectStatus, ReadNetworks, GetNetworkIndex, AttachNetwork
<1>15. CASE AddNetworkConfig(r) \/ SetNetworkIndex(r) \/ DeleteNet(r)
  BY <1>15 DEF AddNetworkConfig, SetNetworkIndex, DeleteNet, WriteBack, NoWriteBack
<1> QED
  BY <1>1, <1>2, <1>3, <1>4, <1>5, <1>6, <1>7, <1>8, <1>9, <1>10, <1>11, <1>12, <1>13, <1>14, <1>15
     DEF Lifecycle, ConnectStep

LEMMA ArchiveFrame ==
    ASSUME Typed, NEW r \in Requests, ArchiveStep(r)
    PROVE  Untouched(r) /\ pc[r] # "done"
<1> USE DEF Typed, TypeOK, Goto, Answer, requestVars, labelVars, Untouched, Finish, AnswerThenClean,
            AnswerThenRemove, CleanThenAnswer
<1>1. CASE IsReadOnlyMount(r)
  BY <1>1 DEF IsReadOnlyMount, archiveVars
<1>2. CASE ReadTask(r)
  BY <1>2 DEF ReadTask, archiveVars
<1>3. CASE MakeTempDir(r)
  BY <1>3 DEF MakeTempDir
<1>4. CASE MountAll(r)
  BY <1>4 DEF MountAll
<1>5. CASE Stat(r)
  BY <1>5 DEF Stat
<1>6. CASE RunTar(r)
  BY <1>6 DEF RunTar
<1>7. CASE Unmount(r)
  BY <1>7 DEF Unmount
<1>8. CASE RemoveAll(r)
  BY <1>8 DEF RemoveAll
<1> QED
  BY <1>1, <1>2, <1>3, <1>4, <1>5, <1>6, <1>7, <1>8 DEF ArchiveStep

(* A container that a request has found or made stays the request's. *)
LEMMA ConStays ==
    ASSUME ContainersInv, NEW r \in Requests, Lifecycle(r), con[r] # None
    PROVE  con'[r] = con[r] /\ req'[r].op = req[r].op
<1> USE DEF Goto, Answer, requestVars
<1>1. pc[r] \notin Before
  BY DEF ContainersInv, Passive
<1>2. ~Receive(r) /\ ~GetContainer(r) /\ ~CreateContainer(r)
  BY <1>1 DEF Before, Receive, GetContainer, CreateContainer
<1>3. UNCHANGED <<con, req>>
  BY <1>2 DEF Lifecycle, NameTaken, CheckStatus, StartContainer, KillContainer,
     PauseContainer, UnpauseContainer, ByReference, StopContainer, RemoveContainer, RenameContainer,
     ContainerWait, CollectContainer, ReadMetadata, UpdateMetadata, ConnectStep, ConnectStatus,
     ReadNetworks, AddNetworkConfig, GetNetworkIndex, SetNetworkIndex, AttachNetwork, DeleteNet
<1> QED
  BY <1>3

(* What a step does to names: a container keeps both, or has got one for both,
   or r has written one back among its labels. *)
NamesKept(r, c) ==
    /\ Exists(c) /\ label'[c] = label[c] /\ store'[c] = store[c]
    /\ con[r] = c => written'[r] = written[r]

NamesSet(c) == label'[c] = store'[c] /\ label'[c] \in Names

NameWritten(r, c) ==
    /\ con[r] = c /\ req[r].op \in {"create", "connect"}
    /\ label'[c] \in Names /\ written'[r] = label'[c]

LEMMA WriteBackEffect ==
    ASSUME ContainersInv, NEW r \in Requests, NEW n \in Names, NEW c \in Ids, NEW call,
           pc[r] \in {"update", "addNetwork", "setIndex", "deleteNet"},
           WriteBack(r, n) \/ NoWriteBack(r, call), UNCHANGED <<status, store>>, Exists(c)'
    PROVE  NamesKept(r, c) \/ NameWritten(r, c)
<1>1. con[r] \in Ids /\ req[r].op \in {"create", "connect"}
  BY Known, KnownOperation DEF Before, ConnectPCs
<1>2. TypeOK /\ Exists(c)
  BY DEF ContainersInv, Exists
<1> QED
  BY <1>1, <1>2 DEF WriteBack, NoWriteBack, NamesKept, NameWritten, TypeOK

LEMMA LabelEffect ==
    ASSUME ContainersInv, NEW r \in Requests, ReadTracked(r), Lifecycle(r), NEW c \in Ids, Exists(c)'
    PROVE  NamesKept(r, c) \/ NamesSet(c) \/ NameWritten(r, c)
<1> USE DEF Goto, Answer, requestVars, labelVars, containerVars, Exists, NamesKept, NamesSet
<1>a. TypeOK
  BY DEF ContainersInv
<1>1. CASE Receive(r)
  BY <1>1, <1>a DEF Receive, TypeOK
<1>2. CASE GetContainer(r)
  BY <1>2, <1>a DEF GetContainer, TypeOK
<1>3. CASE NameTaken(r)
  BY <1>3, <1>a DEF NameTaken, TypeOK
<1>4. CASE CheckStatus(r)
  BY <1>4, <1>a DEF CheckStatus, TypeOK
<1>5. CASE StopContainer(r)
  BY <1>5, <1>a DEF StopContainer, Found, Act, SetStatus, TypeOK
<1>6. CASE RemoveContainer(r)
  BY <1>6, <1>a DEF RemoveContainer, Found, TypeOK
<1>7. CASE RenameContainer(r)
  <2>1. req[r].arg \in Names
    BY <1>7, Known DEF RenameContainer
  <2> QED
    BY <1>7, <1>a, <2>1 DEF RenameContainer, Found, TypeOK
<1>8. CASE ContainerWait(r)
  BY <1>8, <1>a DEF ContainerWait, TypeOK
<1>9. CASE CreateContainer(r)
  <2>1. req[r].arg \in Names
    BY <1>9, Known DEF CreateContainer
  <2> QED
    BY <1>9, <1>a, <2>1 DEF CreateContainer, New, TypeOK
<1>10. CASE CollectContainer(r)
  <2>1. con[r] \in Ids
    BY <1>10, Known DEF CollectContainer, Before
  <2> QED
    BY <1>10, <1>a, <2>1 DEF CollectContainer, TypeOK
<1>11. CASE ReadMetadata(r)
  BY <1>11, <1>a DEF ReadMetadata, TypeOK
<1>12. CASE UpdateMetadata(r)
  BY <1>12, WriteBackEffect DEF UpdateMetadata, ReadTracked, WithRead
<1>13. CASE StartContainer(r) \/ KillContainer(r) \/ PauseContainer(r) \/ UnpauseContainer(r)
  <2>1. PICK l \in {"start", "kill", "pause", "unpause"}, from \in SUBSET Live, to \in SUBSET Live :
           ByReference(r, l, from, to)
    BY <1>13, ByReferenceSteps
  <2>2. UNCHANGED <<label, store, written>>
    BY <2>1 DEF ByReference, Act, SetStatus
  <2>3. Exists(c)
    <3>1. store'[c] # None
      BY <2>1, ByReferenceTypes, <1>a, ZenonT(30) DEF TypeOK
    <3> QED
      BY <3>1, <2>2, <1>a DEF TypeOK
  <2> QED
    BY <2>2, <2>3
<1>14. CASE ConnectStatus(r) \/ ReadNetworks(r) \/ GetNetworkIndex(r) \/ AttachNetwork(r)
  BY <1>14, <1>a DEF ConnectStatus, ReadNetworks, GetNetworkIndex, AttachNetwork, TypeOK
<1>15. CASE AddNetworkConfig(r)
  BY <1>15, WriteBackEffect DEF AddNetworkConfig, ReadTracked, WithRead
<1>16. CASE SetNetworkIndex(r)
  BY <1>16, WriteBackEffect DEF SetNetworkIndex, ReadTracked, WithRead
<1>17. CASE DeleteNet(r)
  BY <1>17, WriteBackEffect DEF DeleteNet, ReadTracked, WithRead
<1> QED
  BY <1>1, <1>2, <1>3, <1>4, <1>5, <1>6, <1>7, <1>8, <1>9, <1>10, <1>11, <1>12, <1>13, <1>14, <1>15, <1>16, <1>17
     DEF Lifecycle, ConnectStep

(* The places where a request may have a temporary directory. *)
WithDir == {"mountAll", "stat", "tar", "unmount", "removeAll"}

LEMMA LifecyclePlaces ==
    ASSUME ContainersInv, NEW r \in Requests, Lifecycle(r)
    PROVE  /\ pc[r] \notin WithDir /\ pc'[r] \notin WithDir
           /\ pc'[r] \in WithRead => ReadMetadata(r) \/ ConnectStep(r)
<1> USE DEF Goto, Answer, WithDir, WithRead
<1>a. pc \in [Requests -> Labels] /\ req[r].op \in Operations \cup {"none"}
  BY KnownOperation DEF ContainersInv, TypeOK
<1>1. CASE Receive(r)
  BY <1>1, <1>a DEF Receive, Operations
<1>2. CASE GetContainer(r)
  <2>1. AfterFind(req[r].op) \notin WithDir \cup WithRead
    BY <1>a DEF AfterFind, Operations
  <2> QED
    BY <1>2, <1>a, <2>1 DEF GetContainer
<1>3. CASE NameTaken(r)
  BY <1>3, <1>a DEF NameTaken, Operations
<1>4. CASE CheckStatus(r)
  BY <1>4, <1>a DEF CheckStatus, Operations
<1>5. CASE StopContainer(r)
  BY <1>5, <1>a DEF StopContainer, Operations
<1>6. CASE RemoveContainer(r)
  BY <1>6, <1>a DEF RemoveContainer, Operations
<1>7. CASE RenameContainer(r)
  BY <1>7, <1>a DEF RenameContainer, Operations
<1>8. CASE ContainerWait(r)
  BY <1>8, <1>a DEF ContainerWait, Operations
<1>9. CASE CreateContainer(r)
  BY <1>9, <1>a DEF CreateContainer, Operations
<1>10. CASE CollectContainer(r)
  BY <1>10, <1>a DEF CollectContainer, Operations
<1>11. CASE ReadMetadata(r)
  BY <1>11, <1>a DEF ReadMetadata, Operations
<1>12. CASE UpdateMetadata(r)
  BY <1>12, <1>a DEF UpdateMetadata, Operations
<1>13. CASE StartContainer(r) \/ KillContainer(r) \/ PauseContainer(r) \/ UnpauseContainer(r)
  BY <1>13, <1>a, ByReferenceSteps DEF ByReference
<1>14. CASE ConnectStep(r)
  BY <1>14, <1>a DEF ConnectStep, ConnectStatus, ReadNetworks, AddNetworkConfig, GetNetworkIndex,
                     SetNetworkIndex, AttachNetwork, DeleteNet, ConnectStep
<1> QED
  BY <1>1, <1>2, <1>3, <1>4, <1>5, <1>6, <1>7, <1>8, <1>9, <1>10, <1>11, <1>12, <1>13, <1>14 DEF Lifecycle

(* What a request has read are names. *)
LEMMA ReadOwn ==
    ASSUME ContainersInv, Labelled, NEW r \in Requests, Lifecycle(r), ReadTracked(r)
    PROVE  ReadTracked(r)'
<1> USE DEF Goto, Answer, requestVars, ReadTracked, WithRead
<1>a. TypeOK
  BY DEF ContainersInv
<1>b. pc'[r] \notin WithRead => ReadTracked(r)'
  OBVIOUS
<1>1. CASE ReadMetadata(r)
  <2>1. con[r] \in Ids
    BY <1>1, Known DEF ReadMetadata, Before
  <2> QED
    BY <1>1, <1>a, <2>1 DEF ReadMetadata, TypeOK, Labelled
<1>2. CASE ConnectStep(r)
  <2>1. con[r] \in Ids
    BY <1>2, Known DEF ConnectStep, ConnectStatus, ReadNetworks, AddNetworkConfig, GetNetworkIndex,
                       SetNetworkIndex, AttachNetwork, DeleteNet, Before
  <2>2. CASE ConnectStatus(r) \/ ReadNetworks(r)
    BY <2>1, <2>2, <1>a DEF ConnectStatus, ReadNetworks, TypeOK, Labelled
  <2>3. CASE AddNetworkConfig(r)
    BY <2>3, <1>a DEF AddNetworkConfig, TypeOK
  <2>4. CASE GetNetworkIndex(r)
    BY <2>1, <2>4, <1>a DEF GetNetworkIndex, TypeOK, Labelled
  <2>5. CASE SetNetworkIndex(r) \/ AttachNetwork(r) \/ DeleteNet(r)
    BY <2>5, <1>a DEF SetNetworkIndex, AttachNetwork, DeleteNet, TypeOK, labelVars
  <2> QED
    BY <1>2, <2>2, <2>3, <2>4, <2>5 DEF ConnectStep
<1> QED
  BY <1>b, <1>1, <1>2, LifecyclePlaces

(* The cleanup follows the temporary directory on every path. *)
LEMMA DirOwn ==
    ASSUME ContainersInv, NEW r \in Requests, ArchiveStep(r), Typed, DirTracked(r)
    PROVE  (dir \in [Requests -> Dirs])' /\ DirTracked(r)'
<1> USE DEF Goto, Answer, Typed, TypeOK, Dirs, DirTracked, requestVars
<1>a. con' = con /\ req' = req
  BY DEF ArchiveStep, IsReadOnlyMount, ReadTask, MakeTempDir, MountAll, Stat, RunTar, Unmount, RemoveAll
<1>b. ASSUME NEW a, dir[r] \in {"none", "mounted"}, Finish(r, a), UNCHANGED <<dir, intact>>
      PROVE  DirTracked(r)'
  BY <1>a, <1>b DEF Finish, AnswerThenClean, CleanThenAnswer, CleanupFrom
<1>1. CASE IsReadOnlyMount(r)
  BY <1>1, <1>a DEF IsReadOnlyMount, archiveVars
<1>2. CASE ReadTask(r)
  BY <1>2, <1>a DEF ReadTask, archiveVars
<1>3. CASE MakeTempDir(r)
  BY <1>3, <1>a DEF MakeTempDir
<1>4. CASE MountAll(r)
  BY <1>4, <1>a DEF MountAll, AnswerThenRemove
<1>5. CASE Stat(r)
  BY <1>5, <1>a, <1>b DEF Stat
<1>6. CASE RunTar(r)
  BY <1>6, <1>a, <1>b DEF RunTar
<1>7. CASE Unmount(r)
  BY <1>7, <1>a DEF Unmount
<1>8. CASE RemoveAll(r)
  BY <1>8, <1>a DEF RemoveAll
<1> QED
  BY <1>1, <1>2, <1>3, <1>4, <1>5, <1>6, <1>7, <1>8 DEF ArchiveStep

Mounted(r) == dir[r] = "mounted" \/ (dir[r] = "partly" /\ req[r].op = "getArchive")

(* Files go only from the container of a request that ends with it mounted. *)
LEMMA IntactEffect ==
    ASSUME ContainersInv, NEW r \in Requests, ArchiveStep(r), Typed, DirTracked(r)
    PROVE  /\ intact' \subseteq intact
           /\ \A c \in intact \ intact' : con'[r] = c /\ Mounted(r)' /\ pc'[r] = "done"
<1>1. CASE RemoveAll(r)
  BY <1>1 DEF RemoveAll, Typed, TypeOK, Answer, DirTracked, Mounted, requestVars
<1>2. CASE UNCHANGED intact
  BY <1>2
<1> QED
  BY <1>1, <1>2 DEF ArchiveStep, IsReadOnlyMount, ReadTask, MakeTempDir, MountAll, Stat, RunTar, Unmount, archiveVars

LEMMA InitTracked == ArchiveInit => TrackedInv
<1> SUFFICES ASSUME ArchiveInit PROVE TrackedInv
  OBVIOUS
<1>1. \A r \in Requests : pc[r] = "idle" /\ dir[r] = "none"
  BY DEF ArchiveInit, Init
<1>2. NameLostOnlyByWriteBack /\ SnapshotLostOnlyByFailure
  BY DEF ArchiveInit, Init, NameLostOnlyByWriteBack, SnapshotLostOnlyByFailure
<1>3. dir \in [Requests -> Dirs] /\ intact \subseteq Ids
  BY DEF ArchiveInit, Dirs
<1>4. Labelled
  BY DEF ArchiveInit, Init, Labelled, Exists
<1> QED
  BY <1>1, <1>2, <1>3, <1>4 DEF TrackedInv, ReadTracked, WithRead, DirTracked

LEMMA LifecycleTracked ==
    ASSUME ContainersInv, TrackedInv, NEW r \in Requests, Lifecycle(r), UNCHANGED archiveVars
    PROVE  TrackedInv'
<1>1. Untouched(r) /\ pc[r] # "done"
  BY LifecycleFrame DEF Typed, ContainersInv, TrackedInv
<1>4. ASSUME NEW s \in Requests PROVE ReadTracked(s)'
  BY <1>1, ReadOwn DEF TrackedInv, ReadTracked, Untouched
<1>5. ASSUME NEW s \in Requests PROVE DirTracked(s)'
  <2>1. UNCHANGED <<dir, intact>> /\ DirTracked(s)
    BY DEF archiveVars, TrackedInv
  <2>2. CASE s = r
    BY <2>1, <2>2, <1>1, LifecyclePlaces DEF DirTracked, WithDir
  <2>3. CASE s # r
    BY <2>1, <2>3, <1>1 DEF DirTracked, Untouched
  <2> QED
    BY <2>2, <2>3
<1>6. Labelled'
  BY LabelEffect DEF TrackedInv, Labelled, NamesKept, NamesSet, NameWritten
<1>8. NameLostOnlyByWriteBack'
  <2> SUFFICES ASSUME NEW c \in Ids, Exists(c)', label'[c] # store'[c]
               PROVE  \E q \in Requests : /\ req'[q].op \in {"create", "connect"} /\ con'[q] = c
                                          /\ written'[q] = label'[c]
    BY <1>6 DEF NameLostOnlyByWriteBack, Labelled
  <2>0. c # None
    BY ContainersAssumption
  <2>1. CASE NameWritten(r, c)
    BY <2>0, <2>1, ConStays DEF NameWritten
  <2>2. CASE NamesKept(r, c)
    <3>1. PICK q \in Requests : /\ req[q].op \in {"create", "connect"} /\ con[q] = c
                                /\ written[q] = label[c]
      BY <2>2 DEF TrackedInv, NameLostOnlyByWriteBack, NamesKept
    <3>2. CASE q = r
      BY <2>0, <2>2, <3>1, <3>2, ConStays DEF NamesKept
    <3>3. CASE q # r
      BY <2>2, <3>1, <3>3, <1>1 DEF Untouched, NamesKept
    <3> QED
      BY <3>2, <3>3
  <2> QED
    BY <2>1, <2>2, LabelEffect DEF NamesSet, TrackedInv
<1>7. SnapshotLostOnlyByFailure'
  <2> SUFFICES ASSUME NEW c \in Ids \ intact
               PROVE  \E q \in Requests : con'[q] = c /\ Mounted(q)' /\ pc'[q] = "done"
    BY DEF SnapshotLostOnlyByFailure, Mounted, archiveVars
  <2> QED
    BY <1>1 DEF TrackedInv, SnapshotLostOnlyByFailure, Mounted, Untouched
<1> QED
  BY <1>4, <1>5, <1>6, <1>7, <1>8 DEF TrackedInv, archiveVars

LEMMA ArchiveTracked ==
    ASSUME ContainersInv, TrackedInv, NEW r \in Requests, ArchiveStep(r)
    PROVE  TrackedInv'
<1>a. Typed
  BY DEF Typed, ContainersInv, TrackedInv
<1>1. Untouched(r) /\ pc[r] # "done"
  BY <1>a, ArchiveFrame
<1>2. UNCHANGED containerVars /\ UNCHANGED <<req, read, again, written, con>>
  BY DEF ArchiveStep, IsReadOnlyMount, ReadTask, MakeTempDir, MountAll, Stat, RunTar, Unmount, RemoveAll,
         requestVars, labelVars
<1>3. pc'[r] \notin WithRead
  BY <1>a DEF Typed, TypeOK, ArchiveStep, IsReadOnlyMount, ReadTask, MakeTempDir, MountAll, Stat, RunTar,
     Unmount, RemoveAll, Goto, Answer, Finish, AnswerThenClean, AnswerThenRemove, CleanThenAnswer, CleanupFrom,
     WithRead
<1>4. ASSUME NEW s \in Requests PROVE ReadTracked(s)'
  BY <1>1, <1>2, <1>3 DEF TrackedInv, ReadTracked, WithRead, Untouched
<1>5. intact' \subseteq intact /\ intact \subseteq Ids
  BY <1>a, IntactEffect DEF TrackedInv
<1>6. ASSUME NEW s \in Requests PROVE DirTracked(s)'
  <2>1. CASE s = r
    BY <2>1, <1>a, DirOwn DEF TrackedInv
  <2>2. CASE s # r
    BY <2>2, <1>1, <1>2, <1>5 DEF DirTracked, Untouched, TrackedInv
  <2> QED
    BY <2>1, <2>2
<1>7. Labelled' /\ NameLostOnlyByWriteBack'
  BY <1>2 DEF TrackedInv, Labelled, NameLostOnlyByWriteBack, containerVars, Exists
<1>8. SnapshotLostOnlyByFailure'
  <2> SUFFICES ASSUME NEW c \in Ids \ intact'
               PROVE  \E q \in Requests : con'[q] = c /\ Mounted(q)' /\ pc'[q] = "done"
    BY DEF SnapshotLostOnlyByFailure, Mounted
  <2>1. CASE c \in intact
    BY <2>1, <1>a, IntactEffect DEF TrackedInv
  <2>2. CASE c \notin intact
    BY <2>2, <1>1, <1>2 DEF TrackedInv, SnapshotLostOnlyByFailure, Mounted, Untouched
  <2> QED
    BY <2>1, <2>2
<1> QED
  BY <1>a, <1>4, <1>5, <1>6, <1>7, <1>8, DirOwn DEF TrackedInv

LEMMA NextTracked == ContainersInv /\ TrackedInv /\ [ArchiveNext]_allVars => TrackedInv'
<1> SUFFICES ASSUME ContainersInv, TrackedInv, [ArchiveNext]_allVars PROVE TrackedInv'
  OBVIOUS
<1>1. CASE UNCHANGED allVars
  BY <1>1 DEF allVars, vars, labelVars, archiveVars, TrackedInv, ReadTracked, DirTracked, Labelled,
              NameLostOnlyByWriteBack, SnapshotLostOnlyByFailure, Exists
<1>2. ASSUME NEW c \in Ids, Exit(c), UNCHANGED archiveVars PROVE TrackedInv'
  <2>1. /\ UNCHANGED <<pc, req, resp, con, acted, read, again, written, label, store, dir, intact>>
        /\ status[c] = "running" /\ status' = [status EXCEPT ![c] = "stopped"]
    BY <1>2 DEF Exit, SetStatus, archiveVars, requestVars, labelVars
  <2>2. \A d \in Ids : Exists(d)' <=> Exists(d)
    BY <2>1 DEF ContainersInv, TypeOK, Exists
  <2>3. Labelled' /\ NameLostOnlyByWriteBack' /\ SnapshotLostOnlyByFailure'
    BY <2>1, <2>2 DEF TrackedInv, Labelled, NameLostOnlyByWriteBack, SnapshotLostOnlyByFailure
  <2>4. ASSUME NEW s \in Requests PROVE (ReadTracked(s) /\ DirTracked(s))'
    BY <2>1 DEF TrackedInv, ReadTracked, DirTracked
  <2> QED
    BY <2>1, <2>3, <2>4 DEF TrackedInv
<1> QED
  BY <1>1, <1>2, LifecycleTracked, ArchiveTracked DEF ArchiveNext, Next

LEMMA TrackedSafe == ArchiveSpec => [](ContainersInv /\ TrackedInv)
BY InitContainers, NextContainers, InitTracked, NextTracked, PTL DEF ArchiveSpec

(* A container is found by the name nerdctl has for it, unless a Create or a
   Connect has written back labels it read before a Rename. *)
THEOREM NameLostOnlyByWriteBackHolds == ArchiveSpec => []NameLostOnlyByWriteBack
<1>1. TrackedInv => NameLostOnlyByWriteBack
  BY DEF TrackedInv
<1> QED
  BY <1>1, TrackedSafe, PTL

(* A copy that has ended leaves no temporary directory but where it was still
   mounted, or the mount of a putArchive failed. *)
THEOREM TempDirLeftOnlyByFailureHolds == ArchiveSpec => []TempDirLeftOnlyByFailure
<1>1. TrackedInv => TempDirLeftOnlyByFailure
  BY DEF TrackedInv, DirTracked, TempDirLeftOnlyByFailure
<1> QED
  BY <1>1, TrackedSafe, PTL

(* A container loses files only to a copy whose Unmount failed, or whose mounts
   failed part-way. *)
THEOREM SnapshotLostOnlyByFailureHolds == ArchiveSpec => []SnapshotLostOnlyByFailure
<1>1. TrackedInv => SnapshotLostOnlyByFailure
  BY DEF TrackedInv
<1> QED
  BY <1>1, TrackedSafe, PTL
=============================================================================
