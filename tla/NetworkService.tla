--------------------------- MODULE NetworkService ---------------------------
(***************************************************************************)
(* Create and Remove of the network service (internal/service/network) as  *)
(* concurrent HTTP requests run them: the lookup that is made before any   *)
(* lock is taken, the reference-counted table of per-name mutexes, the     *)
(* nerdctl calls made under a mutex, the bridge driver's post-create work  *)
(* (custom bridge name, inter-container DROP rule) and the deferred        *)
(* cleanup of a Create whose post-create work fails.                       *)
(*                                                                         *)
(* A request is one handler goroutine and runs once.  The mutex a request  *)
(* allocates in ensureLock is named after the request: a request allocates *)
(* at most one.  A network's ID is a hash of its name, so a name stands    *)
(* for its ID as well; IdPrefix holds the pairs <<s, n>> of a name s that  *)
(* happens to be a prefix of the ID of network n.  The bridge nerdctl      *)
(* gives network n ("br-" and its ID) is written n, and a client may ask   *)
(* for that name too: Bridges may hold elements of Names.                  *)
(***************************************************************************)
EXTENDS Integers, FiniteSets

CONSTANTS
    Requests,    \* the create and remove requests the daemon receives
    Names,       \* network names
    Bridges,     \* bridge names a client may ask for
    IdPrefix,    \* <<s, n>>: the string s is a prefix of the ID of network n
    Predefined,  \* networks without a config file, present from the start
    MayFail,     \* the calls into nerdctl, the file system and iptables that may fail
    None         \* no mutex, no network, no bridge name asked for

Calls == {"FilterNetworks", "createOptions", "UsedNetworkInfo", "CreateNetwork", "NetworkID",
          "setBridgeName", "AddRule", "HandleRemove", "RemoveNetwork"}

ASSUME ConstantsAssumption ==
    /\ IsFiniteSet(Requests)
    /\ None \notin Requests \cup Names \cup Bridges
    /\ IdPrefix \subseteq Names \X Names
    /\ Predefined \subseteq Names
    /\ MayFail \subseteq Calls

VARIABLES
    pc,              \* where each request is
    req,             \* what each request asks for
    net,             \* the network config each request looked up
    netName,         \* the name of the network each request works on
    iface,           \* the bridge name each request has read
    resp,            \* the answer each request has decided on
    mutex,           \* the mutex ensureLock returned to each request
    networkMutexes,  \* service.networkMutexes: the mutex of each name in the table
    activeReqs,      \* mutexCounter.activeReqs of each name
    holder,          \* the request that has locked each mutex
    networks,        \* the CNI config files
    dropRules,       \* bridges with a DROP rule in FINCH-ISOLATE-CHAIN
    dirLock,         \* the request that holds the flock on the config directory
    used             \* networks used by running containers

lockVars  == <<mutex, networkMutexes, activeReqs, holder>>
storeVars == <<networks, dropRules, dirLock>>
localVars == <<req, net, netName, iface>>
vars == <<pc, resp, localVars, lockVars, storeVars, used>>

Ops == [op : {"create", "remove"}, name : Names, bridge : Bridges \cup {None}, icc : BOOLEAN]

(* What a client may ask for: a Remove carries a name (or ID) only. *)
Asked == {q \in Ops : q.op = "remove" => q.bridge = None /\ q.icc}

(* icc = FALSE stands for the Finch ICC label; by is the request that created it. *)
NetworkConfig == [bridge : Names \cup Bridges, icc : BOOLEAN, by : Requests \cup {None}]

NoConfig == [bridge |-> None, icc |-> TRUE, by |-> None]

Existing == {n \in Names : networks[n] # NoConfig}

(***************************************************************************)
(* Where a request stands with respect to its name's mutex.                *)
(***************************************************************************)
BeforeLock == {"idle", "c_lookup", "r_lookup", "r_used", "ensure"}
Creating   == {"c_check", "c_write", "c_bridge", "c_bridge_write", "c_icc", "c_rule"}
Removing   == {"r_labels", "r_rule", "r_remove"}
Cleaning   == {"cleanup", "cleanup_lock"}
PCs == BeforeLock \cup Creating \cup Removing \cup Cleaning
          \cup {"lock", "release", "unlock", "done"}

(* Between netMu.Lock() and releaseLock: CreateNetwork and RemoveNetwork happen here. *)
InCritical(r) == pc[r] \in Creating \cup Removing \cup Cleaning \cup {"release"}

Init ==
    /\ pc = [r \in Requests |-> "idle"]
    /\ req \in [Requests -> Asked]
    /\ net = [r \in Requests |-> NoConfig]
    /\ netName = [r \in Requests |-> None]
    /\ iface = [r \in Requests |-> None]
    /\ resp = [r \in Requests |-> "none"]
    /\ mutex = [r \in Requests |-> None]
    /\ networkMutexes = [n \in Names |-> None]
    /\ activeReqs = [n \in Names |-> 0]
    /\ holder = [r \in Requests |-> None]
    /\ \E old \in SUBSET Names : \E closed \in SUBSET (old \ Predefined) :
          /\ networks = [n \in Names |->
                 IF n \in old \cup Predefined
                 THEN [bridge |-> n, icc |-> n \notin closed, by |-> None] ELSE NoConfig]
          /\ dropRules = closed
    /\ dirLock = None
    /\ used = {}

Goto(r, l) == pc' = [pc EXCEPT ![r] = l]

Answer(r, a) == resp' = [resp EXCEPT ![r] = a]

Fails(call) == call \in MayFail

(* getNetwork: the networks whose name is id or whose ID starts with it. *)
Matching(id) == {n \in Existing : n = id \/ <<id, n>> \in IdPrefix}

-----------------------------------------------------------------------------
(* The handlers decode the request and call the service. *)
Receive(r) ==
    /\ pc[r] = "idle"
    /\ Goto(r, IF req[r].op = "create" THEN "c_lookup" ELSE "r_lookup")
    /\ UNCHANGED <<resp, localVars, lockVars, storeVars, used>>

(* Create: exactly one match is answered with a warning; no match, several
   matches and a failed listing all go on to the options, which the driver may
   refuse, and to the creation. *)
CreateLookup(r) ==
    /\ pc[r] = "c_lookup"
    /\ \/ \E n \in Names :
             /\ Matching(req[r].name) = {n}
             /\ net' = [net EXCEPT ![r] = networks[n]]
             /\ netName' = [netName EXCEPT ![r] = n]
             /\ Goto(r, "done")
             /\ Answer(r, "exists")
       \/ /\ \/ \A n \in Names : Matching(req[r].name) # {n}
             \/ Fails("FilterNetworks")
          /\ \/ /\ netName' = [netName EXCEPT ![r] = req[r].name]
                /\ Goto(r, "ensure")
                /\ UNCHANGED resp
             \/ /\ Fails("createOptions")
                /\ Goto(r, "done")
                /\ Answer(r, "error")
                /\ UNCHANGED netName
          /\ UNCHANGED net
    /\ UNCHANGED <<req, iface, lockVars, storeVars, used>>

(* Remove: getNetwork must find exactly one network. *)
RemoveLookup(r) ==
    /\ pc[r] = "r_lookup"
    /\ \/ \E n \in Names :
             /\ Matching(req[r].name) = {n}
             /\ net' = [net EXCEPT ![r] = networks[n]]
             /\ netName' = [netName EXCEPT ![r] = n]
             /\ Goto(r, "r_used")
             /\ UNCHANGED resp
       \/ /\ \/ \A n \in Names : Matching(req[r].name) # {n}
             \/ Fails("FilterNetworks")
          /\ Goto(r, "done")
          /\ Answer(r, "error")
          /\ UNCHANGED <<net, netName>>
    /\ UNCHANGED <<req, iface, lockVars, storeVars, used>>

(* Remove: the network must be neither in use nor predefined. *)
RemoveUsed(r) ==
    /\ pc[r] = "r_used"
    /\ \/ /\ netName[r] \notin used \cup Predefined
          /\ Goto(r, "ensure")
          /\ UNCHANGED resp
       \/ /\ \/ netName[r] \in used \cup Predefined
             \/ Fails("UsedNetworkInfo")
          /\ Goto(r, "done")
          /\ Answer(r, "error")
    /\ UNCHANGED <<localVars, lockVars, storeVars, used>>

-----------------------------------------------------------------------------
(* Mutant: a request that finds an entry does not count itself in. *)
EnsureLockUncounted(r, n) ==
    /\ UNCHANGED holder
    /\ \/ /\ networkMutexes[n] # None
          /\ mutex' = [mutex EXCEPT ![r] = networkMutexes[n]]
          /\ UNCHANGED <<networkMutexes, activeReqs>>
       \/ /\ networkMutexes[n] = None
          /\ networkMutexes' = [networkMutexes EXCEPT ![n] = r]
          /\ activeReqs' = [activeReqs EXCEPT ![n] = 1]
          /\ mutex' = [mutex EXCEPT ![r] = r]

(* Mutant: the lookup in the table is lost and every request gets a mutex of its own. *)
EnsureLockFresh(r, n) ==
    /\ networkMutexes' = [networkMutexes EXCEPT ![n] = r]
    /\ activeReqs' = [activeReqs EXCEPT ![n] = @ + 1]
    /\ mutex' = [mutex EXCEPT ![r] = r]
    /\ UNCHANGED holder

(* ensureLock, under service.mu: count in the name's entry or add one. *)
EnsureLock(r, n) ==
    /\ UNCHANGED holder
    /\ \/ /\ networkMutexes[n] # None
          /\ activeReqs' = [activeReqs EXCEPT ![n] = @ + 1]
          /\ mutex' = [mutex EXCEPT ![r] = networkMutexes[n]]
          /\ UNCHANGED networkMutexes
       \/ /\ networkMutexes[n] = None
          /\ networkMutexes' = [networkMutexes EXCEPT ![n] = r]
          /\ activeReqs' = [activeReqs EXCEPT ![n] = 1]
          /\ mutex' = [mutex EXCEPT ![r] = r]

Ensure(r) ==
    /\ pc[r] = "ensure"
    /\ EnsureLock(r, netName[r])
    /\ Goto(r, "lock")
    /\ UNCHANGED <<resp, localVars, storeVars, used>>

(* Mutant: the mutex is looked up and never locked. *)
LockNothing(r) ==
    /\ pc[r] \in {"lock", "cleanup_lock"}
    /\ Goto(r, IF pc[r] = "lock" /\ req[r].op = "create" THEN "c_check" ELSE "r_labels")
    /\ UNCHANGED <<resp, localVars, lockVars, storeVars, used>>

(* netMu.Lock(): sync.Mutex is not reentrant, so a request that waits at
   "cleanup_lock" for the mutex it holds itself can never take this step. *)
Lock(r) ==
    /\ pc[r] \in {"lock", "cleanup_lock"}
    /\ holder[mutex[r]] = None
    /\ holder' = [holder EXCEPT ![mutex[r]] = r]
    /\ Goto(r, IF pc[r] = "lock" /\ req[r].op = "create" THEN "c_check" ELSE "r_labels")
    /\ UNCHANGED <<resp, localVars, mutex, networkMutexes, activeReqs, storeVars, used>>

(* Mutant: an off-by-one keeps the entry of a name nobody refers to. *)
ReleaseLockKeeps(r) ==
    LET n == netName[r] IN
    /\ pc[r] = "release"
    /\ networkMutexes' = [networkMutexes EXCEPT ![n] = IF activeReqs[n] - 1 < 0 THEN None ELSE @]
    /\ activeReqs' = [activeReqs EXCEPT ![n] = IF networkMutexes[n] = None THEN @ ELSE @ - 1]
    /\ Goto(r, "unlock")
    /\ UNCHANGED <<resp, localVars, mutex, holder, storeVars, used>>

(* Mutant: the counter goes down by two. *)
ReleaseLockTwice(r) ==
    LET n == netName[r] IN
    /\ pc[r] = "release"
    /\ networkMutexes' = [networkMutexes EXCEPT ![n] = IF activeReqs[n] - 2 < 1 THEN None ELSE @]
    /\ activeReqs' = [activeReqs EXCEPT ![n] = IF networkMutexes[n] = None THEN @ ELSE @ - 2]
    /\ Goto(r, "unlock")
    /\ UNCHANGED <<resp, localVars, mutex, holder, storeVars, used>>

(* releaseLock, under service.mu.  It is deferred after netMu.Unlock and
   therefore runs before it: the entry may go while the mutex is still held. *)
ReleaseLock(r) ==
    LET n == netName[r] IN
    /\ pc[r] = "release"
    /\ networkMutexes' = [networkMutexes EXCEPT ![n] = IF activeReqs[n] - 1 < 1 THEN None ELSE @]
    /\ activeReqs' = [activeReqs EXCEPT ![n] = IF networkMutexes[n] = None THEN @ ELSE @ - 1]
    /\ Goto(r, "unlock")
    /\ UNCHANGED <<resp, localVars, mutex, holder, storeVars, used>>

(* Mutant: a request that failed returns without unlocking. *)
UnlockOnSuccess(r) ==
    /\ pc[r] = "unlock"
    /\ holder' = [holder EXCEPT ![mutex[r]] = IF resp[r] = "error" THEN @ ELSE None]
    /\ Goto(r, "done")
    /\ UNCHANGED <<resp, localVars, mutex, networkMutexes, activeReqs, storeVars, used>>

(* netMu.Unlock(), deferred before releaseLock and so run after it. *)
Unlock(r) ==
    /\ pc[r] = "unlock"
    /\ holder' = [holder EXCEPT ![mutex[r]] = None]
    /\ Goto(r, "done")
    /\ UNCHANGED <<resp, localVars, mutex, networkMutexes, activeReqs, storeVars, used>>

-----------------------------------------------------------------------------
(* nerdctl's CreateNetwork is not assumed atomic: it looks for the name ... *)
CreateCheck(r) ==
    /\ pc[r] = "c_check"
    /\ \/ /\ networks[netName[r]] = NoConfig
          /\ Goto(r, "c_write")
          /\ UNCHANGED resp
       \/ /\ networks[netName[r]] # NoConfig \/ Fails("CreateNetwork")
          /\ Goto(r, "release")
          /\ Answer(r, "error")
    /\ UNCHANGED <<localVars, lockVars, storeVars, used>>

(* ... and then writes the config file.  Labels come from HandleCreateOptions;
   a network returned without an ID is left behind with an error. *)
CreateWrite(r) ==
    /\ pc[r] = "c_write"
    /\ networks' = [networks EXCEPT ![netName[r]] =
                        [bridge |-> netName[r], icc |-> req[r].icc, by |-> r]]
    /\ \/ /\ req[r].bridge # None
          /\ Goto(r, "c_bridge")
          /\ UNCHANGED resp
       \/ /\ req[r].bridge = None /\ ~req[r].icc
          /\ Goto(r, "c_icc")
          /\ UNCHANGED resp
       \/ /\ req[r].bridge = None /\ req[r].icc
          /\ Goto(r, "release")
          /\ Answer(r, "created")
       \/ /\ Fails("NetworkID")
          /\ Goto(r, "release")
          /\ Answer(r, "error")
    /\ UNCHANGED <<localVars, lockVars, dropRules, dirLock, used>>

(* getNetworkByBridgeName: some network's bridge plugin has the name. *)
BridgeTaken(b) == \E n \in Existing : networks[n].bridge = b

(* Mutant: the check is made without the flock. *)
SetBridgeCheckUnlocked(r) ==
    /\ pc[r] = "c_bridge"
    /\ \/ /\ ~BridgeTaken(req[r].bridge)
          /\ Goto(r, "c_bridge_write")
       \/ /\ BridgeTaken(req[r].bridge)
          /\ Goto(r, "cleanup")
    /\ UNCHANGED <<resp, localVars, lockVars, storeVars, used>>

(* setBridgeName under the flock on the config directory: refuse a name that
   some network's bridge plugin has, ... *)
SetBridgeCheck(r) ==
    /\ pc[r] = "c_bridge"
    /\ dirLock = None
    /\ \/ /\ ~BridgeTaken(req[r].bridge)
          /\ dirLock' = r
          /\ Goto(r, "c_bridge_write")
       \/ /\ BridgeTaken(req[r].bridge)
          /\ Goto(r, "cleanup")
          /\ UNCHANGED dirLock
    /\ UNCHANGED <<resp, localVars, lockVars, networks, dropRules, used>>

(* ... then rewrite this network's config file and drop the flock. *)
SetBridgeWrite(r) ==
    /\ pc[r] = "c_bridge_write"
    /\ dirLock' = None
    /\ \/ /\ networks[netName[r]] # NoConfig
          /\ networks' = [networks EXCEPT ![netName[r]] =
                              [bridge |-> req[r].bridge, icc |-> @.icc, by |-> @.by]]
          /\ iface' = [iface EXCEPT ![r] = req[r].bridge]
          /\ \/ /\ req[r].icc
                /\ Goto(r, "release")
                /\ Answer(r, "created")
             \/ /\ ~req[r].icc
                /\ Goto(r, "c_rule")
                /\ UNCHANGED resp
       \/ /\ networks[netName[r]] = NoConfig \/ Fails("setBridgeName")
          /\ Goto(r, "cleanup")
          /\ UNCHANGED <<networks, iface, resp>>
    /\ UNCHANGED <<req, net, netName, lockVars, dropRules, used>>

(* getBridgeName, when ICC is disabled and no bridge name was asked for. *)
GetBridgeName(r) ==
    /\ pc[r] = "c_icc"
    /\ dirLock = None
    /\ \/ /\ networks[netName[r]] # NoConfig
          /\ iface' = [iface EXCEPT ![r] = networks[netName[r]].bridge]
          /\ Goto(r, "c_rule")
       \/ /\ networks[netName[r]] = NoConfig
          /\ Goto(r, "cleanup")
          /\ UNCHANGED iface
    /\ UNCHANGED <<resp, req, net, netName, lockVars, storeVars, used>>

(* iptables AddRule: set up the chain and put the rule on top of it, unless it
   is there already. *)
AddRule(b) == dropRules' = dropRules \cup {b}

(* iptables DelRule; a rule that is not there is no error. *)
DelRule(b) == dropRules' = dropRules \ {b}

(* addICCDropRule.  An insertion that fails is followed by cleanupRules, which
   deletes the rule even if it was there before; with two protocols the rule may
   stay for one of them when adding it for the other fails. *)
AddICCDropRule(r) ==
    /\ pc[r] = "c_rule"
    /\ \/ /\ AddRule(iface[r])
          /\ Goto(r, "release")
          /\ Answer(r, "created")
       \/ /\ Fails("AddRule")
          /\ AddRule(iface[r]) \/ DelRule(iface[r]) \/ UNCHANGED dropRules
          /\ Goto(r, "cleanup")
          /\ UNCHANGED resp
    /\ UNCHANGED <<localVars, lockVars, networks, dirLock, used>>

(* The deferred cleanup calls Remove for this very name while the mutex is
   held.  Remove gives up without a lock when its lookup or its in-use check
   fails; otherwise it counts in once more and waits for the mutex. *)
Cleanup(r) ==
    /\ pc[r] = "cleanup"
    /\ Answer(r, "error")
    /\ \/ /\ Matching(req[r].name) = {netName[r]}
          /\ netName[r] \notin used \cup Predefined
          /\ net' = [net EXCEPT ![r] = networks[netName[r]]]
          /\ EnsureLock(r, netName[r])
          /\ Goto(r, "cleanup_lock")
       \/ /\ \/ Matching(req[r].name) # {netName[r]}
             \/ netName[r] \in used \cup Predefined
             \/ Fails("FilterNetworks") \/ Fails("UsedNetworkInfo")
          /\ Goto(r, "release")
          /\ UNCHANGED <<net, lockVars>>
    /\ UNCHANGED <<req, netName, iface, storeVars, used>>

-----------------------------------------------------------------------------
(* Mutant: the labels are not looked at. *)
RemoveLabelsIgnored(r) ==
    /\ pc[r] = "r_labels"
    /\ Goto(r, "r_remove")
    /\ UNCHANGED <<resp, localVars, lockVars, storeVars, used>>

(* handleNetworkLabels acts on the labels of the config that was looked up
   before the lock, and reads the bridge name from the current file. *)
RemoveLabels(r) ==
    /\ pc[r] = "r_labels"
    /\ \/ /\ net[r].icc
          /\ Goto(r, "r_remove")
          /\ UNCHANGED <<iface, resp>>
       \/ /\ ~net[r].icc /\ dirLock = None
          /\ networks[netName[r]] # NoConfig
          /\ iface' = [iface EXCEPT ![r] = networks[netName[r]].bridge]
          /\ Goto(r, "r_rule")
          /\ UNCHANGED resp
       \/ /\ ~net[r].icc /\ dirLock = None
          /\ networks[netName[r]] = NoConfig
          /\ Goto(r, "release")
          /\ Answer(r, "error")
          /\ UNCHANGED iface
    /\ UNCHANGED <<req, net, netName, lockVars, storeVars, used>>

(* Mutant: the whole chain is flushed. *)
RemoveICCDropRuleFlush(r) ==
    /\ pc[r] = "r_rule"
    /\ dropRules' = {}
    /\ Goto(r, "r_remove")
    /\ UNCHANGED <<resp, localVars, lockVars, networks, dirLock, used>>

(* removeICCDropRule; with two protocols a failure may come after one deletion. *)
RemoveICCDropRule(r) ==
    /\ pc[r] = "r_rule"
    /\ \/ /\ DelRule(iface[r])
          /\ Goto(r, "r_remove")
          /\ UNCHANGED resp
       \/ /\ Fails("HandleRemove")
          /\ Goto(r, "release")
          /\ Answer(r, "error")
          /\ DelRule(iface[r]) \/ UNCHANGED dropRules
    /\ UNCHANGED <<localVars, lockVars, networks, dirLock, used>>

(* nerdctl's RemoveNetwork deletes the config file; a missing file is no error. *)
RemoveNetwork(r) ==
    /\ pc[r] = "r_remove"
    /\ Goto(r, "release")
    /\ \/ /\ networks' = [networks EXCEPT ![netName[r]] = NoConfig]
          /\ Answer(r, "removed")
       \/ /\ Fails("RemoveNetwork")
          /\ Answer(r, "error")
          /\ UNCHANGED networks
    /\ UNCHANGED <<localVars, lockVars, dropRules, dirLock, used>>

-----------------------------------------------------------------------------
(* Containers join and leave networks without any of these locks. *)
Attach(n) ==
    /\ n \in Existing \ used
    /\ used' = used \cup {n}
    /\ UNCHANGED <<pc, resp, localVars, lockVars, storeVars>>

Detach(n) ==
    /\ n \in used
    /\ used' = used \ {n}
    /\ UNCHANGED <<pc, resp, localVars, lockVars, storeVars>>

(* Every step of the goroutine that serves r. *)
Step(r) ==
    \/ Receive(r) \/ CreateLookup(r) \/ RemoveLookup(r) \/ RemoveUsed(r)
    \/ Ensure(r) \/ Lock(r) \/ ReleaseLock(r) \/ Unlock(r)
    \/ CreateCheck(r) \/ CreateWrite(r) \/ SetBridgeCheck(r) \/ SetBridgeWrite(r)
    \/ GetBridgeName(r) \/ AddICCDropRule(r) \/ Cleanup(r)
    \/ RemoveLabels(r) \/ RemoveICCDropRule(r) \/ RemoveNetwork(r)

Next ==
    \/ \E r \in Requests : Step(r)
    \/ \E n \in Names : Attach(n) \/ Detach(n)

Spec == Init /\ [][Next]_vars

(* A goroutine that can run does run; requests are finitely many, so nobody
   is passed over at a mutex or at the flock forever. *)
Fairness == \A r \in Requests : WF_vars(Step(r))

FairSpec == Spec /\ Fairness

-----------------------------------------------------------------------------
(* Every variable has its type. *)
TypeOK ==
    /\ pc \in [Requests -> PCs]
    /\ req \in [Requests -> Ops]
    /\ net \in [Requests -> NetworkConfig \cup {NoConfig}]
    /\ netName \in [Requests -> Names \cup {None}]
    /\ iface \in [Requests -> Names \cup Bridges \cup {None}]
    /\ resp \in [Requests -> {"none", "exists", "created", "removed", "error"}]
    /\ mutex \in [Requests -> Requests \cup {None}]
    /\ networkMutexes \in [Names -> Requests \cup {None}]
    /\ activeReqs \in [Names -> Nat]
    /\ holder \in [Requests -> Requests \cup {None}]
    /\ networks \in [Names -> NetworkConfig \cup {NoConfig}]
    /\ dropRules \subseteq Names \cup Bridges
    /\ dirLock \in Requests \cup {None}
    /\ used \subseteq Names

(* remove.go:36, "RemoveNetwork and CreateNetwork operations on the same
   network ID are mutually exclusive": two requests are never both between
   netMu.Lock() and releaseLock for the same name, although the table drops a
   name's mutex before that mutex is unlocked. *)
MutualExclusion ==
    \A r, s \in Requests :
        InCritical(r) /\ InCritical(s) /\ netName[r] = netName[s] => r = s

(* Between ensureLock and releaseLock. *)
Referring(r) == pc[r] = "lock" \/ InCritical(r)

(* The references to a name's entry: one of every request between ensureLock
   and releaseLock, and one more of a request whose cleanup called ensureLock. *)
Refs(n) ==
    {x \in Requests \X {1, 2} :
        /\ netName[x[1]] = n
        /\ \/ x[2] = 1 /\ Referring(x[1])
           \/ x[2] = 2 /\ pc[x[1]] = "cleanup_lock"}

(* ensureLock and releaseLock keep activeReqs exact, and the table holds an
   entry exactly for the names that some request refers to: it neither leaks
   an entry nor drops one that is still needed. *)
RefCountExact ==
    \A n \in Names :
        /\ activeReqs[n] = Cardinality(Refs(n))
        /\ networkMutexes[n] # None <=> Refs(n) # {}

(* The bridge a Create gives its network: the one asked for, or nerdctl's. *)
WantedBridge(r) == IF req[r].bridge = None THEN netName[r] ELSE req[r].bridge

(* A client has asked for the bridge name b that nerdctl generates for a network.
   setBridgeName looks for other networks with the name, but nerdctl's creation
   of that network does not. *)
Imitated(b) == b \in Names /\ \E r \in Requests : req[r].bridge = b

(* What Create or Remove is about to answer is true when it leaves the
   critical section: the network is the one this request asked for, with its
   bridge and its DROP rule (unless the bridge may be another network's too), or
   it is gone. *)
AnswerTruthful ==
    \A r \in Requests : pc[r] = "release" =>
        /\ resp[r] = "created" =>
              /\ networks[netName[r]] = [bridge |-> WantedBridge(r), icc |-> req[r].icc, by |-> r]
              /\ ~req[r].icc => WantedBridge(r) \in dropRules \/ Imitated(WantedBridge(r))
        /\ resp[r] = "removed" => networks[netName[r]] = NoConfig

(* setBridgeName: no two networks have the same bridge, except one that got the
   name nerdctl generates for it and one whose client asked for that name. *)
UniqueBridgeNames ==
    \A m, n \in Existing :
        networks[m].bridge = networks[n].bridge => m = n \/ networks[m].bridge \in {m, n}

(* b is the bridge of a network whose label records the DROP rule, and whose
   Create is not about to give it another bridge. *)
Owned(b) == \E n \in Existing :
    /\ networks[n].bridge = b /\ ~networks[n].icc
    /\ \A r \in Requests : netName[r] = n => pc[r] \notin {"c_bridge", "c_bridge_write"}

(* A DROP rule outlives the network it was made for in one way only: a Remove
   that deletes a network created after the Remove looked the name up.  (The rule
   of a bridge that two networks have goes and comes with either of them.) *)
OrphanOnlyByStaleRemove ==
    [][\A b \in dropRules' :
          \/ Owned(b)'
          \/ b \in dropRules /\ ~Owned(b)
          \/ Imitated(b)
          \/ \E r \in Requests : /\ pc[r] = "r_remove"
                                 /\ net[r].by # networks[netName[r]].by
                                 /\ networks[netName[r]].bridge = b]_vars

(* A DROP rule is deleted only for the current bridge of a network that is being
   removed, although the name is read before the rule is deleted, or of one whose
   Create fails to insert it; and then it is no other network's bridge, unless a
   client asked for a generated name. *)
DropOnlyOwnRule ==
    [][\A b \in dropRules \ dropRules' :
          \E r \in Requests :
              /\ pc[r] \in {"r_rule", "c_rule"}
              /\ networks[netName[r]].bridge = b
              /\ \A n \in Existing : networks[n].bridge = b => n = netName[r] \/ Imitated(b)]_vars

(* The request stays in a Create's cleanup for good. *)
SelfDeadlocked(r) == pc[r] = "cleanup_lock"

(* Every request is answered, except one whose cleanup waits for its own
   mutex and the ones that wait behind it on that mutex. *)
AnsweredUnlessDeadlocked ==
    \A r \in Requests :
        pc[r] # "idle" ~> \/ pc[r] = "done"
                          \/ \E s \in Requests : /\ SelfDeadlocked(s)
                                                 /\ mutex[s] = mutex[r]

(* create.go:111, "Add cleanup func to remove the network if an error is
   encountered during post processing": when the cleanup starts and nothing
   keeps Remove from succeeding, the network is eventually gone. *)
CleanupRemovesNetwork ==
    \A r \in Requests :
        pc[r] = "cleanup" ~> (networks[req[r].name] = NoConfig \/ req[r].name \in used)

-----------------------------------------------------------------------------
(* The config files as a store in which a name is written only by its owner. *)
StoreOwner == [n \in Names |->
    IF \E r \in Requests : InCritical(r) /\ netName[r] = n
    THEN CHOOSE r \in Requests : InCritical(r) /\ netName[r] = n
    ELSE None]

Store == INSTANCE NetworkStore WITH owner <- StoreOwner, Configs <- NetworkConfig

(* Create and Remove implement the store of NetworkStore: whoever writes the
   config of a name has it to itself from netMu.Lock() to releaseLock. *)
ImplementsStore == Store!Spec
=============================================================================
