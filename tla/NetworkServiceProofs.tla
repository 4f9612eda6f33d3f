------------------------ MODULE NetworkServiceProofs ------------------------
(***************************************************************************)
(* Safety of the network service for any number of requests and names.     *)
(***************************************************************************)
EXTENDS NetworkService, FiniteSetTheorems, TLAPS

(* A request that has got past its lookup works on a known network; one that
   installs or deletes a DROP rule has read a bridge name; one that sets a
   bridge name was asked for it. *)
LocalInv ==
    \A r \in Requests :
        /\ pc[r] \in PCs \ {"idle", "c_lookup", "r_lookup", "done"} => netName[r] \in Names
        /\ pc[r] \in {"c_rule", "r_rule"} => iface[r] \in Names \cup Bridges
        /\ pc[r] \in {"c_bridge", "c_bridge_write"} => req[r].bridge \in Bridges

(* A request between ensureLock and releaseLock has the mutex of the table. *)
Mapped ==
    \A r \in Requests : Referring(r) =>
        /\ networkMutexes[netName[r]] # None
        /\ mutex[r] = networkMutexes[netName[r]]

(* A request between netMu.Lock() and netMu.Unlock() has locked its mutex. *)
Held ==
    \A r \in Requests : InCritical(r) \/ pc[r] = "unlock" =>
        mutex[r] \in Requests /\ holder[mutex[r]] = r

LockInv == TypeOK /\ LocalInv /\ Mapped /\ Held /\ RefCountExact

-----------------------------------------------------------------------------
LEMMA RefsFinite == \A n \in Names : IsFiniteSet(Refs(n))
<1>1. IsFiniteSet({1, 2})
  <2>1. {1, 2} = {1} \cup {2}
    OBVIOUS
  <2>2. IsFiniteSet({1} \cup {2})
    BY FS_Singleton, FS_AddElement
  <2> QED
    BY <2>1, <2>2
<1>2. IsFiniteSet(Requests \X {1, 2})
  BY <1>1, FS_Product, ConstantsAssumption
<1>3. \A n \in Names : Refs(n) \in SUBSET (Requests \X {1, 2})
  BY DEF Refs
<1> QED
  BY <1>2, <1>3, FS_Subset

(* A request that refers to an entry is counted in it. *)
LEMMA Counted ==
    ASSUME LockInv, NEW r \in Requests, Referring(r)
    PROVE  activeReqs[netName[r]] >= 1
<1>1. netName[r] \in Names
  BY DEF LockInv, LocalInv, Referring, InCritical, PCs, Creating, Removing, Cleaning
<1>2. <<r, 1>> \in Refs(netName[r])
  BY DEF Refs
<1>3. Cardinality(Refs(netName[r])) # 0
  BY <1>1, <1>2, RefsFinite, FS_EmptySet
<1> QED
  BY <1>1, <1>3 DEF LockInv, RefCountExact, TypeOK

LEMMA InitTypeOK == Init => TypeOK
<1> SUFFICES ASSUME Init PROVE TypeOK
  OBVIOUS
<1>1. networks \in [Names -> NetworkConfig \cup {NoConfig}]
  BY DEF Init, NetworkConfig
<1> QED
  BY <1>1 DEF Init, TypeOK, PCs, BeforeLock, Ops, Asked

(* Every step keeps every variable in its type. *)
LEMMA StepTypeOK ==
    ASSUME LockInv, NEW r \in Requests, Step(r)
    PROVE  TypeOK'
<1> USE DEF Goto, Answer, lockVars, storeVars, localVars
<1>a. TypeOK /\ LocalInv
  BY DEF LockInv
<1>b. /\ netName[r] \in Names => networks[netName[r]] \in NetworkConfig \cup {NoConfig}
      /\ req[r].name \in Names
  BY <1>a DEF TypeOK, Ops
<1>c. netName[r] \in Names /\ networks[netName[r]] # NoConfig =>
        /\ networks[netName[r]].bridge \in Names \cup Bridges
        /\ networks[netName[r]].icc \in BOOLEAN
        /\ networks[netName[r]].by \in Requests \cup {None}
  BY <1>b DEF NetworkConfig
<1>1. CASE Receive(r)
  BY <1>1, <1>a, <1>b, <1>c, ConstantsAssumption
  DEF Receive, TypeOK, PCs, BeforeLock, Creating, Removing, Cleaning
<1>2. CASE CreateLookup(r)
  <2> USE <1>2, <1>a, <1>b DEF CreateLookup, TypeOK, PCs, BeforeLock
  <2>1. ASSUME NEW n \in Names, net' = [net EXCEPT ![r] = networks[n]],
               netName' = [netName EXCEPT ![r] = n], pc' = [pc EXCEPT ![r] = "done"],
               resp' = [resp EXCEPT ![r] = "exists"]
        PROVE  TypeOK'
    BY <2>1
  <2>2. CASE pc' = [pc EXCEPT ![r] = "ensure"] /\ net' = net /\ resp' = resp
             /\ netName' = [netName EXCEPT ![r] = req[r].name]
    BY <2>2
  <2>3. CASE pc' = [pc EXCEPT ![r] = "done"] /\ net' = net /\ netName' = netName
             /\ resp' = [resp EXCEPT ![r] = "error"]
    BY <2>3
  <2> QED
    BY <2>1, <2>2, <2>3
<1>3. CASE RemoveLookup(r)
  <2> USE <1>3, <1>a, <1>b DEF RemoveLookup, TypeOK, PCs, BeforeLock
  <2>1. CASE \E n \in Names : Matching(req[r].name) = {n} /\ pc' = [pc EXCEPT ![r] = "r_used"]
    <3>1. PICK n \in Names : /\ net' = [net EXCEPT ![r] = networks[n]]
                             /\ netName' = [netName EXCEPT ![r] = n]
      BY <2>1
    <3>2. resp' \in {[resp EXCEPT ![r] = "exists"], resp}
      BY <2>1
    <3> QED
      BY <2>1, <3>1, <3>2
  <2>2. CASE pc' = [pc EXCEPT ![r] = "done"]
    BY <2>2
  <2> QED
    BY <2>1, <2>2
<1>4. CASE RemoveUsed(r)
  BY <1>4, <1>a, <1>b, <1>c, ConstantsAssumption
  DEF RemoveUsed, TypeOK, PCs, BeforeLock, Creating, Removing, Cleaning
<1>5. CASE Ensure(r)
  BY <1>5, <1>a, <1>b, <1>c, ConstantsAssumption
  DEF Ensure, TypeOK, PCs, BeforeLock, Creating, Removing, Cleaning, EnsureLock, LocalInv
<1>6. CASE Lock(r)
  BY <1>6, <1>a, <1>b, <1>c, ConstantsAssumption
  DEF Lock, TypeOK, PCs, BeforeLock, Creating, Removing, Cleaning
<1>7. CASE ReleaseLock(r)
  BY <1>7, <1>a, <1>b, Counted, ConstantsAssumption
  DEF ReleaseLock, TypeOK, PCs, BeforeLock, Creating, Removing, Cleaning, Referring, InCritical, LocalInv
<1>8. CASE Unlock(r)
  BY <1>8, <1>a, <1>b, <1>c, ConstantsAssumption
  DEF Unlock, TypeOK, PCs, BeforeLock, Creating, Removing, Cleaning
<1>9. CASE CreateCheck(r)
  BY <1>9, <1>a, <1>b, <1>c, ConstantsAssumption
  DEF CreateCheck, TypeOK, PCs, BeforeLock, Creating, Removing, Cleaning
<1>10. CASE CreateWrite(r)
  <2>1. [bridge |-> netName[r], icc |-> req[r].icc, by |-> r] \in NetworkConfig
    BY <1>10, <1>a DEF CreateWrite, NetworkConfig, LocalInv, TypeOK, Ops, PCs, Creating
  <2>2. networks' \in [Names -> NetworkConfig \cup {NoConfig}]
    BY <1>10, <1>a, <2>1 DEF CreateWrite, TypeOK
  <2> QED
    BY <1>10, <1>a, <2>2 DEF CreateWrite, TypeOK, PCs, Creating
<1>11. CASE SetBridgeCheck(r)
  BY <1>11, <1>a, <1>b, <1>c, ConstantsAssumption
  DEF SetBridgeCheck, BridgeTaken, TypeOK, PCs, BeforeLock, Creating, Removing, Cleaning
<1>12. CASE SetBridgeWrite(r)
  BY <1>12, <1>a, <1>b, <1>c, ConstantsAssumption
  DEF SetBridgeWrite, TypeOK, PCs, BeforeLock, Creating, Removing, Cleaning, NetworkConfig, LocalInv
<1>13. CASE GetBridgeName(r)
  BY <1>13, <1>a, <1>b, <1>c, ConstantsAssumption
  DEF GetBridgeName, TypeOK, PCs, BeforeLock, Creating, Removing, Cleaning, LocalInv
<1>14. CASE AddICCDropRule(r)
  BY <1>14, <1>a, <1>b, <1>c, ConstantsAssumption
  DEF AddICCDropRule, AddRule, DelRule, TypeOK, PCs, BeforeLock, Creating, Removing, Cleaning, LocalInv
<1>15. CASE Cleanup(r)
  BY <1>15, <1>a, <1>b, <1>c, ConstantsAssumption
  DEF Cleanup, TypeOK, PCs, BeforeLock, Creating, Removing, Cleaning, EnsureLock, LocalInv
<1>16. CASE RemoveLabels(r)
  BY <1>16, <1>a, <1>b, <1>c, ConstantsAssumption
  DEF RemoveLabels, TypeOK, PCs, BeforeLock, Creating, Removing, Cleaning, LocalInv
<1>17. CASE RemoveICCDropRule(r)
  BY <1>17, <1>a, <1>b, <1>c, ConstantsAssumption
  DEF RemoveICCDropRule, DelRule, TypeOK, PCs, BeforeLock, Creating, Removing, Cleaning
<1>18. CASE RemoveNetwork(r)
  BY <1>18, <1>a, <1>b, <1>c, ConstantsAssumption
  DEF RemoveNetwork, TypeOK, PCs, BeforeLock, Creating, Removing, Cleaning
<1> QED
  BY <1>1, <1>2, <1>3, <1>4, <1>5, <1>6, <1>7, <1>8, <1>9, <1>10, <1>11, <1>12, <1>13, <1>14, <1>15, <1>16, <1>17, <1>18 DEF Step

LEMMA StepLocalInv ==
    ASSUME LockInv, NEW r \in Requests, Step(r)
    PROVE  LocalInv'
<1> USE DEF Goto, Answer, lockVars, storeVars, localVars, LocalInv
<1>a. TypeOK /\ LocalInv
  BY DEF LockInv
<1>b. /\ netName[r] \in Names => networks[netName[r]] \in NetworkConfig \cup {NoConfig}
      /\ req[r].name \in Names /\ req[r].bridge \in Bridges \cup {None}
  BY <1>a DEF TypeOK, Ops
<1>c. netName[r] \in Names /\ networks[netName[r]] # NoConfig =>
        /\ networks[netName[r]].bridge \in Names \cup Bridges
        /\ networks[netName[r]].icc \in BOOLEAN
        /\ networks[netName[r]].by \in Requests \cup {None}
  BY <1>b DEF NetworkConfig
<1>1. CASE Receive(r)
  BY <1>1, <1>a, <1>b DEF Receive, TypeOK, PCs, BeforeLock, Creating, Removing, Cleaning
<1>2. CASE CreateLookup(r)
  BY <1>2, <1>a, <1>b DEF CreateLookup, TypeOK, PCs, BeforeLock, Creating, Removing, Cleaning
<1>3. CASE RemoveLookup(r)
  BY <1>3, <1>a, <1>b DEF RemoveLookup, TypeOK, PCs, BeforeLock, Creating, Removing, Cleaning
<1>4. CASE RemoveUsed(r)
  BY <1>4, <1>a, <1>b DEF RemoveUsed, TypeOK, PCs, BeforeLock, Creating, Removing, Cleaning
<1>5. CASE Ensure(r)
  BY <1>5, <1>a, <1>b DEF Ensure, TypeOK, PCs, BeforeLock, Creating, Removing, Cleaning
<1>6. CASE Lock(r)
  BY <1>6, <1>a, <1>b DEF Lock, TypeOK, PCs, BeforeLock, Creating, Removing, Cleaning
<1>7. CASE ReleaseLock(r)
  BY <1>7, <1>a, <1>b DEF ReleaseLock, TypeOK, PCs, BeforeLock, Creating, Removing, Cleaning
<1>8. CASE Unlock(r)
  BY <1>8, <1>a, <1>b DEF Unlock, TypeOK, PCs, BeforeLock, Creating, Removing, Cleaning
<1>9. CASE CreateCheck(r)
  BY <1>9, <1>a, <1>b DEF CreateCheck, TypeOK, PCs, BeforeLock, Creating, Removing, Cleaning
<1>10. CASE CreateWrite(r)
  BY <1>10, <1>a, <1>b DEF CreateWrite, TypeOK, PCs, BeforeLock, Creating, Removing, Cleaning
<1>11. CASE SetBridgeCheck(r)
  BY <1>11, <1>a, <1>b DEF SetBridgeCheck, BridgeTaken, TypeOK, PCs, BeforeLock, Creating, Removing, Cleaning
<1>12. CASE SetBridgeWrite(r)
  BY <1>12, <1>a, <1>b DEF SetBridgeWrite, TypeOK, PCs, BeforeLock, Creating, Removing, Cleaning
<1>13. CASE GetBridgeName(r)
  BY <1>13, <1>a, <1>c DEF GetBridgeName, TypeOK, PCs, BeforeLock, Creating, Removing, Cleaning
<1>14. CASE AddICCDropRule(r)
  BY <1>14, <1>a, <1>b DEF AddICCDropRule, AddRule, DelRule, TypeOK, PCs, BeforeLock, Creating, Removing, Cleaning
<1>15. CASE Cleanup(r)
  BY <1>15, <1>a, <1>b DEF Cleanup, TypeOK, PCs, BeforeLock, Creating, Removing, Cleaning
<1>16. CASE RemoveLabels(r)
  BY <1>16, <1>a, <1>c DEF RemoveLabels, TypeOK, PCs, BeforeLock, Creating, Removing, Cleaning
<1>17. CASE RemoveICCDropRule(r)
  BY <1>17, <1>a, <1>b DEF RemoveICCDropRule, DelRule, TypeOK, PCs, BeforeLock, Creating, Removing, Cleaning
<1>18. CASE RemoveNetwork(r)
  BY <1>18, <1>a, <1>b DEF RemoveNetwork, TypeOK, PCs, BeforeLock, Creating, Removing, Cleaning
<1> QED
  BY <1>1, <1>2, <1>3, <1>4, <1>5, <1>6, <1>7, <1>8, <1>9, <1>10, <1>11, <1>12, <1>13, <1>14, <1>15, <1>16, <1>17, <1>18 DEF Step

-----------------------------------------------------------------------------
(* A step that moves no request into or out of the reach of a mutex. *)
LEMMA LockFrame ==
    ASSUME LockInv,
           UNCHANGED lockVars,
           \A s \in Requests :
               /\ Referring(s)' = Referring(s)
               /\ InCritical(s)' = InCritical(s)
               /\ (pc[s] = "unlock")' = (pc[s] = "unlock")
               /\ (pc[s] = "cleanup_lock")' = (pc[s] = "cleanup_lock")
               /\ Referring(s) => netName'[s] = netName[s]
    PROVE  Mapped' /\ Held' /\ RefCountExact'
<1>1. Mapped'
  BY DEF LockInv, Mapped, lockVars
<1>2. Held'
  BY DEF LockInv, Held, lockVars
<1>3. ASSUME NEW n \in Names PROVE Refs(n)' = Refs(n)
  <2>1. \A s \in Requests : pc[s] = "cleanup_lock" => Referring(s)
    BY DEF Referring, InCritical, Cleaning
  <2> QED
    BY <2>1 DEF Refs
<1>4. RefCountExact'
  BY <1>3 DEF LockInv, RefCountExact, lockVars
<1> QED
  BY <1>1, <1>2, <1>4

(* Steps before ensureLock and inside the critical section. *)
LEMMA QuietStep ==
    ASSUME LockInv, NEW r \in Requests,
           \/ Receive(r) \/ CreateLookup(r) \/ RemoveLookup(r) \/ RemoveUsed(r)
           \/ CreateCheck(r) \/ CreateWrite(r) \/ SetBridgeCheck(r) \/ SetBridgeWrite(r)
           \/ GetBridgeName(r) \/ AddICCDropRule(r)
           \/ RemoveLabels(r) \/ RemoveICCDropRule(r) \/ RemoveNetwork(r)
    PROVE  Mapped' /\ Held' /\ RefCountExact'
<1> DEFINE Before == {"idle", "c_lookup", "r_lookup", "r_used", "ensure", "done"}
           Inside == Creating \cup Removing \cup {"cleanup", "release"}
<1>1. UNCHANGED lockVars
  BY DEF Receive, CreateLookup, RemoveLookup, RemoveUsed, CreateCheck, CreateWrite, SetBridgeCheck, BridgeTaken, SetBridgeWrite, GetBridgeName, AddICCDropRule, AddRule, RemoveLabels, RemoveICCDropRule, DelRule, RemoveNetwork
<1>2. \E l \in Before \cup Inside :
         /\ pc' = [pc EXCEPT ![r] = l]
         /\ pc[r] \in Before <=> l \in Before
         /\ pc[r] \in Before \cup Inside
         /\ l \in Inside => UNCHANGED netName
  <2>1. CASE Receive(r)
    BY <2>1 DEF Receive, Goto, localVars, Creating, Removing
  <2>2. CASE CreateLookup(r)
    BY <2>2 DEF CreateLookup, Goto, localVars, Creating, Removing
  <2>3. CASE RemoveLookup(r)
    BY <2>3 DEF RemoveLookup, Goto, localVars, Creating, Removing
  <2>4. CASE RemoveUsed(r)
    BY <2>4 DEF RemoveUsed, Goto, localVars, Creating, Removing
  <2>5. CASE CreateCheck(r)
    BY <2>5 DEF CreateCheck, Goto, localVars, Creating, Removing
  <2>6. CASE CreateWrite(r)
    BY <2>6 DEF CreateWrite, Goto, localVars, Creating, Removing
  <2>7. CASE SetBridgeCheck(r)
    BY <2>7 DEF SetBridgeCheck, BridgeTaken, Goto, localVars, Creating, Removing
  <2>8. CASE SetBridgeWrite(r)
    BY <2>8 DEF SetBridgeWrite, Goto, localVars, Creating, Removing
  <2>9. CASE GetBridgeName(r)
    BY <2>9 DEF GetBridgeName, Goto, localVars, Creating, Removing
  <2>10. CASE AddICCDropRule(r)
    BY <2>10 DEF AddICCDropRule, AddRule, DelRule, Goto, localVars, Creating, Removing
  <2>11. CASE RemoveLabels(r)
    BY <2>11 DEF RemoveLabels, Goto, localVars, Creating, Removing
  <2>12. CASE RemoveICCDropRule(r)
    BY <2>12 DEF RemoveICCDropRule, DelRule, Goto, localVars, Creating, Removing
  <2>13. CASE RemoveNetwork(r)
    BY <2>13 DEF RemoveNetwork, Goto, localVars, Creating, Removing
  <2> QED
    BY <2>1, <2>2, <2>3, <2>4, <2>5, <2>6, <2>7, <2>8, <2>9, <2>10, <2>11, <2>12, <2>13
<1>3. PICK l \in Before \cup Inside :
         /\ pc' = [pc EXCEPT ![r] = l]
         /\ pc[r] \in Before <=> l \in Before
         /\ pc[r] \in Before \cup Inside
         /\ l \in Inside => UNCHANGED netName
  BY <1>2
<1>4. netName' = [netName EXCEPT ![r] = netName'[r]]
  <2>1. CASE Receive(r)
    BY <2>1 DEF Receive, localVars, LockInv, TypeOK
  <2>2. CASE CreateLookup(r)
    BY <2>2 DEF CreateLookup, localVars, LockInv, TypeOK
  <2>3. CASE RemoveLookup(r)
    BY <2>3 DEF RemoveLookup, localVars, LockInv, TypeOK
  <2>4. CASE RemoveUsed(r)
    BY <2>4 DEF RemoveUsed, localVars, LockInv, TypeOK
  <2>5. CASE CreateCheck(r)
    BY <2>5 DEF CreateCheck, localVars, LockInv, TypeOK
  <2>6. CASE CreateWrite(r)
    BY <2>6 DEF CreateWrite, localVars, LockInv, TypeOK
  <2>7. CASE SetBridgeCheck(r)
    BY <2>7 DEF SetBridgeCheck, BridgeTaken, localVars, LockInv, TypeOK
  <2>8. CASE SetBridgeWrite(r)
    BY <2>8 DEF SetBridgeWrite, localVars, LockInv, TypeOK
  <2>9. CASE GetBridgeName(r)
    BY <2>9 DEF GetBridgeName, localVars, LockInv, TypeOK
  <2>10. CASE AddICCDropRule(r)
    BY <2>10 DEF AddICCDropRule, AddRule, DelRule, localVars, LockInv, TypeOK
  <2>11. CASE RemoveLabels(r)
    BY <2>11 DEF RemoveLabels, localVars, LockInv, TypeOK
  <2>12. CASE RemoveICCDropRule(r)
    BY <2>12 DEF RemoveICCDropRule, DelRule, localVars, LockInv, TypeOK
  <2>13. CASE RemoveNetwork(r)
    BY <2>13 DEF RemoveNetwork, localVars, LockInv, TypeOK
  <2> QED
    BY <2>1, <2>2, <2>3, <2>4, <2>5, <2>6, <2>7, <2>8, <2>9, <2>10, <2>11, <2>12, <2>13
<1>5. ASSUME NEW s \in Requests
      PROVE  /\ Referring(s)' = Referring(s)
             /\ InCritical(s)' = InCritical(s)
             /\ (pc[s] = "unlock")' = (pc[s] = "unlock")
             /\ (pc[s] = "cleanup_lock")' = (pc[s] = "cleanup_lock")
             /\ Referring(s) => netName'[s] = netName[s]
  <2>1. CASE s = r
    BY <2>1, <1>3 DEF LockInv, TypeOK, Referring, InCritical, Creating, Removing, Cleaning
  <2>2. CASE s # r
    BY <2>2, <1>3, <1>4 DEF LockInv, TypeOK, Referring, InCritical
  <2> QED
    BY <2>1, <2>2
<1> QED
  BY <1>1, <1>5, LockFrame

(* ensureLock adds one reference, the request's first or its cleanup's. *)
LEMMA EnsureStep ==
    ASSUME LockInv, NEW r \in Requests, Ensure(r)
    PROVE  Mapped' /\ Held' /\ RefCountExact'
<1> DEFINE n == netName[r]
<1> USE DEF Ensure, EnsureLock, Goto, localVars
<1>1. /\ n \in Names /\ TypeOK
      /\ pc[r] = "ensure" /\ pc' = [pc EXCEPT ![r] = "lock"]
  BY DEF LockInv, LocalInv, PCs, BeforeLock
<1>2. /\ ~Referring(r) /\ Referring(r)' /\ ~InCritical(r)' /\ ~InCritical(r)
      /\ \A s \in Requests \ {r} : /\ Referring(s)' = Referring(s)
                                  /\ InCritical(s)' = InCritical(s)
                                  /\ (pc[s] = "unlock")' = (pc[s] = "unlock")
  BY <1>1 DEF TypeOK, Referring, InCritical, Creating, Removing, Cleaning
<1>3. \A s \in Requests : (pc[s] = "cleanup_lock")' = (pc[s] = "cleanup_lock")
  BY <1>1 DEF TypeOK
<1>4. Refs(n)' = Refs(n) \cup {<<r, 1>>} /\ <<r, 1>> \notin Refs(n)
  BY <1>1, <1>2, <1>3 DEF Refs
<1>5. \A m \in Names \ {n} : Refs(m)' = Refs(m)
  BY <1>1, <1>2, <1>3 DEF Refs
<1>6. Cardinality(Refs(n)') = Cardinality(Refs(n)) + 1 /\ Refs(n)' # {}
  BY <1>1, <1>4, RefsFinite, FS_AddElement
<1>7. networkMutexes[n] = None => Cardinality(Refs(n)) = 0
  BY <1>1, FS_EmptySet DEF LockInv, RefCountExact
<1>8. activeReqs'[n] = activeReqs[n] + 1 /\ networkMutexes'[n] # None
  BY <1>1, <1>7, ConstantsAssumption DEF LockInv, RefCountExact, TypeOK
<1>9. RefCountExact'
  BY <1>1, <1>5, <1>6, <1>8 DEF LockInv, RefCountExact, TypeOK
<1>10. Mapped'
  <2> SUFFICES ASSUME NEW s \in Requests, Referring(s)'
               PROVE  networkMutexes'[netName[s]] # None /\ mutex'[s] = networkMutexes'[netName[s]]
    BY DEF Mapped
  <2>1. CASE s = r
    BY <2>1, <1>1, <1>8 DEF TypeOK
  <2>2. CASE s # r
    <3>1. networkMutexes[netName[s]] # None /\ mutex[s] = networkMutexes[netName[s]]
      BY <2>2, <1>2 DEF LockInv, Mapped
    <3>2. mutex'[s] = mutex[s]
      BY <2>2, <1>1 DEF TypeOK
    <3>3. netName[s] \in Names
      BY <2>2, <1>2 DEF LockInv, LocalInv, Referring, InCritical, PCs, Creating, Removing, Cleaning
    <3>4. networkMutexes'[netName[s]] = networkMutexes[netName[s]]
      BY <3>1, <3>3, <1>1 DEF TypeOK
    <3> QED
      BY <3>1, <3>2, <3>4
  <2> QED
    BY <2>1, <2>2
<1>11. Held'
  <2> SUFFICES ASSUME NEW s \in Requests, InCritical(s)' \/ pc'[s] = "unlock"
               PROVE  mutex'[s] \in Requests /\ holder'[mutex'[s]] = s
    BY DEF Held
  <2>1. s # r
    BY <1>1, <1>2 DEF TypeOK
  <2> QED
    BY <2>1, <1>1, <1>2 DEF LockInv, Held, TypeOK
<1> QED
  BY <1>9, <1>10, <1>11

(* A mutex is locked only while nobody holds it, so never by its own holder. *)
LEMMA LockStep ==
    ASSUME LockInv, NEW r \in Requests, Lock(r)
    PROVE  Mapped' /\ Held' /\ RefCountExact'
<1> USE DEF Lock, Goto, localVars
<1>0. TypeOK
  BY DEF LockInv
<1>1. Referring(r) /\ netName[r] \in Names
  BY DEF Referring, InCritical, Cleaning, LockInv, LocalInv, PCs
<1>2. mutex[r] \in Requests
  BY <1>0, <1>1 DEF LockInv, Mapped, TypeOK
<1>3. pc[r] = "lock"
  <2>1. pc[r] = "cleanup_lock" => holder[mutex[r]] = r
    BY DEF LockInv, Held, InCritical, Cleaning
  <2> QED
    BY <2>1, ConstantsAssumption
<1>4. PICK l \in {"c_check", "r_labels"} : pc' = [pc EXCEPT ![r] = l]
  OBVIOUS
<1>5. \A s \in Requests :
         /\ Referring(s)' = Referring(s)
         /\ (pc[s] = "cleanup_lock")' = (pc[s] = "cleanup_lock")
         /\ s # r => InCritical(s)' = InCritical(s) /\ (pc[s] = "unlock")' = (pc[s] = "unlock")
  BY <1>0, <1>3, <1>4 DEF TypeOK, Referring, InCritical, Creating, Removing, Cleaning
<1>6. Mapped'
  BY <1>5 DEF LockInv, Mapped
<1>7. \A n \in Names : Refs(n)' = Refs(n)
  BY <1>5 DEF Refs
<1>8. RefCountExact'
  BY <1>7 DEF LockInv, RefCountExact
<1>9. Held'
  <2> SUFFICES ASSUME NEW s \in Requests, InCritical(s)' \/ pc'[s] = "unlock"
               PROVE  mutex[s] \in Requests /\ holder'[mutex[s]] = s
    BY DEF Held
  <2>1. CASE s = r
    BY <2>1, <1>0, <1>2 DEF TypeOK
  <2>2. CASE s # r
    <3>1. mutex[s] \in Requests /\ holder[mutex[s]] = s
      BY <2>2, <1>5 DEF LockInv, Held
    <3> QED
      BY <3>1, <1>0, <1>2, ConstantsAssumption DEF TypeOK
  <2> QED
    BY <2>1, <2>2
<1> QED
  BY <1>6, <1>8, <1>9

(* releaseLock takes one reference away and deletes the entry with the last. *)
LEMMA ReleaseStep ==
    ASSUME LockInv, NEW r \in Requests, ReleaseLock(r)
    PROVE  Mapped' /\ Held' /\ RefCountExact'
<1> DEFINE n == netName[r]
<1> USE DEF ReleaseLock, Goto, localVars
<1>1. /\ n \in Names /\ TypeOK
      /\ pc[r] = "release" /\ pc' = [pc EXCEPT ![r] = "unlock"]
  BY DEF LockInv, LocalInv, PCs
<1>2. /\ Referring(r) /\ ~Referring(r)' /\ InCritical(r)
      /\ \A s \in Requests \ {r} : /\ Referring(s)' = Referring(s)
                                  /\ InCritical(s)' = InCritical(s)
                                  /\ (pc[s] = "unlock")' = (pc[s] = "unlock")
  BY <1>1 DEF TypeOK, Referring, InCritical, Creating, Removing, Cleaning
<1>3. \A s \in Requests : (pc[s] = "cleanup_lock")' = (pc[s] = "cleanup_lock")
  BY <1>1 DEF TypeOK
<1>4. Refs(n)' = Refs(n) \ {<<r, 1>>} /\ <<r, 1>> \in Refs(n)
  BY <1>1, <1>2, <1>3 DEF Refs
<1>5. \A m \in Names \ {n} : Refs(m)' = Refs(m)
  BY <1>1, <1>2, <1>3 DEF Refs
<1>6. IsFiniteSet(Refs(n)') /\ Cardinality(Refs(n)') = Cardinality(Refs(n)) - 1
  BY <1>1, <1>4, RefsFinite, FS_RemoveElement
<1>7. Cardinality(Refs(n)') = 0 <=> Refs(n)' = {}
  BY <1>6, FS_EmptySet
<1>8. activeReqs[n] = Cardinality(Refs(n)) /\ networkMutexes[n] # None /\ activeReqs[n] >= 1
  BY <1>1, <1>2, <1>4, Counted DEF LockInv, RefCountExact
<1>9. /\ activeReqs'[n] = Cardinality(Refs(n)')
      /\ networkMutexes'[n] # None <=> Refs(n)' # {}
      /\ networkMutexes'[n] # None => networkMutexes'[n] = networkMutexes[n]
  BY <1>1, <1>6, <1>7, <1>8 DEF TypeOK
<1>10. RefCountExact'
  BY <1>1, <1>5, <1>9 DEF LockInv, RefCountExact, TypeOK
<1>11. Mapped'
  <2> SUFFICES ASSUME NEW s \in Requests, Referring(s)'
               PROVE  networkMutexes'[netName[s]] # None /\ mutex[s] = networkMutexes'[netName[s]]
    BY DEF Mapped
  <2>1. s # r /\ Referring(s)
    BY <1>2
  <2>2. networkMutexes[netName[s]] # None /\ mutex[s] = networkMutexes[netName[s]]
    BY <2>1 DEF LockInv, Mapped
  <2>3. netName[s] = n => <<s, 1>> \in Refs(n)'
    BY DEF Refs
  <2> QED
    BY <2>2, <2>3, <1>1, <1>9 DEF TypeOK
<1>12. Held'
  BY <1>1, <1>2 DEF LockInv, Held, TypeOK
<1> QED
  BY <1>10, <1>11, <1>12

LEMMA UnlockStep ==
    ASSUME LockInv, NEW r \in Requests, Unlock(r)
    PROVE  Mapped' /\ Held' /\ RefCountExact'
<1> USE DEF Unlock, Goto, localVars
<1>1. TypeOK /\ pc[r] = "unlock" /\ pc' = [pc EXCEPT ![r] = "done"]
  BY DEF LockInv
<1>2. \A s \in Requests :
         /\ Referring(s)' = Referring(s) /\ InCritical(s)' = InCritical(s)
         /\ (pc[s] = "cleanup_lock")' = (pc[s] = "cleanup_lock")
         /\ pc'[s] = "unlock" => s # r /\ pc[s] = "unlock"
         /\ InCritical(s) => s # r
  BY <1>1 DEF TypeOK, Referring, InCritical, Creating, Removing, Cleaning
<1>3. Mapped'
  BY <1>2 DEF LockInv, Mapped
<1>4. \A n \in Names : Refs(n)' = Refs(n)
  BY <1>2 DEF Refs
<1>5. RefCountExact'
  BY <1>4 DEF LockInv, RefCountExact
<1>6. Held'
  <2> SUFFICES ASSUME NEW s \in Requests, InCritical(s)' \/ pc'[s] = "unlock"
               PROVE  mutex[s] \in Requests /\ holder'[mutex[s]] = s
    BY DEF Held
  <2>1. s # r /\ mutex[s] \in Requests /\ holder[mutex[s]] = s
    BY <1>2 DEF LockInv, Held
  <2>2. holder[mutex[r]] = r
    BY <1>1 DEF LockInv, Held
  <2> QED
    BY <2>1, <2>2, <1>1 DEF TypeOK
<1> QED
  BY <1>3, <1>5, <1>6

(* The cleanup of a failed Create: its Remove counts in a second time. *)
LEMMA CleanupStep ==
    ASSUME LockInv, NEW r \in Requests, Cleanup(r)
    PROVE  Mapped' /\ Held' /\ RefCountExact'
<1> DEFINE n == netName[r]
<1> USE DEF Goto
<1>1. /\ n \in Names /\ TypeOK /\ pc[r] = "cleanup" /\ UNCHANGED netName
      /\ InCritical(r) /\ Referring(r)
  BY DEF Cleanup, LockInv, LocalInv, PCs, Cleaning, InCritical, Referring
<1>2. CASE pc' = [pc EXCEPT ![r] = "release"] /\ UNCHANGED lockVars
  <2>1. \A s \in Requests :
               /\ Referring(s)' = Referring(s)
               /\ InCritical(s)' = InCritical(s)
               /\ (pc[s] = "unlock")' = (pc[s] = "unlock")
               /\ (pc[s] = "cleanup_lock")' = (pc[s] = "cleanup_lock")
               /\ Referring(s) => netName'[s] = netName[s]
    BY <1>1, <1>2 DEF TypeOK, Referring, InCritical, Creating, Removing, Cleaning
  <2> QED
    BY <1>2, <2>1, LockFrame
<1>3. CASE pc' = [pc EXCEPT ![r] = "cleanup_lock"] /\ EnsureLock(r, n)
  <2>1. networkMutexes[n] # None /\ mutex[r] = networkMutexes[n]
    BY <1>1 DEF LockInv, Mapped
  <2>2. /\ activeReqs' = [activeReqs EXCEPT ![n] = @ + 1]
        /\ mutex' = mutex /\ holder' = holder /\ networkMutexes' = networkMutexes
    BY <1>1, <1>3, <2>1 DEF EnsureLock, TypeOK
  <2>3. \A s \in Requests :
           /\ Referring(s)' = Referring(s) /\ InCritical(s)' = InCritical(s)
           /\ (pc[s] = "unlock")' = (pc[s] = "unlock")
           /\ s # r => (pc[s] = "cleanup_lock")' = (pc[s] = "cleanup_lock")
    BY <1>1, <1>3 DEF TypeOK, Referring, InCritical, Creating, Removing, Cleaning
  <2>4. Mapped' /\ Held'
    BY <1>1, <2>2, <2>3 DEF LockInv, Mapped, Held
  <2>5. Refs(n)' = Refs(n) \cup {<<r, 2>>} /\ <<r, 2>> \notin Refs(n)
    BY <1>1, <1>3, <2>3 DEF Refs, TypeOK
  <2>6. \A m \in Names \ {n} : Refs(m)' = Refs(m)
    BY <1>1, <1>3, <2>3 DEF Refs, TypeOK
  <2>7. Cardinality(Refs(n)') = Cardinality(Refs(n)) + 1 /\ Refs(n)' # {}
    BY <1>1, <2>5, RefsFinite, FS_AddElement
  <2>8. RefCountExact'
    BY <1>1, <2>1, <2>2, <2>6, <2>7 DEF LockInv, RefCountExact, TypeOK
  <2> QED
    BY <2>4, <2>8
<1> QED
  BY <1>2, <1>3 DEF Cleanup

LEMMA LockInvInit == Init => LockInv
<1> SUFFICES ASSUME Init PROVE LockInv
  OBVIOUS
<1>1. \A r \in Requests : pc[r] = "idle"
  BY DEF Init
<1>2. LocalInv /\ Mapped /\ Held
  BY <1>1 DEF LocalInv, Mapped, Held, Referring, InCritical, PCs, Creating, Removing, Cleaning
<1>3. \A n \in Names : Refs(n) = {}
  BY <1>1 DEF Refs, Referring, InCritical, Creating, Removing, Cleaning
<1>4. RefCountExact
  BY <1>3, FS_EmptySet DEF RefCountExact, Init
<1> QED
  BY <1>2, <1>4, InitTypeOK DEF LockInv

LEMMA LockInvNext == LockInv /\ [Next]_vars => LockInv'
<1> SUFFICES ASSUME LockInv, [Next]_vars PROVE LockInv'
  OBVIOUS
<1>1. ASSUME NEW r \in Requests, Step(r) PROVE LockInv'
  <2>1. Mapped' /\ Held' /\ RefCountExact'
    BY <1>1, QuietStep, EnsureStep, LockStep, ReleaseStep, UnlockStep, CleanupStep DEF Step
  <2> QED
    BY <1>1, <2>1, StepTypeOK, StepLocalInv DEF LockInv
<1>2. ASSUME UNCHANGED <<pc, resp, localVars, lockVars, storeVars>>, used' \subseteq Names
      PROVE  LockInv'
  <2>1. TypeOK' /\ LocalInv'
    BY <1>2 DEF LockInv, TypeOK, LocalInv, localVars, lockVars, storeVars
  <2>2. Mapped' /\ Held' /\ RefCountExact'
    BY <1>2, LockFrame DEF Referring, InCritical, localVars
  <2> QED
    BY <2>1, <2>2 DEF LockInv
<1>3. ASSUME NEW n \in Names, Attach(n) \/ Detach(n) PROVE LockInv'
  BY <1>2, <1>3 DEF Attach, Detach, LockInv, TypeOK
<1>4. CASE UNCHANGED vars
  BY <1>2, <1>4 DEF vars, LockInv, TypeOK
<1> QED
  BY <1>1, <1>3, <1>4 DEF Next

(* Every variable keeps its type, for any number of requests and names. *)
THEOREM TypeCorrect == Spec => []TypeOK
<1>1. LockInv => TypeOK
  BY DEF LockInv
<1> QED
  BY <1>1, LockInvInit, LockInvNext, PTL DEF Spec

(* CreateNetwork and RemoveNetwork on one name are mutually exclusive. *)
THEOREM MutualExclusionHolds == Spec => []MutualExclusion
<1>1. ASSUME LockInv PROVE MutualExclusion
  <2> SUFFICES ASSUME NEW r \in Requests, NEW s \in Requests,
                      InCritical(r), InCritical(s), netName[r] = netName[s]
               PROVE  r = s
    BY DEF MutualExclusion
  <2>1. mutex[r] = mutex[s]
    BY <1>1 DEF LockInv, Mapped, Referring
  <2>2. holder[mutex[r]] = r /\ holder[mutex[s]] = s
    BY <1>1 DEF LockInv, Held
  <2> QED
    BY <2>1, <2>2
<1> QED
  BY <1>1, LockInvInit, LockInvNext, PTL DEF Spec

(* activeReqs counts the requests that refer to an entry, and the table has
   an entry exactly for the names that are referred to. *)
THEOREM RefCountHolds == Spec => []RefCountExact
<1>1. LockInv => RefCountExact
  BY DEF LockInv
<1> QED
  BY <1>1, LockInvInit, LockInvNext, PTL DEF Spec

-----------------------------------------------------------------------------
(* The config a Create that is not finished has written so far. *)
Written(r, bridge) == networks[netName[r]] = [bridge |-> bridge, icc |-> req[r].icc, by |-> r]

(* What a request in its critical section relies on from one step to the next. *)
Relies(r) ==
    /\ pc[r] \in {"c_bridge", "c_bridge_write", "c_icc"} => Written(r, netName[r])
    /\ pc[r] = "c_icc" => req[r].bridge = None
    /\ pc[r] = "c_rule" => Written(r, WantedBridge(r)) /\ iface[r] = WantedBridge(r)
    /\ pc[r] = "r_rule" => /\ networks[netName[r]] # NoConfig
                           /\ iface[r] = networks[netName[r]].bridge
    /\ pc[r] = "release" =>
          /\ resp[r] = "created" =>
                /\ Written(r, WantedBridge(r))
                /\ ~req[r].icc => WantedBridge(r) \in dropRules \/ Imitated(WantedBridge(r))
          /\ resp[r] = "removed" => networks[netName[r]] = NoConfig

(* The bridges in use, and what the holder of the flock has found out: the bridge
   it was asked for may since have become that of the network nerdctl generates
   it for, and of no other. *)
BridgeInv ==
    /\ \A n \in Existing : networks[n].bridge = n \/ \E r \in Requests : req[r].bridge = networks[n].bridge
    /\ UniqueBridgeNames
    /\ \A r \in Requests : pc[r] = "c_bridge_write" =>
          /\ dirLock = r
          /\ \A n \in Existing : networks[n].bridge = req[r].bridge => n = req[r].bridge

StoreInv == BridgeInv /\ \A r \in Requests : Relies(r)

LEMMA CriticalNamed == ASSUME LockInv, NEW r \in Requests, InCritical(r) PROVE netName[r] \in Names
BY DEF LockInv, LocalInv, InCritical, PCs, Creating, Removing, Cleaning

LEMMA CriticalExclusive ==
    ASSUME LockInv, NEW r \in Requests, NEW s \in Requests,
           InCritical(r), InCritical(s), netName[r] = netName[s]
    PROVE  r = s
<1>1. mutex[r] = mutex[s]
  BY DEF LockInv, Mapped, Referring
<1>2. holder[mutex[r]] = r /\ holder[mutex[s]] = s
  BY DEF LockInv, Held
<1> QED
  BY <1>1, <1>2

(* Two networks with one bridge: a client asked for a generated name. *)
LEMMA SharedIsImitated ==
    ASSUME BridgeInv, NEW m \in Existing, NEW n \in Existing, m # n,
           networks[m].bridge = networks[n].bridge
    PROVE  Imitated(networks[m].bridge)
<1>1. networks[m].bridge \in {m, n}
  BY DEF BridgeInv, UniqueBridgeNames
<1> QED
  BY <1>1 DEF BridgeInv, Imitated, Existing

(* A step of s leaves the locals of every other request alone, writes no
   network but the one it has locked, and deletes no rule but its own. *)
LEMMA StepEffect ==
    ASSUME LockInv, NEW s \in Requests, Step(s)
    PROVE  /\ req' = req
           /\ \A r \in Requests \ {s} :
                 /\ pc'[r] = pc[r] /\ netName'[r] = netName[r]
                 /\ iface'[r] = iface[r] /\ resp'[r] = resp[r]
           /\ \A n \in Names : networks'[n] # networks[n] => InCritical(s) /\ n = netName[s]
           /\ \A b \in dropRules \ dropRules' : pc[s] \in {"r_rule", "c_rule"} /\ b = iface[s]
<1> USE DEF Goto, Answer, lockVars, storeVars, localVars
<1>a. TypeOK /\ LocalInv
  BY DEF LockInv
<1>1. CASE Receive(s)
  BY <1>1, <1>a DEF Receive, TypeOK, InCritical, Creating, Removing, Cleaning
<1>2. CASE CreateLookup(s)
  BY <1>2, <1>a DEF CreateLookup, TypeOK, InCritical, Creating, Removing, Cleaning
<1>3. CASE RemoveLookup(s)
  BY <1>3, <1>a DEF RemoveLookup, TypeOK, InCritical, Creating, Removing, Cleaning
<1>4. CASE RemoveUsed(s)
  BY <1>4, <1>a DEF RemoveUsed, TypeOK, InCritical, Creating, Removing, Cleaning
<1>5. CASE Ensure(s)
  BY <1>5, <1>a DEF Ensure, TypeOK, InCritical, Creating, Removing, Cleaning
<1>6. CASE Lock(s)
  BY <1>6, <1>a DEF Lock, TypeOK, InCritical, Creating, Removing, Cleaning
<1>7. CASE ReleaseLock(s)
  BY <1>7, <1>a DEF ReleaseLock, TypeOK, InCritical, Creating, Removing, Cleaning
<1>8. CASE Unlock(s)
  BY <1>8, <1>a DEF Unlock, TypeOK, InCritical, Creating, Removing, Cleaning
<1>9. CASE CreateCheck(s)
  BY <1>9, <1>a DEF CreateCheck, TypeOK, InCritical, Creating, Removing, Cleaning
<1>10. CASE CreateWrite(s)
  BY <1>10, <1>a DEF CreateWrite, TypeOK, InCritical, Creating, Removing, Cleaning
<1>11. CASE SetBridgeCheck(s)
  BY <1>11, <1>a DEF SetBridgeCheck, BridgeTaken, TypeOK, InCritical, Creating, Removing, Cleaning
<1>12. CASE SetBridgeWrite(s)
  BY <1>12, <1>a DEF SetBridgeWrite, TypeOK, InCritical, Creating, Removing, Cleaning
<1>13. CASE GetBridgeName(s)
  BY <1>13, <1>a DEF GetBridgeName, TypeOK, InCritical, Creating, Removing, Cleaning
<1>14. CASE AddICCDropRule(s)
  BY <1>14, <1>a DEF AddICCDropRule, AddRule, DelRule, TypeOK, InCritical, Creating, Removing, Cleaning
<1>15. CASE Cleanup(s)
  BY <1>15, <1>a DEF Cleanup, TypeOK, InCritical, Creating, Removing, Cleaning
<1>16. CASE RemoveLabels(s)
  BY <1>16, <1>a DEF RemoveLabels, TypeOK, InCritical, Creating, Removing, Cleaning
<1>17. CASE RemoveICCDropRule(s)
  BY <1>17, <1>a DEF RemoveICCDropRule, DelRule, TypeOK, InCritical, Creating, Removing, Cleaning
<1>18. CASE RemoveNetwork(s)
  BY <1>18, <1>a DEF RemoveNetwork, TypeOK, InCritical, Creating, Removing, Cleaning
<1> QED
  BY <1>1, <1>2, <1>3, <1>4, <1>5, <1>6, <1>7, <1>8, <1>9, <1>10, <1>11, <1>12, <1>13, <1>14, <1>15, <1>16, <1>17, <1>18 DEF Step

(* Nothing another request does disturbs what a request relies on. *)
LEMMA ReliesStable ==
    ASSUME LockInv, StoreInv, NEW s \in Requests, Step(s), NEW r \in Requests \ {s}
    PROVE  Relies(r)'
<1>a. TypeOK /\ LocalInv /\ Relies(r) /\ Relies(s) /\ BridgeInv
  BY DEF LockInv, StoreInv
<1>b. /\ req' = req /\ pc'[r] = pc[r] /\ netName'[r] = netName[r]
      /\ iface'[r] = iface[r] /\ resp'[r] = resp[r]
  BY StepEffect
<1>c. WantedBridge(r)' = WantedBridge(r) /\ Imitated(WantedBridge(r))' = Imitated(WantedBridge(r))
  BY <1>b DEF WantedBridge, Imitated
<1>1. InCritical(r) => netName[r] \in Names /\ networks'[netName[r]] = networks[netName[r]]
  <2>1. InCritical(r) => netName[r] \in Names
    BY <1>a DEF LocalInv, InCritical, PCs, Creating, Removing, Cleaning
  <2> QED
    BY <2>1, StepEffect, CriticalExclusive
<1>2. ASSUME pc[r] = "release", resp[r] = "created", ~req[r].icc, ~Imitated(WantedBridge(r))
      PROVE  WantedBridge(r) \in dropRules'
  <2>1. InCritical(r) /\ WantedBridge(r) \in dropRules /\ Written(r, WantedBridge(r))
    BY <1>2, <1>a DEF InCritical, Relies
  <2>2. CASE WantedBridge(r) \notin dropRules'
    <3>1. pc[s] \in {"r_rule", "c_rule"} /\ WantedBridge(r) = iface[s]
      BY <2>1, <2>2, StepEffect
    <3>2. InCritical(s) /\ netName[s] \in Names
      BY <3>1, <1>a DEF LocalInv, InCritical, PCs, Creating, Removing
    <3>3. netName[s] \in Existing /\ networks[netName[s]].bridge = WantedBridge(r)
      BY <3>1, <3>2, <1>a, ConstantsAssumption DEF Relies, Written, Existing, NoConfig
    <3>4. netName[r] \in Existing /\ networks[netName[r]].bridge = WantedBridge(r)
      BY <2>1, <1>1, <1>a, ConstantsAssumption DEF Written, Existing, NoConfig
    <3>5. netName[r] = netName[s]
      BY <3>3, <3>4, <1>2, <1>a, SharedIsImitated
    <3> QED
      BY <3>2, <3>5, <2>1, CriticalExclusive
  <2> QED
    BY <2>2
<1> QED
  BY <1>a, <1>b, <1>c, <1>1, <1>2 DEF Relies, Written, InCritical, Creating, Removing

(* Each step leaves its own request with what it relies on next. *)
LEMMA ReliesOwn ==
    ASSUME LockInv, StoreInv, NEW s \in Requests, Step(s)
    PROVE  Relies(s)'
<1> USE DEF Goto, Answer, lockVars, storeVars, localVars, Relies, Written, WantedBridge
<1>a. TypeOK /\ LocalInv /\ Relies(s)
  BY DEF LockInv, StoreInv
<1>b. InCritical(s) => netName[s] \in Names
  BY <1>a DEF LocalInv, InCritical, PCs, Creating, Removing, Cleaning
<1>1. CASE Receive(s)
  BY <1>1, <1>a, <1>b DEF Receive, TypeOK, InCritical, Creating, Removing, Cleaning
<1>2. CASE CreateLookup(s)
  BY <1>2, <1>a, <1>b DEF CreateLookup, TypeOK, InCritical, Creating, Removing, Cleaning
<1>3. CASE RemoveLookup(s)
  BY <1>3, <1>a, <1>b DEF RemoveLookup, TypeOK, InCritical, Creating, Removing, Cleaning
<1>4. CASE RemoveUsed(s)
  BY <1>4, <1>a, <1>b DEF RemoveUsed, TypeOK, InCritical, Creating, Removing, Cleaning
<1>5. CASE Ensure(s)
  BY <1>5, <1>a, <1>b DEF Ensure, TypeOK, InCritical, Creating, Removing, Cleaning
<1>6. CASE Lock(s)
  BY <1>6, <1>a, <1>b DEF Lock, TypeOK, InCritical, Creating, Removing, Cleaning
<1>7. CASE ReleaseLock(s)
  BY <1>7, <1>a, <1>b DEF ReleaseLock, TypeOK, InCritical, Creating, Removing, Cleaning
<1>8. CASE Unlock(s)
  BY <1>8, <1>a, <1>b DEF Unlock, TypeOK, InCritical, Creating, Removing, Cleaning
<1>9. CASE CreateCheck(s)
  BY <1>9, <1>a, <1>b DEF CreateCheck, TypeOK, InCritical, Creating, Removing, Cleaning
<1>10. CASE CreateWrite(s)
  BY <1>10, <1>a, <1>b DEF CreateWrite, TypeOK, InCritical, Creating, Removing, Cleaning
<1>11. CASE SetBridgeCheck(s)
  BY <1>11, <1>a, <1>b DEF SetBridgeCheck, BridgeTaken, TypeOK, InCritical, Creating, Removing, Cleaning
<1>12. CASE SetBridgeWrite(s)
  BY <1>12, <1>a, <1>b, ConstantsAssumption DEF SetBridgeWrite, TypeOK, InCritical, Creating, Removing, Cleaning, LocalInv
<1>13. CASE GetBridgeName(s)
  BY <1>13, <1>a, <1>b DEF GetBridgeName, TypeOK, InCritical, Creating, Removing, Cleaning
<1>14. CASE AddICCDropRule(s)
  BY <1>14, <1>a, <1>b DEF AddICCDropRule, AddRule, DelRule, TypeOK, InCritical, Creating, Removing, Cleaning
<1>15. CASE Cleanup(s)
  BY <1>15, <1>a, <1>b DEF Cleanup, TypeOK, InCritical, Creating, Removing, Cleaning
<1>16. CASE RemoveLabels(s)
  BY <1>16, <1>a, <1>b DEF RemoveLabels, TypeOK, InCritical, Creating, Removing, Cleaning
<1>17. CASE RemoveICCDropRule(s)
  BY <1>17, <1>a, <1>b DEF RemoveICCDropRule, DelRule, TypeOK, InCritical, Creating, Removing, Cleaning
<1>18. CASE RemoveNetwork(s)
  BY <1>18, <1>a, <1>b DEF RemoveNetwork, TypeOK, InCritical, Creating, Removing, Cleaning
<1> QED
  BY <1>1, <1>2, <1>3, <1>4, <1>5, <1>6, <1>7, <1>8, <1>9, <1>10, <1>11, <1>12, <1>13, <1>14, <1>15, <1>16, <1>17, <1>18 DEF Step

(* Bridges stay distinct: nerdctl's are the names themselves, and a custom one
   is written only while the flock keeps the check that nobody has it valid, but
   for the network nerdctl gives that very name meanwhile. *)
LEMMA BridgeStep ==
    ASSUME LockInv, StoreInv, NEW s \in Requests, Step(s)
    PROVE  BridgeInv'
<1> USE DEF Goto, Answer, lockVars, storeVars, localVars
<1>a. TypeOK /\ LocalInv /\ BridgeInv /\ Relies(s)
  BY DEF LockInv, StoreInv
<1>b. InCritical(s) => netName[s] \in Names
  BY <1>a DEF LocalInv, InCritical, PCs, Creating, Removing, Cleaning
<1>c. /\ req' = req
      /\ \A r \in Requests \ {s} : pc'[r] = pc[r]
  BY StepEffect
<1>1. CASE SetBridgeCheck(s)
  BY <1>1, <1>a, <1>c, ConstantsAssumption DEF SetBridgeCheck, BridgeTaken, BridgeInv, TypeOK, UniqueBridgeNames, Existing
<1>2. CASE CreateWrite(s)
  <2>1. /\ netName[s] \in Names /\ pc'[s] # "c_bridge_write" /\ dirLock' = dirLock
        /\ networks' = [networks EXCEPT ![netName[s]] = [bridge |-> netName[s], icc |-> req[s].icc, by |-> s]]
    BY <1>2, <1>a, <1>b DEF CreateWrite, TypeOK, InCritical, Creating
  <2>2. \A n \in Existing' : IF n = netName[s] THEN networks'[n].bridge = n
                              ELSE n \in Existing /\ networks'[n] = networks[n]
    BY <2>1, <1>a DEF Existing, TypeOK
  <2>3. \A n \in Existing' : networks'[n].bridge = n \/ \E r \in Requests : req[r].bridge = networks'[n].bridge
    BY <2>2, <1>a DEF BridgeInv
  <2>4. UniqueBridgeNames'
    BY <2>2, <1>a DEF BridgeInv, UniqueBridgeNames
  <2>5. ASSUME NEW r \in Requests, pc'[r] = "c_bridge_write"
        PROVE  dirLock = r /\ \A n \in Existing' : networks'[n].bridge = req[r].bridge => n = req[r].bridge
    <3>1. r # s /\ pc[r] = "c_bridge_write"
      BY <2>1, <2>5, <1>c
    <3> QED
      BY <3>1, <2>1, <2>2, <1>a DEF BridgeInv
  <2> QED
    BY <2>1, <2>3, <2>4, <2>5, <1>c DEF BridgeInv
<1>3. CASE SetBridgeWrite(s)
  <2>1. /\ netName[s] \in Names /\ pc'[s] # "c_bridge_write"
        /\ dirLock = s
        /\ \A n \in Existing : networks[n].bridge = req[s].bridge => n = req[s].bridge
    BY <1>3, <1>a, <1>b DEF SetBridgeWrite, TypeOK, InCritical, Creating, BridgeInv
  <2>2. \A n \in Existing' : \/ n = netName[s] /\ networks'[n].bridge = req[s].bridge
                             \/ n \in Existing /\ networks'[n] = networks[n]
    <3>1. CASE networks' = networks
      BY <3>1 DEF Existing
    <3>2. CASE networks' = [networks EXCEPT ![netName[s]] =
                              [bridge |-> req[s].bridge, icc |-> @.icc, by |-> @.by]]
      BY <3>2, <2>1, <1>a DEF Existing, TypeOK
    <3> QED
      BY <3>1, <3>2, <1>3 DEF SetBridgeWrite
  <2>3. \A n \in Existing' : networks'[n].bridge = n \/ \E r \in Requests : req[r].bridge = networks'[n].bridge
    BY <2>1, <2>2, <1>a DEF BridgeInv
  <2>4. UniqueBridgeNames'
    BY <2>1, <2>2, <1>a DEF BridgeInv, UniqueBridgeNames
  <2>5. \A r \in Requests : pc'[r] # "c_bridge_write"
    BY <2>1, <1>a, <1>c DEF BridgeInv
  <2> QED
    BY <2>3, <2>4, <2>5, <1>c DEF BridgeInv
<1>4. CASE RemoveNetwork(s)
  <2>1. /\ pc'[s] # "c_bridge_write" /\ dirLock' = dirLock
        /\ \A n \in Existing' : n \in Existing /\ networks'[n] = networks[n]
    BY <1>4, <1>a, <1>b DEF RemoveNetwork, TypeOK, Existing, InCritical, Removing
  <2> QED
    BY <2>1, <1>a, <1>c DEF BridgeInv, UniqueBridgeNames
<1>5. ASSUME UNCHANGED <<networks, dirLock>>, pc'[s] # "c_bridge_write"
      PROVE  BridgeInv'
  BY <1>5, <1>a, <1>c DEF BridgeInv, UniqueBridgeNames, Existing
<1>6. CASE Receive(s)
  BY <1>6, <1>5, <1>a DEF Receive, TypeOK
<1>7. CASE CreateLookup(s)
  BY <1>7, <1>5, <1>a DEF CreateLookup, TypeOK
<1>8. CASE RemoveLookup(s)
  BY <1>8, <1>5, <1>a DEF RemoveLookup, TypeOK
<1>9. CASE RemoveUsed(s)
  BY <1>9, <1>5, <1>a DEF RemoveUsed, TypeOK
<1>10. CASE Ensure(s)
  BY <1>10, <1>5, <1>a DEF Ensure, TypeOK
<1>11. CASE Lock(s)
  BY <1>11, <1>5, <1>a DEF Lock, TypeOK
<1>12. CASE ReleaseLock(s)
  BY <1>12, <1>5, <1>a DEF ReleaseLock, TypeOK
<1>13. CASE Unlock(s)
  BY <1>13, <1>5, <1>a DEF Unlock, TypeOK
<1>14. CASE CreateCheck(s)
  BY <1>14, <1>5, <1>a DEF CreateCheck, TypeOK
<1>15. CASE GetBridgeName(s)
  BY <1>15, <1>5, <1>a DEF GetBridgeName, TypeOK
<1>16. CASE AddICCDropRule(s)
  BY <1>16, <1>5, <1>a DEF AddICCDropRule, AddRule, DelRule, TypeOK
<1>17. CASE Cleanup(s)
  BY <1>17, <1>5, <1>a DEF Cleanup, TypeOK
<1>18. CASE RemoveLabels(s)
  BY <1>18, <1>5, <1>a DEF RemoveLabels, TypeOK
<1>19. CASE RemoveICCDropRule(s)
  BY <1>19, <1>5, <1>a DEF RemoveICCDropRule, DelRule, TypeOK
<1> QED
  BY <1>1, <1>2, <1>3, <1>4, <1>6, <1>7, <1>8, <1>9, <1>10, <1>11, <1>12, <1>13, <1>14, <1>15, <1>16, <1>17, <1>18, <1>19 DEF Step

LEMMA StoreInvInit == Init => StoreInv
<1> SUFFICES ASSUME Init PROVE StoreInv
  OBVIOUS
<1>1. \A r \in Requests : pc[r] = "idle"
  BY DEF Init
<1>2. \A n \in Existing : networks[n].bridge = n
  BY DEF Init, Existing
<1> QED
  BY <1>1, <1>2 DEF StoreInv, BridgeInv, Relies, UniqueBridgeNames

LEMMA StoreInvNext == LockInv /\ StoreInv /\ [Next]_vars => StoreInv'
<1> SUFFICES ASSUME LockInv, StoreInv, [Next]_vars PROVE StoreInv'
  OBVIOUS
<1>1. ASSUME NEW s \in Requests, Step(s) PROVE StoreInv'
  BY <1>1, BridgeStep, ReliesOwn, ReliesStable DEF StoreInv
<1>2. ASSUME UNCHANGED <<pc, resp, localVars, lockVars, storeVars>> PROVE StoreInv'
  BY <1>2 DEF StoreInv, BridgeInv, Relies, Written, WantedBridge, Imitated, UniqueBridgeNames, Existing,
              localVars, storeVars
<1>3. ASSUME NEW n \in Names, Attach(n) \/ Detach(n) PROVE StoreInv'
  BY <1>2, <1>3 DEF Attach, Detach
<1>4. CASE UNCHANGED vars
  BY <1>2, <1>4 DEF vars
<1> QED
  BY <1>1, <1>3, <1>4 DEF Next

LEMMA StoreSafe == Spec => [](LockInv /\ StoreInv)
BY LockInvInit, LockInvNext, StoreInvInit, StoreInvNext, PTL DEF Spec

(* No two networks ever have the same bridge, but for a client that asks for the
   name nerdctl generates for the other. *)
THEOREM UniqueBridgeNamesHold == Spec => []UniqueBridgeNames
<1>1. StoreInv => UniqueBridgeNames
  BY DEF StoreInv, BridgeInv
<1> QED
  BY <1>1, StoreSafe, PTL

(* A Create or Remove that reports success tells the truth about the network
   it leaves behind, whatever other requests do meanwhile. *)
THEOREM AnswerTruthfulHolds == Spec => []AnswerTruthful
<1>1. StoreInv => AnswerTruthful
  BY DEF StoreInv, Relies, Written, AnswerTruthful
<1> QED
  BY <1>1, StoreSafe, PTL

(* A DROP rule is deleted only by the removal, or the failed creation, of the
   network that has the bridge, and of no other unless the name is imitated. *)
THEOREM DropOnlyOwnRuleHolds == Spec => DropOnlyOwnRule
<1> DEFINE Own == \A b \in dropRules \ dropRules' :
                     \E r \in Requests :
                         /\ pc[r] \in {"r_rule", "c_rule"}
                         /\ networks[netName[r]].bridge = b
                         /\ \A n \in Existing : networks[n].bridge = b => n = netName[r] \/ Imitated(b)
<1>1. ASSUME LockInv, StoreInv, [Next]_vars PROVE Own \/ UNCHANGED vars
  <2>1. ASSUME NEW s \in Requests, Step(s), NEW b \in dropRules \ dropRules'
        PROVE  /\ pc[s] \in {"r_rule", "c_rule"}
               /\ networks[netName[s]].bridge = b
               /\ \A n \in Existing : networks[n].bridge = b => n = netName[s] \/ Imitated(b)
    <3>1. pc[s] \in {"r_rule", "c_rule"} /\ b = iface[s] /\ InCritical(s)
      BY <1>1, <2>1, StepEffect DEF InCritical, Creating, Removing
    <3>2. netName[s] \in Existing /\ networks[netName[s]].bridge = b
      <4>1. netName[s] \in Names /\ Relies(s)
        BY <1>1, <3>1, CriticalNamed DEF StoreInv
      <4>2. CASE pc[s] = "c_rule"
        <5>1. networks[netName[s]] = [bridge |-> b, icc |-> req[s].icc, by |-> s]
          BY <4>1, <4>2, <3>1 DEF Relies, Written
        <5> QED
          BY <5>1, <4>1, ConstantsAssumption DEF Existing, NoConfig
      <4>3. CASE pc[s] = "r_rule"
        BY <4>1, <4>3, <3>1 DEF Relies, Existing
      <4> QED
        BY <3>1, <4>2, <4>3
    <3> QED
      BY <1>1, <3>1, <3>2, SharedIsImitated DEF StoreInv
  <2>2. ASSUME NEW n \in Names, Attach(n) \/ Detach(n) PROVE Own
    BY <2>2 DEF Attach, Detach, storeVars
  <2> QED
    BY <1>1, <2>1, <2>2 DEF Next
<1>2. LockInv /\ StoreInv /\ [Next]_vars => [Own]_vars
  BY <1>1
<1> QED
  BY <1>2, StoreSafe, PTL DEF Spec, DropOnlyOwnRule

-----------------------------------------------------------------------------
(* StoreOwner names the one request in the critical section of a name. *)
OwnerKnown ==
    /\ \A r \in Requests : InCritical(r) => StoreOwner[netName[r]] = r
    /\ \A n \in Names : (\A r \in Requests : ~(InCritical(r) /\ netName[r] = n)) => StoreOwner[n] = None

LEMMA OwnerIsKnown == LockInv => OwnerKnown
<1> SUFFICES ASSUME LockInv PROVE OwnerKnown
  OBVIOUS
<1>1. ASSUME NEW r \in Requests, InCritical(r) PROVE StoreOwner[netName[r]] = r
  <2> DEFINE P(q) == q \in Requests /\ InCritical(q) /\ netName[q] = netName[r]
             owner == CHOOSE q \in Requests : InCritical(q) /\ netName[q] = netName[r]
  <2>1. netName[r] \in Names
    BY <1>1, CriticalNamed
  <2>2. owner \in Requests /\ InCritical(owner) /\ netName[owner] = netName[r]
    BY <1>1
  <2>3. owner = r
    BY <1>1, <2>2, CriticalExclusive
  <2> QED
    BY <1>1, <2>1, <2>3 DEF StoreOwner
<1>2. ASSUME NEW n \in Names, \A r \in Requests : ~(InCritical(r) /\ netName[r] = n)
      PROVE  StoreOwner[n] = None
  BY <1>2 DEF StoreOwner
<1> QED
  BY <1>1, <1>2 DEF OwnerKnown

(* Nobody enters or leaves a critical section: the owners stay. *)
LEMMA OwnersKept ==
    ASSUME OwnerKnown, OwnerKnown',
           \A s \in Requests : /\ InCritical(s)' = InCritical(s)
                               /\ InCritical(s) => netName'[s] = netName[s]
    PROVE  StoreOwner' = StoreOwner
<1>1. ASSUME NEW n \in Names PROVE StoreOwner'[n] = StoreOwner[n]
  <2>1. CASE \E r \in Requests : InCritical(r) /\ netName[r] = n
    BY <2>1 DEF OwnerKnown
  <2>2. CASE \A r \in Requests : ~(InCritical(r) /\ netName[r] = n)
    <3>1. \A r \in Requests : ~(InCritical(r)' /\ netName'[r] = n)
      BY <2>2
    <3> QED
      BY <3>1, <2>2 DEF OwnerKnown
  <2> QED
    BY <2>1, <2>2
<1>2. /\ StoreOwner = [n \in Names |-> StoreOwner[n]]
      /\ StoreOwner' = [n \in Names |-> StoreOwner'[n]]
  BY DEF StoreOwner
<1> QED
  BY <1>1, <1>2

(* Only netMu.Lock() and releaseLock move a request into or out of its
   critical section, and no request changes its network while it is in it. *)
LEMMA OwnCritical ==
    ASSUME LockInv, NEW s \in Requests, Step(s), ~Lock(s), ~ReleaseLock(s)
    PROVE  /\ InCritical(s)' = InCritical(s)
           /\ InCritical(s) => netName'[s] = netName[s]
<1> USE DEF Goto, localVars, InCritical, Creating, Removing, Cleaning
<1>a. TypeOK
  BY DEF LockInv
<1>1. CASE Receive(s)
  BY <1>1, <1>a DEF Receive, TypeOK
<1>2. CASE CreateLookup(s)
  BY <1>2, <1>a DEF CreateLookup, TypeOK
<1>3. CASE RemoveLookup(s)
  BY <1>3, <1>a DEF RemoveLookup, TypeOK
<1>4. CASE RemoveUsed(s)
  BY <1>4, <1>a DEF RemoveUsed, TypeOK
<1>5. CASE Ensure(s)
  BY <1>5, <1>a DEF Ensure, TypeOK
<1>6. CASE Unlock(s)
  BY <1>6, <1>a DEF Unlock, TypeOK
<1>7. CASE CreateCheck(s)
  BY <1>7, <1>a DEF CreateCheck, TypeOK
<1>8. CASE CreateWrite(s)
  BY <1>8, <1>a DEF CreateWrite, TypeOK
<1>9. CASE SetBridgeCheck(s)
  BY <1>9, <1>a DEF SetBridgeCheck, TypeOK, BridgeTaken
<1>10. CASE SetBridgeWrite(s)
  BY <1>10, <1>a DEF SetBridgeWrite, TypeOK
<1>11. CASE GetBridgeName(s)
  BY <1>11, <1>a DEF GetBridgeName, TypeOK
<1>12. CASE AddICCDropRule(s)
  BY <1>12, <1>a DEF AddICCDropRule, TypeOK, AddRule, DelRule
<1>13. CASE Cleanup(s)
  BY <1>13, <1>a DEF Cleanup, TypeOK
<1>14. CASE RemoveLabels(s)
  BY <1>14, <1>a DEF RemoveLabels, TypeOK
<1>15. CASE RemoveICCDropRule(s)
  BY <1>15, <1>a DEF RemoveICCDropRule, TypeOK, DelRule
<1>16. CASE RemoveNetwork(s)
  BY <1>16, <1>a DEF RemoveNetwork, TypeOK
<1> QED
  BY <1>1, <1>2, <1>3, <1>4, <1>5, <1>6, <1>7, <1>8, <1>9, <1>10, <1>11, <1>12, <1>13, <1>14, <1>15, <1>16 DEF Step

LEMMA StoreInit == Init => Store!Init
<1> SUFFICES ASSUME Init PROVE Store!Init
  OBVIOUS
<1>1. LockInv /\ OwnerKnown
  BY LockInvInit, OwnerIsKnown
<1>2. \A r \in Requests : ~InCritical(r)
  BY DEF Init, InCritical, Creating, Removing, Cleaning
<1>3. \A n \in Names : StoreOwner[n] = None
  BY <1>1, <1>2 DEF OwnerKnown
<1>4. StoreOwner = [n \in Names |-> None]
  <2>1. StoreOwner = [n \in Names |-> StoreOwner[n]]
    BY DEF StoreOwner
  <2> QED
    BY <1>3, <2>1
<1> QED
  BY <1>1, <1>4 DEF Store!Init, LockInv, TypeOK

(* A step that keeps the owners writes the network of its own request at most. *)
LEMMA StoreWrite ==
    ASSUME LockInv, LockInv', NEW s \in Requests, Step(s), ~Lock(s), ~ReleaseLock(s)
    PROVE  Store!Next \/ UNCHANGED <<StoreOwner, networks>>
<1> DEFINE n == netName[s]
<1>a. TypeOK /\ TypeOK' /\ OwnerKnown
  BY OwnerIsKnown DEF LockInv
<1>b. OwnerKnown'
  BY OwnerIsKnown, PTL
<1>1. StoreOwner' = StoreOwner
  <2>1. \A r \in Requests \ {s} : pc'[r] = pc[r] /\ netName'[r] = netName[r]
    BY StepEffect
  <2>2. \A r \in Requests : /\ InCritical(r)' = InCritical(r)
                            /\ InCritical(r) => netName'[r] = netName[r]
    BY <2>1, OwnCritical DEF InCritical
  <2> QED
    BY <2>2, <1>a, <1>b, OwnersKept
<1>2. CASE networks' = networks
  BY <1>1, <1>2
<1>3. CASE networks' # networks
  <2>1. \A m \in Names : networks'[m] # networks[m] => InCritical(s) /\ m = n
    BY StepEffect
  <2>2. InCritical(s) /\ n \in Names /\ networks' = [networks EXCEPT ![n] = networks'[n]]
    BY <1>3, <1>a, <2>1 DEF TypeOK
  <2>3. StoreOwner[n] = s
    BY <2>2, <1>a DEF OwnerKnown
  <2>4. networks'[n] \in NetworkConfig \cup {NoConfig}
    BY <2>2, <1>a DEF TypeOK
  <2>5. Store!Write(s, n)
    BY <1>1, <2>2, <2>3, <2>4 DEF Store!Write
  <2> QED
    BY <2>2, <2>5 DEF Store!Next
<1> QED
  BY <1>2, <1>3

(* A request that enters or leaves changes the owner of its own name only. *)
LEMMA OwnersElsewhere ==
    ASSUME OwnerKnown, OwnerKnown', NEW s \in Requests, netName' = netName,
           \A r \in Requests \ {s} : InCritical(r)' = InCritical(r)
    PROVE  \A n \in Names \ {netName[s]} : StoreOwner'[n] = StoreOwner[n]
<1> SUFFICES ASSUME NEW n \in Names \ {netName[s]} PROVE StoreOwner'[n] = StoreOwner[n]
  OBVIOUS
<1>1. CASE \E r \in Requests : InCritical(r) /\ netName[r] = n
  BY <1>1 DEF OwnerKnown
<1>2. CASE \A r \in Requests : ~(InCritical(r) /\ netName[r] = n)
  <2>1. \A r \in Requests : ~(InCritical(r)' /\ netName'[r] = n)
    BY <1>2
  <2> QED
    BY <2>1, <1>2 DEF OwnerKnown
<1> QED
  BY <1>1, <1>2

(* netMu.Lock() makes the request the owner of its name.  A cleanup that waits
   for the mutex its own request holds never gets it. *)
LEMMA StoreEnter ==
    ASSUME LockInv, LockInv', NEW s \in Requests, Lock(s)
    PROVE  Store!Next
<1> DEFINE n == netName[s]
<1>a. TypeOK /\ OwnerKnown
  BY OwnerIsKnown DEF LockInv
<1>b. OwnerKnown'
  BY OwnerIsKnown, PTL
<1>1. pc[s] = "lock" /\ ~InCritical(s)
  <2>1. pc[s] # "cleanup_lock"
    BY ConstantsAssumption DEF Lock, LockInv, Held, InCritical, Cleaning
  <2> QED
    BY <2>1 DEF Lock, InCritical, Creating, Removing, Cleaning
<1>2. n \in Names
  BY <1>1 DEF LockInv, LocalInv, PCs
<1>3. /\ InCritical(s)'
      /\ netName' = netName /\ networks' = networks
      /\ \A r \in Requests \ {s} : InCritical(r)' = InCritical(r)
  BY <1>1, <1>a DEF Lock, Goto, localVars, storeVars, TypeOK, InCritical, Creating, Removing
<1>4. \A r \in Requests : ~(InCritical(r) /\ netName[r] = n)
  <2> SUFFICES ASSUME NEW r \in Requests, InCritical(r), netName[r] = n PROVE FALSE
    OBVIOUS
  <2>1. r # s
    BY <1>1
  <2>2. InCritical(r)' /\ netName'[r] = netName'[s]
    BY <1>3, <2>1
  <2>3. r = s
    <3>1. ASSUME NEW p \in Requests PROVE InCritical(p)' => /\ mutex'[p] = networkMutexes'[netName'[p]]
                                                            /\ holder'[mutex'[p]] = p
      BY DEF LockInv, Mapped, Held, Referring
    <3> QED
      BY <3>1, <2>2, <1>3
  <2> QED
    BY <2>1, <2>3
<1>5. StoreOwner[n] = None
  BY <1>2, <1>4, <1>a DEF OwnerKnown
<1>6. StoreOwner' = [StoreOwner EXCEPT ![n] = s]
  <2>1. StoreOwner'[n] = s
    BY <1>3, <1>b DEF OwnerKnown
  <2>2. \A m \in Names \ {n} : StoreOwner'[m] = StoreOwner[m]
    BY <1>3, <1>a, <1>b, OwnersElsewhere
  <2>3. /\ StoreOwner = [m \in Names |-> StoreOwner[m]]
        /\ StoreOwner' = [m \in Names |-> StoreOwner'[m]]
    BY DEF StoreOwner
  <2> QED
    BY <1>2, <2>1, <2>2, <2>3
<1>7. Store!Enter(s, n)
  BY <1>3, <1>5, <1>6 DEF Store!Enter
<1> QED
  BY <1>2, <1>7 DEF Store!Next

(* releaseLock ends the ownership, before the mutex is unlocked. *)
LEMMA StoreLeave ==
    ASSUME LockInv, LockInv', NEW s \in Requests, ReleaseLock(s)
    PROVE  Store!Next
<1> DEFINE n == netName[s]
<1>a. TypeOK /\ OwnerKnown
  BY OwnerIsKnown DEF LockInv
<1>b. OwnerKnown'
  BY OwnerIsKnown, PTL
<1>1. InCritical(s)
  BY DEF ReleaseLock, InCritical
<1>2. n \in Names /\ StoreOwner[n] = s
  BY <1>1, <1>a, CriticalNamed DEF OwnerKnown
<1>3. /\ ~InCritical(s)'
      /\ netName' = netName /\ networks' = networks
      /\ \A r \in Requests \ {s} : InCritical(r)' = InCritical(r)
  BY <1>a DEF ReleaseLock, Goto, localVars, storeVars, TypeOK, InCritical, Creating, Removing, Cleaning
<1>4. StoreOwner' = [StoreOwner EXCEPT ![n] = None]
  <2>1. StoreOwner'[n] = None
    <3>1. \A r \in Requests : ~(InCritical(r)' /\ netName'[r] = n)
      BY <1>1, <1>3, CriticalExclusive
    <3> QED
      BY <3>1, <1>2, <1>b DEF OwnerKnown
  <2>2. \A m \in Names \ {n} : StoreOwner'[m] = StoreOwner[m]
    BY <1>3, <1>a, <1>b, OwnersElsewhere
  <2>3. /\ StoreOwner = [m \in Names |-> StoreOwner[m]]
        /\ StoreOwner' = [m \in Names |-> StoreOwner'[m]]
    BY DEF StoreOwner
  <2> QED
    BY <1>2, <2>1, <2>2, <2>3
<1>5. Store!Leave(s, n)
  BY <1>2, <1>3, <1>4 DEF Store!Leave
<1> QED
  BY <1>2, <1>5 DEF Store!Next

LEMMA StoreNext == LockInv /\ LockInv' /\ [Next]_vars => [Store!Next]_<<StoreOwner, networks>>
<1> SUFFICES ASSUME LockInv, LockInv', [Next]_vars
             PROVE  Store!Next \/ UNCHANGED <<StoreOwner, networks>>
  OBVIOUS
<1>1. ASSUME NEW s \in Requests, Step(s) PROVE Store!Next \/ UNCHANGED <<StoreOwner, networks>>
  BY <1>1, StoreEnter, StoreLeave, StoreWrite
<1>2. ASSUME UNCHANGED <<pc, netName, networks>> PROVE UNCHANGED <<StoreOwner, networks>>
  BY <1>2 DEF StoreOwner, InCritical
<1>3. ASSUME NEW n \in Names, Attach(n) \/ Detach(n) PROVE UNCHANGED <<StoreOwner, networks>>
  BY <1>2, <1>3 DEF Attach, Detach, localVars, storeVars
<1>4. CASE UNCHANGED vars
  BY <1>2, <1>4 DEF vars, localVars, storeVars
<1> QED
  BY <1>1, <1>3, <1>4 DEF Next

(* Create and Remove implement the store in which a name's config is written
   by its owner only: every step of a request is a step of that store, or is
   invisible in it. *)
THEOREM StoreImplemented == Spec => ImplementsStore
<1>1. Spec => []LockInv
  BY LockInvInit, LockInvNext, PTL DEF Spec
<1> QED
  BY <1>1, StoreInit, StoreNext, PTL DEF Spec, ImplementsStore, Store!Spec

-----------------------------------------------------------------------------
(* A Remove has looked a network up before it deletes anything. *)
LookedUp(r) ==
    /\ pc[r] \in {"idle", "c_lookup"} => net[r] = NoConfig
    /\ pc[r] = "c_lookup" => req[r].op = "create"
    /\ pc[r] \in Removing \cup {"r_used"} => net[r] # NoConfig
    /\ pc[r] \in {"ensure", "lock"} /\ req[r].op = "remove" => net[r] # NoConfig

(* The config that was looked up has the label of the request that made it,
   or of the network that was there from the start. *)
SameMaker(r) ==
    /\ net[r] # NoConfig /\ net[r].by # None => net[r].icc = req[net[r].by].icc
    /\ net[r] # NoConfig /\ netName[r] \in Existing /\ net[r].by = networks[netName[r]].by =>
          net[r].icc = networks[netName[r]].icc

(* What a Create that writes, and a Remove that deletes, have established. *)
Ready(r) ==
    /\ pc[r] = "c_write" => networks[netName[r]] = NoConfig
    /\ pc[r] \in {"c_icc", "c_rule"} => ~req[r].icc
    /\ pc[r] = "r_remove" /\ networks[netName[r]] # NoConfig =>
          \/ networks[netName[r]].icc
          \/ networks[netName[r]].bridge \notin dropRules
          \/ Imitated(networks[netName[r]].bridge)
          \/ net[r].by # networks[netName[r]].by

MadeBy == \A n \in Existing : networks[n].by # None => networks[n].icc = req[networks[n].by].icc

RuleInv == MadeBy /\ \A r \in Requests : LookedUp(r) /\ SameMaker(r) /\ Ready(r)

(* A step looks networks up for its own request only; a config it leaves is the
   one that was there, as far as its label and its maker go, or its own; and it
   adds no DROP rule but for the bridge it has read. *)
LEMMA ConfigEffect ==
    ASSUME LockInv, NEW s \in Requests, Step(s)
    PROVE  /\ \A r \in Requests \ {s} : net'[r] = net[r]
           /\ \A n \in Existing' :
                 \/ n \in Existing /\ networks'[n].icc = networks[n].icc /\ networks'[n].by = networks[n].by
                 \/ networks'[n].icc = req[s].icc /\ networks'[n].by = s
           /\ \A b \in dropRules' \ dropRules : pc[s] = "c_rule" /\ b = iface[s]
<1> USE DEF Goto, Answer, lockVars, storeVars, localVars, Existing
<1>a. TypeOK /\ LocalInv
  BY DEF LockInv
<1>b. InCritical(s) => netName[s] \in Names
  BY CriticalNamed
<1>1. CASE Receive(s)
  BY <1>1, <1>a, <1>b DEF Receive, TypeOK, InCritical, Creating, Removing
<1>2. CASE CreateLookup(s)
  BY <1>2, <1>a, <1>b DEF CreateLookup, TypeOK, InCritical, Creating, Removing
<1>3. CASE RemoveLookup(s)
  BY <1>3, <1>a, <1>b DEF RemoveLookup, TypeOK, InCritical, Creating, Removing
<1>4. CASE RemoveUsed(s)
  BY <1>4, <1>a, <1>b DEF RemoveUsed, TypeOK, InCritical, Creating, Removing
<1>5. CASE Ensure(s)
  BY <1>5, <1>a, <1>b DEF Ensure, TypeOK, InCritical, Creating, Removing
<1>6. CASE Lock(s)
  BY <1>6, <1>a, <1>b DEF Lock, TypeOK, InCritical, Creating, Removing
<1>7. CASE ReleaseLock(s)
  BY <1>7, <1>a, <1>b DEF ReleaseLock, TypeOK, InCritical, Creating, Removing
<1>8. CASE Unlock(s)
  BY <1>8, <1>a, <1>b DEF Unlock, TypeOK, InCritical, Creating, Removing
<1>9. CASE CreateCheck(s)
  BY <1>9, <1>a, <1>b DEF CreateCheck, TypeOK, InCritical, Creating, Removing
<1>10. CASE CreateWrite(s)
  BY <1>10, <1>a, <1>b DEF CreateWrite, TypeOK, InCritical, Creating, Removing
<1>11. CASE SetBridgeCheck(s)
  BY <1>11, <1>a, <1>b DEF SetBridgeCheck, BridgeTaken, TypeOK, InCritical, Creating, Removing
<1>12. CASE SetBridgeWrite(s)
  BY <1>12, <1>a, <1>b DEF SetBridgeWrite, TypeOK, InCritical, Creating, Removing
<1>13. CASE GetBridgeName(s)
  BY <1>13, <1>a, <1>b DEF GetBridgeName, TypeOK, InCritical, Creating, Removing
<1>14. CASE AddICCDropRule(s)
  BY <1>14, <1>a, <1>b DEF AddICCDropRule, AddRule, DelRule, TypeOK, InCritical, Creating, Removing
<1>15. CASE Cleanup(s)
  BY <1>15, <1>a, <1>b DEF Cleanup, TypeOK, InCritical, Creating, Removing
<1>16. CASE RemoveLabels(s)
  BY <1>16, <1>a, <1>b DEF RemoveLabels, TypeOK, InCritical, Creating, Removing
<1>17. CASE RemoveICCDropRule(s)
  BY <1>17, <1>a, <1>b DEF RemoveICCDropRule, DelRule, TypeOK, InCritical, Creating, Removing
<1>18. CASE RemoveNetwork(s)
  BY <1>18, <1>a, <1>b, SMTT(30) DEF RemoveNetwork, TypeOK, InCritical, Creating, Removing
<1> QED
  BY <1>1, <1>2, <1>3, <1>4, <1>5, <1>6, <1>7, <1>8, <1>9, <1>10, <1>11, <1>12, <1>13, <1>14, <1>15, <1>16, <1>17, <1>18 DEF Step

LEMMA RuleOwn ==
    ASSUME LockInv, StoreInv, RuleInv, NEW s \in Requests, Step(s)
    PROVE  LookedUp(s)' /\ SameMaker(s)' /\ Ready(s)'
<1> USE DEF Goto, Answer, lockVars, storeVars, localVars, LookedUp, SameMaker, Ready, Imitated
<1>a. TypeOK /\ LocalInv /\ Relies(s) /\ MadeBy /\ LookedUp(s) /\ SameMaker(s) /\ Ready(s)
  BY DEF LockInv, StoreInv, RuleInv
<1>b. InCritical(s) => netName[s] \in Names
  BY CriticalNamed
<1>1. CASE Receive(s)
  BY <1>1, <1>a, <1>b DEF Receive, TypeOK, MadeBy, Existing, Relies, InCritical, Creating, Removing
<1>2. CASE CreateLookup(s)
  BY <1>2, <1>a, <1>b DEF CreateLookup, TypeOK, MadeBy, Existing, Relies, InCritical, Creating, Removing
<1>3. CASE RemoveLookup(s)
  <2>1. ASSUME NEW n \in Names, Matching(req[s].name) = {n}, net' = [net EXCEPT ![s] = networks[n]],
               netName' = [netName EXCEPT ![s] = n], pc' = [pc EXCEPT ![s] = "r_used"]
        PROVE  LookedUp(s)' /\ SameMaker(s)' /\ Ready(s)'
    <3>1. n \in Existing
      BY <2>1 DEF Matching
    <3> QED
      BY <2>1, <3>1, <1>3, <1>a DEF RemoveLookup, TypeOK, MadeBy, Existing, Removing
  <2>2. CASE pc' = [pc EXCEPT ![s] = "done"] /\ UNCHANGED <<net, netName>>
    BY <2>2, <1>3, <1>a DEF RemoveLookup, TypeOK, Existing, Removing
  <2> QED
    BY <2>1, <2>2, <1>3 DEF RemoveLookup
<1>4. CASE RemoveUsed(s)
  BY <1>4, <1>a, <1>b DEF RemoveUsed, TypeOK, MadeBy, Existing, Relies, InCritical, Creating, Removing
<1>5. CASE Ensure(s)
  BY <1>5, <1>a, <1>b DEF Ensure, TypeOK, MadeBy, Existing, Relies, InCritical, Creating, Removing
<1>6. CASE Lock(s)
  <2>1. pc[s] = "lock"
    BY <1>6, ConstantsAssumption DEF Lock, LockInv, Held, InCritical, Cleaning
  <2>2. req[s].op \in {"create", "remove"}
    BY <1>a DEF TypeOK, Ops
  <2> QED
    BY <2>1, <2>2, <1>6, <1>a DEF Lock, TypeOK, Existing, Removing
<1>7. CASE ReleaseLock(s)
  BY <1>7, <1>a, <1>b DEF ReleaseLock, TypeOK, MadeBy, Existing, Relies, InCritical, Creating, Removing
<1>8. CASE Unlock(s)
  BY <1>8, <1>a, <1>b DEF Unlock, TypeOK, MadeBy, Existing, Relies, InCritical, Creating, Removing
<1>9. CASE CreateCheck(s)
  BY <1>9, <1>a, <1>b DEF CreateCheck, TypeOK, MadeBy, Existing, Relies, InCritical, Creating, Removing
<1>10. CASE CreateWrite(s)
  <2>1. /\ UNCHANGED <<net, netName, req>>
        /\ netName[s] \in Names
        /\ networks'[netName[s]].by = s /\ networks'[netName[s]].icc = req[s].icc
        /\ pc'[s] \in {"c_bridge", "c_icc", "release"}
        /\ pc'[s] = "c_icc" => ~req[s].icc
    BY <1>10, <1>a, <1>b DEF CreateWrite, TypeOK, InCritical, Creating
  <2> QED
    BY <2>1, <1>a, ConstantsAssumption DEF Removing
<1>11. CASE SetBridgeCheck(s)
  BY <1>11, <1>a, <1>b DEF SetBridgeCheck, BridgeTaken, TypeOK, MadeBy, Existing, Relies, InCritical, Creating, Removing
<1>12. CASE SetBridgeWrite(s)
  BY <1>12, <1>a, <1>b DEF SetBridgeWrite, TypeOK, MadeBy, Existing, Relies, InCritical, Creating, Removing
<1>13. CASE GetBridgeName(s)
  BY <1>13, <1>a, <1>b DEF GetBridgeName, TypeOK, MadeBy, Existing, Relies, InCritical, Creating, Removing
<1>14. CASE AddICCDropRule(s)
  BY <1>14, <1>a, <1>b DEF AddICCDropRule, AddRule, DelRule, TypeOK, MadeBy, Existing, Relies, InCritical, Creating, Removing
<1>15. CASE Cleanup(s)
  <2>1. /\ UNCHANGED <<networks, netName, req>>
        /\ netName[s] \in Names
        /\ net'[s] \in {net[s], networks[netName[s]]}
        /\ pc'[s] \in {"cleanup_lock", "release"}
    BY <1>15, <1>a, <1>b DEF Cleanup, TypeOK, InCritical, Cleaning
  <2> QED
    BY <2>1, <1>a DEF MadeBy, Existing, Removing
<1>16. CASE RemoveLabels(s)
  BY <1>16, <1>a, <1>b DEF RemoveLabels, TypeOK, MadeBy, Existing, Relies, InCritical, Creating, Removing
<1>17. CASE RemoveICCDropRule(s)
  BY <1>17, <1>a, <1>b DEF RemoveICCDropRule, DelRule, TypeOK, MadeBy, Existing, Relies, InCritical, Creating, Removing
<1>18. CASE RemoveNetwork(s)
  BY <1>18, <1>a, <1>b DEF RemoveNetwork, TypeOK, MadeBy, Existing, Relies, InCritical, Creating, Removing
<1> QED
  BY <1>1, <1>2, <1>3, <1>4, <1>5, <1>6, <1>7, <1>8, <1>9, <1>10, <1>11, <1>12, <1>13, <1>14, <1>15, <1>16, <1>17, <1>18 DEF Step

LEMMA RuleOthers ==
    ASSUME LockInv, StoreInv, RuleInv, NEW s \in Requests, Step(s), NEW r \in Requests \ {s}
    PROVE  LookedUp(r)' /\ SameMaker(r)' /\ Ready(r)'
<1>a. /\ TypeOK /\ Relies(s) /\ MadeBy /\ BridgeInv
      /\ LookedUp(r) /\ SameMaker(r) /\ Ready(r)
  BY DEF LockInv, StoreInv, RuleInv
<1>b. req' = req /\ pc'[r] = pc[r] /\ netName'[r] = netName[r] /\ net'[r] = net[r]
  BY StepEffect, ConfigEffect
<1>c. InCritical(r) => networks'[netName[r]] = networks[netName[r]]
  BY StepEffect, CriticalNamed, CriticalExclusive
<1>1. LookedUp(r)'
  BY <1>a, <1>b DEF LookedUp
<1>2. SameMaker(r)'
  <2> SUFFICES ASSUME net[r] # NoConfig, netName[r] \in Existing', net[r].by = networks'[netName[r]].by
               PROVE  net[r].icc = networks'[netName[r]].icc
    BY <1>a, <1>b DEF SameMaker
  <2>1. s # None
    BY ConstantsAssumption
  <2> QED
    BY <2>1, <1>a, ConfigEffect DEF SameMaker
<1>3. ASSUME pc[r] = "r_remove", networks[netName[r]] # NoConfig,
             networks[netName[r]].bridge \notin dropRules,
             ~Imitated(networks[netName[r]].bridge)
      PROVE  networks[netName[r]].bridge \notin dropRules'
  <2> SUFFICES ASSUME networks[netName[r]].bridge \in dropRules' PROVE FALSE
    OBVIOUS
  <2>1. pc[s] = "c_rule" /\ networks[netName[r]].bridge = iface[s]
    BY <1>3, ConfigEffect
  <2>2. InCritical(r) /\ InCritical(s)
    BY <1>3, <2>1 DEF InCritical, Creating, Removing
  <2>3. networks[netName[s]] = [bridge |-> iface[s], icc |-> req[s].icc, by |-> s]
    BY <2>1, <1>a DEF Relies, Written
  <2>4. networks[netName[s]] # NoConfig
    BY <2>3, ConstantsAssumption DEF NoConfig
  <2>5. netName[r] = netName[s]
    BY <1>3, <2>1, <2>2, <2>3, <2>4, <1>a, CriticalNamed, SharedIsImitated DEF Existing
  <2> QED
    BY <2>2, <2>5, CriticalExclusive
<1>4. Ready(r)'
  BY <1>a, <1>b, <1>c, <1>3 DEF Ready, Imitated, InCritical, Creating, Removing
<1> QED
  BY <1>1, <1>2, <1>4

LEMMA RuleInvInit == Init => RuleInv
<1> SUFFICES ASSUME Init PROVE RuleInv
  OBVIOUS
<1>1. \A r \in Requests : pc[r] = "idle" /\ net[r] = NoConfig
  BY DEF Init
<1>2. \A n \in Existing : networks[n].by = None
  BY DEF Init, Existing
<1> QED
  BY <1>1, <1>2 DEF RuleInv, MadeBy, LookedUp, SameMaker, Ready, Removing

LEMMA RuleInvNext == LockInv /\ StoreInv /\ RuleInv /\ [Next]_vars => RuleInv'
<1> SUFFICES ASSUME LockInv, StoreInv, RuleInv, [Next]_vars PROVE RuleInv'
  OBVIOUS
<1>1. ASSUME NEW s \in Requests, Step(s) PROVE RuleInv'
  <2>1. MadeBy'
    BY <1>1, StepEffect, ConfigEffect DEF RuleInv, MadeBy
  <2> QED
    BY <1>1, <2>1, RuleOwn, RuleOthers DEF RuleInv
<1>2. ASSUME UNCHANGED <<pc, resp, localVars, lockVars, storeVars>> PROVE RuleInv'
  BY <1>2 DEF RuleInv, MadeBy, LookedUp, SameMaker, Ready, Imitated, Existing, localVars, storeVars
<1>3. ASSUME NEW n \in Names, Attach(n) \/ Detach(n) PROVE RuleInv'
  BY <1>2, <1>3 DEF Attach, Detach
<1>4. CASE UNCHANGED vars
  BY <1>2, <1>4 DEF vars
<1> QED
  BY <1>1, <1>3, <1>4 DEF Next

(* A DROP rule that loses its network loses it to a stale Remove. *)
LEMMA RuleStep ==
    ASSUME LockInv, StoreInv, RuleInv, NEW s \in Requests, Step(s), NEW b \in dropRules'
    PROVE  \/ Owned(b)'
           \/ b \in dropRules /\ ~Owned(b)
           \/ Imitated(b)
           \/ /\ pc[s] = "r_remove" /\ net[s].by # networks[netName[s]].by
              /\ networks[netName[s]].bridge = b
<1>a. TypeOK /\ Relies(s) /\ Ready(s) /\ BridgeInv
  BY DEF LockInv, StoreInv, RuleInv
<1>b. \A r \in Requests \ {s} : pc'[r] = pc[r] /\ netName'[r] = netName[r]
  BY StepEffect
<1>1. CASE b \notin dropRules
  <2>1. pc[s] = "c_rule" /\ b = iface[s]
    BY <1>1, ConfigEffect
  <2> DEFINE n == netName[s]
  <2>2. InCritical(s) /\ n \in Names
    BY <2>1, CriticalNamed DEF InCritical, Creating
  <2>3. networks[n].bridge = b /\ ~networks[n].icc /\ networks[n] # NoConfig
    BY <2>1, <1>a, ConstantsAssumption DEF Relies, Written, Ready, NoConfig
  <2>4. UNCHANGED <<networks, netName>> /\ pc'[s] \in {"release", "cleanup"}
    BY <2>1, <1>a DEF Step, Receive, CreateLookup, RemoveLookup, RemoveUsed, Ensure, Lock, ReleaseLock,
       Unlock, CreateCheck, CreateWrite, SetBridgeCheck, SetBridgeWrite, GetBridgeName, AddICCDropRule,
       Cleanup, RemoveLabels, RemoveICCDropRule, RemoveNetwork, Goto, localVars, TypeOK
  <2>5. \A r \in Requests : netName'[r] = n => pc'[r] \notin {"c_bridge", "c_bridge_write"}
    BY <2>2, <2>4, <1>b, CriticalExclusive DEF InCritical, Creating
  <2> QED
    BY <2>2, <2>3, <2>4, <2>5 DEF Owned, Existing
<1>2. CASE b \in dropRules /\ Owned(b)
  <2>1. PICK n \in Existing :
           /\ networks[n].bridge = b /\ ~networks[n].icc
           /\ \A r \in Requests : netName[r] = n => pc[r] \notin {"c_bridge", "c_bridge_write"}
    BY <1>2 DEF Owned
  <2>2. n \in Names /\ networks[n] # NoConfig
    BY DEF Existing
  <2>3. ASSUME networks'[n] = networks[n],
               netName'[s] = n => pc'[s] \notin {"c_bridge", "c_bridge_write"}
        PROVE  Owned(b)'
    BY <2>1, <2>2, <2>3, <1>b DEF Owned, Existing
  <2>4. ASSUME pc'[s] \in {"c_bridge", "c_bridge_write"}, netName'[s] = n PROVE FALSE
    <3>1. netName'[s] = netName[s] /\ pc[s] \in {"c_bridge", "c_write"}
      BY <2>4, <1>a DEF Step, Receive, CreateLookup, RemoveLookup, RemoveUsed, Ensure, Lock, ReleaseLock,
         Unlock, CreateCheck, CreateWrite, SetBridgeCheck, SetBridgeWrite, GetBridgeName, AddICCDropRule,
         Cleanup, RemoveLabels, RemoveICCDropRule, RemoveNetwork, Goto, localVars, TypeOK
    <3> QED
      BY <3>1, <2>1, <2>2, <2>4, <1>a DEF Ready
  <2>5. CASE networks'[n] = networks[n]
    BY <2>3, <2>4, <2>5
  <2>6. CASE networks'[n] # networks[n]
    <3>1. n = netName[s] /\ InCritical(s)
      BY <2>2, <2>6, StepEffect
    <3>2. CreateWrite(s) \/ SetBridgeWrite(s) \/ RemoveNetwork(s)
      BY <2>6 DEF Step, Receive, CreateLookup, RemoveLookup, RemoveUsed, Ensure, Lock, ReleaseLock,
         Unlock, CreateCheck, SetBridgeCheck, GetBridgeName, AddICCDropRule,
         Cleanup, RemoveLabels, RemoveICCDropRule, storeVars
    <3>3. RemoveNetwork(s)
      BY <3>1, <3>2, <2>1, <2>2, <1>a DEF CreateWrite, SetBridgeWrite, Ready
    <3> QED
      BY <3>1, <3>3, <2>1, <2>2, <1>2, <1>a DEF RemoveNetwork, Ready
  <2> QED
    BY <2>5, <2>6
<1> QED
  BY <1>1, <1>2

(* A DROP rule outlives the network it was made for only when a Remove deletes
   a network that was created after the Remove looked the name up, or when the
   bridge is one that two networks may have. *)
THEOREM OrphanOnlyByStaleRemoveHolds == Spec => OrphanOnlyByStaleRemove
<1> DEFINE Orphan == \A b \in dropRules' :
                        \/ Owned(b)'
                        \/ b \in dropRules /\ ~Owned(b)
                        \/ Imitated(b)
                        \/ \E r \in Requests : /\ pc[r] = "r_remove"
                                               /\ net[r].by # networks[netName[r]].by
                                               /\ networks[netName[r]].bridge = b
<1>1. ASSUME LockInv, StoreInv, RuleInv, [Next]_vars PROVE Orphan \/ UNCHANGED vars
  <2>1. ASSUME NEW s \in Requests, Step(s) PROVE Orphan
    BY <1>1, <2>1, RuleStep
  <2>2. ASSUME NEW n \in Names, Attach(n) \/ Detach(n) PROVE Orphan
    BY <2>2 DEF Attach, Detach, storeVars, localVars, Owned, Existing
  <2> QED
    BY <1>1, <2>1, <2>2 DEF Next
<1>2. LockInv /\ StoreInv /\ RuleInv /\ [Next]_vars => [Orphan]_vars
  BY <1>1
<1>3. Spec => [](LockInv /\ StoreInv /\ RuleInv)
  BY StoreSafe, RuleInvInit, RuleInvNext, PTL DEF Spec
<1> QED
  BY <1>2, <1>3, PTL DEF Spec, OrphanOnlyByStaleRemove
=============================================================================
