---------------------------- MODULE DaemonProofs ----------------------------
(***************************************************************************)
(* What a finch-daemon process leaves behind, for any number of processes  *)
(* and any calls that fail: nothing, except the half-made socket of a      *)
(* start that failed.  And what the pid file sees to: one instance at a    *)
(* time, whose sockets are its own, provided that no pid file is removed   *)
(* while another process has it open.                                      *)
(***************************************************************************)
EXTENDS Daemon, TLAPS

(* A socket's name belongs to a listener that its process has made, and has not
   closed. *)
OpenSocket(p) ==
    \A s \in Servers : socket[s] = p /\ pc[p] # "killed" =>
        Named(p, s) /\ server[p][s] \in ServerStates \ {"none", "closed"}

(* The deferred steps are reached with the servers closed that were started. *)
ClosedServers(p) ==
    /\ pc[p] \in {"close_cred", "remove_pid", "exit", "exited"} =>
          server[p]["api"] \in {"none", "listening", "closed"}
    /\ pc[p] \in {"remove_pid", "exit", "exited"} =>
          /\ server[p]["cred"] \notin {"started", "serving"}
          /\ socket["cred"] = p => server[p]["cred"] = "listening"

(* Where no server has been started yet: a server handles signals from its start. *)
NotServing(p) ==
    /\ pc[p] \in {"start", "lock", "read", "write", "unlock", "setup", "cred_stale", "cred_listen",
                  "cred_serve", "refused"}
          => server[p]["cred"] \in {"none", "listening"} /\ handler[p]["cred"] = "none"
    /\ pc[p] \notin {"wait", "close_cred", "remove_pid", "exit", "exited", "killed"}
          => server[p]["api"] \in {"none", "listening"} /\ handler[p]["api"] = "none"
    /\ \A s \in Servers : handler[p][s] # "none" => server[p][s] \notin {"none", "listening"}

(* The pid file is gone once it has been removed, and a process that does not
   use it never wrote it. *)
PidFileGone(p) ==
    /\ pc[p] \in {"exit", "exited"} => pidFile # p
    /\ mode[p] = "nopid" => pidFile # p /\ pc[p] \notin {"lock", "read", "write", "unlock"}

LeftInv ==
    TypeOK /\ \A p \in Processes : OpenSocket(p) /\ ClosedServers(p) /\ NotServing(p) /\ PidFileGone(p)
-----------------------------------------------------------------------------
(* It holds when no process has been started. *)
LEMMA InitLeft == Init => LeftInv
<1> SUFFICES ASSUME Init PROVE LeftInv
  OBVIOUS
<1>1. TypeOK
  BY DEF Init, TypeOK, RunPCs, Ended, ServerStates
<1>2. ASSUME NEW p \in Processes
      PROVE  OpenSocket(p) /\ ClosedServers(p) /\ NotServing(p) /\ PidFileGone(p)
  BY DaemonAssumption DEF Init, OpenSocket, ClosedServers, NotServing, PidFileGone, Servers
<1> QED
  BY <1>1, <1>2 DEF LeftInv

(* TypeOK is inductive. *)
LEMMA NextTypeOK == TypeOK /\ [Next]_vars => TypeOK'
<1> SUFFICES ASSUME TypeOK, [Next]_vars PROVE TypeOK'
  OBVIOUS
<1> USE DEF TypeOK, RunPCs, Ended, Goto, fileVars, serverVars, ServerStates
<1>1. CASE UNCHANGED vars
  BY <1>1 DEF vars
<1> SUFFICES ASSUME Next PROVE TypeOK'
  BY <1>1
<1>m. mode' \in Modes
  BY DEF Next
<1> USE <1>m
<1>2. ASSUME NEW p \in Processes, Run(p) PROVE TypeOK'
  <2>0. CASE OpenPidFile(p)
    <3>1. inode' \in Files \cup {None}
      BY <2>0 DEF OpenPidFile, Files
    <3>2. file' \in [Processes -> Files \cup {None}]
      BY <2>0, <3>1 DEF OpenPidFile
    <3> QED
      BY <2>0, <3>1, <3>2 DEF OpenPidFile
  <2>1. CASE TryLock(p)
    BY <2>1 DEF TryLock, Unlock
  <2>2. CASE ReadPidFile(p)
    BY <2>2 DEF ReadPidFile, Unlock
  <2>3. CASE WritePidFile(p) \/ UnlockPidFile(p) \/ Setup(p)
    BY <2>3, SMTT(30) DEF WritePidFile, UnlockPidFile, Setup, Unlock, Files
  <2>4. CASE RemoveOldCredentialSocket(p)
    BY <2>4 DEF RemoveOldCredentialSocket
  <2>a. CASE GetListener(p) /\ ~Named(p, "api")
    <3>1. server' = server \/ server' = [server EXCEPT ![p]["api"] = "listening"]
      BY <2>a, Zenon DEF GetListener
    <3>2. server' \in [Processes -> [Servers -> ServerStates]]
      <4>1. server[p] \in [Servers -> ServerStates] /\ "listening" \in ServerStates
        BY DEF ServerStates
      <4>2. [server[p] EXCEPT !["api"] = "listening"] \in [Servers -> ServerStates]
        BY <4>1 DEF Servers
      <4> QED
        BY <3>1, <4>2, Zenon
    <3> QED
      BY <2>a, <3>2 DEF GetListener
  <2>5. CASE ListenCredential(p) \/ (GetListener(p) /\ Named(p, "api"))
    <3>1. PICK s \in Servers, l1 \in RunPCs, l2 \in RunPCs : Listen(p, s, l1, l2)
      BY <2>5 DEF ListenCredential, GetListener, Servers
    <3>2. socket' \in [Servers -> Processes \cup {None}]
      BY <3>1 DEF Listen
    <3>3. server' \in [Processes -> [Servers -> ServerStates]]
      <4>1. server' = server \/ server' = [server EXCEPT ![p][s] = "listening"]
        BY <3>1, Zenon DEF Listen
      <4>2. CASE server' = server
        BY <4>2
      <4>3. CASE server' = [server EXCEPT ![p][s] = "listening"]
        BY <4>3
      <4> QED
        BY <4>1, <4>2, <4>3
    <3>4. pc' \in [Processes -> RunPCs]
      BY <3>1 DEF Listen
    <3> QED
      BY <2>5, <3>2, <3>3, <3>4 DEF ListenCredential, GetListener
  <2>6. CASE ServeCredential(p) \/ ServeAPI(p)
    <3>1. PICK s \in Servers : Serve(p, s)
      BY <2>6 DEF ServeCredential, ServeAPI, Servers
    <3>2. server' \in [Processes -> [Servers -> ServerStates]]
      BY <3>1 DEF Serve
    <3>3. handler' \in [Processes -> [Servers ->
              {"none", "waiting", "SIGINT", "SIGTERM", "draining", "removing", "done"}]]
      BY <3>1 DEF Serve
    <3>4. pc' \in [Processes -> RunPCs]
      BY <2>6 DEF ServeCredential, ServeAPI
    <3> QED
      BY <3>1, <3>2, <3>3, <3>4 DEF Serve
  <2>7. CASE Wait(p) \/ RemovePidFile(p)
    BY <2>7 DEF Wait, RemovePidFile
  <2>8. CASE CloseCredential(p)
    <3>1. server' \in [Processes -> [Servers -> ServerStates]]
      BY <2>8 DEF CloseCredential, AfterClose, Servers
    <3> QED
      BY <2>8, <3>1 DEF CloseCredential, Servers
  <2>9. CASE Exit(p)
    BY <2>9 DEF Exit, Unlock
  <2> QED
    BY <1>2, <2>0, <2>1, <2>2, <2>3, <2>4, <2>a, <2>5, <2>6, <2>7, <2>8, <2>9 DEF Run
<1>3. ASSUME NEW p \in Processes, NEW s \in Servers, CallServe(p, s) \/ HandleSignal(p, s) PROVE TypeOK'
  <2>0. CASE CallServe(p, s)
    <3>1. server' \in [Processes -> [Servers -> ServerStates]]
      <4>1. PICK state \in ServerStates : server' = [server EXCEPT ![p][s] = state]
        BY <2>0 DEF CallServe
      <4> QED
        BY <4>1
    <3>2. socket' \in [Servers -> Processes \cup {None}]
      BY <2>0 DEF CallServe, Unlinked
    <3> QED
      BY <2>0, <3>1, <3>2 DEF CallServe
  <2>1. CASE CloseServer(p, s)
    <3>1. server' \in [Processes -> [Servers -> ServerStates]]
      BY <2>1 DEF CloseServer, AfterClose
    <3>2. handler' \in [Processes -> [Servers ->
              {"none", "waiting", "SIGINT", "SIGTERM", "draining", "removing", "done"}]]
      BY <2>1 DEF CloseServer
    <3>3. socket' \in [Servers -> Processes \cup {None}] /\ active' \subseteq Processes
      BY <2>1 DEF CloseServer, Unlinked
    <3> QED
      BY <2>1, <3>1, <3>2, <3>3 DEF CloseServer
  <2>2. CASE Drained(p, s) \/ RemoveSocket(p, s)
    <3>1. handler' = [handler EXCEPT ![p][s] = "done"]
      BY <2>2, Zenon DEF Drained, RemoveSocket
    <3>2. handler' \in [Processes -> [Servers ->
              {"none", "waiting", "SIGINT", "SIGTERM", "draining", "removing", "done"}]]
      BY <3>1
    <3>3. socket' = socket \/ socket' = [socket EXCEPT ![s] = IF Named(p, s) THEN None ELSE @]
      BY <2>2, Zenon DEF Drained, RemoveSocket, Unlinked
    <3>4. socket' \in [Servers -> Processes \cup {None}]
      BY <3>3
    <3> QED
      BY <2>2, <3>2, <3>4 DEF Drained, RemoveSocket
  <2> QED
    BY <1>3, <2>0, <2>1, <2>2 DEF HandleSignal
<1>4. ASSUME NEW p \in Processes, NEW sig \in {"SIGINT", "SIGTERM"}, Signal(p, sig) PROVE TypeOK'
  BY <1>4 DEF Signal
<1>5. ASSUME NEW p \in Processes, Kill(p) PROVE TypeOK'
  BY <1>5 DEF Kill, Unlock
<1>6. ASSUME NEW p \in Processes, Accept(p) \/ Finish(p) PROVE TypeOK'
  BY <1>6 DEF Accept, Finish
<1> QED
  BY <1>2, <1>3, <1>4, <1>5, <1>6 DEF Next, Step

(* The invariant of each process, q's step included. *)
LeftFor(p) == OpenSocket(p) /\ ClosedServers(p) /\ NotServing(p) /\ PidFileGone(p)

(* No step of any process breaks it for another. *)
LEMMA NextLeft == LeftInv /\ [Next]_vars => LeftInv'
<1> SUFFICES ASSUME LeftInv, [Next]_vars PROVE LeftInv'
  OBVIOUS
<1>1. TypeOK /\ TypeOK'
  BY NextTypeOK DEF LeftInv
<1> SUFFICES ASSUME NEW p \in Processes PROVE LeftFor(p)'
  BY <1>1 DEF LeftInv, LeftFor
<1>2. LeftFor(p)
  BY DEF LeftInv, LeftFor
<1> USE <1>1, <1>2 DEF LeftFor, OpenSocket, ClosedServers, NotServing, PidFileGone, TypeOK, Goto,
    fileVars, serverVars, Servers, ServerStates, Named
<1>3. CASE UNCHANGED vars
  BY <1>3 DEF vars
<1> SUFFICES ASSUME Next PROVE LeftFor(p)'
  BY <1>3
<1>m. mode' = mode
  BY DEF Next
<1> USE <1>m
<1>4. ASSUME NEW q \in Processes, Run(q) PROVE LeftFor(p)'
  <2>0. CASE OpenPidFile(q)
    BY <2>0, DaemonAssumption DEF OpenPidFile, UsesPidFile
  <2>1. CASE TryLock(q)
    BY <2>1 DEF TryLock
  <2>2. CASE ReadPidFile(q)
    BY <2>2 DEF ReadPidFile
  <2>3. CASE WritePidFile(q)
    BY <2>3 DEF WritePidFile
  <2>4. CASE UnlockPidFile(q) \/ Setup(q)
    BY <2>4 DEF UnlockPidFile, Setup
  <2>5. CASE RemoveOldCredentialSocket(q)
    BY <2>5, DaemonAssumption DEF RemoveOldCredentialSocket
  <2>6. CASE ListenCredential(q)
    BY <2>6, DaemonAssumption DEF ListenCredential, Listen
  <2>7. CASE GetListener(q)
    BY <2>7, DaemonAssumption DEF GetListener, Listen
  <2>8. CASE ServeCredential(q)
    BY <2>8 DEF ServeCredential, Serve
  <2>9. CASE ServeAPI(q)
    BY <2>9 DEF ServeAPI, Serve
  <2>10. CASE Wait(q)
    BY <2>10 DEF Wait
  <2>11. CASE CloseCredential(q)
    BY <2>11, DaemonAssumption DEF CloseCredential, AfterClose
  <2>12. CASE RemovePidFile(q)
    BY <2>12, DaemonAssumption DEF RemovePidFile, UsesPidFile
  <2>13. CASE Exit(q)
    BY <2>13 DEF Exit
  <2> QED
    BY <1>4, <2>0, <2>1, <2>2, <2>3, <2>4, <2>5, <2>6, <2>7, <2>8, <2>9, <2>10, <2>11, <2>12, <2>13
    DEF Run
<1>5. ASSUME NEW q \in Processes, NEW s \in Servers, CallServe(q, s) \/ HandleSignal(q, s)
      PROVE  LeftFor(p)'
  <2>0. CASE CallServe(q, s)
    BY <2>0, DaemonAssumption, SMTT(30) DEF CallServe, Unlinked, Alive, Ended
  <2>1. CASE CloseServer(q, s)
    <3>1. /\ pc[q] \notin Ended /\ handler[q][s] # "none"
          /\ UNCHANGED <<pc, pidFile>>
          /\ server' = [server EXCEPT ![q][s] = AfterClose(@)]
          /\ handler'[p] = handler[p] \/ p = q
          /\ \A t \in Servers : t # s => socket'[t] = socket[t] /\ handler'[q][t] = handler[q][t]
          /\ socket'[s] = socket[s] \/ socket'[s] = None
          /\ server[q][s] = "serving" /\ Named(q, s) => socket'[s] = None
      BY <2>1 DEF CloseServer, Unlinked, Alive
    <3>2. OpenSocket(p)'
      BY <3>1, DaemonAssumption DEF AfterClose
    <3>3. ClosedServers(p)'
      BY <3>1, DaemonAssumption DEF AfterClose, Ended
    <3>4. NotServing(p)' /\ PidFileGone(p)'
      BY <3>1, DaemonAssumption DEF AfterClose, Ended
    <3> QED
      BY <3>2, <3>3, <3>4
  <2>2. CASE Drained(q, s)
    BY <2>2 DEF Drained
  <2>3. CASE RemoveSocket(q, s)
    BY <2>3, DaemonAssumption DEF RemoveSocket, Unlinked
  <2> QED
    BY <1>5, <2>0, <2>1, <2>2, <2>3 DEF HandleSignal
<1>6. ASSUME NEW q \in Processes, NEW sig \in {"SIGINT", "SIGTERM"}, Signal(q, sig)
      PROVE LeftFor(p)'
  BY <1>6 DEF Signal
<1>7. ASSUME NEW q \in Processes, Kill(q) \/ Accept(q) \/ Finish(q) PROVE LeftFor(p)'
  BY <1>7 DEF Kill, Accept, Finish, Alive, Ended
<1> QED
  BY <1>4, <1>5, <1>6, <1>7 DEF Next, Step

(* What run() and handleSignal preserve for the deferred calls. *)
LEMMA LeftSafe == Spec => []LeftInv
BY InitLeft, NextLeft, PTL DEF Spec

(* run(), getListener and handleSignal keep every variable in its type. *)
THEOREM TypeCorrect == Spec => []TypeOK
<1>1. LeftInv => TypeOK
  BY DEF LeftInv
<1> QED
  BY LeftSafe, <1>1, PTL

(* The deferred calls of run(): a process that has returned from it has left
   no pid file, and a socket only where making the socket failed half-way,
   whatever other processes do with the same names. *)
THEOREM NothingLeftOnExitHolds == Spec => []NothingLeftOnExit
<1>1. LeftInv => NothingLeftOnExit
  BY DEF LeftInv, NothingLeftOnExit, OpenSocket, ClosedServers, PidFileGone, Servers, ServerStates, TypeOK
<1> QED
  BY LeftSafe, <1>1, PTL

-----------------------------------------------------------------------------
(* The one thing the code does not see to (main.go:147 removes the pid file
   without a look at its lock): a pid file is removed when nobody has it open,
   neither to lock it nor with its lock. *)
RemovesUnopened ==
    \A p \in Processes : RemovePidFile(p) /\ UsesPidFile(p) => \A q \in Processes : file[q] # inode

(* The file a process has open is the one that has the name. *)
Opened(p) ==
    /\ file[p] \in {None, inode}
    /\ pc[p] \in {"lock", "read", "write", "unlock"} => file[p] = inode /\ inode # None
    /\ inode = None => pidFile = None

(* From TryLock to Unlock a process, and one alone, has the lock. *)
Locked(p) ==
    /\ pc[p] \in {"read", "write", "unlock"} <=> p \in locked
    /\ \A q \in Processes : p \in locked /\ q \in locked => p = q

(* The pid in the file is that of the instance that runs. *)
Written(p) == UsesPidFile(p) /\ Running(p) => pidFile = p

(* When pidfile.Write comes to write, no instance runs. *)
Fresh(p) == pc[p] = "write" => \A q \in Processes : UsesPidFile(q) => ~Running(q)

(* A server begins with its listener. *)
Begun(p) ==
    pc[p] \in {"start", "lock", "read", "write", "unlock", "setup", "cred_stale", "cred_listen",
               "refused"} => server[p]["cred"] = "none"

InstanceFor(p) == Opened(p) /\ Locked(p) /\ Written(p) /\ Fresh(p) /\ Begun(p)

InstanceInv == \A p \in Processes : InstanceFor(p)

(* It holds when no process has been started. *)
LEMMA InitInstance == Init => InstanceInv
BY DEF Init, InstanceInv, InstanceFor, Opened, Locked, Written, Fresh, Begun, Running, Alive, Ended, Servers

(* A step of run() up to the removal of the pid file keeps the lock, the pid in
   the file and the instance in agreement. *)
LEMMA NextInstance == LeftInv /\ InstanceInv /\ [Next /\ RemovesUnopened]_vars => InstanceInv'
<1> SUFFICES ASSUME LeftInv, InstanceInv, [Next /\ RemovesUnopened]_vars,
                    NEW p \in Processes
             PROVE  InstanceFor(p)'
  BY DEF InstanceInv
<1>1. TypeOK /\ \A q \in Processes : InstanceFor(q) /\ LeftFor(q)
  BY DEF InstanceInv, LeftInv, LeftFor
<1>2. CASE UNCHANGED vars
  BY <1>1, <1>2 DEF vars, fileVars, serverVars, InstanceFor, Opened, Locked, Written, Fresh, Begun,
     Running, Alive, UsesPidFile
<1> SUFFICES ASSUME Next, RemovesUnopened PROVE InstanceFor(p)'
  BY <1>2
<1>3. mode' = mode
  BY DEF Next
<1> HIDE DEF LeftInv, InstanceInv
<1> USE <1>1, <1>3, DaemonAssumption DEF InstanceFor, Opened, Locked, Written, Fresh, Begun, Running,
    Alive, Ended, UsesPidFile, TypeOK, Goto, fileVars, serverVars, Servers
<1>4. ASSUME NEW q \in Processes, Run(q) PROVE InstanceFor(p)'
  <2>0. CASE OpenPidFile(q)
    <3>1. pc[q] = "start" /\ UNCHANGED serverVars /\ UNCHANGED locked
      BY <2>0 DEF OpenPidFile
    <3>2. CASE ~UsesPidFile(q) /\ Goto(q, "setup") /\ UNCHANGED fileVars
      BY <3>1, <3>2
    <3>3. CASE /\ inode = None /\ inode' = <<q, "open">> /\ pidFile' = "empty"
               /\ file' = [file EXCEPT ![q] = <<q, "open">>] /\ Goto(q, "lock")
      <4>1. <<q, "open">> # None
        BY DEF Files
      <4>2. \A r \in Processes : file[r] = None
        BY <3>3
      <4>3. Opened(p)' /\ Locked(p)' /\ Begun(p)'
        BY <3>1, <3>3, <4>1, <4>2
      <4>4. Written(p)' /\ Fresh(p)'
        BY <3>1, <3>3
      <4> QED
        BY <4>3, <4>4
    <3>4. CASE /\ inode # None /\ inode' = inode /\ pidFile' = pidFile
               /\ file' = [file EXCEPT ![q] = inode] /\ Goto(q, "lock")
      BY <3>1, <3>4
    <3> QED
      BY <2>0, <3>1, <3>2, <3>3, <3>4 DEF OpenPidFile
  <2>1. CASE TryLock(q)
    <3>1. pc[q] = "lock" /\ UNCHANGED serverVars /\ UNCHANGED <<pidFile, inode>>
      BY <2>1 DEF TryLock
    <3>2. CASE /\ \A r \in locked : file[r] # file[q]
               /\ locked' = locked \cup {q} /\ Goto(q, "read") /\ UNCHANGED file
      <4>1. locked = {}
        BY <3>1, <3>2
      <4> QED
        BY <3>1, <3>2, <4>1
    <3>3. CASE Goto(q, "refused") /\ Unlock(q)
      BY <3>1, <3>3 DEF Unlock
    <3> QED
      BY <2>1, <3>2, <3>3 DEF TryLock
  <2>2. CASE ReadPidFile(q)
    BY <2>2 DEF ReadPidFile, Unlock, LeftFor, PidFileGone
  <2>3. CASE WritePidFile(q)
    BY <2>3 DEF WritePidFile, LeftFor, PidFileGone
  <2>4. CASE UnlockPidFile(q)
    BY <2>4 DEF UnlockPidFile, Unlock, LeftFor, PidFileGone
  <2>5. CASE Setup(q)
    BY <2>5, SMTT(60) DEF Setup
  <2>6. CASE RemoveOldCredentialSocket(q)
    BY <2>6, SMTT(60) DEF RemoveOldCredentialSocket
  <2>7. CASE ListenCredential(q)
    <3>1. /\ pc[q] = "cred_listen" /\ UNCHANGED <<fileVars, handler>>
          /\ Goto(q, "cred_serve") \/ Goto(q, "remove_pid")
          /\ server' = server \/ server' = [server EXCEPT ![q]["cred"] = "listening"]
      BY <2>7, Zenon DEF ListenCredential, Listen
    <3>2. Opened(p)' /\ Locked(p)' /\ Written(p)' /\ Fresh(p)'
      BY <3>1, SMTT(60)
    <3>3. Begun(p)'
      BY <3>1 DEF LeftFor, NotServing
    <3> QED
      BY <3>2, <3>3
  <2>8. CASE GetListener(q)
    BY <2>8, SMTT(60) DEF GetListener, Listen, LeftFor, NotServing
  <2>9. CASE ServeCredential(q)
    BY <2>9 DEF ServeCredential, Serve
  <2>10. CASE ServeAPI(q)
    BY <2>10 DEF ServeAPI, Serve
  <2>11. CASE Wait(q)
    BY <2>11 DEF Wait
  <2>12. CASE CloseCredential(q)
    BY <2>12 DEF CloseCredential, AfterClose
  <2>13. CASE RemovePidFile(q)
    <3>1. pc[q] = "remove_pid" /\ Goto(q, "exit") /\ UNCHANGED serverVars
      BY <2>13 DEF RemovePidFile
    <3>2. CASE UsesPidFile(q) /\ pidFile' = None /\ inode' = None /\ UNCHANGED <<file, locked>>
      <4>1. \A r \in Processes : file[r] = None
        BY <2>13, <3>2 DEF RemovesUnopened
      <4>2. pidFile = q
        BY <3>1, <3>2
      <4>3. Opened(p)' /\ Locked(p)' /\ Begun(p)'
        BY <3>1, <3>2, <4>1
      <4>4. Fresh(p)'
        BY <3>1, <3>2, <4>1
      <4>5. Written(p)'
        BY <3>1, <3>2, <4>2
      <4> QED
        BY <4>3, <4>4, <4>5
    <3>3. CASE ~UsesPidFile(q) /\ UNCHANGED fileVars
      BY <3>1, <3>3
    <3> QED
      BY <2>13, <3>2, <3>3 DEF RemovePidFile
  <2>14. CASE Exit(q)
    BY <2>14 DEF Exit, Unlock
  <2> QED
    BY <1>4, <2>0, <2>1, <2>2, <2>3, <2>4, <2>5, <2>6, <2>7, <2>8, <2>9, <2>10, <2>11, <2>12, <2>13, <2>14
    DEF Run
<1>5. ASSUME NEW q \in Processes, NEW s \in Servers, CallServe(q, s) \/ HandleSignal(q, s)
      PROVE  InstanceFor(p)'
  <2>0. CASE CallServe(q, s)
    <3>1. /\ UNCHANGED <<pc, fileVars, handler>>
          /\ server[q][s] \in {"started", "closing"}
          /\ \E state \in {"serving", "closed"} : server' = [server EXCEPT ![q][s] = state]
      BY <2>0 DEF CallServe
    <3>2. Begun(p)'
      BY <3>1 DEF LeftFor, NotServing
    <3> QED
      BY <3>1, <3>2
  <2>1. CASE CloseServer(q, s)
    BY <2>1 DEF CloseServer, AfterClose, LeftFor, NotServing
  <2>2. CASE Drained(q, s)
    BY <2>2 DEF Drained
  <2>3. CASE RemoveSocket(q, s)
    BY <2>3 DEF RemoveSocket
  <2> QED
    BY <1>5, <2>0, <2>1, <2>2, <2>3 DEF HandleSignal
<1>6. ASSUME NEW q \in Processes, NEW sig \in {"SIGINT", "SIGTERM"}, Signal(q, sig)
      PROVE InstanceFor(p)'
  BY <1>6 DEF Signal
<1>7. ASSUME NEW q \in Processes, Kill(q) PROVE InstanceFor(p)'
  <2>1. /\ Alive(q) /\ Goto(q, "killed") /\ UNCHANGED <<pidFile, inode>>
        /\ file' = [file EXCEPT ![q] = None] /\ locked' = locked \ {q}
        /\ server' = [server EXCEPT ![q] = [s \in Servers |-> "none"]]
        /\ handler' = [handler EXCEPT ![q] = [s \in Servers |-> "none"]]
    BY <1>7 DEF Kill, Unlock
  <2>2. Opened(p)' /\ Locked(p)' /\ Written(p)'
    BY <2>1
  <2>3. Fresh(p)' /\ Begun(p)'
    BY <2>1
  <2> QED
    BY <2>2, <2>3
<1>8. ASSUME NEW q \in Processes, Accept(q) \/ Finish(q) PROVE InstanceFor(p)'
  BY <1>8 DEF Accept, Finish
<1> QED
  BY <1>4, <1>5, <1>6, <1>7, <1>8 DEF Next, Step

(* The two invariants of the processes, as long as pid files are removed
   unopened. *)
LEMMA InstanceSafe == Spec /\ [][RemovesUnopened]_vars => [](LeftInv /\ InstanceInv)
<1>1. InstanceInv /\ LeftInv /\ [Next]_vars /\ [RemovesUnopened]_vars => InstanceInv'
  BY NextInstance
<1> QED
  BY InitLeft, NextLeft, InitInstance, <1>1, PTL DEF Spec

(* main.go:136: TryLock, pidfile.Write and the removal let one instance at a time
   use the pid file, for any number of processes that start, fail, end and are
   killed, as long as none removes the pid file while another has it open, be it
   before or after the flock.  Every way to two instances has such a removal. *)
THEOREM OneInstanceHolds == Spec /\ [][RemovesUnopened]_vars => []OneInstance
<1>1. LeftInv /\ InstanceInv => OneInstance
  BY DEF InstanceInv, InstanceFor, Written, OneInstance
<1> QED
  BY InstanceSafe, <1>1, PTL

(* What a step can do to a socket's name that a running instance has. *)
LEMMA SocketStep ==
    ASSUME LeftInv, InstanceInv, Next,
           NEW p \in Processes, NEW s \in Servers,
           socket[s] = p, Running(p), socket'[s] # p,
           \A q \in Processes : UsesPidFile(q)
    PROVE  \/ handler[p][s] \in {"SIGINT", "SIGTERM"}
           \/ pc[p] = "close_cred"
           \/ \E q \in Processes : /\ Alive(q)
                                   /\ handler[q][s] = "removing" \/ server[q][s] = "closing"
<1>1. TypeOK /\ \A q \in Processes : InstanceFor(q) /\ LeftFor(q)
  BY DEF InstanceInv, LeftInv, LeftFor
<1>2. ASSUME NEW q \in Processes, Running(q) PROVE q = p
  BY <1>1, <1>2 DEF InstanceFor, Written
<1> DEFINE Excused ==
      \/ handler[p][s] \in {"SIGINT", "SIGTERM"}
      \/ pc[p] = "close_cred"
      \/ \E q \in Processes : /\ Alive(q)
                              /\ handler[q][s] = "removing" \/ server[q][s] = "closing"
<1> SUFFICES Excused
  OBVIOUS
<1> USE <1>1, <1>2, DaemonAssumption DEF TypeOK, fileVars, serverVars, Servers
<1>3. ASSUME NEW q \in Processes, Run(q) PROVE Excused
  <2>1. CASE \/ OpenPidFile(q) \/ TryLock(q) \/ ReadPidFile(q) \/ WritePidFile(q) \/ UnlockPidFile(q)
             \/ Setup(q)
    BY <2>1 DEF OpenPidFile, TryLock, ReadPidFile, WritePidFile, UnlockPidFile, Setup
  <2>2. CASE RemoveOldCredentialSocket(q)
    <3>1. Running(q) /\ s = "cred" /\ server[q]["cred"] = "none"
      BY <2>2 DEF RemoveOldCredentialSocket, Running, Alive, Ended, InstanceFor, Begun
    <3> QED
      BY <3>1 DEF LeftFor, OpenSocket, ServerStates, Running, Alive, Ended
  <2>3. CASE ListenCredential(q) \/ GetListener(q)
    BY <2>3 DEF ListenCredential, GetListener, Listen
  <2>4. CASE ServeCredential(q) \/ ServeAPI(q)
    BY <2>4 DEF ServeCredential, ServeAPI, Serve
  <2>5. CASE Wait(q) \/ RemovePidFile(q) \/ Exit(q)
    BY <2>5 DEF Wait, RemovePidFile, Exit
  <2>6. CASE CloseCredential(q)
    BY <2>6 DEF CloseCredential, Running, Alive, Ended
  <2> QED
    BY <1>3, <2>1, <2>2, <2>3, <2>4, <2>5, <2>6 DEF Run
<1>4. ASSUME NEW q \in Processes, NEW t \in Servers, CallServe(q, t) \/ HandleSignal(q, t)
      PROVE  Excused
  <2>0. CASE CallServe(q, t)
    BY <2>0 DEF CallServe, Unlinked
  <2>1. CASE CloseServer(q, t)
    <3>1. t = s /\ server[q][s] = "serving" /\ handler[q][s] \in {"SIGINT", "SIGTERM"} /\ Alive(q)
      BY <2>1 DEF CloseServer, Unlinked
    <3>2. Running(q)
      BY <3>1 DEF Running, LeftFor, ClosedServers, NotServing
    <3> QED
      BY <3>1, <3>2
  <2>2. CASE Drained(q, t)
    BY <2>2 DEF Drained
  <2>3. CASE RemoveSocket(q, t)
    BY <2>3 DEF RemoveSocket, Unlinked
  <2> QED
    BY <1>4, <2>0, <2>1, <2>2, <2>3 DEF HandleSignal
<1>5. ASSUME NEW q \in Processes, NEW sig \in {"SIGINT", "SIGTERM"}, Signal(q, sig) PROVE Excused
  BY <1>5 DEF Signal
<1>6. ASSUME NEW q \in Processes, Kill(q) \/ Accept(q) \/ Finish(q) PROVE Excused
  BY <1>6 DEF Kill, Accept, Finish
<1> QED
  BY <1>3, <1>4, <1>5, <1>6 DEF Next, Step

(* handleSignal and the socket clean-ups: where all processes use a pid file and
   remove it unopened, a running instance loses a socket's name by its own doing,
   by the late os.Remove of an instance that SIGTERM has ended, or by the late
   Serve of one that was closed before it served. *)
THEOREM SocketLostOnlyByLateCleanupHolds ==
    Spec /\ [][RemovesUnopened]_vars => SocketLostOnlyByLateCleanup
<1> DEFINE KeptOrExcused ==
      \A s \in Servers, p \in Processes :
          socket[s] = p /\ Running(p) /\ socket'[s] # p /\ (\A q \in Processes : UsesPidFile(q)) =>
              \/ handler[p][s] \in {"SIGINT", "SIGTERM"}
              \/ pc[p] = "close_cred"
              \/ \E q \in Processes : /\ Alive(q)
                                      /\ handler[q][s] = "removing" \/ server[q][s] = "closing"
<1>1. LeftInv /\ InstanceInv /\ [Next]_vars => [KeptOrExcused]_vars
  BY SocketStep
<1> QED
  BY InstanceSafe, <1>1, PTL DEF Spec, SocketLostOnlyByLateCleanup
=============================================================================
