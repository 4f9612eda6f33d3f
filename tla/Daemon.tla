------------------------------- MODULE Daemon -------------------------------
(***************************************************************************)
(* The life of finch-daemon processes that share a pid file, an API socket *)
(* and a credential socket (cmd/finch-daemon/main.go): starting up, the    *)
(* two servers with a signal handler each, the deferred clean-up, and      *)
(* being killed.  A process runs once; a restart is another process.       *)
(*                                                                         *)
(* The flock on the pid file is on the file, not on its name, and is taken *)
(* some time after the file was opened: a process may open, and lock, a    *)
(* file that has no name any more.  A file is named after the process that *)
(* made it and the call that did.  A socket's name can be unlinked or      *)
(* taken over by any process; the owner keeps its listener.                *)
(***************************************************************************)
EXTENDS Integers, FiniteSets

CONSTANTS
    Processes,  \* finch-daemon processes
    Modes,      \* how they are started: the combinations studied
    MayFail,    \* calls that may fail
    None        \* no file, no process

Servers == {"cred", "api"}

(* The files that come to have the pid file's name: each process makes one at
   most when it opens the name, and one at most when it writes to it. *)
Files == Processes \X {"open", "write"}

ASSUME DaemonAssumption ==
    /\ {None, "empty"} \cap Processes = {} /\ None \notin Files
    /\ Modes \subseteq [Processes -> {"plain", "fd", "nopid"}]
    /\ MayFail \subseteq {"setup", "chown"}

VARIABLES
    mode,      \* options: "fd" with --socket-addr fd://, "nopid" with an empty --pidfile
    pc,        \* where run() is in each process
    pidFile,   \* what the pid file says: None, "empty", or the process whose pid it holds
    inode,     \* the file that has the pid file's name
    file,      \* the file each process has opened under that name
    locked,    \* the processes that hold the flock on the file they have open
    socket,    \* the process whose socket has each server's name
    server,    \* where each process's servers are
    handler,   \* each process's handleSignal goroutines
    active     \* the processes that serve an API request

fileVars == <<pidFile, inode, file, locked>>
serverVars == <<socket, server, handler, active>>
vars == <<mode, pc, fileVars, serverVars>>

(* "started": the goroutine that is to call Serve has been started; "closing":
   the server was closed before that call, which will close the listener. *)
ServerStates == {"none", "listening", "started", "serving", "closing", "closed"}

Ended == {"refused", "exited", "killed"}

Alive(p) == pc[p] \notin Ended \cup {"start"}

Init ==
    /\ mode \in Modes
    /\ pc = [p \in Processes |-> "start"]
    /\ pidFile = None
    /\ inode = None
    /\ file = [p \in Processes |-> None]
    /\ locked = {}
    /\ socket = [s \in Servers |-> None]
    /\ server = [p \in Processes |-> [s \in Servers |-> "none"]]
    /\ handler = [p \in Processes |-> [s \in Servers |-> "none"]]
    /\ active = {}

Goto(p, l) == pc' = [pc EXCEPT ![p] = l]

Fails(call) == call \in MayFail

UsesPidFile(p) == mode[p] # "nopid"

(* Whether a server of the process has a socket of its own making.  One that
   systemd has opened keeps its name whatever the process does. *)
Named(p, s) == s = "cred" \/ mode[p] # "fd"

(* pidFileLock.Unlock() closes the file. *)
Unlock(p) ==
    /\ file' = [file EXCEPT ![p] = None]
    /\ locked' = locked \ {p}

-----------------------------------------------------------------------------
(* flock.TryLock first opens the pid file, making it if need be.  Without
   --pidfile all of this is left out. *)
OpenPidFile(p) ==
    /\ pc[p] = "start"
    /\ \/ /\ ~UsesPidFile(p)
          /\ Goto(p, "setup")
          /\ UNCHANGED fileVars
       \/ /\ UsesPidFile(p)
          /\ inode' = IF inode = None THEN <<p, "open">> ELSE inode
          /\ pidFile' = IF inode = None THEN "empty" ELSE pidFile
          /\ file' = [file EXCEPT ![p] = inode']
          /\ Goto(p, "lock")
          /\ UNCHANGED locked
    /\ UNCHANGED serverVars

(* ... then it asks for the flock on what it has opened. *)
TryLock(p) ==
    /\ pc[p] = "lock"
    /\ \/ /\ \A q \in locked : file[q] # file[p]
          /\ locked' = locked \cup {p}
          /\ Goto(p, "read")
          /\ UNCHANGED file
       \/ /\ \E q \in locked : file[q] = file[p]
          /\ Goto(p, "refused")
          /\ Unlock(p)
    /\ UNCHANGED <<pidFile, inode, serverVars>>

(* Mutant: a pid file that exists is overwritten without a look. *)
ReadPidFileBlind(p) ==
    /\ pc[p] = "read"
    /\ Goto(p, "write")
    /\ UNCHANGED <<fileVars, serverVars>>

(* pidfile.Write first reads the file and refuses a pid that is alive. *)
ReadPidFile(p) ==
    /\ pc[p] = "read"
    /\ \/ /\ \A q \in Processes : ~(pidFile = q /\ Alive(q))
          /\ Goto(p, "write")
          /\ UNCHANGED <<file, locked>>
       \/ /\ \E q \in Processes : pidFile = q /\ Alive(q)
          /\ Goto(p, "refused")
          /\ Unlock(p)
    /\ UNCHANGED <<pidFile, inode, serverVars>>

(* ... then it writes the file of that name, which it may have to make. *)
WritePidFile(p) ==
    /\ pc[p] = "write"
    /\ pidFile' = p
    /\ inode' = IF inode = None THEN <<p, "write">> ELSE inode
    /\ Goto(p, "unlock")
    /\ UNCHANGED <<file, locked, serverVars>>

(* From here on the removal of the pid file is deferred. *)
UnlockPidFile(p) ==
    /\ pc[p] = "unlock"
    /\ Unlock(p)
    /\ Goto(p, "setup")
    /\ UNCHANGED <<pidFile, inode, serverVars>>

(* The router (containerd, nerdctl, policy) and the docker config. *)
Setup(p) ==
    /\ pc[p] = "setup"
    /\ \/ Goto(p, "cred_stale")
       \/ Fails("setup") /\ Goto(p, "remove_pid")
    /\ UNCHANGED <<fileVars, serverVars>>

(* An old credential socket is removed; an old API socket is not. *)
RemoveOldCredentialSocket(p) ==
    /\ pc[p] = "cred_stale"
    /\ \/ socket' = [socket EXCEPT !["cred"] = None] /\ Goto(p, "cred_listen")
       \/ socket["cred"] # None /\ Fails("setup") /\ Goto(p, "remove_pid") /\ UNCHANGED socket
    /\ UNCHANGED <<fileVars, server, handler, active>>

(* net.Listen("unix", addr): a name that exists is an address in use.  A
   failing chmod or chown leaves the socket where it is. *)
Listen(p, s, next, fail) ==
    \/ /\ socket[s] = None
       /\ socket' = [socket EXCEPT ![s] = p]
       /\ server' = [server EXCEPT ![p][s] = "listening"]
       /\ \/ Goto(p, next)
          \/ Fails("chown") /\ Goto(p, fail)
    \/ /\ socket[s] # None
       /\ Goto(p, fail)
       /\ UNCHANGED <<socket, server>>

ListenCredential(p) ==
    /\ pc[p] = "cred_listen"
    /\ Listen(p, "cred", "cred_serve", "remove_pid")
    /\ UNCHANGED <<fileVars, handler, active>>

(* getListener: makes the API socket, or takes the one that systemd passed on. *)
GetListener(p) ==
    /\ pc[p] = "api_listen"
    /\ \/ Named(p, "api") /\ Listen(p, "api", "api_serve", "close_cred")
       \/ /\ ~Named(p, "api")
          /\ server' = [server EXCEPT ![p]["api"] = "listening"]
          /\ Goto(p, "api_serve")
          /\ UNCHANGED socket
       \/ /\ ~Named(p, "api") /\ Fails("setup")
          /\ Goto(p, "close_cred")
          /\ UNCHANGED <<socket, server>>
    /\ UNCHANGED <<fileVars, handler, active>>

(* handleSignal registers for signals, then a goroutine is started to call Serve. *)
Serve(p, s) ==
    /\ server' = [server EXCEPT ![p][s] = "started"]
    /\ handler' = [handler EXCEPT ![p][s] = "waiting"]
    /\ UNCHANGED <<fileVars, socket, active>>

ServeCredential(p) == pc[p] = "cred_serve" /\ Goto(p, "api_listen") /\ Serve(p, "cred")

ServeAPI(p) == pc[p] = "api_serve" /\ Goto(p, "wait") /\ Serve(p, "api")

(* Closing a listener of the process's own making unlinks the socket's name,
   whoever has it by now. *)
Unlinked(p, s) == [socket EXCEPT ![s] = IF Named(p, s) THEN None ELSE @]

(* The goroutine calls Serve, which begins to serve, or, on a server that has
   been closed, closes the listener and returns. *)
CallServe(p, s) ==
    /\ Alive(p)
    /\ \/ /\ server[p][s] = "started"
          /\ server' = [server EXCEPT ![p][s] = "serving"]
          /\ UNCHANGED socket
       \/ /\ server[p][s] = "closing"
          /\ server' = [server EXCEPT ![p][s] = "closed"]
          /\ socket' = Unlinked(p, s)
    /\ UNCHANGED <<pc, fileVars, handler, active>>

-----------------------------------------------------------------------------
(* A signal goes to every handler that waits for one.  Before the first is
   registered it kills the process. *)
Signal(p, sig) ==
    /\ Alive(p)
    /\ \E s \in Servers : handler[p][s] = "waiting"
    /\ handler' = [handler EXCEPT ![p] = [s \in Servers |-> IF @[s] = "waiting" THEN sig ELSE @[s]]]
    /\ UNCHANGED <<pc, fileVars, socket, server, active>>

(* Mutant: Shutdown is called on a server that Serve has not been told of. *)
CloseServerNot(p, s) ==
    /\ Alive(p) /\ handler[p][s] \in {"SIGINT", "SIGTERM"}
    /\ handler' = [handler EXCEPT ![p][s] = "done"]
    /\ UNCHANGED <<pc, fileVars, server, socket, active>>

(* Shutdown or Close of a server: nothing to close before Serve was called. *)
AfterClose(state) == IF state \in {"started", "closing"} THEN "closing" ELSE "closed"

(* The listener of a server that serves is closed, and Serve returns at once.
   Close closes the connections too. *)
CloseServer(p, s) ==
    /\ Alive(p) /\ handler[p][s] \in {"SIGINT", "SIGTERM"}
    /\ server' = [server EXCEPT ![p][s] = AfterClose(@)]
    /\ socket' = IF server[p][s] = "serving" THEN Unlinked(p, s) ELSE socket
    /\ handler' = [handler EXCEPT ![p][s] = IF @ = "SIGINT" THEN "draining" ELSE "removing"]
    /\ active' = IF handler[p][s] = "SIGTERM" /\ s = "api" THEN active \ {p} ELSE active
    /\ UNCHANGED <<pc, fileVars>>

(* Shutdown returns when the server's connections are idle. *)
Drained(p, s) ==
    /\ Alive(p) /\ handler[p][s] = "draining"
    /\ s = "cred" \/ p \notin active
    /\ handler' = [handler EXCEPT ![p][s] = "done"]
    /\ UNCHANGED <<pc, fileVars, socket, server, active>>

(* After SIGTERM the handler removes the socket's name once more; there is no
   file of the name "fd://". *)
RemoveSocket(p, s) ==
    /\ Alive(p) /\ handler[p][s] = "removing"
    /\ socket' = Unlinked(p, s)
    /\ handler' = [handler EXCEPT ![p][s] = "done"]
    /\ UNCHANGED <<pc, fileVars, server, active>>

(* serverWg.Wait(): both Serve have returned. *)
Wait(p) ==
    /\ pc[p] = "wait"
    /\ \A s \in Servers : server[p][s] = "closed"
    /\ Goto(p, "close_cred")
    /\ UNCHANGED <<fileVars, serverVars>>

(* Deferred: close the credential server, which getListener's failure may leave
   with Serve not called yet, and remove its socket's name. *)
CloseCredential(p) ==
    /\ pc[p] = "close_cred"
    /\ server' = [server EXCEPT ![p]["cred"] = AfterClose(@)]
    /\ socket' = [socket EXCEPT !["cred"] = None]
    /\ Goto(p, "remove_pid")
    /\ UNCHANGED <<fileVars, handler, active>>

(* Mutant: the pid file is left where it is. *)
RemovePidFileNot(p) ==
    /\ pc[p] = "remove_pid"
    /\ Goto(p, "exit")
    /\ UNCHANGED <<fileVars, serverVars>>

(* Deferred: remove the pid file, whoever has opened or locked it. *)
RemovePidFile(p) ==
    /\ pc[p] = "remove_pid"
    /\ \/ UsesPidFile(p) /\ pidFile' = None /\ inode' = None
       \/ ~UsesPidFile(p) /\ UNCHANGED <<pidFile, inode>>
    /\ Goto(p, "exit")
    /\ UNCHANGED <<file, locked, serverVars>>

(* run() returns, and with it the process and all its goroutines. *)
Exit(p) ==
    /\ pc[p] = "exit"
    /\ Unlock(p)
    /\ active' = active \ {p}
    /\ handler' = [handler EXCEPT ![p] = [s \in Servers |-> "none"]]
    /\ Goto(p, "exited")
    /\ UNCHANGED <<pidFile, inode, socket, server>>

(* The process is killed, or ends in the logger.Fatal of a goroutine whose
   listener fails, the one for debugging included: nothing deferred runs, the
   names of its files stay, its lock does not. *)
Kill(p) ==
    /\ Alive(p)
    /\ Unlock(p)
    /\ active' = active \ {p}
    /\ handler' = [handler EXCEPT ![p] = [s \in Servers |-> "none"]]
    /\ server' = [server EXCEPT ![p] = [s \in Servers |-> "none"]]
    /\ Goto(p, "killed")
    /\ UNCHANGED <<pidFile, inode, socket>>

(* A request reaches the process that has the API socket's name, or the one
   that systemd has passed its socket to. *)
Accept(p) ==
    /\ Alive(p) /\ server[p]["api"] = "serving"
    /\ Named(p, "api") => socket["api"] = p
    /\ p \notin active
    /\ active' = active \cup {p}
    /\ UNCHANGED <<pc, fileVars, socket, server, handler>>

Finish(p) ==
    /\ p \in active
    /\ active' = active \ {p}
    /\ UNCHANGED <<pc, fileVars, socket, server, handler>>

(* run() *)
Run(p) ==
    \/ OpenPidFile(p) \/ TryLock(p) \/ ReadPidFile(p) \/ WritePidFile(p) \/ UnlockPidFile(p)
    \/ Setup(p) \/ RemoveOldCredentialSocket(p) \/ ListenCredential(p) \/ ServeCredential(p)
    \/ GetListener(p) \/ ServeAPI(p) \/ Wait(p)
    \/ CloseCredential(p) \/ RemovePidFile(p) \/ Exit(p)

HandleSignal(p, s) == CloseServer(p, s) \/ Drained(p, s) \/ RemoveSocket(p, s)

Step(p) ==
    \/ Run(p)
    \/ \E s \in Servers : CallServe(p, s) \/ HandleSignal(p, s)
    \/ \E sig \in {"SIGINT", "SIGTERM"} : Signal(p, sig)
    \/ Kill(p) \/ Accept(p) \/ Finish(p)

Next == (\E p \in Processes : Step(p)) /\ UNCHANGED mode

Spec == Init /\ [][Next]_vars

(* A goroutine that can run does run.  Nobody has to send a signal. *)
Fairness ==
    \A p \in Processes :
        /\ WF_vars(Run(p) /\ UNCHANGED mode)
        /\ \A s \in Servers : /\ WF_vars(CallServe(p, s) /\ UNCHANGED mode)
                              /\ WF_vars(HandleSignal(p, s) /\ UNCHANGED mode)

FairSpec == Spec /\ Fairness

-----------------------------------------------------------------------------
RunPCs == {"start", "lock", "read", "write", "unlock", "setup", "cred_stale", "cred_listen", "cred_serve",
           "api_listen", "api_serve", "wait", "close_cred", "remove_pid", "exit"} \cup Ended

(* Every variable has its type. *)
TypeOK ==
    /\ mode \in Modes
    /\ pc \in [Processes -> RunPCs]
    /\ pidFile \in Processes \cup {None, "empty"}
    /\ inode \in Files \cup {None}
    /\ file \in [Processes -> Files \cup {None}]
    /\ locked \subseteq Processes
    /\ socket \in [Servers -> Processes \cup {None}]
    /\ server \in [Processes -> [Servers -> ServerStates]]
    /\ handler \in [Processes -> [Servers ->
          {"none", "waiting", "SIGINT", "SIGTERM", "draining", "removing", "done"}]]
    /\ active \subseteq Processes

(* Between writing the pid file, or going without, and removing it. *)
Running(p) == Alive(p) /\ pc[p] \notin {"lock", "read", "write", "exit"}

(* main.go:136, "ensure only one instance is using the PID file path": no two
   processes that use it are both between writing and removing it. *)
OneInstance ==
    \A p, q \in Processes :
        Running(p) /\ Running(q) /\ UsesPidFile(p) /\ UsesPidFile(q) => p = q

(* A socket's name is taken from a process that has it by that process itself, or
   by a process that lags behind: one that SIGTERM is ending and that removes the
   name once more, or one whose Serve closes the listener late because the server
   was closed before.  The pid file sees to the rest, where all use it. *)
SocketLostOnlyByLateCleanup ==
    [][\A s \in Servers, p \in Processes :
          socket[s] = p /\ Running(p) /\ socket'[s] # p /\ (\A q \in Processes : UsesPidFile(q)) =>
              \/ handler[p][s] \in {"SIGINT", "SIGTERM"}
              \/ pc[p] = "close_cred"
              \/ \E q \in Processes : /\ Alive(q)
                                      /\ handler[q][s] = "removing" \/ server[q][s] = "closing"]_vars

(* What run() leaves behind when it returns: no pid file of its own, and a
   socket's name only if making the socket failed half-way. *)
NothingLeftOnExit ==
    \A p \in Processes : pc[p] = "exited" =>
        /\ pidFile # p
        /\ \A s \in Servers : socket[s] = p => server[p][s] = "listening"

(* handleSignal: a process that is told to stop while both of its servers are
   up comes to an end, whatever its requests do. *)
StopsOnSignal ==
    \A p \in Processes :
        (\A s \in Servers : handler[p][s] \in {"SIGINT", "SIGTERM"}) ~> pc[p] \in Ended

(* README.md:65, "automatic restart if it gets killed": a process that starts
   up when no other is alive comes to serve the API, unless it is told to stop
   or killed itself. *)
RestartServes ==
    \A p \in Processes :
        (pc[p] = "read" /\ \A q \in Processes \ {p} : ~Alive(q)) ~>
            \/ pc[p] \in {"wait", "killed"}
            \/ \E s \in Servers : handler[p][s] \notin {"none", "waiting"}
=============================================================================
