# finch-daemon in TLA+

finch-daemon is an HTTP server on a Unix socket that offers Docker's API on top of
containerd and nerdctl. Nearly everything it knows lives elsewhere: in containerd
(containers, tasks, images), in nerdctl's directories (CNI config files, volumes), in
iptables. What it adds is the *order* in which those are read and written by many HTTP
requests at once, and what happens when one call of several fails. That order, and those
failures, are what these modules are about.

Paths below are relative to the repository's root.

## Inventory

| Component | State it keeps or shares | Operations | What is hard |
|---|---|---|---|
| Network service (`internal/service/network`, bridge driver, `internal/backend/network.go`) | table of reference-counted mutexes, one per network name; CNI config files; flock on their directory; DROP rules in `FINCH-ISOLATE-CHAIN` | Create, Remove, Connect, list, inspect | lookups before the mutex, a mutex that leaves the table while it is locked, cleanup after a failed post-create step, labels read and written back without a lock |
| Builder (`api/handlers/builder`, `internal/service/builder`, `internal/backend/builder.go`, `pkg/archive`) | temporary build context, buildctl process, image tags, response stream | POST /build | a dozen calls that may fail in sequence, a child process, a response that may already have begun |
| Credential service (`pkg/credential`, `api/credential`, `cmd/finch-credential-helper`) | cache of registry credentials by build ID | store, get (asked by the helper of a running buildctl), remove | credentials have to go on every way out; approximate URL match over a map in random order |
| Daemon lifecycle (`cmd/finch-daemon`) | pid file and its flock, API socket, credential socket, two servers, two signal handlers | start (with a socket of its own or systemd's, with or without a pid file), serve, SIGINT, SIGTERM, exit, kill and restart | file names shared between processes, a signal between two registrations, handlers that outlive what they clean up |
| Streaming (`events.go`, `stats.go`, `attach.go`, `logs.go` of services and handlers) | channels between a handler, a feeding goroutine and a watcher; hijacked connection | events, stats, attach, logs | a client that stalls or leaves, a container that stops, restarts or goes, sends nobody receives |
| Exec (`internal/service/exec`, `internal/service/container/exec.go`) | process in a task, stdin closer, hijacked connection | create, start, resize, inspect | the closer is set while stdin is already being copied; the task stops or is replaced between any two calls |
| Container service (`internal/service/container`) | containerd containers with a name among their labels, nerdctl's name store, mounted snapshots | create, start, stop, restart, kill, pause, unpause, remove, rename, wait, copy in and out; inspect, list, top | no lock: check-then-act on name and status, names resolved twice, labels read and written back, cleanups of half-done copies |
| Image service (`internal/service/image`, `internal/backend/image.go`, `pullJobWriter` of `api/response`) | containerd's image store, a named pipe for each load, the response stream of a pull | pull, push, tag, remove, load, export, inspect, list | one temporary reference for all pushes of an image, a name that is deleted to be replaced, a check for images in use before the deletion; a pipe with two ends that wait for each other; a goroutine that still reports progress when the pull has failed |
| Volume, distribution, system (auth, info, version) | none | one call each | nothing |
| Router and middleware (`api/router`) | none | version check, policy evaluation | nothing |

How they interact: every HTTP request runs in a goroutine of its own and calls one service. Services
share the network mutex table, the credential cache, the containerd client, and the file system. The
builder starts buildctl, whose credential helper calls back into the daemon over the credential
socket. Network Connect, Remove and the container's start, stop, pause and unpause meet in the
container's labels and status. The image service reads the containers and their status before it
removes an image, and a create pulls an image that is missing. The streaming endpoints watch what
other requests do to a container.

What makes each correct:

* **Network service**: one request at a time per name; the table neither leaks nor drops an
  entry; what is answered is true; bridge names are unique; DROP rules belong to networks;
  every request is answered.
* **Connect**: labels agree with what is attached once nothing is in progress.
* **Builder**: credentials, context and process do not outlive the request; failures are
  reported; tags name the image that was built.
* **Credentials**: the helper is served the registry it asked for, of its own build.
* **Daemon**: one instance; nothing left behind by an orderly end; a signal ends it; a
  restart works.
* **Streams**: nothing lost or overtaken; the end of the client, the task or the container is
  noticed; no goroutine is left behind.
* **Exec**: the end of the client's input reaches the process; the start returns unless it waits
  for a process that runs.
* **Containers**: an operation acts on the container that was looked up and checked; names are
  unique and agree in labels and name store; a copy leaves neither a temporary directory nor a
  damaged snapshot.
* **Images**: a push leaves no temporary name and pushes what it has converted; the image of a
  container stays; a pull that fails before its image is resolved has the status of its error; a
  load returns when its body has ended.

## Modules

| Module | Models | Variables and actions |
|---|---|---|
| `NetworkService` | Create and Remove, ensureLock/releaseLock, bridge driver, deferred cleanup | `networkMutexes`, `activeReqs` and `holder` are the table, its counters and the mutexes; `networks` the config files; `dirLock` the flock; `pc`, `net`, `netName`, `iface`, `resp` the locals of each request. One action for each call that can interleave with another request |
| `NetworkStore` | abstract: a config is written only by the owner of its name | `Enter`, `Write`, `Leave` |
| `NetworkConnect` | Connect with labels, index and rollback; Remove's check; start, stop, pause, unpause | `labels`, `attached`, `status`, `existing` |
| `Build` | handler, Build, RunBuild, credential cache, helper, stream writer | `entries` is the cache, `tempDir` the contexts, `buildctl`/`reaped` the processes, `images` the tags, `header`/`sent` the responses |
| `Daemon` | `run`, `getListener`, `handleSignal` in several processes | `pidFile` and `inode` are the pid file's content and identity, `file` and `locked` which file each process has open and whether it has its flock, `socket` the sockets' names; `server`, `handler` each process's servers (a server is "started" until its goroutine calls Serve) and signal goroutines; `mode` the options it was started with |
| `Streams` | events, stats, attach, logs | `h`, `g`, `w` are handler, feeder (or task waiter) and connection watcher; `statsCh`, `stop` the channels; `con` the container |
| `Exec` (extends `Streams`) | exec create and start as a further kind of session | `proc` the process, `copier`, `closer`, `stdin` the copying goroutine, the StdinCloser and what it closes, `head` the status the client got |
| `Containers` | the lifecycle operations of the container service, and the network service's Connect as far as it writes labels back | `status`, `label`, `store` the containers; `pc`, `req`, `con`, `acted`, `resp` the requests; `read`, `again`, `written`, `live` what a Create or Connect has read, written and found. `Lifecycle(r)` is one call to containerd or nerdctl |
| `Archive` (extends `Containers`) | copying out of and into a container, next to the lifecycle | `dir` the temporary directory and what is mounted on it, wholly or in part, `intact` the containers whose snapshot has lost no files, `code` the answer still to be given |
| `Images` (extends `Archive`) | pull, load, tag, push, remove, export, inspect and what a build does to the image store, next to everything that happens to containers | `images` maps names, temporary ones included, to digests; `ipc`, `ireq`, `iresp`, `desc`, `found` are the requests; `unused` and `dirty` remember which containers a Remove had no reason to care for and which deferred deletions failed. Each call to the store is an action |
| `Transfers` (extends `Exec`) | the goroutines of load and pull as two further kinds of session | the pipe of a load is the pair of handler `h` and copier `g`; `image` is what nerdctl knows of a pull's image, `resolved` the flag of pullJobWriter |
| `NetworkServiceProofs`, `NetworkConnectProofs`, `BuildProofs`, `DaemonProofs`, `ContainersProofs`, `ImagesProofs`, `StreamsProofs` | theorems about the module they are named after (`ContainersProofs` also about `Archive`, `StreamsProofs` about `Streams` and `Transfers`) | |
| `MC*` | constants and symmetry sets for TLC | |

Every call into nerdctl, containerd, CNI, iptables or the file system that the code checks for
an error may fail, if the constant `MayFail` names it. `PROJECT.json` gives the source lines
of every definition.

Abstractions that deserve a word:

* A network's ID is a hash of its name, so a name stands for both. `IdPrefix` holds the pairs
  of a name that happens to be a prefix of another network's ID, which getNetwork would find. The
  bridge name that nerdctl generates, `br-` and the ID, is written as the network's name too, and a
  client may ask for that bridge for another network (`Imitated`).
* The mutex that a request allocates is named after it: a request allocates at most one.
* A registry address is a model value, `Parse` gives its URL or none. `getTarget` is modelled
  with every iteration order of the map.
* A flock belongs to a file and not to its name: removing the pid file makes the lock of
  whoever holds it worthless. Opening the file and locking it are two steps.
* An event or stats object is a number and the number of the one before it, which is all that
  the order of events and the "previous CPU statistics" depend on. A stalled client is one
  whose socket buffer is full.
* A container's status does not distinguish "pausing" from "paused", and a create's options are its
  name. nerdctl's own calls (start, rename and the others, which also read and write labels) are one
  step each, and what `gc()` does after a failed create is nerdctl's: the container goes or stays.
  Of the labels that Create and Connect write back, the name is modelled here, networks and index in
  `NetworkConnect`. Labels and Spec of a container, which updateContainerMetadata reads in two
  calls, are read in one step: nothing modelled writes the Spec. That the process ID behind
  `/proc/<pid>/root` may be reused while a copy runs is left out.
* CloseIO reaches a process that runs; before that the runtime has no stdin to close.
* An image is a digest. `Reduce` gives the digest of its single-platform form, `Begins` says which
  texts are the beginning of which digest, `ImageOf` the name each container was created from,
  `PushRef` the temporary name of what clients push, which is a name like any other. An archive
  names one image. Of a build, `Images` has what it does to the store after buildctl has ended, with
  two tags; `Build` has the rest. GetUsedImages, which asks for each container in turn, is one step,
  and a Create that fails before it has made a container has pulled nothing. The status that is
  recorded for a push or pull is that of its result; in the code it becomes a record of the stream
  when a line of progress was written before (`Transfers` follows the header).
* A line of progress has the word "resolved" if the image is resolved, and also if the image's own
  reference contains it (`NamedResolved`). Once resolved, an image stays so.
* Where the image of a build goes is one of three outputs: an archive that is loaded, the image
  store, or elsewhere (type local or tar, or an archive with dest=).
* A process started with `fd://` never loses the name of its API socket: systemd owns it. Without a
  pid file the whole block of `main.go:124` is left out.
* In `Streams` the container is changed by requests that are not modelled, other sessions
  included, so that one session stands for any number of them.

## Runs

`tlc -config X.cfg M`, with the module and cfg that `PROJECT.json` lists. Deadlock checking is
off in all of them: requests, builds and processes are finitely many and run once, so every
behaviour comes to an end; that nobody gets stuck on the way is what the liveness properties
say.

| Run | Shows | Bounds, and why they are enough |
|---|---|---|
| `NetworkLocks` | MutualExclusion, RefCountExact, AnswerTruthful, OrphanOnlyByStaleRemove, and that NetworkService implements NetworkStore | 3 requests on 1 name: one that holds the mutex, one that waits, one that comes when the entry was dropped. All nine calls may fail |
| `NetworkBridges` | UniqueBridgeNames, DropOnlyOwnRule, AnsweredUnlessDeadlocked | 2 requests, 2 names, 2 bridges both may ask for, of which one is generated for one of the networks; one name is a prefix of the other's ID |
| `ConnectOne` | LabelsMatchAttached, IndexIsMaximum with one Connect at a time | 4 requests, 2 networks besides the default one |
| `BuildRequests` | CredentialsScoped, TempDirRemoved, UnreapedOnlyByLoadFailure, FailureReported, TagsNameOwnImage, TagKept | 2 builds, 2 tags, the image loaded, stored or sent elsewhere; eleven calls may fail. Tag lists overlap, so that one build's first tag is the other's second. The builds with two tags are those with credentials (`PairedSpec`): every pair of tag lists and every pair of sets of credentials occurs, not every combination of both (1.8 million states) |
| `BuildMatch` | ServedMatches, CredentialsEventuallyRemoved | 1 build, every set of credentials over 6 addresses (host, scheme, port, path, another host, no URL) |
| `DaemonTwo` | OneInstance, NothingLeftOnExit, SocketLostOnlyByLateCleanup, StopsOnSignal | 2 processes, both plain, both with `fd://`, or a plain one next to one without a pid file, that may be killed, told to stop or fail anywhere (218 530 states) |
| `Containers` | ActsOnChecked, NameLostOnlyByWriteBack, TempDirLeftOnlyByFailure, SnapshotLostOnlyByFailure; TempRefLeftOnlyByFailure, PushBrokenOnlyByOther, UsedImageRemovedOnlyByRace | 2 containers, 2 names, one of which begins the ID of a container; the operations in pairs, next to those that change a container, where both containers may be there or one or none, and three at a time where a rename and a create move a name to another container while a stop is under way, where a container is made and renamed while another is made, and where a Connect meets a container that is made and started. For images (`Mixes`): 2 image requests, or a Remove next to a Create or Start of a container; 2 references and the temporary name of one of them, 2 digests of which one is the reduced form of the other, a short text that begins both and a long one that begins one. Every call may fail (2.5 million states) |
| `Streaming` | Chained, ClientLossNoticed, EndNoticed, FeederEndsUnlessSending, StdinEndPassedOn, ExecReturns; UnresolvedHasStatus, LoadReturns | 1 session of each kind (events, stats, attach and logs that follow, exec, load, pull), channel of capacity 2 (100 in the code), 5 events or ticks: enough to fill the channel, the sender's and the receiver's hands (27 773 states) |

`NetworkLocks` and `Containers` also check a TypeOK that says something of its own: that counters do
not go below zero, and that no name is twice in nerdctl's store. The other type invariants are
proved, or left to TLC's evaluation of the actions. EndNoticed joins the end of a task, for attach
and logs, and the removal of a container, for stats. The following runs end in a violation, and
each is a finding:

| Run | What the repository says | What the code does |
|---|---|---|
| `NetworkCleanup` | "Add cleanup func to remove the network if an error is encountered during post processing" (`create.go:111`) | the cleanup calls Remove, which waits for the mutex that its own request holds |
| `ConnectIndex` | the label "stores the current maximum network index" (`connect.go:28`) | of two Connects one rolls the label back below the other's interface |
| `DaemonThree` | "ensure only one instance is using the PID file path" (`main.go:136`) | the pid file is unlinked while another process has it open, before or after its flock; a third locks a new one |
| `DaemonRestart` | "automatic restart if it gets killed" (`README.md:65`) | the API socket of the killed process is in the way; only the credential socket is removed on start |

Fairness: goroutines that can run do run (weak fairness of each request, handler, feeder or copier);
buildctl, once started, ends (otherwise a build may take any time: RunBuild does not pass it the
request's context); net/http notices a closed connection (of a load only once the body has been
read). Nothing else is assumed: no client has to read, leave or send anything, no signal has to
come, no task has to end, no registry has to answer and no body has to end. A `select` that can take
`ctx.Done()` at every turn is not assumed to prefer it; ticks and events are bounded by `MaxItems`
and it is taken at the latest after them.

Several properties hold only with an exception that is part of their statement, and the exception is
the observation: AnsweredUnlessDeadlocked (requests behind a Create stuck in its cleanup),
FeederEndsUnlessSending (goroutines in a send that nobody will receive: the events goroutine after
an encoding error, the stats goroutine behind a full channel, the second sender on the stop
channel). SocketLostOnlyByLateCleanup is of that kind as well (the second os.Remove, `main.go:329`,
and a credential server whose goroutine calls Serve only after Close, `main.go:220`), and so is
ClientLossNoticed (a watcher that has read a byte reads no more, `attach.go:118`). In the container
service: ActsOnChecked excepts the operations that hand the client's name to nerdctl again (start,
restart, kill, pause, unpause), NameLostOnlyByWriteBack a Create or a Connect that writes back
labels from before a rename (`create.go:117`; `connect.go:133`, 154 and 263),
TempDirLeftOnlyByFailure the putArchive whose MountAll fails (`put_archive.go:56`),
SnapshotLostOnlyByFailure the removal of a directory whose snapshot could not be unmounted
(`get_archive.go:118`), or whose mounts failed part-way (`get_archive.go:110-115`: the cleanup that
comes with the error removes and does not unmount). In the image service: TempRefLeftOnlyByFailure
the deferred deletion that fails, as it does when the client has gone (`push.go:44`, the request's
context), and clients that use the temporary name themselves; PushBrokenOnlyByOther another push of
the same image, a request that pulls, loads, builds, tags or removes the temporary name, or a Remove
by digest (`push.go:35`); UsedImageRemovedOnlyByRace a Tag or Build between Delete and Create
(`tag.go:38`, `builder.go:143`), a container made from a temporary name, one made or started after
Remove's check (`remove.go:28`), and one that the check skipped or took for stopped because it
ignores the error (`containerd.go:230-235`). In the network service: UniqueBridgeNames,
DropOnlyOwnRule, AnswerTruthful and OrphanOnlyByStaleRemove except a bridge name that nerdctl
generates and that a client asks for (`bridge.go:138` looks at the networks there are; nerdctl's
creation of the network whose name it is does not look). TagsNameOwnImage excepts a build whose
output stores no image, UnresolvedHasStatus an image whose reference contains the word "resolved";
LoadReturns and ClientLossNoticed an empty body, whose pipe is closed before LoadImage opens it and
which LoadImage then waits for (`load.go:56`).

### Other observations

Met while modelling, and not runs of their own:

* A Create is answered "already exists" when its name is a prefix of another network's ID
  (`network.go:66`, `create.go:74`).
* An insertion into the DROP chain that fails is followed by a deletion of the same rule
  (`driver/iptables.go:119`), which may have been there before; DropOnlyOwnRule says whose it can be.
* A build whose `output` is of type local or tar, or an archive with dest=, stores no image
  (`builder.go:237-248`). If its first tag names an older image, the further tags are given to that
  one and success is reported for it; otherwise the build fails after buildctl has succeeded.
* `strings.Contains(line, "resolved")` (`streamwriter.go:153`) is also true of a line about an image whose
  reference contains the word: its pull gets the status 200 before the image is resolved.
* Events that are nil or cannot be decoded are skipped without a word (`events.go:43-52`).
* When no tar binary is found the temporary directory has been made and its removal is not yet
  deferred (`pkg/archive/archive.go:83-97`): it stays. TempDirRemoved is checked and proved without
  that failure.
* `readCounter` in `internal/backend/builder.go:160` never counts: an import that fails is
  always reported as "no image was built".
* A signal between the two calls of handleSignal stops the credential server only.
* After SIGINT the process ends as soon as Serve has returned, while Shutdown may still wait for
  requests.
* A container removed between the lookup and the subscription of stats is never noticed as
  removed (EndNoticed is about removals that were listened for).
* A Connect between Remove's check that no container uses the network and the removal is not
  seen, although `remove.go:25` answers 403 for a network in use.
* The end of an exec's input that is read before Closer is set, or before the process runs, is
  never passed on (`exec/start.go:78`; StdinEndPassedOn is about a process that runs). The
  connection is closed as soon as the exit status is there, without waiting for the goroutines
  that copy the output, and the process is never deleted from its task. Errors of an attached
  start are written through the multiplexing writer even before the header (`exec/start.go:118`
  of the handlers). The client has its success header before the process is started.
* Create ignores the errors of updateContainerMetadata; Rename takes an error of its lookup, or
  several matches, for a free name; assertStartContainer lets the status "pausing" pass.
* `api/handlers/image/image.go:25` and the handler of image removal name the two results (deleted,
  untagged), the service returns them as (untagged, deleted): the keys of the response are swapped.
* The digest a push reports is the one its reference has afterwards, not the reduced one that was
  pushed, and nothing is reported when the reference has gone by then (`push.go:74-86`).
* An error while the body of a load is copied is only logged; the pipe is closed, and a body that
  broke off looks like the end of the archive (`load.go:49`).
* `errdefs.IsNotFound` knows only its own wrapper: containerd's "not found" for a name that another
  request has just deleted is answered with 500 by tag and remove.
* A pull that fails after its image was resolved may meet a line of progress that is written after
  the handler has returned, if 100 ms were not enough (`pull.go:76`); UnresolvedHasStatus says that
  a pull whose image was not resolved has no such line.
* A pull whose goroutine never saw the image resolved drops the handler's last line as well: the
  client gets an empty 200 (`api/handlers/image/pull.go:60`).

## Proofs

`tlapm XProofs.tla` for each of the seven modules. Every safety property of the passing runs,
invariant, action property or refinement, is stated by a theorem, for every value of the constants
that the named assumptions allow: any finite set of requests, any names, bridges, prefixes and
predefined networks; any builds, addresses, URLs, parser, tags; any processes; any containers,
container names and mixes of operations; any references, digests and texts; any sessions and any
capacity of the stats channel; any set of calls that may fail. Five theorems need a
condition that the code does not enforce, and state it: RemovalWorks, ConnectAlone and
RemovesUnopened below.

**NetworkService** (assumption `ConstantsAssumption`). `MutualExclusion` is not inductive: that two
requests do not share the critical section rests on both having the mutex of the table (`Mapped`),
on the holder of a mutex being who it seems (`Held`), and on the counters being right
(`RefCountExact`), since releaseLock drops the mutex of a name from the table when the count reaches
zero, before it is unlocked. `LockInv` is the conjunction with `TypeOK` and `LocalInv` (what the
locals are at each step). Its consequences: `TypeCorrect`, `MutualExclusionHolds`, `RefCountHolds`.
The second layer, `StoreInv`, uses exclusion as a lemma (`CriticalExclusive`): `Relies(r)` says what
request r relies on between its steps in the critical section, `ReliesStable` that no other request
disturbs it, `ReliesOwn` that its own steps establish it, and `BridgeInv` that bridges are unique up
to generated names that a client asked for, with the flock excluding writers of other names. Its
consequences: `UniqueBridgeNamesHold`, `AnswerTruthfulHolds`, `DropOnlyOwnRuleHolds`.
`StoreImplemented` is the refinement of NetworkStore: the owner of a name is whoever is in its
critical section, so that taking the mutex is `Enter`, a write to the config of one's own name is
`Write`, releasing is `Leave`, and everything else is a stutter; exclusion is what makes `Enter`
possible. `OrphanOnlyByStaleRemoveHolds` adds `RuleInv`: what a request looked up is the config that
is there if both have the same maker (`LookedUp`, `SameMaker`), a config's label is the one its
maker asked for (`MadeBy`), and a Remove that deletes a config has deleted its rule before, unless
the config is not the one it looked up (`Ready`).

The proof of OrphanOnlyByStaleRemove failed at first, and for a reason: with four requests a rule
that a stale Remove left behind is taken over by a new network of the same bridge, whose Create then
gives it another bridge. Runs with three requests cannot reach this. `Owned` now leaves out a network
whose Create is about to do that, so that such a rule counts as the orphan it has been all along.

**NetworkConnect** (`ConnectAssumption`, and for both theorems the condition `ConnectAlone`: no
Connect overlaps with another Connect or with a start, and putting labels back does not fail).
connect.go has no lock that makes it so, and `ConnectIndex` shows what happens without. Under it,
`Describes` says that labels name exactly what is attached with the index as maximum; `Settled` that
the container's labels do so whenever no Connect is between its update and its end; `Progress(r)` that
a Connect in between has the labels it read plus its own network and index, and that the old labels,
which it may put back, still describe what is attached. Stop, Remove, pause and unpause may interleave
everywhere. `LabelsMatchAttachedHolds` and `IndexIsMaximumHolds` follow.

**Build** (`BuildAssumption`). `Types` is `TypeOK` with the fact that the tag loop is reached only
with tags. `CredentialsScoped` is inductive next to it. `ServedMatchesHold` rests on
`TargetMatches`, a lemma about getTarget for any parser and any order of the map.
`ProcessInv` follows buildctl from start to wait, `TempInv` the temporary directory from the
service's defer to its end; `TempDirRemovedHolds` assumes `RemovalWorks` (tar is found, RemoveAll
works), which is the condition under which the code keeps that promise. `LoopInv` places the loop
over the tags; `ReportInv` follows header and body of a response, the writes of a buildctl that nobody
waits for included, to `FailureReportedHolds`. For the tags, `ImageStep` says what a step of one build
can do to the store, `Lost` which tag it may have deleted and not yet created again: `TagKept` is
inductive with these. `OwnInv` gives, for a build whose tags no other uses, what each of them names
at each turn of the loop, and `TagsNameOwnImageHolds` at its end.

**Daemon** (`DaemonAssumption`). `LeftInv` says, for each process, that its socket names belong to
listeners it has not closed, that a server it has started is closed before the deferred steps pass
it, and that its pid file is gone from the removal on; all this for each way of starting it.
`NothingLeftOnExitHolds` follows for any number of processes, also for those for which OneInstance
fails. `OneInstanceHolds` and `SocketLostOnlyByLateCleanupHolds` are for any number of processes
too, in the behaviours in which no process removes the pid file while another has it open, to lock
it or with its lock (`RemovesUnopened`). `DaemonThree` shows a behaviour in which one does; the
theorem says that every way to two instances has such a removal, whatever is killed or fails.
`InstanceInv` has the argument: the file a process has open is the one that has the name (`Opened`),
who is between TryLock and Unlock has the lock (`Locked`), the file holds the pid of the instance
that runs (`Written`), and when pidfile.Write comes to write none does (`Fresh`). A removal of an
open file breaks `Opened`, and then `Fresh`.

**Containers and Archive** (`ContainersAssumption`: names and IDs are different things). That names
are unique in nerdctl's store is part of `TypeOK`. `ActsOnChecked` is not inductive: `Placed` ties
the place in the code to the operation and says that a container was found, `Passive` that
nothing was acted on before, `FoundById` that an ID finds only its own container, which is why
operations given an ID are safe even where nerdctl resolves it again, and `ActedOn` is the property
for one request. `ContainersInv` is their conjunction. `TrackedInv` extends it by what is under way:
`ReadTracked(r)` that a Create or Connect that is going to write labels back has read a name among
them; `DirTracked(r)` whether the temporary directory of a copy is made,
mounted, mounted in part or gone at each of its steps. NameLostOnlyByWriteBack and
SnapshotLostOnlyByFailure are parts of it, TempDirLeftOnlyByFailure follows; all three are for the
lifecycle, Connect and the copies together (ArchiveSpec).

**Images** (`ImagesAssumption`: names, texts and None are different things, and no two images share
a temporary name). `Effect(r)` says what a step of request r can do: the other requests' locals
stay, a temporary name is created or deleted only by a push of its image, by a request that names an
image so or by a Remove that was asked for it or found it by digest, and a name is deleted only by a
Tag or Build that replaces it, by a Push whose temporary name it is or by a Remove. `StepEffect`
proves it action by action, from where a request is (`Placed`), from what it may have found
(`FoundByText`) and from what its check excluded (`Unneeded`). With these `ImagesInv` is inductive,
whatever the containers do (`ContainerEffect`: a pull for a new container gives only a name that was
not there), and TempRefLeftOnlyByFailure and PushBrokenOnlyByOther are parts of it; the action
property UsedImageRemovedOnlyByRace follows from `NameStep` and `Unneeded`.

**Streams, Exec and Transfers** (`StreamsAssumption`; the theorems are about TransfersSpec, with
sessions of every kind side by side). `Chained` is an action property of what reaches the client;
its invariant is about the whole way there: the object the client got last, the one being encoded,
the ones in the channel and the one in the sender's hands form a chain in which each names its
predecessor (`Chain`), and the feeder's counter is the end of it. `Steps` sorts the steps by the
endpoint, `Aside` shows that those of other kinds of sessions leave the chain alone, and `Sent` and
`Received` are the lemmas on the channel. `PullInv` says that as long as the image of a pull is
unresolved nothing was written and the goroutine has no line to write, unless its reference contains
the word "resolved"; `UnresolvedHasStatusHolds` is a part of it.

Only model-checked are the liveness properties, which are out of this prover's reach:
AnsweredUnlessDeadlocked, CredentialsEventuallyRemoved, StopsOnSignal, ClientLossNoticed, EndNoticed,
FeederEndsUnlessSending, StdinEndPassedOn, ExecReturns and LoadReturns. OneInstance and
SocketLostOnlyByLateCleanup without the condition above are model-checked for two processes; for three
the first is false.

## Plan

What could be added to the model:

1. The output of an exec: the copiers of stdout and stderr next to the closing of the connection.
2. An abstract specification of the container service (a name has one container, an operation is
   atomic on it) and which operations of `Containers` implement it.
3. `Build` and `Images` on one store: `Images` has the tagging of a build as two names and no events.

Theorems: the safety parts of the liveness arguments, above all for AnsweredUnlessDeadlocked (whoever
waits for a mutex waits for a request that can take a step, or for a Create stuck in its cleanup) and
for the copier and the closer of an exec; and, once there is an abstract container service (2), which
operations implement it.

## Not modelled

* List of images, inspect, list and top of the container service, inspect and resize of exec, list
  and inspect of networks: each one or two queries whose answer is converted to JSON. They change
  nothing and hold nothing between the queries.
* Volumes: create and remove are one call to nerdctl each, which locks its volume store; the service
  maps the wording of an error to a status. Distribution, auth, info and version: queries of a
  registry, of containerd or of a helper, no state.
* Router, version and policy middleware: stateless for a request.
* Conversions of options, metrics, filters and JSON, except where a property depends on them
  (registry URLs, bridge names, interface indices).
* The debug listener of the daemon, except that its logger.Fatal ends the process as a kill does; so
  does a fatal error of Serve.
* SIGINT and SIGTERM are also delivered to the stop channels of attach and logs; `Streams` leaves
  this out since the process ends then.
* `Predefined` networks (without a config file) are a parameter of `NetworkService` that the
  proofs cover and the runs leave empty: Remove refuses them as it refuses networks in use.
