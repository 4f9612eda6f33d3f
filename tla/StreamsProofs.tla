---------------------------- MODULE StreamsProofs ----------------------------
(***************************************************************************)
(* For every set of sessions, every capacity of statsCh and every call     *)
(* that may fail, with events, stats, attach, exec, load and pull sessions *)
(* side by side: what an events or stats client gets follows directly on   *)
(* what it got before, and a pull that fails before its image is resolved  *)
(* is answered with the status of its error.                               *)
(***************************************************************************)
EXTENDS Transfers, TLAPS

Items == [n : Nat, pre : Nat]

HandlerPlaces ==
    {"start", "recv", "encode", "subscribe", "returned", "status", "taskwait", "viewer", "view",
     "close", "exec", "post", "load", "loaded", "closer", "head", "run", "await", "open", "import",
     "pull", "join", "sleep"}

FeederPlaces ==
    {"none", "select", "send", "err", "ended", "wait", "delete", "notify", "copy", "write", "tick",
     "print", "last"}

Types ==
    /\ kind \in [Sessions -> Kinds]
    /\ h \in [Sessions -> HandlerPlaces] /\ g \in [Sessions -> FeederPlaces]
    /\ item \in [Sessions -> Items] /\ enc \in [Sessions -> Items] /\ last \in [Sessions -> Items]
    /\ statsCh \in [Sessions -> Seq(Items)]
    /\ pre \in [Sessions -> Nat] /\ produced \in [Sessions -> Nat]
    /\ head \in [Sessions -> Nat]
    /\ image \in [Sessions -> {"resolving", "resolved"}]

(* The endpoints whose feeder sends objects. *)
Feeds(s) == kind[s] \in {"events", "stats"}

(* Where the goroutines of a session can be, as far as the proofs need it. *)
Placed(s) ==
    /\ Feeds(s) => /\ h[s] \in {"start", "subscribe", "recv", "encode", "returned"}
                   /\ g[s] \in {"none", "select", "send", "err", "ended"}
                   /\ h[s] \in {"start", "subscribe"} => g[s] = "none"
    /\ kind[s] = "pull" => /\ h[s] \in {"start", "pull", "join", "sleep", "returned"}
                           /\ g[s] \in {"none", "tick", "print", "last", "ended"}
    /\ ~Feeds(s) => h[s] # "encode"

-----------------------------------------------------------------------------
(* y may be sent right after x. *)
Follows(x, y) == y = Nothing \/ y.pre = x.n

(* What the handler has received last, and what the feeder has sent last: all
   that is between them lies in statsCh. *)
Front(s) == IF h[s] = "encode" THEN enc[s] ELSE last[s]
Back(s) == IF statsCh[s] = <<>> THEN Front(s) ELSE statsCh[s][Len(statsCh[s])]

(* The number of the last object the feeder has made. *)
Top(s) == IF kind[s] = "events" THEN item[s].n ELSE pre[s]

(* As long as the handler has not returned, what was written, what was
   received, what is in the channel and what the feeder is about to send make
   one chain, which ends with the last object the feeder has made. *)
Chain(s) ==
    Feeds(s) /\ h[s] # "returned" =>
        /\ kind[s] = "events" => statsCh[s] = <<>>
        /\ h[s] = "encode" => Follows(last[s], enc[s])
        /\ statsCh[s] # <<>> => Follows(Front(s), statsCh[s][1])
        /\ \A i \in 1..Len(statsCh[s]) - 1 : Follows(statsCh[s][i], statsCh[s][i + 1])
        /\ IF g[s] = "send" THEN Follows(Back(s), item[s]) /\ item[s].n = Top(s)
                            ELSE Back(s).n = Top(s)

ChainInv == \A s \in Sessions : Placed(s) /\ Chain(s)

(* A pull waits for its feeder only once the image is resolved, and until then
   nothing is written but the status of its error, unless its name deceives. *)
Unresolved(s) ==
    kind[s] = "pull" =>
        /\ h[s] = "join" => image[s] = "resolved"
        /\ image[s] = "resolving" /\ ~NamedResolved(s) =>
              /\ g[s] \notin {"print", "last"}
              /\ head[s] \in (IF h[s] = "returned" THEN {400, 404, 500} ELSE {0})

PullInv == \A s \in Sessions : Unresolved(s)

-----------------------------------------------------------------------------
(* The steps of events and stats sessions, *)
Feeding(r) ==
    \/ Reject(r) \/ SubscriptionError(r) \/ SubscribeEvents(r) \/ TakeEvent(r) \/ EventsDone(r)
    \/ SendEvent(r) \/ SendError(r) \/ StatsLookup(r) \/ StatsSubscribe(r) \/ Tick(r)
    \/ SendStats(r) \/ StatsDone(r) \/ ReceiveStats(r) \/ Encode(r)

(* of attach and logs, and of clients, *)
Following(r) ==
    \/ Hijack(r) \/ AttachStatus(r) \/ TaskWait(r) \/ InitLogViewer(r) \/ View(r)
    \/ CloseStreams(r) \/ WaitTask(r) \/ DeleteTask(r) \/ SendStop(r) \/ CheckConnection(r)
    \/ Client(r) \/ Disconnected(r)

(* of exec sessions, *)
Executing(r) ==
    \/ ExecCreate(r) \/ TaskExec(r) \/ PostStart(r) \/ LoadExecInstance(r) \/ TaskStatus(r)
    \/ SetCloser(r) \/ SuccessResponse(r) \/ StartProcess(r) \/ AwaitExit(r) \/ AwaitError(r)
    \/ CopyStdin(r) \/ EndInput(r) \/ ProcessExit(r)

(* of loads, *)
LoadingStep(r) ==
    \/ OpenFifo(r) \/ OpenArchive(r) \/ ImportEnds(r) \/ ImportFails(r) \/ ReadBody(r)
    \/ EndOfBody(r) \/ WriteFifo(r) \/ EndBody(r)

(* and of pulls. *)
PullingStep(r) ==
    \/ StartPull(r) \/ Resolved(r) \/ Pulled(r) \/ WritePulled(r) \/ PullCancelled(r)
    \/ PullFails(r) \/ WriteError(r) \/ Progress(r) \/ WriteLine(r) \/ TransferDisconnected(r)

(* Every step is one of them, or a step of the container. *)
LEMMA Steps ==
    ASSUME TransfersNext
    PROVE  \/ Container /\ UNCHANGED <<head, image>>
           \/ \E r \in Sessions :
                 \/ (Feeding(r) \/ Following(r)) /\ UNCHANGED <<head, image>>
                 \/ Executing(r) /\ UNCHANGED image
                 \/ LoadingStep(r) \/ PullingStep(r)
<1>1. CASE Next /\ UNCHANGED <<head, image>>
  BY <1>1, Zenon DEF Next, Handler, Feeder, Feeding, Following
<1>2. CASE \E r \in Sessions : Executing(r) /\ UNCHANGED image
  BY <1>2
<1>3. CASE \E r \in Sessions : LoadingStep(r) \/ PullingStep(r)
  BY <1>3
<1>4. ExecNext /\ UNCHANGED transferVars =>
        \/ Next /\ UNCHANGED <<head, image>>
        \/ \E r \in Sessions : Executing(r) /\ UNCHANGED image
  <2>1. UNCHANGED transferVars => UNCHANGED image
    BY DEF transferVars
  <2>2. UNCHANGED <<input, copier, closer, stdin, head>> => UNCHANGED head
    OBVIOUS
  <2> QED
    BY <2>1, <2>2, Zenon DEF ExecNext, ExecHandler, Executing
<1>5. (\E r \in Sessions :
          \/ TransferHandler(r) \/ TransferFeeder(r) \/ TransferDisconnected(r)
          \/ ImportFails(r) \/ ReadBody(r) \/ EndBody(r)
          \/ Resolved(r) \/ Pulled(r) \/ PullFails(r)) =>
      \E r \in Sessions : LoadingStep(r) \/ PullingStep(r)
  BY Zenon DEF TransferHandler, TransferFeeder, LoadingStep, PullingStep
<1> QED
  BY <1>1, <1>2, <1>3, <1>4, <1>5, Zenon DEF TransfersNext

(* A step of r leaves the other sessions alone. *)
StepOf(r) ==
    /\ kind' = kind /\ stream' = stream
    /\ \A s \in Sessions \ {r} :
          /\ h'[s] = h[s] /\ g'[s] = g[s] /\ head'[s] = head[s] /\ image'[s] = image[s]
          /\ item'[s] = item[s] /\ statsCh'[s] = statsCh[s] /\ enc'[s] = enc[s]
          /\ last'[s] = last[s] /\ pre'[s] = pre[s] /\ produced'[s] = produced[s]

(* A step of r that is not about the objects of an events or stats session. *)
Aside(r) ==
    /\ Types' /\ StepOf(r) /\ Placed(r)'
    /\ UNCHANGED chanVars
    /\ Feeds(r) => h'[r] = h[r] /\ g'[r] = g[r]

(* Answer: the handler of r returns, with a status. *)
Ends(r) ==
    /\ h' = [h EXCEPT ![r] = "returned"]
    /\ head' \in [Sessions -> Nat]
    /\ \A s \in Sessions \ {r} : head'[s] = head[s]

(* Every status the handlers answer with. *)
LEMMA Answered ==
    ASSUME Types, NEW r \in Sessions
    PROVE  /\ Answer(r, 200) \/ Answer(r, 404) \/ Answer(r, 409) \/ Answer(r, 500) => Ends(r)
           /\ (\E code \in {400, 500} : Answer(r, code)) => Ends(r)
           /\ (\E code \in {200, 500} : Answer(r, code)) => Ends(r)
           /\ (\E code \in {404, 500} : Answer(r, code)) => Ends(r)
<1>1. ASSUME NEW code \in Nat, Answer(r, code) PROVE Ends(r)
  BY <1>1 DEF Types, Answer, Return, H, Ends
<1>2. /\ Answer(r, 200) => Ends(r)
      /\ Answer(r, 404) => Ends(r)
      /\ Answer(r, 409) => Ends(r)
      /\ Answer(r, 500) => Ends(r)
  BY <1>1
<1>3. /\ (\E code \in {400, 500} : Answer(r, code)) => Ends(r)
      /\ (\E code \in {200, 500} : Answer(r, code)) => Ends(r)
      /\ (\E code \in {404, 500} : Answer(r, code)) => Ends(r)
  BY <1>1
<1> QED
  BY <1>2, <1>3

(* The handler of r ends so, or goes on. *)
GoesOn(r) ==
    \/ Ends(r)
    \/ UNCHANGED head /\ \E l \in HandlerPlaces \ {"encode"} : h' = [h EXCEPT ![r] = l]

(* How exec and load handlers end and go on. *)
LEMMA Going ==
    ASSUME Types, NEW r \in Sessions
    PROVE  /\ Answer(r, 200) \/ Answer(r, 404) \/ Answer(r, 409) \/ Answer(r, 500) => GoesOn(r)
           /\ (\E code \in {400, 500} : Answer(r, code)) => GoesOn(r)
           /\ (\E code \in {200, 500} : Answer(r, code)) => GoesOn(r)
           /\ ExecGoto(r, "exec") \/ ExecGoto(r, "post") \/ ExecGoto(r, "load") => GoesOn(r)
           /\ ExecGoto(r, "loaded") \/ ExecGoto(r, "closer") \/ ExecGoto(r, "head") => GoesOn(r)
           /\ ExecGoto(r, "await") \/ ExecGoto(r, "open") \/ ExecGoto(r, "import") => GoesOn(r)
           /\ Return(r) /\ UNCHANGED head => GoesOn(r)
<1>1. /\ Answer(r, 200) \/ Answer(r, 404) \/ Answer(r, 409) \/ Answer(r, 500) => GoesOn(r)
      /\ (\E code \in {400, 500} : Answer(r, code)) => GoesOn(r)
      /\ (\E code \in {200, 500} : Answer(r, code)) => GoesOn(r)
  BY Answered DEF GoesOn
<1>2. Return(r) /\ UNCHANGED head => GoesOn(r)
  BY DEF GoesOn, Return, H, HandlerPlaces
<1>3. /\ ExecGoto(r, "exec") \/ ExecGoto(r, "post") \/ ExecGoto(r, "load") => GoesOn(r)
      /\ ExecGoto(r, "loaded") \/ ExecGoto(r, "closer") \/ ExecGoto(r, "head") => GoesOn(r)
      /\ ExecGoto(r, "await") \/ ExecGoto(r, "open") \/ ExecGoto(r, "import") => GoesOn(r)
  BY DEF GoesOn, ExecGoto, H, HandlerPlaces
<1> QED
  BY <1>1, <1>2, <1>3

(* The steps of attach and logs are aside, and leave pulls alone, one case per
   action. *)
LEMMA FollowingAside ==
    ASSUME Types, NEW r \in Sessions, Placed(r), Following(r), UNCHANGED <<head, image>>
    PROVE  Aside(r) /\ (kind[r] = "pull" => h'[r] = h[r] /\ g'[r] = g[r])
<1> USE DEF Types, StepOf, Placed, Feeds, H, G, Return, HandlerPlaces, FeederPlaces, envVars, chanVars,
         Aside
<1>1. CASE Hijack(r)
  BY <1>1 DEF Hijack
<1>2. CASE AttachStatus(r)
  BY <1>2, ZenonT(30) DEF AttachStatus
<1>3. CASE TaskWait(r)
  BY <1>3, ZenonT(30) DEF TaskWait
<1>4. CASE InitLogViewer(r)
  BY <1>4 DEF InitLogViewer
<1>5. CASE View(r)
  BY <1>5 DEF View
<1>6. CASE CloseStreams(r)
  BY <1>6 DEF CloseStreams
<1>7. CASE WaitTask(r)
  BY <1>7 DEF WaitTask
<1>8. CASE DeleteTask(r)
  BY <1>8 DEF DeleteTask
<1>9. CASE SendStop(r)
  BY <1>9 DEF SendStop
<1>10. CASE CheckConnection(r)
  BY <1>10 DEF CheckConnection
<1>11. CASE Client(r)
  BY <1>11 DEF Client
<1>12. CASE Disconnected(r)
  BY <1>12 DEF Disconnected
<1> QED
  BY <1>1, <1>2, <1>3, <1>4, <1>5, <1>6, <1>7, <1>8, <1>9, <1>10, <1>11, <1>12, Zenon DEF Following

(* A step of the handler of a session that is neither events nor stats. *)
LEMMA GoesOnAside ==
    ASSUME Types, NEW r \in Sessions, Placed(r), GoesOn(r), ~Feeds(r), kind[r] # "pull",
           UNCHANGED <<kind, stream, chanVars, image>>,
           g' = g \/ \E l \in FeederPlaces : g' = [g EXCEPT ![r] = l]
    PROVE  Aside(r)
<1>1. PICK l \in HandlerPlaces \ {"encode"} : h' = [h EXCEPT ![r] = l]
  BY DEF GoesOn, Ends, HandlerPlaces
<1>2. head' \in [Sessions -> Nat] /\ \A s \in Sessions \ {r} : head'[s] = head[s]
  BY DEF GoesOn, Ends, Types
<1>3. g' \in [Sessions -> FeederPlaces] /\ \A s \in Sessions \ {r} : g'[s] = g[s]
  BY DEF Types
<1>4. h' \in [Sessions -> HandlerPlaces] /\ h'[r] # "encode" /\ \A s \in Sessions \ {r} : h'[s] = h[s]
  BY <1>1 DEF Types
<1>5. Types' /\ StepOf(r)
  BY <1>2, <1>3, <1>4 DEF Types, StepOf, chanVars
<1> QED
  BY <1>4, <1>5 DEF Aside, Placed, Feeds

(* So are the steps of exec sessions, *)
LEMMA ExecutingAside ==
    ASSUME Types, NEW r \in Sessions, Placed(r), Executing(r), UNCHANGED image
    PROVE  /\ Aside(r)
           /\ kind[r] = "pull" => h'[r] = h[r] /\ g'[r] = g[r] /\ head'[r] = head[r]
<1>g. ASSUME GoesOn(r), kind[r] = "exec", UNCHANGED <<kind, stream, g, chanVars>>
      PROVE  /\ Aside(r)
             /\ kind[r] = "pull" => h'[r] = h[r] /\ g'[r] = g[r] /\ head'[r] = head[r]
  BY <1>g, GoesOnAside DEF Feeds
<1> USE DEF Types, StepOf, Placed, Feeds, H, G, Return, HandlerPlaces, FeederPlaces, envVars, chanVars,
         Aside, vars, Unmoved, At, Attached
<1>1. CASE ExecCreate(r)
  <2>1. GoesOn(r) /\ kind[r] = "exec" /\ UNCHANGED <<kind, stream, g, chanVars>>
    BY <1>1, Going, ZenonT(30) DEF ExecCreate, Unmoved, At, envVars
  <2> QED
    BY <2>1, <1>g
<1>2. CASE TaskExec(r)
  <2>1. GoesOn(r) /\ kind[r] = "exec" /\ UNCHANGED <<kind, stream, g, chanVars>>
    BY <1>2, Going, ZenonT(30) DEF TaskExec, Unmoved, At, envVars
  <2> QED
    BY <2>1, <1>g
<1>3. CASE PostStart(r)
  <2>1. GoesOn(r) /\ kind[r] = "exec" /\ UNCHANGED <<kind, stream, g, chanVars>>
    BY <1>3, Going, ZenonT(30) DEF PostStart, Unmoved, At, envVars
  <2> QED
    BY <2>1, <1>g
<1>4. CASE LoadExecInstance(r)
  <2>1. GoesOn(r) /\ kind[r] = "exec" /\ UNCHANGED <<kind, stream, g, chanVars>>
    BY <1>4, Going, ZenonT(30) DEF LoadExecInstance, Unmoved, At, envVars
  <2> QED
    BY <2>1, <1>g
<1>5. CASE TaskStatus(r)
  <2>1. GoesOn(r) /\ kind[r] = "exec" /\ UNCHANGED <<kind, stream, g, chanVars>>
    BY <1>5, Going, ZenonT(30) DEF TaskStatus, Unmoved, At, envVars
  <2> QED
    BY <2>1, <1>g
<1>6. CASE SetCloser(r)
  <2>1. GoesOn(r) /\ kind[r] = "exec" /\ UNCHANGED <<kind, stream, g, chanVars>>
    BY <1>6, Going, ZenonT(30) DEF SetCloser, Unmoved, At, envVars
  <2> QED
    BY <2>1, <1>g
<1>7. CASE SuccessResponse(r)
  BY <1>7 DEF SuccessResponse
<1>8. CASE StartProcess(r)
  <2>1. GoesOn(r) /\ kind[r] = "exec" /\ UNCHANGED <<kind, stream, g, chanVars>>
    BY <1>8, Going, ZenonT(30) DEF StartProcess, Unmoved, At, envVars
  <2> QED
    BY <2>1, <1>g
<1>9. CASE AwaitExit(r)
  <2>1. GoesOn(r) /\ kind[r] = "exec" /\ UNCHANGED <<kind, stream, g, chanVars>>
    BY <1>9, Going, ZenonT(30) DEF AwaitExit, Unmoved, At, envVars
  <2> QED
    BY <2>1, <1>g
<1>10. CASE AwaitError(r)
  <2>1. GoesOn(r) /\ kind[r] = "exec" /\ UNCHANGED <<kind, stream, g, chanVars>>
    BY <1>10, Going, Zenon DEF AwaitError, Unmoved, At, envVars
  <2> QED
    BY <2>1, <1>g
<1>11. CASE CopyStdin(r)
  BY <1>11 DEF CopyStdin
<1>12. CASE EndInput(r)
  BY <1>12 DEF EndInput
<1>13. CASE ProcessExit(r)
  BY <1>13 DEF ProcessExit
<1> QED
  BY <1>1, <1>2, <1>3, <1>4, <1>5, <1>6, <1>7, <1>8, <1>9, <1>10, <1>11, <1>12, <1>13,
     Zenon DEF Executing

(* of loads, *)
LEMMA LoadingAside ==
    ASSUME Types, NEW r \in Sessions, Placed(r), LoadingStep(r)
    PROVE  Aside(r) /\ kind[r] = "load"
<1> USE DEF Types, StepOf, Placed, Feeds, H, G, Return, HandlerPlaces, FeederPlaces, envVars, chanVars,
         Aside, vars, FeederOnly, transferVars
<1>1. CASE OpenFifo(r)
  <2>1. GoesOn(r) /\ kind[r] = "load" /\ UNCHANGED <<kind, stream, chanVars, image>>
    BY <1>1, Going, ZenonT(30) DEF OpenFifo, Loading, HandlerOnly, Unmoved, envVars, transferVars
  <2>2. g' = g \/ \E l \in FeederPlaces : g' = [g EXCEPT ![r] = l]
    BY <1>1, Zenon DEF OpenFifo, G, HandlerOnly, Unmoved, FeederPlaces
  <2> QED
    BY <2>1, <2>2, GoesOnAside DEF Feeds
<1>2. CASE OpenArchive(r)
  <2>1. GoesOn(r) /\ kind[r] = "load" /\ UNCHANGED <<kind, stream, chanVars, image>>
    BY <1>2, Going, ZenonT(30) DEF OpenArchive, Loading, HandlerOnly, Unmoved, envVars, transferVars
  <2>2. g' = g \/ \E l \in FeederPlaces : g' = [g EXCEPT ![r] = l]
    BY <1>2, Zenon DEF OpenArchive, G, HandlerOnly, Unmoved, FeederPlaces
  <2> QED
    BY <2>1, <2>2, GoesOnAside DEF Feeds
<1>3. CASE ImportEnds(r)
  <2>1. GoesOn(r) /\ kind[r] = "load" /\ UNCHANGED <<kind, stream, chanVars, image>>
    BY <1>3, Going, ZenonT(30) DEF ImportEnds, Loading, HandlerOnly, Unmoved, envVars, transferVars
  <2>2. g' = g \/ \E l \in FeederPlaces : g' = [g EXCEPT ![r] = l]
    BY <1>3, ZenonT(30) DEF ImportEnds, G, HandlerOnly, Unmoved, FeederPlaces
  <2> QED
    BY <2>1, <2>2, GoesOnAside DEF Feeds
<1>4. CASE ImportFails(r)
  <2>1. GoesOn(r) /\ kind[r] = "load" /\ UNCHANGED <<kind, stream, chanVars, image>>
    BY <1>4, Going, ZenonT(30) DEF ImportFails, Loading, HandlerOnly, Unmoved, envVars, transferVars
  <2>2. g' = g \/ \E l \in FeederPlaces : g' = [g EXCEPT ![r] = l]
    BY <1>4, Zenon DEF ImportFails, G, HandlerOnly, Unmoved, FeederPlaces
  <2> QED
    BY <2>1, <2>2, GoesOnAside DEF Feeds
<1>5. CASE ReadBody(r)
  BY <1>5 DEF ReadBody
<1>6. CASE EndOfBody(r)
  BY <1>6 DEF EndOfBody
<1>7. CASE WriteFifo(r)
  BY <1>7 DEF WriteFifo
<1>8. CASE EndBody(r)
  BY <1>8 DEF EndBody
<1> QED
  BY <1>1, <1>2, <1>3, <1>4, <1>5, <1>6, <1>7, <1>8, Zenon DEF LoadingStep

(* a step of the handler of a pull that answers or goes on, *)
LEMMA PullGoesOn ==
    ASSUME Types, NEW r \in Sessions, Placed(r), kind[r] = "pull", UNCHANGED <<kind, stream, chanVars, image>>,
           g' = g \/ g' = [g EXCEPT ![r] = "tick"],
           \/ Ends(r)
           \/ UNCHANGED head /\ \E l \in {"pull", "returned"} : h' = [h EXCEPT ![r] = l]
    PROVE  Aside(r)
<1>1. PICK l \in {"pull", "returned"} : h' = [h EXCEPT ![r] = l]
  BY DEF Ends
<1>2. head' \in [Sessions -> Nat] /\ \A s \in Sessions \ {r} : head'[s] = head[s]
  BY DEF Ends, Types
<1>3. /\ g' \in [Sessions -> FeederPlaces] /\ g'[r] \in {g[r], "tick"}
      /\ \A s \in Sessions \ {r} : g'[s] = g[s]
  BY DEF Types, FeederPlaces
<1>4. /\ h' \in [Sessions -> HandlerPlaces] /\ h'[r] \in {"pull", "returned"}
      /\ \A s \in Sessions \ {r} : h'[s] = h[s]
  BY <1>1 DEF Types, HandlerPlaces
<1>5. Types' /\ StepOf(r)
  BY <1>2, <1>3, <1>4 DEF Types, StepOf, chanVars
<1> QED
  BY <1>3, <1>4, <1>5 DEF Aside, Placed, Feeds

(* and of pulls. *)
LEMMA PullingAside ==
    ASSUME Types, NEW r \in Sessions, Placed(r), PullingStep(r)
    PROVE  Aside(r)
<1>e. /\ Answer(r, 200) => Ends(r)
      /\ (\E code \in {400, 500} : Answer(r, code)) => Ends(r)
      /\ (\E code \in {404, 500} : Answer(r, code)) => Ends(r)
  BY Answered
<1>p. ASSUME kind[r] = "pull", UNCHANGED <<kind, stream, chanVars, image>>,
             g' = g \/ g' = [g EXCEPT ![r] = "tick"],
             \/ Ends(r)
             \/ UNCHANGED head /\ \E l \in {"pull", "returned"} : h' = [h EXCEPT ![r] = l]
      PROVE  Aside(r)
  BY <1>p, PullGoesOn
<1> USE DEF Types, StepOf, Placed, Feeds, H, G, Return, HandlerPlaces, FeederPlaces, envVars, chanVars,
         Aside, vars, allVars, execVars, ExecGoto, Unmoved, HandlerOnly,
         FeederOnly, transferVars, Pulling
<1>1. CASE StartPull(r)
  <2>1. /\ kind[r] = "pull" /\ UNCHANGED <<kind, stream, chanVars, image>>
        /\ g' = g \/ g' = [g EXCEPT ![r] = "tick"]
    BY <1>1 DEF StartPull
  <2>2. \/ Ends(r)
        \/ UNCHANGED head /\ \E l \in {"pull", "returned"} : h' = [h EXCEPT ![r] = l]
    BY <1>1, <1>e DEF StartPull
  <2> QED
    BY <2>1, <2>2, <1>p
<1>2. CASE Resolved(r)
  BY <1>2 DEF Resolved
<1>3. CASE Pulled(r)
  BY <1>3 DEF Pulled
<1>4. CASE WritePulled(r)
  <2>1. /\ kind[r] = "pull" /\ UNCHANGED <<kind, stream, chanVars, image>>
        /\ g' = g \/ g' = [g EXCEPT ![r] = "tick"]
    BY <1>4 DEF WritePulled
  <2>2. \/ Ends(r)
        \/ UNCHANGED head /\ \E l \in {"pull", "returned"} : h' = [h EXCEPT ![r] = l]
    BY <1>4, <1>e DEF WritePulled
  <2> QED
    BY <2>1, <2>2, <1>p
<1>5. CASE PullCancelled(r)
  BY <1>5 DEF PullCancelled
<1>6. CASE PullFails(r)
  BY <1>6 DEF PullFails
<1>7. CASE WriteError(r)
  <2>1. /\ kind[r] = "pull" /\ UNCHANGED <<kind, stream, chanVars, image>>
        /\ g' = g \/ g' = [g EXCEPT ![r] = "tick"]
    BY <1>7 DEF WriteError
  <2>2. \/ Ends(r)
        \/ UNCHANGED head /\ \E l \in {"pull", "returned"} : h' = [h EXCEPT ![r] = l]
    BY <1>7, <1>e DEF WriteError
  <2> QED
    BY <2>1, <2>2, <1>p
<1>8. CASE Progress(r)
  BY <1>8 DEF Progress
<1>9. CASE WriteLine(r)
  BY <1>9 DEF WriteLine
<1>10. CASE TransferDisconnected(r)
  BY <1>10 DEF TransferDisconnected
<1> QED
  BY <1>1, <1>2, <1>3, <1>4, <1>5, <1>6, <1>7, <1>8, <1>9, <1>10, Zenon DEF PullingStep

-----------------------------------------------------------------------------
(* Sending to and receiving from statsCh. *)
LEMMA Sent ==
    ASSUME NEW q \in Seq(Items), NEW x \in Items
    PROVE  /\ Append(q, x) \in Seq(Items) /\ Append(q, x) # <<>>
           /\ Len(Append(q, x)) = Len(q) + 1 /\ Append(q, x)[Len(q) + 1] = x
           /\ \A i \in 1..Len(q) : Append(q, x)[i] = q[i]
OBVIOUS

(* What is received is the head of the channel, and the rest stays. *)
LEMMA Received ==
    ASSUME NEW q \in Seq(Items), q # <<>>
    PROVE  /\ Len(q) >= 1 /\ Head(q) = q[1] /\ Head(q) \in Items
           /\ Tail(q) \in Seq(Items) /\ Len(Tail(q)) = Len(q) - 1
           /\ Tail(q) = <<>> <=> Len(q) = 1
           /\ \A i \in 1..Len(q) - 1 : Tail(q)[i] = q[i + 1]
<1>1. Len(q) \in Nat /\ Len(q) >= 1 /\ Head(q) = q[1] /\ Head(q) \in Items
  OBVIOUS
<1>2. Tail(q) \in Seq(Items) /\ Len(Tail(q)) = Len(q) - 1
  OBVIOUS
<1>3. \A i \in 1..Len(q) - 1 : Tail(q)[i] = q[i + 1]
  OBVIOUS
<1>4. \A t \in Seq(Items) : t = <<>> <=> Len(t) = 0
  OBVIOUS
<1>5. Tail(q) = <<>> <=> Len(q) = 1
  BY <1>1, <1>2, <1>4
<1> QED
  BY <1>1, <1>2, <1>3, <1>5

(* The steps of events and stats sessions, one case per action. *)
LEMMA FeedingStep ==
    ASSUME Types, NEW r \in Sessions, Placed(r), Feeding(r), UNCHANGED <<head, image>>
    PROVE  /\ Types' /\ StepOf(r) /\ Placed(r)'
           /\ kind[r] = "pull" => h'[r] = h[r] /\ g'[r] = g[r]
<1>r. statsCh[r] # <<>> => Head(statsCh[r]) \in Items /\ Tail(statsCh[r]) \in Seq(Items)
  BY Received DEF Types
<1> USE DEF Types, StepOf, Placed, Feeds, H, G, Return, HandlerPlaces, FeederPlaces, envVars, chanVars,
         Items, Nothing, Due
<1>1. CASE Reject(r)
  BY <1>1 DEF Reject
<1>2. CASE SubscriptionError(r)
  BY <1>2 DEF SubscriptionError
<1>3. CASE SubscribeEvents(r)
  BY <1>3 DEF SubscribeEvents
<1>4. CASE TakeEvent(r)
  <2>1. /\ item' \in [Sessions -> Items] /\ produced' \in [Sessions -> Nat]
        /\ \A s \in Sessions \ {r} : item'[s] = item[s] /\ produced'[s] = produced[s]
    <3>1. [n |-> produced[r] + 1, pre |-> item[r].n] \in Items /\ item[r] \in Items
      OBVIOUS
    <3>2. PICK x \in Items : item' = [item EXCEPT ![r] = x]
      <4>1. CASE UNCHANGED item
        BY <3>1, <4>1, Zenon
      <4> QED
        BY <1>4, <3>1, <4>1, Zenon DEF TakeEvent
    <3>3. produced' = [produced EXCEPT ![r] = produced[r] + 1] /\ produced[r] + 1 \in Nat
      BY <1>4 DEF TakeEvent
    <3> HIDE DEF Items
    <3> QED
      BY <3>2, <3>3
  <2> QED
    BY <1>4, <2>1, ZenonT(30) DEF TakeEvent
<1>5. CASE EventsDone(r)
  BY <1>5 DEF EventsDone
<1>6. CASE SendEvent(r)
  BY <1>6 DEF SendEvent
<1>7. CASE SendError(r)
  BY <1>7 DEF SendError
<1>8. CASE StatsLookup(r)
  BY <1>8 DEF StatsLookup
<1>9. CASE StatsSubscribe(r)
  BY <1>9 DEF StatsSubscribe
<1>10. CASE Tick(r)
  <2>1. /\ item' \in [Sessions -> Items] /\ pre' \in [Sessions -> Nat] /\ produced' \in [Sessions -> Nat]
        /\ \A s \in Sessions \ {r} : item'[s] = item[s] /\ pre'[s] = pre[s] /\ produced'[s] = produced[s]
    <3>1. [n |-> produced[r] + 1, pre |-> pre[r]] \in Items /\ Nothing \in Items
      OBVIOUS
    <3>2. PICK x \in Items : item' = [item EXCEPT ![r] = x]
      BY <1>10, <3>1, Zenon DEF Tick
    <3>3. PICK v \in Nat : pre' = [pre EXCEPT ![r] = v]
      BY <1>10, SMTT(30) DEF Tick
    <3>4. produced' = [produced EXCEPT ![r] = produced[r] + 1] /\ produced[r] + 1 \in Nat
      BY <1>10, SMTT(30) DEF Tick
    <3> HIDE DEF Items
    <3> QED
      BY <3>2, <3>3, <3>4
  <2> QED
    BY <1>10, <2>1, ZenonT(30) DEF Tick
<1>11. CASE SendStats(r)
  BY <1>11, SMTT(30) DEF SendStats
<1>12. CASE StatsDone(r)
  BY <1>12 DEF StatsDone
<1>13. CASE ReceiveStats(r)
  <2>1. /\ enc' \in [Sessions -> Items] /\ statsCh' \in [Sessions -> Seq(Items)]
        /\ \A s \in Sessions \ {r} : enc'[s] = enc[s] /\ statsCh'[s] = statsCh[s]
    <3>1. \/ UNCHANGED <<enc, statsCh>>
          \/ /\ statsCh[r] # <<>>
             /\ enc' = [enc EXCEPT ![r] = Head(statsCh[r])]
             /\ statsCh' = [statsCh EXCEPT ![r] = Tail(statsCh[r])]
      BY <1>13, Zenon DEF ReceiveStats
    <3>2. CASE UNCHANGED <<enc, statsCh>>
      BY <3>2
    <3>3. ASSUME NEW x \in Items, NEW t \in Seq(Items),
                 enc' = [enc EXCEPT ![r] = x], statsCh' = [statsCh EXCEPT ![r] = t]
          PROVE  /\ enc' \in [Sessions -> Items] /\ statsCh' \in [Sessions -> Seq(Items)]
                 /\ \A s \in Sessions \ {r} : enc'[s] = enc[s] /\ statsCh'[s] = statsCh[s]
      <4> HIDE DEF Items
      <4> QED
        BY <3>3
    <3> HIDE DEF Items
    <3> QED
      BY <1>r, <3>1, <3>2, <3>3, Zenon
  <2>2. /\ kind[r] = "stats" /\ h[r] = "recv"
        /\ h' = [h EXCEPT ![r] = "encode"] \/ h' = [h EXCEPT ![r] = "returned"]
        /\ UNCHANGED <<kind, stream, g, item, last, pre, produced>>
    BY <1>13 DEF ReceiveStats
  <2> QED
    BY <2>1, <2>2, ZenonT(30)
<1>14. CASE Encode(r)
  <2>1. /\ last' \in [Sessions -> Items] /\ \A s \in Sessions \ {r} : last'[s] = last[s]
    BY <1>14, ZenonT(30) DEF Encode
  <2>2. /\ Feeds(r) /\ h[r] = "encode"
        /\ h' = [h EXCEPT ![r] = "recv"] \/ h' = [h EXCEPT ![r] = "returned"]
        /\ UNCHANGED <<kind, stream, g, item, statsCh, enc, pre, produced>>
    BY <1>14 DEF Encode
  <2> QED
    BY <2>1, <2>2, ZenonT(30)
<1> QED
  BY <1>1, <1>2, <1>3, <1>4, <1>5, <1>6, <1>7, <1>8, <1>9, <1>10, <1>11, <1>12, <1>13, <1>14,
     Zenon DEF Feeding

(* A step of r that moves neither its goroutines nor its objects keeps its chain. *)
LEMMA ChainUnmoved ==
    ASSUME NEW s \in Sessions, Chain(s), kind'[s] = kind[s], h'[s] = h[s], g'[s] = g[s],
           item'[s] = item[s], statsCh'[s] = statsCh[s], enc'[s] = enc[s], last'[s] = last[s],
           pre'[s] = pre[s], produced'[s] = produced[s]
    PROVE  Chain(s)'
BY DEF Chain, Feeds, Front, Back, Top, Follows

(* The steps of events and stats sessions keep the chain, one case per action. *)
LEMMA FeedingChain ==
    ASSUME Types, NEW r \in Sessions, Placed(r), Chain(r), Feeding(r) PROVE Chain(r)'
<1>q. /\ statsCh[r] \in Seq(Items) /\ item[r] \in Items /\ Len(statsCh[r]) \in Nat
      /\ (statsCh[r] = <<>> <=> Len(statsCh[r]) = 0)
      /\ \A i \in 1..Len(statsCh[r]) : statsCh[r][i] \in Items
  BY DEF Types
<1> USE DEF Types, Placed, H, G, Return, chanVars, envVars, Feeds
<1>1. CASE Reject(r)
  BY <1>1, <1>q DEF Reject, Chain, Front, Back, Top, Follows, Nothing
<1>2. CASE SubscriptionError(r)
  BY <1>2, <1>q DEF SubscriptionError, Chain, Front, Back, Top, Follows, Nothing
<1>3. CASE SubscribeEvents(r)
  BY <1>3, <1>q DEF SubscribeEvents, Chain, Front, Back, Top, Follows, Nothing
<1>4. CASE TakeEvent(r)
  BY <1>4, <1>q DEF TakeEvent, Chain, Front, Back, Top, Follows, Nothing, Due, Items
<1>5. CASE EventsDone(r)
  BY <1>5, <1>q DEF EventsDone, Chain, Front, Back, Top, Follows, Nothing
<1>6. CASE SendEvent(r)
  BY <1>6, <1>q DEF SendEvent, Chain, Front, Back, Top, Follows, Nothing
<1>7. CASE SendError(r)
  BY <1>7, <1>q DEF SendError, Chain, Front, Back, Top, Follows, Nothing
<1>8. CASE StatsLookup(r)
  BY <1>8, <1>q DEF StatsLookup, Chain, Front, Back, Top, Follows, Nothing
<1>9. CASE StatsSubscribe(r)
  BY <1>9, <1>q DEF StatsSubscribe, Chain, Front, Back, Top, Follows, Nothing
<1>10. CASE Tick(r)
  BY <1>10, <1>q, SMTT(30) DEF Tick, Chain, Front, Back, Top, Follows, Nothing, Due, Items
<1>11. CASE SendStats(r)
  <2> DEFINE q == statsCh[r]
             p == Append(q, item[r])
  <2>1. /\ h'[r] = h[r] /\ statsCh'[r] = p /\ g[r] = "send" /\ g'[r] = "select" /\ kind[r] = "stats"
        /\ UNCHANGED <<kind, enc, last, pre, produced>>
    BY <1>11 DEF SendStats
  <2>2. /\ Len(p) = Len(q) + 1 /\ p[Len(q) + 1] = item[r] /\ p # <<>>
        /\ \A i \in 1..Len(q) : p[i] = q[i]
    BY <1>q, Sent, SMTT(30)
  <2>3. SUFFICES ASSUME h[r] # "returned" PROVE Chain(r)'
    BY <2>1 DEF Chain
  <2>4. Front(r)' = Front(r) /\ Top(r)' = Top(r)
    BY <2>1 DEF Front, Top
  <2>5. /\ h[r] = "encode" => Follows(last[r], enc[r])
        /\ q # <<>> => Follows(Front(r), q[1])
        /\ \A i \in 1..Len(q) - 1 : Follows(q[i], q[i + 1])
        /\ Follows(Back(r), item[r]) /\ item[r].n = Top(r)
    BY <2>1, <2>3 DEF Chain
  <2>6. Follows(Front(r), p[1])
    BY <1>q, <2>2, <2>5 DEF Back
  <2>7. ASSUME NEW i \in 1..Len(p) - 1 PROVE Follows(p[i], p[i + 1])
    <3>1. CASE i = Len(q)
      BY <1>q, <2>2, <2>5, <2>7, <3>1 DEF Back
    <3>2. CASE i # Len(q)
      <4>1. i \in 1..Len(q) - 1 /\ i \in 1..Len(q) /\ i + 1 \in 1..Len(q)
        BY <1>q, <2>2, <2>7, <3>2
      <4> QED
        BY <2>2, <2>5, <4>1
    <3> QED
      BY <3>1, <3>2
  <2>8. Back(r)' = item[r]
    BY <1>q, <2>1, <2>2 DEF Back
  <2>9. h[r] = "encode" => Follows(last[r], enc[r])'
    BY <2>1, <2>5 DEF Follows
  <2> HIDE DEF p
  <2> QED
    BY <2>1, <2>2, <2>4, <2>5, <2>6, <2>7, <2>8, <2>9 DEF Chain, Follows
<1>12. CASE StatsDone(r)
  BY <1>12, <1>q DEF StatsDone, Chain, Front, Back, Top, Follows, Nothing
<1>13. CASE ReceiveStats(r)
  <2> DEFINE q == statsCh[r]
             p == Tail(q)
  <2>1. CASE h' = [h EXCEPT ![r] = "returned"]
    BY <2>1 DEF Chain
  <2>2. CASE /\ q # <<>> /\ H(r, "encode")
             /\ enc' = [enc EXCEPT ![r] = Head(q)] /\ statsCh' = [statsCh EXCEPT ![r] = Tail(@)]
    <3>1. /\ h[r] = "recv" /\ h'[r] = "encode" /\ statsCh'[r] = p /\ enc'[r] = q[1]
          /\ kind[r] = "stats" /\ UNCHANGED <<kind, last, item, pre, produced, g>>
      BY <1>13, <1>q, <2>2, Received DEF ReceiveStats
    <3>2. /\ Len(q) >= 1 /\ Len(p) = Len(q) - 1 /\ (p = <<>> <=> Len(q) = 1)
          /\ \A i \in 1..Len(q) - 1 : p[i] = q[i + 1]
      BY <1>q, <2>2, Received
    <3>3. /\ Follows(last[r], q[1])
          /\ \A i \in 1..Len(q) - 1 : Follows(q[i], q[i + 1])
          /\ IF g[r] = "send" THEN Follows(q[Len(q)], item[r]) /\ item[r].n = Top(r)
                              ELSE q[Len(q)].n = Top(r)
      BY <2>2, <3>1 DEF Chain, Front, Back
    <3>4. Front(r)' = q[1] /\ Top(r)' = Top(r)
      BY <3>1 DEF Front, Top
    <3>5. Back(r)' = q[Len(q)]
      BY <1>q, <3>1, <3>2, <3>4 DEF Back
    <3>6. p # <<>> => Follows(q[1], p[1])
      BY <1>q, <3>2, <3>3
    <3>7. ASSUME NEW i \in 1..Len(p) - 1 PROVE Follows(p[i], p[i + 1])
      <4>1. i \in 1..Len(q) - 1 /\ i + 1 \in 1..Len(q) - 1
        BY <1>q, <3>2, <3>7
      <4> QED
        BY <3>2, <3>3, <4>1
    <3> HIDE DEF p
    <3> QED
      BY <3>1, <3>3, <3>4, <3>5, <3>6, <3>7 DEF Chain, Follows
  <2> QED
    BY <1>13, <2>1, <2>2, Zenon DEF ReceiveStats, Return, H
<1>14. CASE Encode(r)
  BY <1>14, <1>q DEF Encode, Chain, Front, Back, Top, Follows, Nothing
<1> QED
  BY <1>1, <1>2, <1>3, <1>4, <1>5, <1>6, <1>7, <1>8, <1>9, <1>10, <1>11, <1>12, <1>13, <1>14,
     Zenon DEF Feeding

(* What an events or stats client gets next follows on what it got before. *)
LEMMA FeedingFollows ==
    ASSUME Types, NEW r \in Sessions, Placed(r), Chain(r), Feeding(r), last' # last
    PROVE  Follows(last[r], last'[r])
<1>1. Encode(r) /\ last' = [last EXCEPT ![r] = enc[r]]
  BY DEF Feeding, Reject, SubscriptionError, SubscribeEvents, TakeEvent, EventsDone, SendEvent,
     SendError, StatsLookup, StatsSubscribe, Tick, SendStats, StatsDone, ReceiveStats, Encode, chanVars
<1>2. h[r] = "encode" /\ Feeds(r)
  BY <1>1 DEF Encode, Placed
<1> QED
  BY <1>1, <1>2 DEF Chain, Types

(* The steps of pulls, one case per action. *)
LEMMA PullingUnresolved ==
    ASSUME Types, NEW r \in Sessions, Placed(r), Unresolved(r), PullingStep(r)
    PROVE  Unresolved(r)'
<1> USE DEF Types, Unresolved, NamedResolved, H, G, Return, Answer, ExecGoto, Unmoved, HandlerOnly, FeederOnly,
         transferVars, allVars, vars, execVars, envVars, Pulling
<1>1. CASE StartPull(r)
  BY <1>1 DEF StartPull
<1>2. CASE Resolved(r)
  BY <1>2 DEF Resolved
<1>3. CASE Pulled(r)
  BY <1>3 DEF Pulled
<1>4. CASE WritePulled(r)
  BY <1>4 DEF WritePulled
<1>5. CASE PullCancelled(r)
  BY <1>5 DEF PullCancelled
<1>6. CASE PullFails(r)
  BY <1>6 DEF PullFails
<1>7. CASE WriteError(r)
  BY <1>7 DEF WriteError
<1>8. CASE Progress(r)
  BY <1>8 DEF Progress, Placed
<1>9. CASE WriteLine(r)
  BY <1>9 DEF WriteLine, Placed
<1>10. CASE TransferDisconnected(r)
  BY <1>10 DEF TransferDisconnected
<1> QED
  BY <1>1, <1>2, <1>3, <1>4, <1>5, <1>6, <1>7, <1>8, <1>9, <1>10, Zenon DEF PullingStep

(* A pull that a step leaves alone. *)
LEMMA UnresolvedUnmoved ==
    ASSUME NEW s \in Sessions, Unresolved(s), kind'[s] = kind[s], stream'[s] = stream[s],
           kind[s] = "pull" =>
               h'[s] = h[s] /\ g'[s] = g[s] /\ head'[s] = head[s] /\ image'[s] = image[s]
    PROVE  Unresolved(s)'
BY DEF Unresolved, NamedResolved

(* A step of r keeps the invariants, of r and of the other sessions. *)
LEMMA SessionStep ==
    ASSUME Types, ChainInv, PullInv, NEW r \in Sessions,
           \/ (Feeding(r) \/ Following(r)) /\ UNCHANGED <<head, image>>
           \/ Executing(r) /\ UNCHANGED image
           \/ LoadingStep(r) \/ PullingStep(r)
    PROVE  /\ Types' /\ ChainInv' /\ PullInv'
           /\ \A s \in Sessions : last'[s] # last[s] => Follows(last[s], last'[s])
<1>i. Placed(r) /\ Chain(r) /\ Unresolved(r)
  BY DEF ChainInv, PullInv
<1>a. ASSUME Aside(r) PROVE Chain(r)' /\ \A s \in Sessions : last'[s] = last[s]
  <2>1. CASE Feeds(r)
    BY <1>a, <1>i, <2>1, ChainUnmoved DEF Aside, StepOf, chanVars
  <2>2. CASE ~Feeds(r)
    BY <1>a, <2>2 DEF Aside, StepOf, Chain, Feeds, chanVars
  <2> QED
    BY <1>a, <2>1, <2>2 DEF Aside, chanVars
<1>s. SUFFICES /\ Types' /\ StepOf(r) /\ Placed(r)' /\ Chain(r)' /\ Unresolved(r)'
               /\ \A s \in Sessions : last'[s] # last[s] => Follows(last[s], last'[s])
  <2>1. ASSUME NEW s \in Sessions \ {r}, StepOf(r) PROVE Placed(s)' /\ Chain(s)' /\ Unresolved(s)'
    <3>1. Placed(s)'
      BY <2>1 DEF ChainInv, Placed, Feeds, StepOf
    <3>2. Chain(s)'
      BY <2>1, ChainUnmoved DEF ChainInv, StepOf
    <3>3. Unresolved(s)'
      BY <2>1, UnresolvedUnmoved DEF PullInv, StepOf
    <3> QED
      BY <3>1, <3>2, <3>3
  <2> QED
    BY <2>1 DEF ChainInv, PullInv
<1>1. CASE Feeding(r) /\ UNCHANGED <<head, image>>
  <2>1. /\ Types' /\ StepOf(r) /\ Placed(r)'
        /\ kind[r] = "pull" => h'[r] = h[r] /\ g'[r] = g[r]
    BY <1>1, <1>i, FeedingStep
  <2>2. Chain(r)'
    BY <1>1, <1>i, FeedingChain
  <2>3. Unresolved(r)'
    BY <1>1, <1>i, <2>1, UnresolvedUnmoved DEF StepOf
  <2>4. ASSUME NEW s \in Sessions, last'[s] # last[s] PROVE Follows(last[s], last'[s])
    BY <1>1, <1>i, <2>1, <2>4, FeedingFollows DEF StepOf
  <2> QED
    BY <2>1, <2>2, <2>3, <2>4
<1>2. CASE Following(r) /\ UNCHANGED <<head, image>>
  <2>1. Aside(r) /\ (kind[r] = "pull" => h'[r] = h[r] /\ g'[r] = g[r])
    BY <1>2, <1>i, FollowingAside
  <2>2. Unresolved(r)'
    BY <1>2, <1>i, <2>1, UnresolvedUnmoved DEF Aside, StepOf
  <2> QED
    BY <1>a, <2>1, <2>2 DEF Aside
<1>3. CASE Executing(r) /\ UNCHANGED image
  <2>1. Aside(r) /\ (kind[r] = "pull" => h'[r] = h[r] /\ g'[r] = g[r] /\ head'[r] = head[r])
    BY <1>3, <1>i, ExecutingAside
  <2>2. Unresolved(r)'
    BY <1>3, <1>i, <2>1, UnresolvedUnmoved DEF Aside, StepOf
  <2> QED
    BY <1>a, <2>1, <2>2 DEF Aside
<1>4. CASE LoadingStep(r)
  <2>1. Aside(r) /\ kind[r] = "load"
    BY <1>4, <1>i, LoadingAside
  <2>2. Unresolved(r)'
    BY <2>1 DEF Aside, StepOf, Unresolved
  <2> QED
    BY <1>a, <2>1, <2>2 DEF Aside
<1>5. CASE PullingStep(r)
  <2>1. Aside(r) /\ Unresolved(r)'
    BY <1>5, <1>i, PullingAside, PullingUnresolved
  <2> QED
    BY <1>a, <2>1 DEF Aside
<1> QED
  BY <1>1, <1>2, <1>3, <1>4, <1>5

(* Every step keeps the invariants. *)
LEMMA NextStreams ==
    ASSUME Types, ChainInv, PullInv, [TransfersNext]_everything
    PROVE  /\ Types' /\ ChainInv' /\ PullInv'
           /\ \A s \in Sessions : last'[s] # last[s] => Follows(last[s], last'[s])
<1>1. CASE UNCHANGED <<kind, stream, h, g, chanVars, head, image>>
  <2>1. UNCHANGED <<kind, stream, h, g, item, statsCh, enc, last, pre, produced, head, image>>
    BY <1>1 DEF chanVars
  <2>2. Types' /\ \A s \in Sessions : last'[s] = last[s]
    BY <2>1 DEF Types
  <2>3. ChainInv'
    BY <2>1, ChainUnmoved DEF ChainInv, Placed, Feeds
  <2>4. PullInv'
    BY <2>1, UnresolvedUnmoved DEF PullInv
  <2> QED
    BY <2>2, <2>3, <2>4
<1>2. CASE TransfersNext
  <2>1. CASE Container /\ UNCHANGED <<head, image>>
    BY <1>1, <2>1 DEF Container
  <2> QED
    BY <1>2, <2>1, Steps, SessionStep
<1>3. CASE UNCHANGED everything
  BY <1>1, <1>3 DEF everything, allVars, vars, envVars, execVars, transferVars
<1> QED
  BY <1>2, <1>3

(* The invariants hold before the first request. *)
LEMMA InitStreams == TransfersInit => Types /\ ChainInv /\ PullInv
<1> SUFFICES ASSUME TransfersInit PROVE Types /\ ChainInv /\ PullInv
  OBVIOUS
<1>1. Nothing \in Items /\ Nothing.n = 0 /\ <<>> \in Seq(Items) /\ Len(<<>>) = 0
  BY DEF Nothing, Items
<1>2. Types
  BY <1>1 DEF TransfersInit, ExecInit, Init, Types, HandlerPlaces, FeederPlaces
<1>3. ChainInv
  <2>1. ASSUME NEW s \in Sessions PROVE Placed(s) /\ Chain(s)
    <3>1. /\ h[s] = "start" /\ g[s] = "none" /\ statsCh[s] = <<>> /\ last[s] = Nothing /\ item[s] = Nothing
          /\ pre[s] = 0 /\ produced[s] = 0
      BY DEF TransfersInit, ExecInit, Init
    <3>2. Placed(s)
      BY <3>1 DEF Placed
    <3>3. Back(s) = Nothing /\ Top(s) = 0
      BY <1>1, <3>1 DEF Back, Front, Top
    <3>4. 1..Len(statsCh[s]) - 1 = {}
      BY <1>1, <3>1
    <3> QED
      BY <1>1, <3>1, <3>2, <3>3, <3>4 DEF Chain
  <2> QED
    BY <2>1 DEF ChainInv
<1>4. PullInv
  BY DEF TransfersInit, ExecInit, Init, PullInv, Unresolved
<1> QED
  BY <1>2, <1>3, <1>4

(* SubscribeEvents and Stats: no event is lost or overtaken on its way to the
   client, and the previous statistics in a stats object are those sent before. *)
THEOREM ChainedHolds == TransfersSpec => Chained
<1>1. Types /\ ChainInv /\ PullInv /\ [TransfersNext]_everything => Types' /\ ChainInv' /\ PullInv'
  BY NextStreams
<1>2. Types /\ ChainInv /\ PullInv /\ [TransfersNext]_everything =>
        [\A s \in Sessions :
            last'[s] # last[s] /\ last'[s] # Nothing => last'[s].pre = last[s].n]_vars
  BY NextStreams DEF Follows
<1> QED
  BY <1>1, <1>2, InitStreams, PTL DEF TransfersSpec, Chained

(* pullJobWriter: a pull that fails before its image is resolved has the status
   of its error, and its progress is written to no handler that has returned. *)
THEOREM UnresolvedHasStatusHolds == TransfersSpec => []UnresolvedHasStatus
<1>1. Types /\ ChainInv /\ PullInv /\ [TransfersNext]_everything => Types' /\ ChainInv' /\ PullInv'
  BY NextStreams
<1>2. PullInv => UnresolvedHasStatus
  BY DEF PullInv, Unresolved, UnresolvedHasStatus
<1> QED
  BY <1>1, <1>2, InitStreams, PTL DEF TransfersSpec
=============================================================================
