------------------------------- MODULE Streams -------------------------------
(***************************************************************************)
(* The endpoints that stream until their client goes away: GET /events,    *)
(* GET /containers/{id}/stats, and attach and logs of a container.  Each   *)
(* request is a handler goroutine h and a goroutine g that feeds it: the   *)
(* events goroutine over an unbuffered channel, the stats goroutine over a *)
(* buffered one, the waiter of attach and logs over a stop channel that    *)
(* holds one signal.  Attach and logs hijack the connection, and a third   *)
(* goroutine w watches it.  Sessions of kind "exec" are those of Exec,     *)
(* those of kind "load" and "pull" those of Transfers.                     *)
(*                                                                         *)
(* An event or stats object is a number and the number of the one before   *)
(* it (0: an empty stats object, or nothing before).                       *)
(***************************************************************************)
EXTENDS Integers, Sequences

CONSTANTS
    Sessions,  \* the streaming requests
    Kinds,     \* the endpoints they may be for
    StatsCap,  \* the capacity of statsCh
    MaxItems,  \* bound: events or ticks per session
    MayFail    \* calls that may fail

ASSUME StreamsAssumption ==
    /\ Kinds \subseteq {"events", "stats", "follow", "exec", "load", "pull"}
    /\ StatsCap \in Nat \ {0} /\ MaxItems \in Nat
    /\ MayFail \subseteq {"errCh", "collect", "status", "viewer", "exec", "load", "pull"}

VARIABLES
    kind,      \* the endpoint each session is for
    stream,    \* stats: stream; attach, logs: follow; see Attached, NamedResolved
    client,    \* "reading", "stalled" or "gone"
    cancelled, \* the sessions whose request context is cancelled
    h, g, w,   \* the goroutines: handler, feeder or waiter, watcher
    item,      \* what g is about to send
    statsCh,   \* the stats channel
    enc,       \* what h has received
    last,      \* what h has written last
    pre,       \* preStats
    produced,  \* how many events or ticks g has seen
    stop,      \* the stop channel: 0 or 1 signals
    removal,   \* stats: "none", "listening", or "removed" once the event is there
    finished,  \* the sessions whose waiter's task has ended
    con        \* the container: "running", "stopped", "deleted" (its task) or "removed"

envVars == <<kind, stream, client, con>>
chanVars == <<item, statsCh, enc, last, pre, produced>>
vars == <<envVars, cancelled, h, g, w, chanVars, stop, removal, finished>>

Nothing == [n |-> 0, pre |-> 0]

Init ==
    /\ kind \in [Sessions -> Kinds]
    /\ stream \in [Sessions -> BOOLEAN]
    /\ client = [s \in Sessions |-> "reading"]
    /\ cancelled = {}
    /\ h = [s \in Sessions |-> "start"]
    /\ g = [s \in Sessions |-> "none"]
    /\ w = [s \in Sessions |-> "none"]
    /\ item = [s \in Sessions |-> Nothing]
    /\ statsCh = [s \in Sessions |-> <<>>]
    /\ enc = [s \in Sessions |-> Nothing]
    /\ last = [s \in Sessions |-> Nothing]
    /\ pre = [s \in Sessions |-> 0]
    /\ produced = [s \in Sessions |-> 0]
    /\ stop = [s \in Sessions |-> 0]
    /\ removal = [s \in Sessions |-> "none"]
    /\ finished = {}
    /\ con \in {"running", "stopped", "deleted"}

H(s, l) == h' = [h EXCEPT ![s] = l]
G(s, l) == g' = [g EXCEPT ![s] = l]

(* The handler returns, and net/http cancels the request's context. *)
Return(s) == H(s, "returned") /\ cancelled' = cancelled \cup {s}

(* A containerd event or a tick is there to be taken. *)
Due(s) == g[s] = "select" /\ produced[s] < MaxItems

-----------------------------------------------------------------------------
(* A filter that cannot be parsed, no stream to log, no way to hijack. *)
Reject(s) ==
    /\ kind[s] \in {"events", "follow"} /\ h[s] = "start"
    /\ Return(s)
    /\ UNCHANGED <<envVars, g, w, chanVars, stop, removal, finished>>

(* errCh, removeErr: the subscription to containerd's events fails. *)
SubscriptionError(s) ==
    /\ "errCh" \in MayFail /\ g[s] = "select"
    /\ G(s, IF kind[s] = "events" THEN "err" ELSE "ended")
    /\ UNCHANGED <<envVars, cancelled, h, w, chanVars, stop, removal, finished>>

(* GET /events.  SubscribeEvents starts the goroutine. *)
SubscribeEvents(s) ==
    /\ kind[s] = "events" /\ h[s] = "start"
    /\ H(s, "recv") /\ G(s, "select")
    /\ UNCHANGED <<envVars, cancelled, w, chanVars, stop, removal, finished>>

(* An envelope from containerd: the event in it is to be sent next; or there is
   none, or it cannot be decoded, and the loop goes on without it. *)
TakeEvent(s) ==
    /\ kind[s] = "events" /\ Due(s)
    /\ produced' = [produced EXCEPT ![s] = @ + 1]
    /\ \/ /\ item' = [item EXCEPT ![s] = [n |-> produced[s] + 1, pre |-> item[s].n]]
          /\ G(s, "send")
       \/ UNCHANGED <<item, g>>
    /\ UNCHANGED <<envVars, cancelled, h, w, statsCh, enc, last, pre, stop, removal, finished>>

(* ctx.Done() *)
EventsDone(s) ==
    /\ kind[s] = "events" /\ g[s] = "select"
    /\ s \in cancelled
    /\ G(s, "err")
    /\ UNCHANGED <<envVars, cancelled, h, w, chanVars, stop, removal, finished>>

(* sendCh <- event, an unbuffered channel: sender and receiver step together. *)
SendEvent(s) ==
    /\ kind[s] = "events" /\ g[s] = "send" /\ h[s] = "recv"
    /\ enc' = [enc EXCEPT ![s] = item[s]]
    /\ H(s, "encode") /\ G(s, "select")
    /\ UNCHANGED <<envVars, cancelled, w, item, statsCh, last, pre, produced, stop, removal, finished>>

(* sendErrCh <- err: the handler returns, the goroutine closes the channels. *)
SendError(s) ==
    /\ kind[s] = "events" /\ g[s] = "err" /\ h[s] = "recv"
    /\ Return(s) /\ G(s, "ended")
    /\ UNCHANGED <<envVars, w, chanVars, stop, removal, finished>>

-----------------------------------------------------------------------------
(* GET /containers/{id}/stats: the container is looked up first ... *)
StatsLookup(s) ==
    /\ kind[s] = "stats" /\ h[s] = "start"
    /\ \/ con # "removed" /\ H(s, "subscribe") /\ UNCHANGED cancelled
       \/ con = "removed" /\ Return(s)
    /\ UNCHANGED <<envVars, g, w, chanVars, stop, removal, finished>>

(* ... and only then its removal is listened for. *)
StatsSubscribe(s) ==
    /\ kind[s] = "stats" /\ h[s] = "subscribe"
    /\ removal' = [removal EXCEPT ![s] = "listening"]
    /\ H(s, "recv") /\ G(s, "select")
    /\ UNCHANGED <<envVars, cancelled, w, chanVars, stop, finished>>

(* Mutant: an empty stats object does not become the previous one. *)
TickKeepsPrevious(s) ==
    /\ kind[s] = "stats" /\ Due(s)
    /\ produced' = [produced EXCEPT ![s] = @ + 1]
    /\ \/ /\ con = "running"
          /\ item' = [item EXCEPT ![s] = [n |-> produced[s] + 1, pre |-> pre[s]]]
          /\ pre' = [pre EXCEPT ![s] = produced[s] + 1]
       \/ /\ con # "running" \/ "collect" \in MayFail
          /\ item' = [item EXCEPT ![s] = Nothing]
          /\ UNCHANGED pre
    /\ G(s, "send")
    /\ UNCHANGED <<envVars, cancelled, h, w, statsCh, enc, last, stop, removal, finished>>

(* A tick: collectContainerStats finds the task running, or gives an empty
   object that also becomes the previous one. *)
Tick(s) ==
    /\ kind[s] = "stats" /\ Due(s)
    /\ produced' = [produced EXCEPT ![s] = @ + 1]
    /\ \/ /\ con = "running"
          /\ item' = [item EXCEPT ![s] = [n |-> produced[s] + 1, pre |-> pre[s]]]
          /\ pre' = [pre EXCEPT ![s] = produced[s] + 1]
       \/ /\ con # "running" \/ "collect" \in MayFail
          /\ item' = [item EXCEPT ![s] = Nothing]
          /\ pre' = [pre EXCEPT ![s] = 0]
    /\ G(s, "send")
    /\ UNCHANGED <<envVars, cancelled, h, w, statsCh, enc, last, stop, removal, finished>>

(* statsCh <- statsJSON blocks while the channel is full. *)
SendStats(s) ==
    /\ kind[s] = "stats" /\ g[s] = "send"
    /\ Len(statsCh[s]) < StatsCap
    /\ statsCh' = [statsCh EXCEPT ![s] = Append(@, item[s])]
    /\ G(s, "select")
    /\ UNCHANGED <<envVars, cancelled, h, w, item, enc, last, pre, produced, stop, removal, finished>>

(* Mutant: the remove event is not waited for. *)
StatsDoneCancelled(s) ==
    /\ kind[s] = "stats" /\ g[s] = "select"
    /\ s \in cancelled
    /\ G(s, "ended")
    /\ UNCHANGED <<envVars, cancelled, h, w, chanVars, stop, removal, finished>>

(* Mutant: the request's context is not watched. *)
StatsDoneRemoved(s) ==
    /\ kind[s] = "stats" /\ g[s] = "select"
    /\ removal[s] = "removed"
    /\ G(s, "ended")
    /\ UNCHANGED <<envVars, cancelled, h, w, chanVars, stop, removal, finished>>

(* The container was removed, or ctx.Done(): the channel is closed. *)
StatsDone(s) ==
    /\ kind[s] = "stats" /\ g[s] = "select"
    /\ s \in cancelled \/ removal[s] = "removed"
    /\ G(s, "ended")
    /\ UNCHANGED <<envVars, cancelled, h, w, chanVars, stop, removal, finished>>

ReceiveStats(s) ==
    /\ kind[s] = "stats" /\ h[s] = "recv"
    /\ \/ /\ statsCh[s] # <<>>
          /\ enc' = [enc EXCEPT ![s] = Head(statsCh[s])]
          /\ statsCh' = [statsCh EXCEPT ![s] = Tail(@)]
          /\ H(s, "encode")
          /\ UNCHANGED cancelled
       \/ /\ statsCh[s] = <<>> /\ g[s] = "ended"
          /\ Return(s)
          /\ UNCHANGED <<enc, statsCh>>
    /\ UNCHANGED <<envVars, g, w, item, last, pre, produced, stop, removal, finished>>

(* Encode and Flush: they block while the client does not read, and may fail
   once it is gone.  Without stream one stats object is enough. *)
Encode(s) ==
    /\ h[s] = "encode"
    /\ \/ /\ client[s] # "stalled"
          /\ last' = [last EXCEPT ![s] = enc[s]]
          /\ \/ (kind[s] = "events" \/ stream[s]) /\ H(s, "recv") /\ UNCHANGED cancelled
             \/ kind[s] = "stats" /\ ~stream[s] /\ Return(s)
       \/ /\ client[s] = "gone"
          /\ Return(s)
          /\ UNCHANGED last
    /\ UNCHANGED <<envVars, g, w, item, statsCh, enc, pre, produced, stop, removal, finished>>

-----------------------------------------------------------------------------
(* Attach and logs: the connection is hijacked and watched. *)
Hijack(s) ==
    /\ kind[s] = "follow" /\ h[s] = "start"
    /\ w' = [w EXCEPT ![s] = "read"]
    /\ H(s, "status")
    /\ UNCHANGED <<envVars, cancelled, g, chanVars, stop, removal, finished>>

(* attachLogs: only a running container is followed; the task of a stopped one
   is deleted to make its logger write out what it holds.  Attach has nothing
   to do for a client that wants neither stream nor logs. *)
AttachStatus(s) ==
    /\ h[s] = "status"
    /\ \/ /\ con # "removed"
          /\ H(s, IF con = "running" /\ stream[s] THEN "taskwait" ELSE "viewer")
          /\ con' = IF con = "stopped" THEN "deleted" ELSE con
       \/ /\ con = "removed" \/ ~stream[s] \/ "status" \in MayFail
          /\ H(s, "close")
          /\ UNCHANGED con
       \/ /\ "status" \in MayFail
          /\ H(s, "viewer")
          /\ UNCHANGED con
    /\ UNCHANGED <<kind, stream, client, cancelled, g, w, chanVars, stop, removal, finished>>

(* GetContainerTaskWait, by when the task may have ended or be gone. *)
TaskWait(s) ==
    /\ h[s] = "taskwait"
    /\ \/ /\ con \in {"running", "stopped"}
          /\ finished' = IF con = "stopped" THEN finished \cup {s} ELSE finished
          /\ H(s, "viewer") /\ G(s, "wait")
       \/ /\ con \in {"deleted", "removed"}
          /\ H(s, "close")
          /\ UNCHANGED <<g, finished>>
    /\ UNCHANGED <<envVars, cancelled, w, chanVars, stop, removal>>

InitLogViewer(s) ==
    /\ h[s] = "viewer"
    /\ \/ H(s, "view")
       \/ "viewer" \in MayFail /\ H(s, "close")
    /\ UNCHANGED <<envVars, cancelled, g, w, chanVars, stop, removal, finished>>

(* LoggingPrintLogsTo ends with the log, or with the first stop signal, and
   not while it writes to a client that does not read. *)
View(s) ==
    /\ h[s] = "view" /\ client[s] # "stalled"
    /\ \/ g[s] = "none" /\ UNCHANGED stop
       \/ stop[s] = 1 /\ stop' = [stop EXCEPT ![s] = 0]
    /\ H(s, "close")
    /\ UNCHANGED <<envVars, cancelled, g, w, chanVars, removal, finished>>

(* The handler closes the connection and returns. *)
CloseStreams(s) ==
    /\ h[s] = "close"
    /\ Return(s)
    /\ UNCHANGED <<envVars, g, w, chanVars, stop, removal, finished>>

(* The waiter: the wait channel fires when the task ends and when the context
   is cancelled. *)
WaitTask(s) ==
    /\ g[s] = "wait"
    /\ s \in finished \cup cancelled
    /\ G(s, "delete")
    /\ UNCHANGED <<envVars, cancelled, h, w, chanVars, stop, removal, finished>>

(* It deletes the task, if it is ended and still there ... *)
DeleteTask(s) ==
    /\ g[s] = "delete"
    /\ con' = IF con = "stopped" /\ s \notin cancelled THEN "deleted" ELSE con
    /\ G(s, "notify")
    /\ UNCHANGED <<kind, stream, client, cancelled, h, w, chanVars, stop, removal, finished>>

(* ... and stops the log viewer. *)
SendStop(s) ==
    /\ g[s] = "notify" /\ stop[s] = 0
    /\ stop' = [stop EXCEPT ![s] = 1]
    /\ G(s, "ended")
    /\ UNCHANGED <<envVars, cancelled, h, w, chanVars, removal, finished>>

(* Mutant: a connection that was closed is taken for one that sent something. *)
CheckConnectionDeaf(s) ==
    /\ w[s] = "read"
    /\ client[s] = "gone" \/ h[s] = "returned"
    /\ w' = [w EXCEPT ![s] = "ended"]
    /\ UNCHANGED <<envVars, cancelled, h, g, chanVars, stop, removal, finished>>

(* checkConnection reads once: the end of the connection makes it stop the
   viewer; a byte, or an error because the handler closed it, ends it. *)
CheckConnection(s) ==
    /\ \/ /\ w[s] = "read" /\ client[s] = "gone"
          /\ w' = [w EXCEPT ![s] = "eof"]
          /\ UNCHANGED stop
       \/ /\ w[s] = "read" /\ client[s] # "gone" /\ h[s] # "returned"
          /\ w' = [w EXCEPT ![s] = "deaf"]
          /\ UNCHANGED stop
       \/ /\ w[s] = "read" /\ h[s] = "returned"
          /\ w' = [w EXCEPT ![s] = "ended"]
          /\ UNCHANGED stop
       \/ /\ w[s] = "eof" /\ stop[s] = 0
          /\ w' = [w EXCEPT ![s] = "ended"]
          /\ stop' = [stop EXCEPT ![s] = 1]
    /\ UNCHANGED <<envVars, cancelled, h, g, chanVars, removal, finished>>

-----------------------------------------------------------------------------
(* The client reads, stalls or goes away. *)
Client(s) ==
    /\ \/ client[s] \in {"reading", "stalled"} /\ client' = [client EXCEPT ![s] = "gone"]
       \/ client[s] = "reading" /\ client' = [client EXCEPT ![s] = "stalled"]
       \/ client[s] = "stalled" /\ client' = [client EXCEPT ![s] = "reading"]
    /\ UNCHANGED <<kind, stream, con, cancelled, h, g, w, chanVars, stop, removal, finished>>

(* net/http notices that the client of a connection it still owns is gone. *)
Disconnected(s) ==
    /\ kind[s] \in {"events", "stats"} /\ client[s] = "gone" /\ s \notin cancelled
    /\ cancelled' = cancelled \cup {s}
    /\ UNCHANGED <<envVars, h, g, w, chanVars, stop, removal, finished>>

(* The container's task ends, is deleted or starts anew, or the container is
   removed, by requests that are not modelled. *)
Container ==
    /\ \/ con = "running" /\ con' = "stopped"
       \/ con \in {"stopped", "deleted"} /\ con' \in {"running", "deleted", "removed"}
    /\ finished' = IF con = "running" THEN finished \cup {s \in Sessions : g[s] = "wait"} ELSE finished
    /\ removal' = [s \in Sessions |->
          IF con' = "removed" /\ removal[s] = "listening" THEN "removed" ELSE removal[s]]
    /\ UNCHANGED <<kind, stream, client, cancelled, h, g, w, chanVars, stop>>

Handler(s) ==
    \/ SubscribeEvents(s) \/ StatsLookup(s) \/ StatsSubscribe(s) \/ ReceiveStats(s) \/ Encode(s)
    \/ Hijack(s) \/ AttachStatus(s) \/ TaskWait(s) \/ InitLogViewer(s) \/ View(s) \/ CloseStreams(s)

Feeder(s) ==
    \/ TakeEvent(s) \/ EventsDone(s) \/ SendEvent(s) \/ SendError(s)
    \/ Tick(s) \/ SendStats(s) \/ StatsDone(s)
    \/ WaitTask(s) \/ DeleteTask(s) \/ SendStop(s)

Next ==
    \/ \E s \in Sessions :
          \/ Handler(s) \/ Feeder(s) \/ CheckConnection(s)
          \/ Reject(s) \/ SubscriptionError(s) \/ Client(s) \/ Disconnected(s)
    \/ Container

Spec == Init /\ [][Next]_vars

(* Goroutines run, and net/http notices a client that is gone.  A select that
   can take ctx.Done() again and again takes it at some time. *)
Fairness ==
    \A s \in Sessions :
        /\ WF_vars(Handler(s)) /\ WF_vars(Feeder(s))
        /\ WF_vars(CheckConnection(s)) /\ WF_vars(Disconnected(s))

FairSpec == Spec /\ Fairness

-----------------------------------------------------------------------------
(* SubscribeEvents and Stats: what the client gets follows directly on what it
   got before.  No event is lost or overtaken but those that cannot be decoded, and the previous CPU statistics
   in a stats object are those of the object sent before it. *)
Chained ==
    [][\A s \in Sessions :
          last'[s] # last[s] /\ last'[s] # Nothing => last'[s].pre = last[s].n]_vars

(* A client that goes away is noticed and its handler returns, unless attach
   or logs stopped watching because the client had sent something, or a load
   opens a pipe that was closed before.  (An exec waits for its process.) *)
ClientLossNoticed ==
    \A s \in Sessions :
        client[s] = "gone" /\ kind[s] # "exec"
            ~> \/ h[s] \in {"start", "returned"} \/ w[s] = "deaf"
               \/ h[s] = "open" /\ g[s] = "ended"

(* attachLogs and Stats: the end of the task ends the session that follows it,
   and the removal of the container the stream of its statistics if it was
   listened for in time, for a client that reads. *)
EndNoticed ==
    \A s \in Sessions :
        s \in finished \/ removal[s] = "removed" ~> h[s] = "returned" \/ client[s] = "stalled"

(* g is where it can only go on if somebody receives from its channel. *)
Sending(s) ==
    \/ kind[s] = "events" /\ g[s] \in {"send", "err"}
    \/ kind[s] = "stats" /\ g[s] = "send" /\ Len(statsCh[s]) = StatsCap
    \/ kind[s] = "follow" /\ g[s] = "notify" /\ stop[s] = 1

(* After the handler has returned its goroutine ends too, unless it is in the
   middle of a send that nobody will receive any more. *)
FeederEndsUnlessSending ==
    \A s \in Sessions : h[s] = "returned" ~> g[s] \in {"none", "ended"} \/ Sending(s)
=============================================================================
