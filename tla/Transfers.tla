------------------------------ MODULE Transfers ------------------------------
(***************************************************************************)
(* Loading and pulling images as streams (load.go and pull.go of           *)
(* internal/service/image and of api/handlers/image, and the pullJobWriter *)
(* of api/response): sessions of kind "load" and "pull".                   *)
(*                                                                         *)
(* Load copies the request's body to a named pipe in a goroutine g, while  *)
(* the handler h has nerdctl read an archive from the pipe.  Pull has      *)
(* nerdctl report its progress from a goroutine g to a writer that keeps   *)
(* the response unanswered until the image has been resolved.              *)
(***************************************************************************)
EXTENDS Exec

VARIABLES
    image,     \* each pull's image, as nerdctl knows it: "resolving" or "resolved"
    resolved   \* the sessions whose pullJobWriter has seen the image resolved

transferVars == <<image, resolved>>
everything == <<allVars, transferVars>>

TransfersInit ==
    /\ ExecInit
    /\ image = [s \in Sessions |-> "resolving"]
    /\ resolved = {}

(* A step of the session's handler alone, or of its goroutine g alone. *)
HandlerOnly ==
    /\ Unmoved
    /\ UNCHANGED <<proc, input, copier, closer, stdin>>

FeederOnly ==
    UNCHANGED <<envVars, cancelled, h, w, chanVars, stop, removal, finished, proc, input, copier, closer, stdin>>

Loading(s, l) == kind[s] = "load" /\ h[s] = l
Pulling(s, l) == kind[s] = "pull" /\ h[s] = l

(* The reference of the image a client pulls may itself hold the word that
   pullJobWriter.Write looks for; every line about the image holds it then. *)
NamedResolved(s) == stream[s]

-----------------------------------------------------------------------------
(* POST /images/load.  OpenFifo makes the pipe; it is opened in the background,
   and the copier of the body starts. *)
OpenFifo(s) ==
    /\ Loading(s, "start")
    /\ \/ ExecGoto(s, "open") /\ G(s, "copy")
       \/ "load" \in MayFail /\ Answer(s, 500) /\ UNCHANGED g
    /\ UNCHANGED <<envVars, w, chanVars, stop, removal, finished, proc, input, copier, closer, stdin, transferVars>>

(* LoadImage opens the pipe, which waits for the other end: for good, if the
   copier has closed it before. *)
OpenArchive(s) ==
    /\ Loading(s, "open") /\ g[s] # "ended"
    /\ ExecGoto(s, "import")
    /\ HandlerOnly /\ UNCHANGED transferVars

(* The import ends with the archive, well or not: the end of the copier looks
   like the end of the archive, also when the body broke off. *)
ImportEnds(s) ==
    /\ Loading(s, "import") /\ g[s] = "ended"
    /\ \E code \in {200, 500} : Answer(s, code)
    /\ HandlerOnly /\ UNCHANGED transferVars

(* LoadImage fails before that: the archive is no image, or cannot be opened. *)
ImportFails(s) ==
    /\ kind[s] = "load" /\ h[s] \in {"open", "import"} /\ "load" \in MayFail
    /\ Answer(s, 500)
    /\ HandlerOnly /\ UNCHANGED transferVars

(* Something to copy arrives ... *)
ReadBody(s) ==
    /\ kind[s] = "load" /\ g[s] = "copy"
    /\ input[s] = "open" /\ client[s] # "gone" /\ h[s] # "returned"
    /\ G(s, "write")
    /\ FeederOnly /\ UNCHANGED <<head, transferVars>>

(* Mutant: the copier ends without closing the pipe. *)
EndOfBodyUnclosed(s) ==
    /\ kind[s] = "load" /\ g[s] = "copy"
    /\ input[s] = "ended" \/ client[s] = "gone" \/ h[s] = "returned"
    /\ G(s, "unclosed")
    /\ FeederOnly /\ UNCHANGED <<head, transferVars>>

(* ... or the body ends, breaks off, or is closed when the handler returns: the
   error is logged, and the pipe closed. *)
EndOfBody(s) ==
    /\ kind[s] = "load" /\ g[s] = "copy"
    /\ input[s] = "ended" \/ client[s] = "gone" \/ h[s] = "returned"
    /\ G(s, "ended")
    /\ FeederOnly /\ UNCHANGED <<head, transferVars>>

(* A write to the pipe waits for its reader; it fails when that is gone, or
   with the context of the request when there has been none. *)
WriteFifo(s) ==
    /\ kind[s] = "load" /\ g[s] = "write"
    /\ \/ h[s] = "import" /\ G(s, "copy")
       \/ h[s] = "returned" /\ G(s, "ended")
    /\ FeederOnly /\ UNCHANGED <<head, transferVars>>

-----------------------------------------------------------------------------
(* POST /images/create.  The request is read, credentials and resolver are got,
   and PullImage starts the goroutine that reports its progress. *)
StartPull(s) ==
    /\ Pulling(s, "start")
    /\ \/ ExecGoto(s, "pull") /\ G(s, "tick")
       \/ "pull" \in MayFail /\ (\E code \in {400, 500} : Answer(s, code)) /\ UNCHANGED g
    /\ UNCHANGED <<envVars, w, chanVars, stop, removal, finished, proc, input, copier, closer, stdin, transferVars>>

(* The registry has answered for the image. *)
Resolved(s) ==
    /\ Pulling(s, "pull") /\ image[s] = "resolving"
    /\ image' = [image EXCEPT ![s] = "resolved"]
    /\ UNCHANGED <<allVars, resolved>>

(* PullImage succeeds: it waits for the goroutine before it returns. *)
Pulled(s) ==
    /\ Pulling(s, "pull") /\ image[s] = "resolved"
    /\ ExecGoto(s, "join")
    /\ HandlerOnly /\ UNCHANGED transferVars

(* The handler's last line, which the writer drops if it has not seen the
   image resolved. *)
WritePulled(s) ==
    /\ Pulling(s, "join") /\ g[s] = "ended"
    /\ IF s \in resolved
       THEN Answer(s, 200)
       ELSE Return(s) /\ UNCHANGED head
    /\ HandlerOnly /\ UNCHANGED transferVars

(* PullImage fails, and returns without waiting for the goroutine: when the
   context is cancelled, *)
PullCancelled(s) ==
    /\ Pulling(s, "pull") /\ s \in cancelled
    /\ ExecGoto(s, "sleep")
    /\ HandlerOnly /\ UNCHANGED transferVars

(* or for any other reason at any time. *)
PullFails(s) ==
    /\ Pulling(s, "pull") /\ "pull" \in MayFail
    /\ ExecGoto(s, "sleep")
    /\ HandlerOnly /\ UNCHANGED transferVars

(* 100 ms later, whether the goroutine has ended or not, WriteError answers, or
   adds a record to the answer. *)
WriteError(s) ==
    /\ Pulling(s, "sleep")
    /\ \E code \in {404, 500} : Answer(s, code)
    /\ HandlerOnly /\ UNCHANGED transferVars

(* PullImage has told the goroutine to stop: it reports once more. *)
Stopped(s) == h[s] \in {"join", "sleep", "returned"}

(* Mutant: the lines of an image that is not resolved are written too. *)
ProgressAlways(s) ==
    /\ kind[s] = "pull" /\ g[s] = "tick"
    /\ G(s, IF Stopped(s) THEN "last" ELSE "print")
    /\ FeederOnly /\ UNCHANGED <<head, transferVars>>

(* pullJobWriter.Write drops a line without the word "resolved", or begins to
   write it: it never drops one again after the first that has the word. *)
Progress(s) ==
    /\ kind[s] = "pull" /\ g[s] = "tick"
    /\ \/ /\ image[s] = "resolving" /\ ~NamedResolved(s)
          /\ G(s, IF Stopped(s) THEN "ended" ELSE "tick")
          /\ UNCHANGED resolved
       \/ /\ image[s] = "resolved" \/ NamedResolved(s)
          /\ resolved' = resolved \cup {s}
          /\ G(s, IF Stopped(s) THEN "last" ELSE "print")
    /\ FeederOnly /\ UNCHANGED <<head, image>>

(* StreamWriter.Write sends the header first, and blocks while the client does
   not read.  Once the handler has returned there is nothing to write to. *)
WriteLine(s) ==
    /\ kind[s] = "pull" /\ g[s] \in {"print", "last"}
    /\ client[s] # "stalled" \/ h[s] = "returned"
    /\ head' = [head EXCEPT ![s] = IF @ = 0 /\ h[s] # "returned" THEN 200 ELSE @]
    /\ G(s, IF g[s] = "last" THEN "ended" ELSE "tick")
    /\ FeederOnly /\ UNCHANGED transferVars

-----------------------------------------------------------------------------
(* The client has sent the whole body. *)
EndBody(s) ==
    /\ kind[s] = "load" /\ g[s] # "none" /\ input[s] = "open" /\ client[s] # "gone"
    /\ input' = [input EXCEPT ![s] = "ended"]
    /\ UNCHANGED <<vars, proc, copier, closer, stdin, head, transferVars>>

(* net/http notices that the client is gone; not before the body has been read. *)
TransferDisconnected(s) ==
    /\ kind[s] = "pull" \/ (kind[s] = "load" /\ input[s] = "ended" /\ g[s] = "ended")
    /\ client[s] = "gone" /\ s \notin cancelled
    /\ cancelled' = cancelled \cup {s}
    /\ UNCHANGED <<envVars, h, g, w, chanVars, stop, removal, finished, execVars, transferVars>>

TransferHandler(s) ==
    \/ OpenFifo(s) \/ OpenArchive(s) \/ ImportEnds(s)
    \/ StartPull(s) \/ WritePulled(s) \/ PullCancelled(s) \/ WriteError(s)

TransferFeeder(s) == EndOfBody(s) \/ WriteFifo(s) \/ Progress(s) \/ WriteLine(s)

TransfersNext ==
    \/ ExecNext /\ UNCHANGED transferVars
    \/ \E s \in Sessions :
          \/ TransferHandler(s) \/ TransferFeeder(s) \/ TransferDisconnected(s)
          \/ ImportFails(s) \/ ReadBody(s) \/ EndBody(s)
          \/ Resolved(s) \/ Pulled(s) \/ PullFails(s)

TransfersSpec == TransfersInit /\ [][TransfersNext]_everything

(* Goroutines run.  Nothing says that a registry answers or that a body ends. *)
TransfersFairSpec ==
    /\ TransfersSpec /\ ExecFairness
    /\ \A s \in Sessions :
          /\ WF_everything(TransferHandler(s)) /\ WF_everything(TransferFeeder(s))
          /\ WF_everything(TransferDisconnected(s))

-----------------------------------------------------------------------------
(* pullJobWriter: a pull that fails before its image is resolved is answered
   with the status of its error, never with a header sent for a line of
   progress; and no such line is written to a handler that has returned.  The
   exception is an image whose reference holds the word "resolved". *)
UnresolvedHasStatus ==
    \A s \in Sessions : kind[s] = "pull" /\ image[s] = "resolving" /\ ~NamedResolved(s) =>
        /\ g[s] \notin {"print", "last"}
        /\ head[s] \in (IF h[s] = "returned" THEN {400, 404, 500} ELSE {0})

(* Load: once the client has sent the whole archive the handler returns, even
   if nerdctl stops reading early, unless the client does not take the answer.
   The one exception is a copier that closes the pipe before LoadImage has
   opened it, for which LoadImage then waits for good. *)
LoadReturns ==
    \A s \in Sessions :
        kind[s] = "load" /\ input[s] = "ended" ~>
            \/ h[s] = "returned" \/ client[s] = "stalled"
            \/ h[s] = "open" /\ g[s] = "ended"
=============================================================================
