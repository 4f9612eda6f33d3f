-------------------------------- MODULE Exec --------------------------------
(***************************************************************************)
(* Running a process in a container: ExecCreate (internal/service/         *)
(* container/exec.go) makes it, Start (internal/service/exec/start.go)     *)
(* attaches to it, starts it and waits for it.  A session of kind "exec"   *)
(* is a create and the start that follows it.  An attached start hijacks   *)
(* the connection; a goroutine that LoadProcess starts copies what the     *)
(* client sends to the process, reading through a StdinCloser.             *)
(***************************************************************************)
EXTENDS Streams

VARIABLES
    proc,      \* each session's process: "none", "created", "running", "exited" or "gone"
    input,     \* what the client sends: "open" or "ended"
    copier,    \* the stdin copier: "none", "copying" or "ended"
    closer,    \* the sessions whose StdinCloser has its Closer
    stdin,     \* the stdin of the process: "open" or "closed"
    head       \* the status the client was answered with, 0 before

execVars == <<proc, input, copier, closer, stdin, head>>
allVars == <<vars, execVars>>

ExecInit ==
    /\ Init
    /\ proc = [s \in Sessions |-> "none"]
    /\ input = [s \in Sessions |-> "open"]
    /\ copier = [s \in Sessions |-> "none"]
    /\ closer = {}
    /\ stdin = [s \in Sessions |-> "open"]
    /\ head = [s \in Sessions |-> 0]

(* stream: the client did not ask to detach. *)
Attached(s) == stream[s]

(* The handler of an exec session is at l. *)
At(s, l) == kind[s] = "exec" /\ h[s] = l

ExecGoto(s, l) == H(s, l) /\ UNCHANGED <<head, cancelled>>

(* The handler answers, unless the header is out: then the error is text in the
   stream.  Either way it waits for a client that does not read. *)
Answer(s, code) ==
    /\ client[s] # "stalled"
    /\ head' = [head EXCEPT ![s] = IF @ = 0 THEN code ELSE @]
    /\ Return(s)

Unmoved == UNCHANGED <<envVars, g, w, chanVars, stop, removal, finished>>

-----------------------------------------------------------------------------
(* POST /containers/{id}/exec.  ExecCreate finds the container, the process it
   is to run and its task running ... *)
ExecCreate(s) ==
    /\ At(s, "start")
    /\ \/ con = "running" /\ ExecGoto(s, "exec")
       \/ con \in {"stopped", "deleted"} /\ Answer(s, 409)
       \/ con = "removed" /\ Answer(s, 404)
       \/ "exec" \in MayFail /\ \E code \in {400, 500} : Answer(s, code)
    /\ Unmoved /\ UNCHANGED <<proc, input, copier, closer, stdin>>

(* ... and task.Exec adds the process to it, if it still runs. *)
TaskExec(s) ==
    /\ At(s, "exec")
    /\ \/ /\ con = "running"
          /\ proc' = [proc EXCEPT ![s] = "created"]
          /\ ExecGoto(s, "post")
       \/ /\ con # "running" \/ "exec" \in MayFail
          /\ Answer(s, 500)
          /\ UNCHANGED proc
    /\ Unmoved /\ UNCHANGED <<input, copier, closer, stdin>>

(* POST /exec/{id}/start, refused if it cannot be read or hijacked. *)
PostStart(s) ==
    /\ At(s, "post")
    /\ \/ ExecGoto(s, "load")
       \/ "exec" \in MayFail /\ \E code \in {400, 500} : Answer(s, code)
    /\ Unmoved /\ UNCHANGED <<proc, input, copier, closer, stdin>>

(* loadExecInstance: the container, its task and the process, to whose streams
   it attaches: if there is a stdin among them its copier runs from here on. *)
LoadExecInstance(s) ==
    /\ At(s, "load")
    /\ \/ /\ proc[s] # "gone"
          /\ \/ Attached(s) /\ copier' = [copier EXCEPT ![s] = "copying"]
             \/ UNCHANGED copier
          /\ ExecGoto(s, "loaded")
       \/ /\ \/ con = "deleted" /\ Answer(s, 409)
             \/ con # "deleted" /\ proc[s] = "gone" /\ Answer(s, 404)
             \/ "exec" \in MayFail /\ Answer(s, 500)
          /\ UNCHANGED copier
    /\ Unmoved /\ UNCHANGED <<proc, input, closer, stdin>>

(* The task may have stopped, or be another one, since the process was made. *)
TaskStatus(s) ==
    /\ At(s, "loaded")
    /\ \/ con = "running" /\ ExecGoto(s, "closer")
       \/ con # "running" /\ Answer(s, 409)
       \/ "exec" \in MayFail /\ Answer(s, 500)
    /\ Unmoved /\ UNCHANGED <<proc, input, copier, closer, stdin>>

(* Mutant: the StdinCloser never gets its Closer. *)
SetCloserNot(s) ==
    /\ At(s, "closer")
    /\ \/ ExecGoto(s, "head")
       \/ "exec" \in MayFail /\ Answer(s, 500)
    /\ Unmoved /\ UNCHANGED <<proc, input, copier, closer, stdin>>

(* stdinC.Closer is set, and then the process waited for in the background. *)
SetCloser(s) ==
    /\ At(s, "closer")
    /\ closer' = closer \cup {s}
    /\ \/ ExecGoto(s, "head")
       \/ "exec" \in MayFail /\ Answer(s, 500)
    /\ Unmoved /\ UNCHANGED <<proc, input, copier, stdin>>

(* SuccessResponse: an attached client has its header before the process starts. *)
SuccessResponse(s) ==
    /\ At(s, "head")
    /\ \/ ~Attached(s) /\ UNCHANGED head
       \/ Attached(s) /\ client[s] # "stalled" /\ head' = [head EXCEPT ![s] = 200]
    /\ H(s, "run")
    /\ Unmoved /\ UNCHANGED <<cancelled, proc, input, copier, closer, stdin>>

(* Mutant: a process that did not start is waited for. *)
StartProcessAnyway(s) ==
    /\ At(s, "run")
    /\ \/ /\ proc[s] = "created" /\ con = "running"
          /\ proc' = [proc EXCEPT ![s] = "running"]
          /\ IF Attached(s) THEN ExecGoto(s, "await") ELSE Answer(s, 200)
       \/ /\ proc[s] # "created" \/ con # "running" \/ "exec" \in MayFail
          /\ ExecGoto(s, "await")
          /\ UNCHANGED proc
    /\ Unmoved /\ UNCHANGED <<input, copier, closer, stdin>>

(* Process.Start: a detached start is done then. *)
StartProcess(s) ==
    /\ At(s, "run")
    /\ \/ /\ proc[s] = "created" /\ con = "running"
          /\ proc' = [proc EXCEPT ![s] = "running"]
          /\ IF Attached(s) THEN ExecGoto(s, "await") ELSE Answer(s, 200)
       \/ /\ proc[s] # "created" \/ con # "running" \/ "exec" \in MayFail
          /\ Answer(s, 500)
          /\ UNCHANGED proc
    /\ Unmoved /\ UNCHANGED <<input, copier, closer, stdin>>

(* status := <-statusC.  The connection is closed; an exit code that is not
   zero, or that nobody knows any more, is written to it first. *)
AwaitExit(s) ==
    /\ At(s, "await")
    /\ \/ proc[s] = "exited" /\ Return(s) /\ UNCHANGED head
       \/ proc[s] \in {"exited", "gone"} /\ Answer(s, 500)
    /\ Unmoved /\ UNCHANGED <<proc, input, copier, closer, stdin>>

(* The wait itself fails.  Nothing says that it has to. *)
AwaitError(s) ==
    /\ At(s, "await") /\ "exec" \in MayFail
    /\ Answer(s, 500)
    /\ Unmoved /\ UNCHANGED <<proc, input, copier, closer, stdin>>

(* StdinCloser.Read meets the end of what the client sends, or the connection
   closed, and calls its Closer, if it has one: CloseIO reaches a process that
   runs, and a request whose context is cancelled reaches none. *)
CopyStdin(s) ==
    /\ copier[s] = "copying"
    /\ input[s] = "ended" \/ client[s] = "gone" \/ h[s] = "returned"
    /\ copier' = [copier EXCEPT ![s] = "ended"]
    /\ stdin' = [stdin EXCEPT ![s] =
          IF s \in closer \ cancelled /\ proc[s] = "running" THEN "closed" ELSE @]
    /\ UNCHANGED <<vars, proc, input, closer, head>>

-----------------------------------------------------------------------------
(* The client of an attached start sends no more. *)
EndInput(s) ==
    /\ copier[s] = "copying" /\ input[s] = "open"
    /\ input' = [input EXCEPT ![s] = "ended"]
    /\ UNCHANGED <<vars, proc, copier, closer, stdin, head>>

(* The process ends. *)
ProcessExit(s) ==
    /\ proc[s] = "running"
    /\ proc' = [proc EXCEPT ![s] = "exited"]
    /\ UNCHANGED <<vars, input, copier, closer, stdin, head>>

(* What becomes of a process when the container's task does: it is killed with
   it, and is gone once the task is deleted or replaced. *)
ProcAfter(s) ==
    CASE con' = con \/ proc[s] = "none" -> proc[s]
      [] con' # con /\ proc[s] # "none" /\ con' = "stopped" ->
            IF proc[s] = "running" THEN "exited" ELSE proc[s]
      [] con' # con /\ proc[s] # "none" /\ con' # "stopped" -> "gone"

ExecHandler(s) ==
    \/ ExecCreate(s) \/ TaskExec(s) \/ PostStart(s) \/ LoadExecInstance(s) \/ TaskStatus(s)
    \/ SetCloser(s) \/ SuccessResponse(s) \/ StartProcess(s) \/ AwaitExit(s)

ExecNext ==
    \/ /\ Next
       /\ proc' = [s \in Sessions |-> ProcAfter(s)]
       /\ UNCHANGED <<input, copier, closer, stdin, head>>
    \/ \E s \in Sessions :
          \/ ExecHandler(s) \/ AwaitError(s) \/ CopyStdin(s)
          \/ EndInput(s) \/ ProcessExit(s)

ExecSpec == ExecInit /\ [][ExecNext]_allVars

ExecFairness ==
    /\ Fairness
    /\ \A s \in Sessions : WF_allVars(ExecHandler(s)) /\ WF_allVars(CopyStdin(s))

-----------------------------------------------------------------------------
(* StdinCloser: a client that ends its input while the process runs has the
   process's stdin closed, so that a process that reads to the end of its input
   does end. *)
StdinEndPassedOn ==
    \A s \in Sessions :
        proc[s] = "running" /\ copier[s] = "copying" /\ input[s] = "ended"
            ~> stdin[s] = "closed" \/ proc[s] # "running" \/ h[s] = "returned"

(* Start: once it is called, the handler returns for a client that reads, unless
   it waits for the process to end.  It waits for no process that did not start
   or that went with its task. *)
ExecReturns ==
    \A s \in Sessions :
        kind[s] = "exec" /\ h[s] # "start"
            ~> \/ h[s] = "returned" \/ client[s] = "stalled"
               \/ h[s] = "await" /\ proc[s] = "running"
=============================================================================
