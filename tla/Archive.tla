------------------------------ MODULE Archive -------------------------------
(***************************************************************************)
(* Copying files out of and into a container (get_archive.go and           *)
(* put_archive.go of internal/service/container and of api/handlers/       *)
(* container), next to everything else that happens to containers.  The    *)
(* files of a running container are reached through /proc, those of any    *)
(* other by mounting its snapshot on a temporary directory, which a        *)
(* cleanup function unmounts and removes.                                  *)
(***************************************************************************)
EXTENDS Containers

VARIABLES
    dir,            \* each request's temporary directory: none, made, mounted or partly mounted
    code,           \* what each putArchive answers once it has cleaned up
    intact          \* the containers whose snapshot has lost no files

archiveVars == <<dir, code, intact>>
allVars == <<vars, archiveVars>>

ArchiveInit ==
    /\ Init
    /\ dir = [r \in Requests |-> "none"]
    /\ code = [r \in Requests |-> 0]
    /\ intact = Ids

(* isReadOnlyMount: the root file system, or the mount the path lies on, may be
   read-only. *)
IsReadOnlyMount(r) ==
    /\ pc[r] = "readonly"
    /\ \/ Exists(con[r]) /\ req[r].arg # "readonly" /\ Goto(r, "task")
       \/ Exists(con[r]) /\ req[r].arg = "readonly" /\ Answer(r, 403)
       \/ ~Exists(con[r]) /\ Answer(r, 500)
    /\ UNCHANGED <<requestVars, containerVars, con, acted, archiveVars>>

(* The task tells where the files are; no task is no error, also when the
   container is gone. *)
ReadTask(r) ==
    /\ pc[r] = "task"
    /\ \/ Goto(r, IF status[con[r]] = "running" THEN "stat" ELSE "mount")
       \/ Fails("Task") /\ Answer(r, 500)
    /\ UNCHANGED <<requestVars, containerVars, con, acted, archiveVars>>

(* mountSnapshotForContainer, up to the temporary directory. *)
MakeTempDir(r) ==
    /\ pc[r] = "mount"
    /\ \/ /\ Exists(con[r])
          /\ dir' = [dir EXCEPT ![r] = "made"]
          /\ Goto(r, "mountAll")
       \/ /\ ~Exists(con[r]) \/ Fails("mountSnapshot")
          /\ Answer(r, 500)
          /\ UNCHANGED dir
    /\ UNCHANGED <<requestVars, containerVars, con, acted, code, intact>>

(* Where a request goes that has a cleanup function to call, or none. *)
CleanupFrom(d) ==
    CASE d = "mounted" -> "unmount"
      [] d = "made" -> "removeAll"
      [] OTHER -> "done"

(* getArchive answers, and its handler's deferred cleanup follows. *)
AnswerThenClean(r, c) ==
    /\ resp' = [resp EXCEPT ![r] = c]
    /\ pc' = [pc EXCEPT ![r] = CleanupFrom(dir[r])]
    /\ UNCHANGED code

(* ExtractArchiveInContainer cleans up, and the handler's answer follows. *)
CleanThenAnswer(r, c) ==
    IF dir[r] = "none"
    THEN Answer(r, c) /\ UNCHANGED code
    ELSE /\ code' = [code EXCEPT ![r] = c]
         /\ Goto(r, CleanupFrom(dir[r]))

Finish(r, c) ==
    IF req[r].op = "getArchive" THEN AnswerThenClean(r, c) ELSE CleanThenAnswer(r, c)

(* Mutant: an error is answered before cleanup is deferred in getArchive too. *)
MountAllReturns(r) ==
    /\ pc[r] = "mountAll"
    /\ \/ /\ dir' = [dir EXCEPT ![r] = "mounted"]
          /\ Goto(r, "stat")
       \/ Fails("MountAll") /\ Answer(r, 500) /\ UNCHANGED dir
    /\ UNCHANGED <<requestVars, containerVars, con, acted, code, intact>>

(* The cleanup that comes with the error of a mount only removes the directory. *)
AnswerThenRemove(r, c) ==
    /\ resp' = [resp EXCEPT ![r] = c]
    /\ pc' = [pc EXCEPT ![r] = "removeAll"]

(* When one of several mounts fails, those before it stay mounted.  The function
   that removes the directory is returned with the error.  getArchive calls it;
   ExtractArchiveInContainer has returned before it defers it. *)
MountAll(r) ==
    /\ pc[r] = "mountAll"
    /\ \/ /\ dir' = [dir EXCEPT ![r] = "mounted"]
          /\ Goto(r, "stat")
          /\ UNCHANGED code
       \/ /\ Fails("MountAll")
          /\ dir' \in {dir, [dir EXCEPT ![r] = "partly"]}
          /\ \/ req[r].op = "getArchive" /\ AnswerThenRemove(r, 500)
             \/ req[r].op = "putArchive" /\ Answer(r, 500)
          /\ UNCHANGED code
    /\ UNCHANGED <<requestVars, containerVars, con, acted, intact>>

Reachable(r) == dir[r] = "mounted" \/ status[con[r]] = "running"

(* The path is looked up; putArchive needs a directory.  getArchive sends its
   header before it runs tar. *)
Stat(r) ==
    /\ pc[r] = "stat"
    /\ \/ /\ Reachable(r)
          /\ pc' = [pc EXCEPT ![r] = "tar"]
          /\ resp' = [resp EXCEPT ![r] = IF req[r].op = "getArchive" THEN 200 ELSE @]
          /\ UNCHANGED code
       \/ Finish(r, 404)
       \/ Reachable(r) /\ req[r].op = "putArchive" /\ Finish(r, 400)
       \/ Fails("Stat") /\ Finish(r, 500)
    /\ UNCHANGED <<requestVars, containerVars, con, acted, dir, intact>>

(* WriteFilesAsTarArchive, whose error is only logged, or ExtractCompressed. *)
RunTar(r) ==
    /\ pc[r] = "tar"
    /\ \/ Finish(r, 200)
       \/ req[r].op = "putArchive" /\ Fails("tar") /\ Finish(r, 500)
    /\ UNCHANGED <<requestVars, containerVars, con, acted, dir, intact>>

(* Mutant: the directory is removed first, and unmounted afterwards. *)
UnmountLast(r) ==
    /\ pc[r] = "unmount"
    /\ intact' = intact \ {con[r]}
    /\ dir' = [dir EXCEPT ![r] = "made"]
    /\ Goto(r, "removeAll")
    /\ UNCHANGED <<requestVars, containerVars, con, acted, code>>

(* cleanup: an error of Unmount is ignored ... *)
Unmount(r) ==
    /\ pc[r] = "unmount"
    /\ \/ dir' = [dir EXCEPT ![r] = "made"]
       \/ Fails("Unmount") /\ UNCHANGED dir
    /\ Goto(r, "removeAll")
    /\ UNCHANGED <<requestVars, containerVars, con, acted, code, intact>>

(* ... and RemoveAll then deletes the files of what is still mounted; the mount
   point itself stays. *)
RemoveAll(r) ==
    /\ pc[r] = "removeAll"
    /\ \/ /\ dir[r] = "made"
          /\ dir' = [dir EXCEPT ![r] = "none"]
          /\ UNCHANGED intact
       \/ /\ dir[r] \in {"mounted", "partly"}
          /\ intact' = intact \ {con[r]}
          /\ UNCHANGED dir
    /\ Answer(r, IF req[r].op = "putArchive" THEN code[r] ELSE resp[r])
    /\ UNCHANGED <<requestVars, containerVars, con, acted, code>>

ArchiveStep(r) ==
    \/ IsReadOnlyMount(r) \/ ReadTask(r) \/ MakeTempDir(r) \/ MountAll(r)
    \/ Stat(r) \/ RunTar(r) \/ Unmount(r) \/ RemoveAll(r)

ArchiveNext ==
    \/ Next /\ UNCHANGED archiveVars
    \/ \E r \in Requests : ArchiveStep(r)

ArchiveSpec == ArchiveInit /\ [][ArchiveNext]_allVars

-----------------------------------------------------------------------------
(* A request that has ended leaves no temporary directory, by whichever of its
   error paths it ended, except one still mounted when it was removed, because
   Unmount failed or a mount failed part-way, and that of a putArchive whose
   mount failed. *)
TempDirLeftOnlyByFailure ==
    \A r \in Requests : pc[r] = "done" =>
        \/ dir[r] = "none"
        \/ dir[r] \in {"mounted", "partly"} /\ con[r] \notin intact
        \/ dir[r] \in {"made", "partly"} /\ req[r].op = "putArchive" /\ resp[r] = 500

(* Copying takes no files from a container, unless Unmount failed, or a mount of
   a getArchive failed part-way: no request removes a directory its own or
   another request still has mounted. *)
SnapshotLostOnlyByFailure ==
    \A c \in Ids \ intact :
        \E r \in Requests : /\ con[r] = c /\ pc[r] = "done"
                            /\ \/ dir[r] = "mounted"
                               \/ dir[r] = "partly" /\ req[r].op = "getArchive"
=============================================================================
