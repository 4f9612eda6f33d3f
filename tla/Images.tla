------------------------------- MODULE Images -------------------------------
(***************************************************************************)
(* The image service (internal/service/image), next to everything that     *)
(* happens to containers.  containerd's image store maps names to digests; *)
(* no lock guards it, each call to it is a step, and a request reads,      *)
(* checks and changes it in several.  Push works on a temporary name that  *)
(* is the same for every push of one image and that clients can use like   *)
(* any other, Tag and Build replace a name by deleting and creating it,    *)
(* and Remove looks at the containers before it deletes what it has found. *)
(***************************************************************************)
EXTENDS Archive

CONSTANTS
    ImageRequests,  \* the requests of clients to the image service
    References,     \* canonical names of images
    Pushable,       \* the ones that clients push
    PushRef,        \* the temporary name of each: with "-tmp-reduced-platform" at the end
    Digests,        \* what a name stands for
    Texts,          \* beginnings of digests that clients use for an image
    Begins,         \* the pairs <<t, d>>: text t begins digest d
    Reduce,         \* the digest of the single-platform form of an image
    ImageOf,        \* the name each container is created from
    Mixes,          \* what is asked of the two services, and what there is at first
    ImageMayFail    \* calls of the image service that may fail

ImageOperations == {"pull", "load", "build", "tag", "push", "remove", "export", "inspect"}

ImageFailures ==
    {"handler", "ParseDockerRef", "GetDockerResolver", "PullImage", "LoadImage", "build", "walk", "Get",
     "Create", "Delete", "PublishEvent", "Convert", "PushImage", "DeferredDelete",
     "SearchImage", "GetUsedImages", "cont.Image", "ContainerStatus", "DeleteImage", "read"}

ASSUME ImagesAssumption ==
    /\ References \cap Texts = {} /\ None \notin References \cup Texts \cup Digests
    /\ Pushable \subseteq References /\ PushRef \in [Pushable -> References]
    /\ \A x, y \in Pushable : PushRef[x] # x /\ (PushRef[x] = PushRef[y] => x = y)
    /\ Begins \subseteq Texts \X Digests
    /\ Reduce \in [Digests -> Digests]
    /\ ImageOf \in [Ids -> References]
    /\ ImageMayFail \subseteq ImageFailures
    /\ \A m \in Mixes :
          /\ m.containers \in Workloads
          /\ m.images \in [ImageRequests -> ImageOperations \cup {"none"}]
          /\ m.store \in [References -> Digests \cup {None}]
          /\ \A x \in Pushable : m.store[PushRef[x]] = None
          /\ m.statuses \subseteq {"none", "created", "running", "paused"}

VARIABLES
    images,         \* the image store: names and the digests they stand for
    ipc, ireq,      \* the requests to the image service
    iresp,          \* the HTTP status each is answered with once it is done
    desc,           \* the image a Tag or a Push has got, or converted
    found,          \* the names that a request has found and works on
    unused,         \* each Remove: the containers its check had no reason to care for
    dirty           \* the pushes whose deferred DeleteImage has failed

imageVars == <<images, ipc, ireq, iresp, desc, found, unused, dirty>>
workVars == <<desc, found, unused, dirty>>
everything == <<allVars, imageVars>>

Known(n) == images[n] # None

ImageFails(call) == call \in ImageMayFail

NothingAsked(op) == [op |-> op, ref |-> None, arg |-> None]

ImagesInit ==
    /\ ArchiveInit
    /\ \E m \in Mixes :
          /\ \A r \in Requests : req[r].op = m.containers[r]
          /\ \A c \in Ids : status[c] \in m.statuses
          /\ ireq = [r \in ImageRequests |-> NothingAsked(m.images[r])]
          /\ images = m.store
    /\ ipc = [r \in ImageRequests |-> "idle"]
    /\ iresp = [r \in ImageRequests |-> 0]
    /\ desc = [r \in ImageRequests |-> None]
    /\ found = [r \in ImageRequests |-> {}]
    /\ unused = [r \in ImageRequests |-> {}]
    /\ dirty = {}

-----------------------------------------------------------------------------
Jump(r, l) == ipc' = [ipc EXCEPT ![r] = l] /\ UNCHANGED iresp

(* The request has its status; what it worked on is forgotten. *)
Reply(r, c) ==
    /\ iresp' = [iresp EXCEPT ![r] = c]
    /\ ipc' = [ipc EXCEPT ![r] = "done"]
    /\ desc' = [desc EXCEPT ![r] = None]
    /\ found' = [found EXCEPT ![r] = {}]
    /\ unused' = [unused EXCEPT ![r] = {}]
    /\ UNCHANGED dirty

ReplyOnly(r, c) == Reply(r, c) /\ UNCHANGED images

(* SearchImage and the image walker: by name, or by the beginning of a digest. *)
SearchImage(text) ==
    {n \in References : Known(n) /\ (n = text \/ <<text, images[n]>> \in Begins)}

(* What an operation is asked for: a name, or also the beginning of a digest. *)
Asked(op) ==
    CASE op = "push" -> Pushable
      [] op \in {"pull", "load", "build"} -> References
      [] OTHER -> References \cup Texts

(* Its argument: the force flag of a remove, the target of a tag, the second tag
   of a build. *)
ImageArguments(op) ==
    CASE op \in {"tag", "build"} -> References
      [] op = "remove" -> {None, "force"}
      [] OTHER -> {None}

(* What the handlers refuse: an auth header that cannot be decoded (500 for a
   push), a name or platform that cannot be read. *)
HandlerRefusals(op) ==
    (IF op \in {"push", "pull", "export"} THEN {400} ELSE {}) \cup (IF op = "push" THEN {500} ELSE {})

(* Where each operation begins. *)
FirstStep ==
    [pull |-> "pull", load |-> "load", build |-> "build", push |-> "convert", tag |-> "source", remove |-> "search",
     export |-> "getImage", inspect |-> "getImage"]

ReceiveImage(r) ==
    /\ ipc[r] = "idle"
    /\ \/ /\ \E x \in Asked(ireq[r].op), a \in ImageArguments(ireq[r].op) :
                ireq' = [ireq EXCEPT ![r] = [op |-> @.op, ref |-> x, arg |-> a]]
          /\ Jump(r, FirstStep[ireq[r].op])
          /\ UNCHANGED <<images, workVars>>
       \/ /\ ImageFails("handler")
          /\ \E c \in HandlerRefusals(ireq[r].op) : ReplyOnly(r, c)
          /\ UNCHANGED ireq

-----------------------------------------------------------------------------
(* Pull: when PullImage returns without error the name stands for what the
   registry has for it. *)
Pull(r) ==
    /\ ipc[r] = "pull"
    /\ \/ /\ \E d \in Digests : images' = [images EXCEPT ![ireq[r].ref] = d]
          /\ Reply(r, 200)
       \/ ImageFails("ParseDockerRef") /\ ReplyOnly(r, 400)
       \/ ImageFails("GetDockerResolver") /\ ReplyOnly(r, 500)
       \/ ImageFails("PullImage") /\ \E c \in {404, 500} : ReplyOnly(r, c)
    /\ UNCHANGED ireq

(* Load: the archive names one image. *)
Load(r) ==
    /\ ipc[r] = "load"
    /\ \/ /\ \E d \in Digests : images' = [images EXCEPT ![ireq[r].ref] = d]
          /\ Reply(r, 200)
       \/ ImageFails("LoadImage") /\ ReplyOnly(r, 500)
    /\ UNCHANGED ireq

(* getImage: all the images found must have one digest; Export and Inspect
   take the first. *)
GetImage(r) ==
    /\ ipc[r] = "getImage"
    /\ LET matches == SearchImage(ireq[r].ref)
           digests == {images[n] : n \in matches}
       IN  \/ /\ Cardinality(digests) = 1
              /\ \E n \in matches : found' = [found EXCEPT ![r] = {n}]
              /\ Jump(r, "read")
              /\ UNCHANGED <<images, desc, unused, dirty>>
           \/ matches = {} /\ ReplyOnly(r, 404)
           \/ /\ Cardinality(digests) > 1 \/ ImageFails("SearchImage")
              /\ ReplyOnly(r, 500)
    /\ UNCHANGED ireq

(* ExportImage gets the name, InspectImage the image that was found. *)
ReadImage(r) ==
    /\ ipc[r] = "read"
    /\ \/ /\ ireq[r].op = "export" => \A n \in found[r] : Known(n)
          /\ ReplyOnly(r, 200)
       \/ /\ ImageFails("read") \/ \E n \in found[r] : ~Known(n)
          /\ ReplyOnly(r, 500)
    /\ UNCHANGED ireq

-----------------------------------------------------------------------------
(* Build, once buildctl has ended: its image has the first tag, unless the output
   option sent it elsewhere.  RunBuild reads what has that tag now, and gives it
   the second as Tag does (Build has how it answers). *)
BuildImage(r) ==
    /\ ipc[r] = "build"
    /\ \/ /\ \/ UNCHANGED images
             \/ \E d \in Digests : images' = [images EXCEPT ![ireq[r].ref] = d]
          /\ found' = [found EXCEPT ![r] = {ireq[r].ref}]
          /\ Jump(r, "get")
          /\ UNCHANGED <<desc, unused, dirty>>
       \/ ImageFails("build") /\ ReplyOnly(r, 500)
    /\ UNCHANGED ireq

(* Tag: getFullImageName takes the first name the walker finds ... *)
FindSource(r) ==
    /\ ipc[r] = "source"
    /\ LET matches == SearchImage(ireq[r].ref)
       IN  \/ /\ \E n \in matches : found' = [found EXCEPT ![r] = {n}]
              /\ Jump(r, "get")
              /\ UNCHANGED <<images, desc, unused, dirty>>
           \/ matches = {} /\ ReplyOnly(r, 404)
           \/ ImageFails("walk") /\ ReplyOnly(r, 500)
    /\ UNCHANGED ireq

(* ... which may be gone when it is read.  A target that cannot be parsed fails
   here too. *)
GetSource(r) ==
    /\ ipc[r] = "get"
    /\ \E n \in found[r] :
          \/ /\ Known(n)
             /\ desc' = [desc EXCEPT ![r] = images[n]]
             /\ Jump(r, "create")
             /\ UNCHANGED <<images, found, unused, dirty>>
          \/ /\ ~Known(n) \/ ImageFails("Get")
             /\ ReplyOnly(r, 500)
    /\ UNCHANGED ireq

(* imgStore.Create and Delete: the name must not exist, or exist.  On success
   the request goes on at label l. *)
CreateName(r, n, l) ==
    /\ ~Known(n)
    /\ images' = [images EXCEPT ![n] = desc[r]]
    /\ Jump(r, l)
    /\ UNCHANGED workVars

DeleteName(r, n, l) ==
    /\ Known(n)
    /\ images' = [images EXCEPT ![n] = None]
    /\ Jump(r, l)
    /\ UNCHANGED workVars

Target(r) == ireq[r].arg

CreateTag(r) ==
    /\ ipc[r] = "create"
    /\ \/ CreateName(r, Target(r), "publish")
       \/ /\ Known(Target(r))
          /\ Jump(r, "replace")
          /\ UNCHANGED <<images, workVars>>
       \/ ImageFails("Create") /\ ReplyOnly(r, 500)
    /\ UNCHANGED ireq

(* A name that exists is deleted and created again; either call may find that
   another request was faster. *)
DeleteTag(r) ==
    /\ ipc[r] = "replace"
    /\ \/ DeleteName(r, Target(r), "createAgain")
       \/ (~Known(Target(r)) \/ ImageFails("Delete")) /\ ReplyOnly(r, 500)
    /\ UNCHANGED ireq

CreateTagAgain(r) ==
    /\ ipc[r] = "createAgain"
    /\ \/ CreateName(r, Target(r), "publish")
       \/ (Known(Target(r)) \/ ImageFails("Create")) /\ ReplyOnly(r, 500)
    /\ UNCHANGED ireq

(* The tag is there already when the event of a Tag cannot be published. *)
PublishTag(r) ==
    /\ ipc[r] = "publish"
    /\ \/ ReplyOnly(r, IF ireq[r].op = "tag" THEN 201 ELSE 200)
       \/ ireq[r].op = "tag" /\ ImageFails("PublishEvent") /\ ReplyOnly(r, 500)
    /\ UNCHANGED ireq

-----------------------------------------------------------------------------
(* Push, ConvertImage: the image is read and converted ... *)
ConvertImage(r) ==
    /\ ipc[r] = "convert"
    /\ LET n == ireq[r].ref
       IN  \/ /\ Known(n)
              /\ desc' = [desc EXCEPT ![r] = Reduce[images[n]]]
              /\ Jump(r, "drop")
              /\ UNCHANGED <<images, found, unused, dirty>>
           \/ ~Known(n) /\ ReplyOnly(r, 404)
           \/ ImageFails("Convert") /\ ReplyOnly(r, 500)
    /\ UNCHANGED ireq

(* ... the name is deleted, whoever made it, with errors ignored ... *)
DropPushRef(r) ==
    /\ ipc[r] = "drop"
    /\ images' = [images EXCEPT ![PushRef[ireq[r].ref]] = None]
    /\ Jump(r, "pushRef")
    /\ UNCHANGED <<ireq, workVars>>

(* Mutant: DeleteImage is called at once instead of deferred. *)
CreatePushRefUndeferred(r) ==
    /\ ipc[r] = "pushRef" /\ ~Known(PushRef[ireq[r].ref])
    /\ Jump(r, "resolver")
    /\ UNCHANGED <<images, ireq, workVars>>

(* ... and created.  Only then is its deletion deferred. *)
CreatePushRef(r) ==
    /\ ipc[r] = "pushRef"
    /\ LET n == PushRef[ireq[r].ref]
       IN  \/ CreateName(r, n, "resolver")
           \/ (Known(n) \/ ImageFails("Create")) /\ ReplyOnly(r, 500)
    /\ UNCHANGED ireq

(* Push returns with status c; the deferred DeleteImage comes first. *)
ReturnFromPush(r, c) ==
    /\ iresp' = [iresp EXCEPT ![r] = c]
    /\ ipc' = [ipc EXCEPT ![r] = "deferred"]
    /\ UNCHANGED <<images, workVars>>

(* Mutant: the deletion is deferred after the resolver has been got. *)
ResolverFirst(r) ==
    /\ ipc[r] = "resolver"
    /\ \/ Jump(r, "pushImage") /\ UNCHANGED <<images, workVars>>
       \/ ImageFails("GetDockerResolver") /\ ReplyOnly(r, 500)
    /\ UNCHANGED ireq

(* getAuthCreds and GetDockerResolver. *)
GetResolver(r) ==
    /\ ipc[r] = "resolver"
    /\ \/ Jump(r, "pushImage") /\ UNCHANGED <<images, workVars>>
       \/ ImageFails("GetDockerResolver") /\ ReturnFromPush(r, 500)
    /\ UNCHANGED ireq

(* PushImage looks the temporary name up again, and pushes what it finds.  The
   digest reported afterwards is the one of the image; no error if it is gone. *)
PushImage(r) ==
    /\ ipc[r] = "pushImage"
    /\ LET n == PushRef[ireq[r].ref]
       IN  \/ Known(n) /\ ReturnFromPush(r, 200)
           \/ (~Known(n) \/ ImageFails("PushImage")) /\ ReturnFromPush(r, 500)
    /\ UNCHANGED ireq

(* DeleteImage has the context of the request: it fails when the client has gone. *)
DeferredDelete(r) ==
    /\ ipc[r] = "deferred"
    /\ \/ /\ images' = [images EXCEPT ![PushRef[ireq[r].ref]] = None]
          /\ UNCHANGED dirty
       \/ /\ ImageFails("DeferredDelete")
          /\ dirty' = dirty \cup {r}
          /\ UNCHANGED images
    /\ ipc' = [ipc EXCEPT ![r] = "done"]
    /\ desc' = [desc EXCEPT ![r] = None]
    /\ UNCHANGED <<ireq, iresp, found, unused>>

-----------------------------------------------------------------------------
(* Remove: several names are deleted together only by force, and if they stand
   for one digest. *)
SearchToRemove(r) ==
    /\ ipc[r] = "search"
    /\ LET matches == SearchImage(ireq[r].ref)
           unique == Cardinality({images[n] : n \in matches})
           refused == Cardinality(matches) > 1 /\ ~(ireq[r].arg = "force" /\ unique = 1)
       IN  \/ /\ matches # {} /\ ~refused
              /\ found' = [found EXCEPT ![r] = matches]
              /\ Jump(r, "used")
              /\ UNCHANGED <<images, desc, unused, dirty>>
           \/ matches = {} /\ ReplyOnly(r, 404)
           \/ refused /\ ReplyOnly(r, 409)
           \/ ImageFails("SearchImage") /\ ReplyOnly(r, 500)
    /\ UNCHANGED ireq

Running(c) == status[c] \in {"running", "paused"}

(* The containers that a call ignores an error for, all of which it goes on
   without. *)
Ignored(call) == IF ImageFails(call) THEN SUBSET {c \in Ids : Exists(c)} ELSE {{}}

(* GetUsedImages: the containers that keep their image.  One is skipped when its
   image cannot be read, because it is not in the store or by an error; one
   whose status cannot be read counts as stopped. *)
GetUsedImages(skipped, unknown) ==
    LET seen == {c \in Ids \ skipped : Exists(c) /\ Known(ImageOf[c])}
        running == {c \in seen \ unknown : Running(c)}
    IN  [running |-> running, stopped |-> seen \ running]

(* The containers that a Remove need not care for. *)
Unused(force) == {c \in Ids : Exists(c) /\ Known(ImageOf[c]) => force /\ ~Running(c)}

(* Mutant: force gives up the running containers too. *)
CheckUsedForced(r) ==
    /\ ipc[r] = "used"
    /\ \E skipped \in Ignored("cont.Image") :
          LET used == GetUsedImages(skipped, {})
          IN  /\ \/ ireq[r].arg = "force"
                 \/ \A c \in used.running \cup used.stopped : ImageOf[c] \notin found[r]
              /\ unused' = [unused EXCEPT ![r] = Unused(ireq[r].arg = "force") \cup skipped]
    /\ Jump(r, "delete")
    /\ UNCHANGED <<ireq, images, desc, found, dirty>>

(* An image of a running container is kept, one of a stopped container goes by
   force. *)
CheckUsed(r) ==
    /\ ipc[r] = "used"
    /\ \E skipped \in Ignored("cont.Image"), unknown \in Ignored("ContainerStatus") :
          LET used == GetUsedImages(skipped, unknown)
              force == ireq[r].arg = "force"
              keep == used.running \cup (IF force THEN {} ELSE used.stopped)
          IN  \/ /\ \A c \in keep : ImageOf[c] \notin found[r]
                 /\ unused' = [unused EXCEPT ![r] = Unused(force) \cup skipped \cup unknown]
                 /\ Jump(r, "delete")
                 /\ UNCHANGED <<images, desc, found, dirty>>
              \/ (\E c \in keep : ImageOf[c] \in found[r]) /\ ReplyOnly(r, 409)
              \/ ImageFails("GetUsedImages") /\ ReplyOnly(r, 500)
    /\ UNCHANGED ireq

(* The names go one by one; when one cannot be deleted, those before it are
   deleted and the others stay. *)
DeleteImage(r) ==
    /\ ipc[r] = "delete"
    /\ \E n \in found[r] :
          \/ /\ Known(n)
             /\ images' = [images EXCEPT ![n] = None]
             /\ IF found[r] = {n}
                THEN Reply(r, 200)
                ELSE /\ found' = [found EXCEPT ![r] = @ \ {n}]
                     /\ UNCHANGED <<ipc, iresp, desc, unused, dirty>>
          \/ /\ ~Known(n) \/ ImageFails("DeleteImage")
             /\ ReplyOnly(r, 500)
    /\ UNCHANGED ireq

-----------------------------------------------------------------------------
ImageStep(r) ==
    \/ ReceiveImage(r) \/ Pull(r) \/ Load(r) \/ BuildImage(r) \/ GetImage(r) \/ ReadImage(r)
    \/ FindSource(r) \/ GetSource(r) \/ CreateTag(r) \/ DeleteTag(r) \/ CreateTagAgain(r) \/ PublishTag(r)
    \/ ConvertImage(r) \/ DropPushRef(r) \/ CreatePushRef(r) \/ GetResolver(r) \/ PushImage(r) \/ DeferredDelete(r)
    \/ SearchToRemove(r) \/ CheckUsed(r) \/ DeleteImage(r)

(* CreateContainer pulls the image of its container if the store has none. *)
PullMissing(c) ==
    \/ Known(ImageOf[c]) /\ UNCHANGED images
    \/ ~Known(ImageOf[c]) /\ \E d \in Digests : images' = [images EXCEPT ![ImageOf[c]] = d]

Made == {c \in Ids : status[c] = "none" /\ status'[c] = "created"}

ContainerStep ==
    /\ ArchiveNext
    /\ IF Made = {} THEN UNCHANGED images ELSE \E c \in Made : PullMissing(c)
    /\ UNCHANGED <<ipc, ireq, iresp, workVars>>

ImagesNext ==
    \/ ContainerStep
    \/ \E r \in ImageRequests : ireq[r].op # "none" /\ ImageStep(r) /\ UNCHANGED allVars

ImagesSpec == ImagesInit /\ [][ImagesNext]_everything

-----------------------------------------------------------------------------
Pushes(r, x) == ireq[r].op = "push" /\ ireq[r].ref = x

(* Request r makes name n stand for something itself. *)
Gives(r, n) ==
    \/ ireq[r].op \in {"pull", "load", "build"} /\ ireq[r].ref = n
    \/ ireq[r].op \in {"tag", "build"} /\ ireq[r].arg = n

(* A temporary name is in the store only while a push of its image is between
   creating and deleting it, or when the deferred DeleteImage of one failed: no
   other error path of Push leaves it, and no interleaving of two pushes.
   Unless clients use the name for an image or a container of their own. *)
TempRefLeftOnlyByFailure ==
    \A x \in Pushable : Known(PushRef[x]) =>
        \/ \E r \in ImageRequests :
               Pushes(r, x) /\ (ipc[r] \in {"resolver", "pushImage", "deferred"} \/ r \in dirty)
        \/ \E r \in ImageRequests : Gives(r, PushRef[x])
        \/ \E c \in Ids : ImageOf[c] = PushRef[x]

(* When Push calls PushImage, the temporary name stands for the image it has
   converted, unless another push of the same image has taken or deleted the
   name, another request names it, or a Remove has found it by the beginning of
   its digest. *)
PushBrokenOnlyByOther ==
    \A r \in ImageRequests :
        ipc[r] \in {"resolver", "pushImage"} /\ images[PushRef[ireq[r].ref]] # desc[r] =>
            \E s \in ImageRequests \ {r} :
                \/ Pushes(s, ireq[r].ref)
                \/ Gives(s, PushRef[ireq[r].ref])
                \/ ireq[s].op = "remove" /\ ireq[s].ref \in Texts \cup {PushRef[ireq[r].ref]}

(* The name of a container's image is deleted only by a Tag or a Build that
   replaces it, by a Push whose temporary name it is, or by a Remove whose check
   had no reason to keep it for this container: the container was made or
   started, or the name was created, after the check, or the check ignored an
   error. *)
UsedImageRemovedOnlyByRace ==
    [][images' # images => \A c \in Ids : LET n == ImageOf[c] IN
          Known(n) /\ images'[n] = None /\ Exists(c) =>
              \E r \in ImageRequests :
                  \/ ipc[r] = "replace" /\ Target(r) = n /\ ipc'[r] = "createAgain"
                  \/ ipc[r] \in {"drop", "deferred"} /\ PushRef[ireq[r].ref] = n
                  \/ ipc[r] = "delete" /\ c \in unused[r]]_everything
=============================================================================
