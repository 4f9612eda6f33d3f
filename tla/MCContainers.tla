---------------------------- MODULE MCContainers ----------------------------
EXTENDS Images, TLC

CONSTANTS r1, r2, r3, i, j, web, db, q1, q2, app, lib, appTmp, multi, single, short, long

(* The text of one name begins the ID of the second container. *)
WebBeginsJ == {<<web, j>>}

Workload(x, y, z) == r1 :> x @@ r2 :> y @@ r3 :> z

Copies == {"getArchive", "putArchive"}
Changes == {"create", "start", "stop", "restart", "remove", "rename"}

(* The operations in pairs, next to those that start, stop, name, make or remove
   a container: the ones that tell a paused container from others ... *)
PausedPairs ==
    {Workload(x, y, "none") : x \in {"kill", "pause", "unpause", "connect"},
                                  y \in {"start", "stop", "remove", "rename"}}
        \cup {Workload(x, x, "none") : x \in {"start", "stop", "restart", "remove"}}

(* ... the two copies ... *)
CopyPairs ==
    {Workload(x, y, "none") : x \in Copies, y \in {"stop", "remove", "rename"}}
BothCopies == Workload("getArchive", "putArchive", "none")

(* ... and the others. *)
Pairs ==
    {Workload("create", y, "none") : y \in Changes \cup {"kill", "connect"}}
        \cup {Workload("start", y, "none") : y \in {"stop", "restart", "remove"}}
        \cup {Workload("rename", y, "none") : y \in Changes \ {"create"}}
        \cup {Workload("wait", y, "none") : y \in {"start", "stop", "remove"}}

(* A stop by name next to a rename and a create, which move the name to another
   container. *)
Moves == {Workload("stop", "rename", "create")}

(* A Connect to a container that is made and started meanwhile; a container
   that is made and renamed while another is made. *)
FromNothing == {Workload("connect", "create", "start"), Workload("create", "rename", "create")}

-----------------------------------------------------------------------------
(* One container is made from each image; clients push one of them.  The image
   of several platforms has the other digest as its single-platform form; the
   short text begins both digests, the long one that of the single platform. *)
OneImageEach == i :> app @@ j :> lib
AppTmp == app :> appTmp
SinglePlatform == multi :> single @@ single :> single
ShortAndLong == {<<short, multi>>, <<short, single>>, <<long, single>>}

Mix(cs, is, images0, st) == [containers |-> cs, images |-> is, store |-> images0, statuses |-> st]

BothImages == app :> multi @@ lib :> single @@ appTmp :> None
OneImage == app :> multi @@ lib :> None @@ appTmp :> None

NoContainers == Workload("none", "none", "none")
ImagePair(a, b) == q1 :> a @@ q2 :> b

(* Operations that do not look at containers, and that do. *)
ImagePairs ==
    {ImagePair("push", b) : b \in {"push", "tag", "pull", "load", "build"}}
        \cup {ImagePair("tag", b) : b \in {"tag", "load", "build"}}
RemovePairs == {ImagePair("remove", b) : b \in ImageOperations \ {"load"}}

AllExist == {"created", "running", "paused"}
NonePaused == {"none", "created", "running"}
Stores == {BothImages, OneImage}

(* The container workloads alone. *)
ContainersAlone ==
    {Mix(w, ImagePair("none", "none"), BothImages, AllExist) : w \in PausedPairs}
        \cup {Mix(w, ImagePair("none", "none"), BothImages, NonePaused) : w \in Pairs}
        \cup {Mix(w, ImagePair("none", "none"), BothImages, {"created", "running"}) : w \in CopyPairs}
        \cup {Mix(BothCopies, ImagePair("none", "none"), BothImages, {"running"})}
        \cup {Mix(w, ImagePair("none", "none"), BothImages, {"none", "running"}) : w \in Moves}
        \cup {Mix(w, ImagePair("none", "none"), BothImages, {"none"}) : w \in FromNothing}

(* The operations on images in pairs, and a Remove next to what makes or starts
   a container. *)
ImagesAndContainers ==
    {Mix(NoContainers, w, images0, {"none"}) : w \in ImagePairs, images0 \in Stores}
        \cup {Mix(NoContainers, w, images0, {"none", "created"}) : w \in RemovePairs, images0 \in Stores}
        \cup {Mix(Workload(x, "none", "none"), ImagePair("remove", "none"), images0, NonePaused) :
                  x \in {"create", "start"}, images0 \in Stores}

ContainersAndImages == ContainersAlone \cup ImagesAndContainers

AllWorkloads == {m.containers : m \in ContainersAndImages}
=============================================================================
