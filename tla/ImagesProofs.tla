---------------------------- MODULE ImagesProofs ----------------------------
(***************************************************************************)
(* The image service for any requests, references, digests and texts, next *)
(* to any containers: what Push leaves in the store, who can take its      *)
(* temporary name away, and how the image of a container can be lost.      *)
(***************************************************************************)
EXTENDS Images, TLAPS

PushLabels == {"convert", "drop", "pushRef", "resolver", "pushImage", "deferred"}
TagLabels == {"build", "source", "get", "create", "replace", "createAgain", "publish"}
RemoveLabels == {"search", "used", "delete"}
ImageLabels == {"idle", "done", "pull", "load", "getImage", "read", "none"} \cup PushLabels \cup TagLabels \cup RemoveLabels

(* Every variable of the image service has its type. *)
ImageTypes ==
    /\ images \in [References -> Digests \cup {None}]
    /\ ipc \in [ImageRequests -> ImageLabels]
    /\ ireq \in [ImageRequests -> [op : ImageOperations \cup {"none"},
                                   ref : References \cup Texts \cup {None},
                                   arg : References \cup {None, "force"}]]
    /\ desc \in [ImageRequests -> Digests \cup {None}]
    /\ found \in [ImageRequests -> SUBSET References]
    /\ unused \in [ImageRequests -> SUBSET Ids]
    /\ dirty \subseteq ImageRequests

(* Where a request is tells what it was asked. *)
AtPush(r) == ipc[r] \in PushLabels => ireq[r].op = "push" /\ ireq[r].ref \in Pushable
AtTag(r) == ipc[r] \in TagLabels => ireq[r].op \in {"tag", "build"} /\ ireq[r].arg \in References
AtRemove(r) == ipc[r] \in RemoveLabels => ireq[r].op = "remove"
AtNames(r) == ipc[r] \in {"pull", "load", "build"} => ireq[r].op = ipc[r] /\ ireq[r].ref \in References
AtRest(r) ==
    /\ ipc[r] = "idle" => ireq[r].ref = None /\ ireq[r].arg = None
    /\ r \in dirty => ipc[r] = "done"

(* A push that is going to push has converted something. *)
Converted(r) == ipc[r] \in {"drop", "pushRef", "resolver", "pushImage"} => desc[r] \in Digests

Placed(r) ==
    AtPush(r) /\ AtTag(r) /\ AtRemove(r) /\ AtNames(r) /\ AtRest(r) /\ Converted(r)

(* A name is found by itself or by the beginning of its digest. *)
FoundByText(r) ==
    ipc[r] \in {"used", "delete"} =>
        \A n \in found[r] : ireq[r].ref \in Texts \cup {n}

(* What a Remove is going to delete was used by no container it had seen. *)
Unneeded(r) ==
    ipc[r] = "delete" =>
        \A c \in Ids : ImageOf[c] \in found[r] => c \in unused[r]

(* Request q may change what the temporary name of push s stands for. *)
Disturbs(q, s) ==
    \/ Pushes(q, ireq[s].ref)
    \/ Gives(q, PushRef[ireq[s].ref])
    \/ ireq[q].op = "remove" /\ ireq[q].ref \in Texts \cup {PushRef[ireq[s].ref]}

PlacedInv == \A r \in ImageRequests : Placed(r)
RemoveInv == \A r \in ImageRequests : FoundByText(r) /\ Unneeded(r)

ImagesInv ==
    ImageTypes /\ PlacedInv /\ RemoveInv /\ TempRefLeftOnlyByFailure /\ PushBrokenOnlyByOther

-----------------------------------------------------------------------------
(* What the beginning of an operation is. *)
LEMMA FirstSteps ==
    ASSUME NEW op \in ImageOperations
    PROVE  /\ FirstStep[op] \in ImageLabels \ {"idle", "done", "drop", "pushRef", "resolver", "pushImage",
                                              "deferred", "used", "delete"}
           /\ FirstStep[op] \in PushLabels => op = "push"
           /\ FirstStep[op] \in TagLabels => op \in {"tag", "build"}
           /\ FirstStep[op] \in RemoveLabels => op = "remove"
           /\ FirstStep[op] \in {"pull", "load", "build"} => op = FirstStep[op]
BY DEF FirstStep, ImageOperations, ImageLabels, PushLabels, TagLabels, RemoveLabels

(* What a search finds. *)
LEMMA Search ==
    ASSUME ImageTypes, NEW t
    PROVE  /\ SearchImage(t) \subseteq References
           /\ \A n \in SearchImage(t) : images[n] \in Digests
           /\ \A n \in SearchImage(t) : t \in Texts \cup {n}
BY ImagesAssumption DEF SearchImage, Known, ImageTypes

(* The invariant holds at first: nothing was asked, and there is no temporary name. *)
LEMMA InitInv == ImagesInit => ImagesInv
<1> SUFFICES ASSUME ImagesInit PROVE ImagesInv OBVIOUS
<1>1. PICK m \in Mixes :
        /\ ireq = [r \in ImageRequests |-> NothingAsked(m.images[r])]
        /\ images = m.store
  BY DEF ImagesInit
<1>2. m.images \in [ImageRequests -> ImageOperations \cup {"none"}] /\ m.store \in [References -> Digests \cup {None}]
  BY ImagesAssumption
<1>4. ImageTypes
  BY <1>1, <1>2 DEF ImagesInit, ImageTypes, NothingAsked, ImageLabels
<1>5. PlacedInv /\ RemoveInv
  BY <1>1, <1>2 DEF ImagesInit, PlacedInv, RemoveInv, Placed, AtPush, AtTag, AtRemove, AtNames, AtRest, Converted,
     FoundByText, Unneeded, PushLabels, TagLabels, RemoveLabels, NothingAsked
<1>6. \A x \in Pushable : images[PushRef[x]] = None
  BY <1>1, ImagesAssumption
<1> QED
  BY <1>4, <1>5, <1>6 DEF ImagesInv, TempRefLeftOnlyByFailure, PushBrokenOnlyByOther, Known, ImagesInit

-----------------------------------------------------------------------------
(* One step of a request keeps the types, and the other requests' variables. *)
OthersKept(r) ==
    \A s \in ImageRequests \ {r} :
        /\ ipc'[s] = ipc[s] /\ ireq'[s] = ireq[s] /\ desc'[s] = desc[s]
        /\ found'[s] = found[s] /\ unused'[s] = unused[s] /\ (s \in dirty' <=> s \in dirty)

(* What a step does to the request that takes it. *)
OwnKept(r) == Placed(r)' /\ FoundByText(r)' /\ Unneeded(r)'

(* What it does to a temporary name: nothing; or a push creates or deletes it;
   or a Remove that was asked for it, or has found it by its digest, deletes it;
   or the request is to name an image so. *)
TempStep(r) ==
    \A x \in Pushable : LET n == PushRef[x] IN
        \/ images'[n] = images[n]
        \/ ipc[r] = "pushRef" /\ ipc'[r] = "resolver" /\ Pushes(r, x) /\ images'[n] = desc[r]
        \/ images'[n] = None /\ Pushes(r, x) /\ ipc[r] \in {"drop", "deferred"}
        \/ images'[n] = None /\ ipc[r] = "delete" /\ ireq[r].op = "remove" /\ ireq[r].ref \in Texts \cup {n}
        \/ ipc[r] # "idle" /\ Gives(r, n)

(* A push that has created its temporary name keeps going until it has deleted it. *)
PushStep(r) ==
    /\ ipc[r] # "idle" => ireq'[r] = ireq[r]
    /\ ipc[r] \in {"resolver", "pushImage"} => ipc'[r] \in {"resolver", "pushImage", "deferred"} /\ desc'[r] = desc[r]
    /\ ipc[r] = "deferred" => r \in dirty' \/ images'[PushRef[ireq[r].ref]] = None
    /\ ipc'[r] \in {"resolver", "pushImage"} =>
          ipc[r] \in {"pushRef", "resolver", "pushImage"} /\ desc'[r] = desc[r]
    /\ ipc[r] = "pushRef" /\ ipc'[r] \in {"resolver", "pushImage"} => images'[PushRef[ireq[r].ref]] = desc[r]
    /\ ipc[r] # "pushRef" /\ ipc'[r] \in {"resolver", "pushImage"} => images' = images
    /\ dirty \subseteq dirty'

(* What it does to a name: only a Tag or Build that replaces it, a Push whose
   temporary name it is, or a Remove, deletes it. *)
NameStep(r) ==
    \A n \in References : images[n] # None /\ images'[n] = None =>
        \/ ipc[r] = "replace" /\ ipc'[r] = "createAgain" /\ Target(r) = n
        \/ ipc[r] \in {"drop", "deferred"} /\ PushRef[ireq[r].ref] = n
        \/ ipc[r] = "delete" /\ n \in found[r]

Effect(r) == ImageTypes' /\ OthersKept(r) /\ OwnKept(r) /\ TempStep(r) /\ PushStep(r) /\ NameStep(r)

Own(r) == Placed(r) /\ FoundByText(r) /\ Unneeded(r)

(* One step of a request keeps the types. *)
LEMMA StepTypes ==
    ASSUME ImageTypes, NEW r \in ImageRequests, ireq[r].op # "none", Own(r), ImageStep(r)
    PROVE  ImageTypes'
<1>0. ireq[r].op \in ImageOperations
  BY DEF ImageTypes
<1> USE DEF Jump, Reply, workVars, ImageTypes, ImageLabels, PushLabels, TagLabels, RemoveLabels
<1>r. ASSUME NEW c, ReplyOnly(r, c), UNCHANGED ireq PROVE ImageTypes'
  BY <1>r DEF ReplyOnly
<1>1. CASE ReceiveImage(r)
  <2>1. CASE \E c \in HandlerRefusals(ireq[r].op) : ReplyOnly(r, c) /\ UNCHANGED ireq
    BY <2>1, <1>r
  <2>2. ASSUME NEW x \in Asked(ireq[r].op), NEW a \in ImageArguments(ireq[r].op),
               ireq' = [ireq EXCEPT ![r] = [op |-> @.op, ref |-> x, arg |-> a]],
               Jump(r, FirstStep[ireq[r].op]), UNCHANGED <<images, workVars>>
        PROVE  ImageTypes'
    <3>1. FirstStep[ireq[r].op] \in ImageLabels
      BY <1>0, FirstSteps
    <3>2. x \in References \cup Texts \cup {None} /\ a \in References \cup {None, "force"}
      BY ImagesAssumption DEF Asked, ImageArguments
    <3>3. ireq' \in [ImageRequests -> [op : ImageOperations \cup {"none"},
                                       ref : References \cup Texts \cup {None},
                                       arg : References \cup {None, "force"}]]
      BY <2>2, <3>2
    <3> QED
      BY <2>2, <3>1, <3>3
  <2> QED
    BY <1>1, <2>1, <2>2 DEF ReceiveImage
<1>2. CASE Pull(r)
  <2> HIDE DEF Reply
  <2>r. CASE \E c \in {200, 400, 404, 500} : ReplyOnly(r, c)
    BY <1>2, <1>r, <2>r DEF Pull
  <2>1. ASSUME NEW d \in Digests, images' = [images EXCEPT ![ireq[r].ref] = d], Reply(r, 200), UNCHANGED ireq
        PROVE  ImageTypes'
    BY <2>1 DEF Reply
  <2> QED
    BY <1>2, <2>r, <2>1 DEF Pull
<1>3. CASE Load(r)
  <2> HIDE DEF Reply
  <2>r. CASE \E c \in {200, 400, 404, 500} : ReplyOnly(r, c)
    BY <1>3, <1>r, <2>r DEF Load
  <2>1. ASSUME NEW d \in Digests, images' = [images EXCEPT ![ireq[r].ref] = d], Reply(r, 200), UNCHANGED ireq
        PROVE  ImageTypes'
    BY <2>1 DEF Reply
  <2> QED
    BY <1>3, <2>r, <2>1 DEF Load
<1>4. CASE GetImage(r)
  <2>1. ASSUME NEW n \in SearchImage(ireq[r].ref), found' = [found EXCEPT ![r] = {n}], Jump(r, "read"),
               UNCHANGED <<images, ireq, desc, unused, dirty>>
        PROVE  ImageTypes'
    BY <2>1, Search
  <2> QED
    BY <1>4, <1>r, <2>1, ZenonT(30) DEF GetImage
<1>6. CASE FindSource(r)
  <2>1. ASSUME NEW n \in SearchImage(ireq[r].ref), found' = [found EXCEPT ![r] = {n}], Jump(r, "get"),
               UNCHANGED <<images, ireq, desc, unused, dirty>>
        PROVE  ImageTypes'
    BY <2>1, Search
  <2> QED
    BY <1>6, <1>r, <2>1, SMTT(30) DEF FindSource
<1>5. CASE ReadImage(r)
  BY <1>5, <1>r DEF ReadImage
<1>7. CASE GetSource(r)
  BY <1>7, <1>r DEF GetSource, Known
<1>8. CASE CreateTag(r)
  BY <1>8, <1>r, ZenonT(30) DEF CreateTag, CreateName
<1>9. CASE DeleteTag(r)
  BY <1>9, <1>r, ZenonT(30) DEF DeleteTag, DeleteName
<1>10. CASE CreateTagAgain(r)
  BY <1>10, <1>r, ZenonT(30) DEF CreateTagAgain, CreateName
<1>11. CASE PublishTag(r)
  BY <1>11, <1>r DEF PublishTag
<1>13. CASE DropPushRef(r)
  BY <1>13, <1>r DEF DropPushRef
<1>14. CASE CreatePushRef(r)
  <2>1. CASE CreateName(r, PushRef[ireq[r].ref], "resolver") /\ UNCHANGED ireq
    <3>1. desc[r] \in Digests \cup {None}
      OBVIOUS
    <3>2. images' \in [References -> Digests \cup {None}]
      BY <2>1, <3>1 DEF CreateName
    <3> QED
      BY <2>1, <3>2 DEF CreateName
  <2> QED
    BY <1>14, <1>r, <2>1 DEF CreatePushRef
<1>15. CASE GetResolver(r)
  BY <1>15, <1>r DEF GetResolver, ReturnFromPush
<1>16. CASE PushImage(r)
  BY <1>16, <1>r DEF PushImage, ReturnFromPush
<1>17. CASE DeferredDelete(r)
  BY <1>17, <1>r DEF DeferredDelete
<1>12. CASE ConvertImage(r)
  <2>1. ASSUME Known(ireq[r].ref), desc' = [desc EXCEPT ![r] = Reduce[images[ireq[r].ref]]],
               ipc[r] = "convert", Jump(r, "drop"), UNCHANGED <<images, ireq, found, unused, dirty>>
        PROVE  ImageTypes'
    <3>1. ireq[r].ref \in References
      BY <2>1, ImagesAssumption DEF Own, Placed, AtPush
    <3>2. Reduce[images[ireq[r].ref]] \in Digests
      BY <2>1, <3>1, ImagesAssumption DEF Known
    <3> QED
      BY <2>1, <3>2
  <2> QED
    BY <1>12, <1>r, <2>1 DEF ConvertImage
<1>18. CASE SearchToRemove(r)
  <2>1. ASSUME found' = [found EXCEPT ![r] = SearchImage(ireq[r].ref)], Jump(r, "used"),
               UNCHANGED <<images, ireq, desc, unused, dirty>>
        PROVE  ImageTypes'
    BY <2>1, Search
  <2> QED
    BY <1>18, <1>r, <2>1 DEF SearchToRemove
<1>19. CASE CheckUsed(r)
  <2>1. ASSUME NEW free \in SUBSET Ids, unused' = [unused EXCEPT ![r] = free], Jump(r, "delete"),
               UNCHANGED <<images, ireq, desc, found, dirty>>
        PROVE  ImageTypes'
    BY <2>1
  <2>2. \A call : \A cs \in Ignored(call) : cs \subseteq Ids
    BY DEF Ignored
  <2>3. \A force : Unused(force) \subseteq Ids
    BY DEF Unused
  <2> QED
    BY <1>19, <1>r, <2>1, <2>2, <2>3 DEF CheckUsed
<1>20. CASE DeleteImage(r)
  <2>1. ASSUME NEW n \in found[r], images' = [images EXCEPT ![n] = None], Reply(r, 200), UNCHANGED ireq
        PROVE  ImageTypes'
    BY <2>1
  <2>2. ASSUME NEW n \in found[r], images' = [images EXCEPT ![n] = None],
               found' = [found EXCEPT ![r] = @ \ {n}], UNCHANGED <<ireq, ipc, iresp, desc, unused, dirty>>
        PROVE  ImageTypes'
    BY <2>2
  <2> QED
    BY <1>20, <1>r, <2>1, <2>2, SMTT(30) DEF DeleteImage
<1>21. CASE BuildImage(r)
  <2>1. ASSUME images' \in [References -> Digests \cup {None}], found' = [found EXCEPT ![r] = {ireq[r].ref}],
               ipc[r] = "build", Jump(r, "get"), UNCHANGED <<ireq, desc, unused, dirty>>
        PROVE  ImageTypes'
    BY <2>1 DEF Own, Placed, AtNames
  <2>2. ASSUME NEW d \in Digests, images' = [images EXCEPT ![ireq[r].ref] = d]
        PROVE  images' \in [References -> Digests \cup {None}]
    BY <2>2
  <2> QED
    BY <1>21, <1>r, <2>1, <2>2 DEF BuildImage
<1> QED
  BY <1>1, <1>2, <1>3, <1>4, <1>5, <1>6, <1>7, <1>8, <1>9, <1>10, <1>11, <1>12, <1>13, <1>14, <1>15, <1>16, <1>17, <1>18, <1>19, <1>20, <1>21 DEF ImageStep

(* Every step of a request to the image service has the effects named above. *)
LEMMA StepEffect ==
    ASSUME ImageTypes, NEW r \in ImageRequests, ireq[r].op # "none", Own(r), ImageStep(r)
    PROVE  Effect(r)
<1>0. ImageTypes'
  BY StepTypes
<1> USE ImagesAssumption
<1> USE DEF Own, OwnKept, Placed, AtPush, AtTag, AtRemove, AtNames, AtRest, Converted, FoundByText, Unneeded,
            PushLabels, TagLabels, RemoveLabels, Jump, Reply, ReplyOnly, workVars, Known
<1>1. CASE ReceiveImage(r)
  <2>1. OthersKept(r)
    BY <1>1 DEF ReceiveImage, Asked, ImageArguments, ImageTypes, OthersKept
  <2>2. OwnKept(r)
    BY <1>1, FirstSteps DEF ReceiveImage, Asked, ImageArguments, ImageTypes
  <2>3. TempStep(r)
    BY <1>1 DEF ReceiveImage, Asked, ImageArguments, ImageTypes, TempStep, Pushes
  <2>4. PushStep(r) /\ NameStep(r)
    BY <1>1, FirstSteps DEF ReceiveImage, Asked, ImageArguments, ImageTypes, PushStep, NameStep, Target
  <2> QED
    BY <1>0, <2>1, <2>2, <2>3, <2>4 DEF Effect
<1>2. CASE Pull(r)
  <2>1. OthersKept(r)
    BY <1>2 DEF Pull, ImageTypes, OthersKept
  <2>2. OwnKept(r)
    BY <1>2 DEF Pull, ImageTypes
  <2>3. TempStep(r)
    BY <1>2 DEF Pull, ImageTypes, TempStep, Gives
  <2>4. PushStep(r) /\ NameStep(r)
    BY <1>2 DEF Pull, ImageTypes, PushStep, NameStep, Target
  <2> QED
    BY <1>0, <2>1, <2>2, <2>3, <2>4 DEF Effect
<1>3. CASE Load(r)
  <2>1. OthersKept(r)
    BY <1>3 DEF Load, ImageTypes, OthersKept
  <2>2. OwnKept(r)
    BY <1>3 DEF Load, ImageTypes
  <2>3. TempStep(r)
    BY <1>3 DEF Load, ImageTypes, TempStep, Gives
  <2>4. PushStep(r) /\ NameStep(r)
    BY <1>3 DEF Load, ImageTypes, PushStep, NameStep, Target
  <2> QED
    BY <1>0, <2>1, <2>2, <2>3, <2>4 DEF Effect
<1>4. CASE GetImage(r)
  <2>1. OthersKept(r)
    BY <1>4 DEF GetImage, ImageTypes, OthersKept
  <2>2. OwnKept(r)
    BY <1>4, Search DEF GetImage, ImageTypes
  <2>3. TempStep(r)
    BY <1>4 DEF GetImage, ImageTypes, TempStep, Pushes
  <2>4. PushStep(r) /\ NameStep(r)
    BY <1>4 DEF GetImage, ImageTypes, PushStep, NameStep, Target
  <2> QED
    BY <1>0, <2>1, <2>2, <2>3, <2>4 DEF Effect
<1>5. CASE ReadImage(r)
  <2>1. OthersKept(r)
    BY <1>5 DEF ReadImage, ImageTypes, OthersKept
  <2>2. OwnKept(r)
    BY <1>5 DEF ReadImage, ImageTypes
  <2>3. TempStep(r)
    BY <1>5 DEF ReadImage, ImageTypes, TempStep, Pushes
  <2>4. PushStep(r) /\ NameStep(r)
    BY <1>5 DEF ReadImage, ImageTypes, PushStep, NameStep, Target
  <2> QED
    BY <1>0, <2>1, <2>2, <2>3, <2>4 DEF Effect
<1>6. CASE FindSource(r)
  <2>1. OthersKept(r)
    BY <1>6 DEF FindSource, ImageTypes, OthersKept
  <2>2. OwnKept(r)
    BY <1>6, Search DEF FindSource, ImageTypes
  <2>3. TempStep(r)
    BY <1>6 DEF FindSource, ImageTypes, TempStep, Pushes
  <2>4. PushStep(r) /\ NameStep(r)
    BY <1>6 DEF FindSource, ImageTypes, PushStep, NameStep, Target
  <2> QED
    BY <1>0, <2>1, <2>2, <2>3, <2>4 DEF Effect
<1>7. CASE GetSource(r)
  <2>1. OthersKept(r)
    BY <1>7 DEF GetSource, ImageTypes, OthersKept
  <2>2. OwnKept(r)
    BY <1>7 DEF GetSource, ImageTypes
  <2>3. TempStep(r)
    BY <1>7 DEF GetSource, ImageTypes, TempStep, Pushes
  <2>4. PushStep(r) /\ NameStep(r)
    BY <1>7 DEF GetSource, ImageTypes, PushStep, NameStep, Target
  <2> QED
    BY <1>0, <2>1, <2>2, <2>3, <2>4 DEF Effect
<1>8. CASE CreateTag(r)
  <2>1. OthersKept(r)
    BY <1>8 DEF CreateTag, CreateName, Target, ImageTypes, OthersKept
  <2>2. OwnKept(r)
    BY <1>8 DEF CreateTag, CreateName, Target, ImageTypes
  <2>3. TempStep(r)
    BY <1>8 DEF CreateTag, CreateName, Target, ImageTypes, TempStep, Gives
  <2>4. PushStep(r) /\ NameStep(r)
    BY <1>8 DEF CreateTag, CreateName, Target, ImageTypes, PushStep, NameStep
  <2> QED
    BY <1>0, <2>1, <2>2, <2>3, <2>4 DEF Effect
<1>9. CASE DeleteTag(r)
  <2>1. OthersKept(r)
    BY <1>9 DEF DeleteTag, DeleteName, Target, ImageTypes, OthersKept
  <2>2. OwnKept(r)
    BY <1>9 DEF DeleteTag, DeleteName, Target, ImageTypes
  <2>3. TempStep(r)
    BY <1>9 DEF DeleteTag, DeleteName, Target, ImageTypes, TempStep, Gives
  <2>4. PushStep(r) /\ NameStep(r)
    BY <1>9 DEF DeleteTag, DeleteName, Target, ImageTypes, PushStep, NameStep
  <2> QED
    BY <1>0, <2>1, <2>2, <2>3, <2>4 DEF Effect
<1>10. CASE CreateTagAgain(r)
  <2>1. OthersKept(r)
    BY <1>10 DEF CreateTagAgain, CreateName, Target, ImageTypes, OthersKept
  <2>2. OwnKept(r)
    BY <1>10 DEF CreateTagAgain, CreateName, Target, ImageTypes
  <2>3. TempStep(r)
    BY <1>10 DEF CreateTagAgain, CreateName, Target, ImageTypes, TempStep, Gives
  <2>4. PushStep(r) /\ NameStep(r)
    BY <1>10 DEF CreateTagAgain, CreateName, Target, ImageTypes, PushStep, NameStep
  <2> QED
    BY <1>0, <2>1, <2>2, <2>3, <2>4 DEF Effect
<1>11. CASE PublishTag(r)
  <2>1. OthersKept(r)
    BY <1>11 DEF PublishTag, ImageTypes, OthersKept
  <2>2. OwnKept(r)
    BY <1>11 DEF PublishTag, ImageTypes
  <2>3. TempStep(r)
    BY <1>11 DEF PublishTag, ImageTypes, TempStep, Pushes
  <2>4. PushStep(r) /\ NameStep(r)
    BY <1>11 DEF PublishTag, ImageTypes, PushStep, NameStep, Target
  <2> QED
    BY <1>0, <2>1, <2>2, <2>3, <2>4 DEF Effect
<1>12. CASE ConvertImage(r)
  <2>1. OthersKept(r)
    BY <1>12 DEF ConvertImage, ImageTypes, OthersKept
  <2>2. OwnKept(r)
    BY <1>12 DEF ConvertImage, ImageTypes
  <2>3. TempStep(r)
    BY <1>12 DEF ConvertImage, ImageTypes, TempStep, Pushes
  <2>4. PushStep(r) /\ NameStep(r)
    BY <1>12 DEF ConvertImage, ImageTypes, PushStep, NameStep, Target
  <2> QED
    BY <1>0, <2>1, <2>2, <2>3, <2>4 DEF Effect
<1>13. CASE DropPushRef(r)
  <2>1. OthersKept(r)
    BY <1>13 DEF DropPushRef, ImageTypes, OthersKept
  <2>2. OwnKept(r)
    BY <1>13 DEF DropPushRef, ImageTypes
  <2>3. TempStep(r)
    BY <1>13 DEF DropPushRef, ImageTypes, TempStep, Pushes
  <2>4. PushStep(r) /\ NameStep(r)
    BY <1>13 DEF DropPushRef, ImageTypes, PushStep, NameStep, Target
  <2> QED
    BY <1>0, <2>1, <2>2, <2>3, <2>4 DEF Effect
<1>14. CASE CreatePushRef(r)
  <2>1. OthersKept(r)
    BY <1>14 DEF CreatePushRef, CreateName, ImageTypes, OthersKept
  <2>2. OwnKept(r)
    BY <1>14 DEF CreatePushRef, CreateName, ImageTypes
  <2>3. TempStep(r)
    BY <1>14 DEF CreatePushRef, CreateName, ImageTypes, TempStep, Pushes
  <2>4. PushStep(r) /\ NameStep(r)
    BY <1>14 DEF CreatePushRef, CreateName, ImageTypes, PushStep, NameStep, Target
  <2> QED
    BY <1>0, <2>1, <2>2, <2>3, <2>4 DEF Effect
<1>15. CASE GetResolver(r)
  <2>1. OthersKept(r)
    BY <1>15 DEF GetResolver, ReturnFromPush, ImageTypes, OthersKept
  <2>2. OwnKept(r)
    BY <1>15 DEF GetResolver, ReturnFromPush, ImageTypes
  <2>3. TempStep(r)
    BY <1>15 DEF GetResolver, ReturnFromPush, ImageTypes, TempStep, Pushes
  <2>4. PushStep(r) /\ NameStep(r)
    BY <1>15 DEF GetResolver, ReturnFromPush, ImageTypes, PushStep, NameStep, Target
  <2> QED
    BY <1>0, <2>1, <2>2, <2>3, <2>4 DEF Effect
<1>16. CASE PushImage(r)
  <2>1. OthersKept(r)
    BY <1>16 DEF PushImage, ReturnFromPush, ImageTypes, OthersKept
  <2>2. OwnKept(r)
    BY <1>16 DEF PushImage, ReturnFromPush, ImageTypes
  <2>3. TempStep(r)
    BY <1>16 DEF PushImage, ReturnFromPush, ImageTypes, TempStep, Pushes
  <2>4. PushStep(r) /\ NameStep(r)
    BY <1>16 DEF PushImage, ReturnFromPush, ImageTypes, PushStep, NameStep, Target
  <2> QED
    BY <1>0, <2>1, <2>2, <2>3, <2>4 DEF Effect
<1>17. CASE DeferredDelete(r)
  <2>1. OthersKept(r)
    BY <1>17 DEF DeferredDelete, ImageTypes, OthersKept
  <2>2. OwnKept(r)
    BY <1>17 DEF DeferredDelete, ImageTypes
  <2>3. TempStep(r)
    BY <1>17 DEF DeferredDelete, ImageTypes, TempStep, Pushes
  <2>4. PushStep(r) /\ NameStep(r)
    BY <1>17 DEF DeferredDelete, ImageTypes, PushStep, NameStep, Target
  <2> QED
    BY <1>0, <2>1, <2>2, <2>3, <2>4 DEF Effect
<1>18. CASE SearchToRemove(r)
  <2>1. OthersKept(r)
    BY <1>18 DEF SearchToRemove, ImageTypes, OthersKept
  <2>2. OwnKept(r)
    BY <1>18, Search DEF SearchToRemove, ImageTypes
  <2>3. TempStep(r)
    BY <1>18 DEF SearchToRemove, ImageTypes, TempStep, Pushes
  <2>4. PushStep(r) /\ NameStep(r)
    BY <1>18 DEF SearchToRemove, ImageTypes, PushStep, NameStep, Target
  <2> QED
    BY <1>0, <2>1, <2>2, <2>3, <2>4 DEF Effect
<1>19. CASE CheckUsed(r)
  <2>1. OthersKept(r)
    BY <1>19 DEF CheckUsed, OthersKept, ImageTypes
  <2>2. OwnKept(r)
    <3>1. CASE ReplyOnly(r, 409) \/ ReplyOnly(r, 500)
      BY <1>19, <3>1 DEF CheckUsed, ImageTypes
    <3>2. ASSUME NEW skipped \in Ignored("cont.Image"), NEW unknown \in Ignored("ContainerStatus"),
                 \A c \in GetUsedImages(skipped, unknown).running
                       \cup (IF ireq[r].arg = "force" THEN {} ELSE GetUsedImages(skipped, unknown).stopped) :
                          ImageOf[c] \notin found[r],
                 unused' = [unused EXCEPT ![r] = Unused(ireq[r].arg = "force") \cup skipped \cup unknown],
                 Jump(r, "delete"), UNCHANGED <<ireq, images, desc, found, dirty>>
          PROVE  OwnKept(r)
      <4>1. \A c \in Ids : ImageOf[c] \in found[r] => c \in Unused(ireq[r].arg = "force") \cup skipped \cup unknown
        BY <3>2 DEF GetUsedImages, Unused
      <4>2. found'[r] = found[r] /\ unused'[r] = Unused(ireq[r].arg = "force") \cup skipped \cup unknown
        BY <3>2 DEF ImageTypes
      <4>3. Unneeded(r)'
        BY <4>1, <4>2 DEF Unneeded
      <4> QED
        BY <1>19, <3>2, <4>3 DEF CheckUsed, ImageTypes
    <3> QED
      BY <1>19, <3>1, <3>2 DEF CheckUsed
  <2>3. TempStep(r)
    BY <1>19 DEF CheckUsed, ImageTypes, TempStep, Pushes
  <2>4. PushStep(r) /\ NameStep(r)
    BY <1>19 DEF CheckUsed, ImageTypes, PushStep, NameStep, Target
  <2> QED
    BY <1>0, <2>1, <2>2, <2>3, <2>4 DEF Effect
<1>20. CASE DeleteImage(r)
  <2>1. OthersKept(r)
    BY <1>20 DEF DeleteImage, ImageTypes, OthersKept
  <2>2. OwnKept(r)
    BY <1>20 DEF DeleteImage, ImageTypes
  <2>3. TempStep(r)
    BY <1>20 DEF DeleteImage, ImageTypes, TempStep, Pushes
  <2>4. PushStep(r) /\ NameStep(r)
    BY <1>20 DEF DeleteImage, ImageTypes, PushStep, NameStep, Target
  <2> QED
    BY <1>0, <2>1, <2>2, <2>3, <2>4 DEF Effect
<1>21. CASE BuildImage(r)
  <2>1. OthersKept(r)
    BY <1>21 DEF BuildImage, ImageTypes, OthersKept
  <2>2. OwnKept(r)
    BY <1>21 DEF BuildImage, ImageTypes
  <2>3. TempStep(r)
    BY <1>21 DEF BuildImage, ImageTypes, TempStep, Gives
  <2>4. PushStep(r) /\ NameStep(r)
    BY <1>21 DEF BuildImage, ImageTypes, PushStep, NameStep, Target
  <2> QED
    BY <1>0, <2>1, <2>2, <2>3, <2>4 DEF Effect
<1> QED
  BY <1>1, <1>2, <1>3, <1>4, <1>5, <1>6, <1>7, <1>8, <1>9, <1>10, <1>11, <1>12, <1>13, <1>14, <1>15, <1>16, <1>17, <1>18, <1>19, <1>20, <1>21 DEF ImageStep

-----------------------------------------------------------------------------
(* The containers' steps leave the requests alone and delete no image; a name
   that they change was not there, and is the one of a container's image. *)
LEMMA ContainerEffect ==
    ASSUME ImageTypes, ContainerStep
    PROVE  /\ ImageTypes'
           /\ UNCHANGED <<ipc, ireq, iresp, workVars>>
           /\ \A n \in References : images'[n] = images[n] \/ (images[n] = None /\ \E c \in Ids : ImageOf[c] = n)
           /\ \A n \in References : images'[n] = None => images[n] = None
<1>1. UNCHANGED <<ipc, ireq, iresp, workVars>>
  BY DEF ContainerStep
<1>2. \/ images' = images
      \/ \E c \in Ids, d \in Digests : images[ImageOf[c]] = None /\ images' = [images EXCEPT ![ImageOf[c]] = d]
  BY DEF ContainerStep, PullMissing, Made, Known
<1> QED
  BY <1>1, <1>2, ImagesAssumption DEF ImageTypes, workVars

(* The invariant is kept by a request's step. *)
LEMMA StepInv ==
    ASSUME ImagesInv, NEW r \in ImageRequests, ireq[r].op # "none", ImageStep(r)
    PROVE  ImagesInv'
<1>1. Effect(r)
  BY StepEffect DEF ImagesInv, PlacedInv, RemoveInv, Own
<1>2. ImageTypes' /\ OthersKept(r) /\ OwnKept(r) /\ TempStep(r) /\ PushStep(r)
  BY <1>1 DEF Effect
<1>3. PlacedInv' /\ RemoveInv'
  <2> SUFFICES ASSUME NEW s \in ImageRequests PROVE Placed(s)' /\ FoundByText(s)' /\ Unneeded(s)'
    BY DEF PlacedInv, RemoveInv
  <2>1. CASE s = r
    BY <1>2, <2>1 DEF OwnKept
  <2>2. CASE s # r
    BY <1>2, <2>2 DEF OthersKept, ImagesInv, PlacedInv, RemoveInv, Placed, AtPush, AtTag, AtRemove, AtNames, AtRest,
       Converted, FoundByText, Unneeded
  <2> QED
    BY <2>1, <2>2
<1>4. TempRefLeftOnlyByFailure'
  <2> SUFFICES ASSUME NEW x \in Pushable, Known(PushRef[x])', ~\E c \in Ids : ImageOf[c] = PushRef[x]
               PROVE  \E s \in ImageRequests :
                          \/ (Pushes(s, x) /\ (ipc[s] \in {"resolver", "pushImage", "deferred"} \/ s \in dirty))'
                          \/ Gives(s, PushRef[x])'
    BY DEF TempRefLeftOnlyByFailure
  <2>0. PushRef[x] \in References
    BY ImagesAssumption
  <2>4. ASSUME NEW s \in ImageRequests, Gives(s, PushRef[x]) PROVE Gives(s, PushRef[x])'
    <3>1. ipc[s] # "idle"
      BY <2>0, <2>4, ImagesAssumption DEF Gives, ImagesInv, PlacedInv, Placed, AtRest
    <3>2. ireq'[s] = ireq[s]
      BY <1>2, <3>1 DEF OthersKept, PushStep
    <3> QED
      BY <2>4, <3>2 DEF Gives
  <2>1. CASE ipc[r] = "pushRef" /\ ipc'[r] = "resolver" /\ Pushes(r, x)
    BY <1>2, <2>1 DEF PushStep, Pushes
  <2>2. CASE images'[PushRef[x]] = images[PushRef[x]]
    <3>1. PICK s \in ImageRequests :
              \/ Pushes(s, x) /\ (ipc[s] \in {"resolver", "pushImage", "deferred"} \/ s \in dirty)
              \/ Gives(s, PushRef[x])
      BY <2>2 DEF ImagesInv, TempRefLeftOnlyByFailure, Known
    <3>4. CASE Gives(s, PushRef[x])
      BY <2>4, <3>4
    <3> SUFFICES ASSUME Pushes(s, x), ipc[s] \in {"resolver", "pushImage", "deferred"} \/ s \in dirty
                 PROVE  \E q \in ImageRequests :
                            (Pushes(q, x) /\ (ipc[q] \in {"resolver", "pushImage", "deferred"} \/ q \in dirty))'
      BY <3>1, <3>4
    <3>2. CASE s # r
      BY <1>2, <3>2 DEF OthersKept, Pushes
    <3>3. CASE s = r
      <4>1. ipc[r] # "idle"
        BY <3>3 DEF ImagesInv, PlacedInv, Placed, AtRest
      <4>2. Pushes(r, x)'
        BY <1>2, <3>3, <4>1 DEF PushStep, Pushes
      <4> QED
        BY <1>2, <3>3, <4>2 DEF PushStep, Pushes, Known
    <3> QED
      BY <3>2, <3>3
  <2> QED
    BY <1>2, <2>1, <2>2, <2>4 DEF TempStep, Known
<1>5. PushBrokenOnlyByOther'
  <2> SUFFICES ASSUME NEW s \in ImageRequests, ipc'[s] \in {"resolver", "pushImage"},
                      images'[PushRef[ireq'[s].ref]] # desc'[s]
               PROVE  \E q \in ImageRequests \ {s} : Disturbs(q, s)'
    BY DEF PushBrokenOnlyByOther, Disturbs
  <2>1. ireq'[s].ref \in Pushable /\ PushRef[ireq'[s].ref] \in References
    BY <1>3, ImagesAssumption DEF PlacedInv, Placed, AtPush, PushLabels
  <2>2. ASSUME NEW q \in ImageRequests \ {s}, ireq'[s] = ireq[s], Disturbs(q, s)
        PROVE  Disturbs(q, s)'
    <3>1. ireq[q].ref # None \/ ireq[q].arg # None
      BY <2>1, <2>2, ImagesAssumption DEF Disturbs, Pushes, Gives
    <3>2. ipc[q] # "idle"
      BY <3>1 DEF ImagesInv, PlacedInv, Placed, AtRest
    <3>3. ireq'[q] = ireq[q]
      BY <1>2, <3>2 DEF OthersKept, PushStep
    <3> QED
      BY <2>2, <3>3 DEF Disturbs, Pushes, Gives
  <2>3. ASSUME ipc[s] \in {"resolver", "pushImage"}, ireq'[s] = ireq[s], desc'[s] = desc[s],
               images[PushRef[ireq[s].ref]] # desc[s]
        PROVE  \E q \in ImageRequests \ {s} : Disturbs(q, s)
    BY <2>3 DEF ImagesInv, PushBrokenOnlyByOther, Disturbs
  <2>4. CASE s = r
    <3>1. ipc[r] \in {"pushRef", "resolver", "pushImage"} /\ ireq'[r] = ireq[r] /\ desc'[r] = desc[r]
      BY <1>2, <2>4 DEF PushStep
    <3>2. ipc[r] # "pushRef" /\ images' = images
      BY <1>2, <2>4, <3>1 DEF PushStep
    <3> QED
      BY <2>2, <2>3, <2>4, <3>1, <3>2
  <2>5. CASE s # r
    <3>1. ipc[s] = ipc'[s] /\ ireq'[s] = ireq[s] /\ desc'[s] = desc[s]
      BY <1>2, <2>5 DEF OthersKept
    <3>2. CASE images'[PushRef[ireq[s].ref]] = images[PushRef[ireq[s].ref]]
      BY <2>2, <2>3, <3>1, <3>2
    <3>3. CASE images'[PushRef[ireq[s].ref]] # images[PushRef[ireq[s].ref]]
      <4>1. Disturbs(r, s)
        BY <1>2, <2>1, <3>1, <3>3 DEF TempStep, Disturbs
      <4> QED
        BY <2>2, <2>5, <3>1, <4>1
    <3> QED
      BY <3>2, <3>3
  <2> QED
    BY <2>4, <2>5
<1> QED
  BY <1>2, <1>3, <1>4, <1>5 DEF ImagesInv

(* The invariant is kept by every step. *)
LEMMA NextInv == ImagesInv /\ [ImagesNext]_everything => ImagesInv'
<1> SUFFICES ASSUME ImagesInv, [ImagesNext]_everything PROVE ImagesInv' OBVIOUS
<1>1. CASE \E r \in ImageRequests : ireq[r].op # "none" /\ ImageStep(r)
  BY <1>1, StepInv
<1>2. ASSUME UNCHANGED <<ipc, ireq, workVars>>, ImageTypes',
             \A n \in References : images'[n] = images[n] \/ (images[n] = None /\ \E c \in Ids : ImageOf[c] = n)
      PROVE  ImagesInv'
  <2>1. PlacedInv' /\ RemoveInv'
    BY <1>2 DEF workVars, ImagesInv, PlacedInv, RemoveInv, Placed, AtPush, AtTag, AtRemove, AtNames, AtRest, Converted,
       FoundByText, Unneeded
  <2>2. TempRefLeftOnlyByFailure'
    BY <1>2, ImagesAssumption DEF workVars, ImagesInv, TempRefLeftOnlyByFailure, Known, Pushes, Gives
  <2>3. PushBrokenOnlyByOther'
    <3> SUFFICES ASSUME NEW s \in ImageRequests, ipc[s] \in {"resolver", "pushImage"},
                        images'[PushRef[ireq[s].ref]] # desc[s]
                 PROVE  \E q \in ImageRequests \ {s} : Disturbs(q, s)
      BY <1>2 DEF workVars, PushBrokenOnlyByOther, Disturbs, Pushes, Gives
    <3>1. PushRef[ireq[s].ref] \in References /\ desc[s] # None
      BY ImagesAssumption DEF ImagesInv, PlacedInv, Placed, AtPush, Converted, PushLabels
    <3>2. images[PushRef[ireq[s].ref]] # desc[s]
      BY <1>2, <3>1
    <3> QED
      BY <3>2 DEF ImagesInv, PushBrokenOnlyByOther, Disturbs
  <2> QED
    BY <1>2, <2>1, <2>2, <2>3 DEF ImagesInv
<1>3. CASE ContainerStep
  BY <1>2, <1>3, ContainerEffect DEF ImagesInv
<1>4. CASE UNCHANGED everything
  BY <1>2, <1>4 DEF everything, imageVars, workVars, ImagesInv, ImageTypes
<1> QED
  BY <1>1, <1>3, <1>4 DEF ImagesNext

-----------------------------------------------------------------------------
(* The image service keeps its invariant, next to whatever happens to containers. *)
THEOREM ImagesInvariant == ImagesSpec => []ImagesInv
BY InitInv, NextInv, PTL DEF ImagesSpec

(* Push: a temporary name that is left in the store is in use by a push of its
   image, is left by one whose deferred DeleteImage failed, or is a name that
   clients use: for any number of pushes in any order and with any calls failing. *)
THEOREM TempRefLeftOnlyByFailureHolds == ImagesSpec => []TempRefLeftOnlyByFailure
<1>1. ImagesInv => TempRefLeftOnlyByFailure
  BY DEF ImagesInv
<1> QED
  BY <1>1, ImagesInvariant, PTL

(* Push: only another push of the same image, a request that gives or removes the
   temporary name, or a Remove by digest, makes a push send something else than it
   has converted. *)
THEOREM PushBrokenOnlyByOtherHolds == ImagesSpec => []PushBrokenOnlyByOther
<1>1. ImagesInv => PushBrokenOnlyByOther
  BY DEF ImagesInv
<1> QED
  BY <1>1, ImagesInvariant, PTL

(* Remove, Tag, Build and Push: the name of a container's image goes only by a Tag
   or Build that replaces it, by a Push whose temporary name it is, or by a Remove
   that had no reason to keep it when it checked. *)
THEOREM UsedImageRemovedOnlyByRaceHolds == ImagesSpec => UsedImageRemovedOnlyByRace
<1> DEFINE Lost(c) ==
      LET n == ImageOf[c] IN
          Known(n) /\ images'[n] = None /\ Exists(c) =>
              \E r \in ImageRequests :
                  \/ ipc[r] = "replace" /\ Target(r) = n /\ ipc'[r] = "createAgain"
                  \/ ipc[r] \in {"drop", "deferred"} /\ PushRef[ireq[r].ref] = n
                  \/ ipc[r] = "delete" /\ c \in unused[r]
<1>1. ImagesInv /\ [ImagesNext]_everything => [images' # images => \A c \in Ids : Lost(c)]_everything
  <2> SUFFICES ASSUME ImagesInv, ImagesNext, NEW c \in Ids,
                      Known(ImageOf[c]), images'[ImageOf[c]] = None
               PROVE  \E r \in ImageRequests :
                          \/ ipc[r] = "replace" /\ Target(r) = ImageOf[c] /\ ipc'[r] = "createAgain"
                          \/ ipc[r] \in {"drop", "deferred"} /\ PushRef[ireq[r].ref] = ImageOf[c]
                          \/ ipc[r] = "delete" /\ c \in unused[r]
    OBVIOUS
  <2>1. ImageOf[c] \in References
    BY ImagesAssumption
  <2>2. ~ContainerStep
    BY <2>1, ContainerEffect DEF ImagesInv, Known
  <2>3. PICK r \in ImageRequests : ireq[r].op # "none" /\ ImageStep(r)
    BY <2>2 DEF ImagesNext
  <2>4. NameStep(r) /\ Unneeded(r)
    BY <2>3, StepEffect DEF ImagesInv, PlacedInv, RemoveInv, Own, Effect
  <2> QED
    BY <2>1, <2>4 DEF NameStep, Unneeded, Known
<1> QED
  BY <1>1, ImagesInvariant, PTL DEF ImagesSpec, UsedImageRemovedOnlyByRace
=============================================================================
