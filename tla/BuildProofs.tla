----------------------------- MODULE BuildProofs -----------------------------
(***************************************************************************)
(* For every set of builds, of addresses, of tag lists and of calls that   *)
(* may fail: the credential cache is scoped to running builds, what it     *)
(* serves matches what was asked, a buildctl is left unreaped only by a    *)
(* failed load, the build context is removed when tar is there and         *)
(* RemoveAll works, a failed build is reported, a build that nobody        *)
(* interferes with leaves its tags on its own image, and a tag is lost only*)
(* between another build's Delete and Create.                              *)
(***************************************************************************)
EXTENDS Build, TLAPS

(* Where a build's temporary directory is in use, with its removal deferred. *)
InService == {"tar", "buildctl", "load", "wait", "tag", "create", "delete", "recreate",
              "events", "cleanup"}

(* The loop over the tags is reached only with tags. *)
TagInv == \A b \in Builds : pc[b] = "tag" => Head(options[b].tags) \in Tags

(* TypeOK is not inductive by itself: GetImage reads the image of a first tag. *)
Types == TypeOK /\ TagInv

(* A buildctl that runs or has not been waited for belongs to a build in
   RunBuild, or to one whose load failed. *)
Unreaped(b) ==
    buildctl[b] # "none" /\ b \notin reaped =>
        \/ pc[b] \in {"load", "wait"}
        \/ /\ pc[b] \in {"cleanup", "answer", "return", "done"}
           /\ options[b].output = "load" /\ outcome[b] = "error"

(* buildctl is started once, at its place in the handler. *)
NotStarted(b) ==
    /\ pc[b] \in {"start", "store", "options", "extract", "tar", "buildctl"} => buildctl[b] = "none"
    /\ pc[b] = "load" => options[b].output = "load"

ProcessInv == \A b \in Builds : Unreaped(b) /\ NotStarted(b)

(* The first of several tags is a tag. *)
LEMMA FirstTag == ASSUME NEW l \in TagLists, Len(l) > 1 PROVE Head(l) \in Tags
<1>1. l \in Seq(Tags)
  BY BuildAssumption
<1> QED
  BY <1>1

(* X-Registry-Config names addresses. *)
LEMMA CredsAreAddresses == ASSUME NEW c \in CredSets PROVE c \subseteq Addresses
BY BuildAssumption

(* Named: the first tag names the image of the build. *)
LEMMA NamedTyped ==
    ASSUME TypeOK, NEW b \in Builds PROVE Named(b) \in [Tags -> Builds \cup {Old, None}]
<1>1. [images EXCEPT ![Head(options[b].tags)] = b] \in [Tags -> Builds \cup {Old, None}]
  BY DEF TypeOK, Options
<1>2. images \in [Tags -> Builds \cup {Old, None}]
  BY DEF TypeOK, Options
<1> QED
  BY <1>1, <1>2, Zenon DEF Named

(* Tagged: the next tag is created and counted. *)
LEMMA TaggedTyped ==
    ASSUME TypeOK, NEW b \in Builds, Tagged(b)
    PROVE  /\ images' \in [Tags -> Builds \cup {Old, None}]
           /\ tagNext' \in [Builds -> Nat]
           /\ \E l \in {"create", "events"} : pc' = [pc EXCEPT ![b] = l]
<1>1. images' = [images EXCEPT ![NextTag(b)] = tagImage[b]]
      /\ tagNext' = [tagNext EXCEPT ![b] = tagNext[b] + 1]
  BY Zenon DEF Tagged
<1>2. images' \in [Tags -> Builds \cup {Old, None}]
  BY <1>1 DEF TypeOK, Options
<1>3. tagNext' \in [Builds -> Nat]
  <2>1. tagNext \in [Builds -> Nat]
    BY DEF TypeOK, Options
  <2>2. tagNext[b] + 1 \in Nat
    BY <2>1
  <2> QED
    BY <1>1, <2>1, <2>2
<1>4. \E l \in {"create", "events"} : pc' = [pc EXCEPT ![b] = l]
  BY Zenon DEF Tagged, Goto
<1> QED
  BY <1>2, <1>3, <1>4

(* Write and WriteError: the status is set once, the body grows. *)
LEMMA WriteTyped ==
    ASSUME TypeOK, NEW b \in Builds,
           WriteError(b) \/ \E w \in {"stdout", "stderr", "aux"} : Write(b, w)
    PROVE  /\ header' \in [Builds -> {"none", "ok", "error"}]
           /\ sent' \in [Builds -> SUBSET {"stdout", "stderr", "aux", "error"}]
<1>1. PICK w \in {"stdout", "stderr", "aux", "error"} : sent' = [sent EXCEPT ![b] = @ \cup {w}]
  BY Zenon DEF Write, WriteError
<1>2. sent[b] \cup {w} \in SUBSET {"stdout", "stderr", "aux", "error"}
  BY DEF TypeOK, Options
<1>3. sent' \in [Builds -> SUBSET {"stdout", "stderr", "aux", "error"}]
  BY <1>1, <1>2 DEF TypeOK, Options
<1>4. PICK h \in {header[b], "ok", "error"} : header' = [header EXCEPT ![b] = h]
  BY Zenon DEF Write, WriteError
<1>5. header' \in [Builds -> {"none", "ok", "error"}]
  BY <1>4 DEF TypeOK, Options
<1> QED
  BY <1>3, <1>5

(* Every variable starts with its type. *)
LEMMA InitTypes == Init => Types
BY DEF Init, Types, TypeOK, Options, TagInv, HandlerPCs, NoEntry

(* Every step keeps the types, one case per action. *)
LEMMA NextTypes == Types /\ [Next]_vars => Types'
<1> SUFFICES ASSUME Types, [Next]_vars PROVE Types'
  OBVIOUS
<1>i. images \in [Tags -> Builds \cup {Old, None}]
  BY DEF Types, TypeOK, Options
<1>n. \A b \in Builds : Named(b) \in [Tags -> Builds \cup {Old, None}]
  BY NamedTyped DEF Types
<1>t. \A b \in Builds : Tagged(b) =>
          /\ images' \in [Tags -> Builds \cup {Old, None}]
          /\ tagNext' \in [Builds -> Nat]
          /\ \E l \in {"create", "events"} : pc' = [pc EXCEPT ![b] = l]
  BY TaggedTyped, Zenon DEF Types
<1> USE DEF Types, TypeOK, Options, TagInv, HandlerPCs, processVars, imageVars, responseVars
<1>1. CASE UNCHANGED vars
  BY <1>1 DEF vars
<1>2. ASSUME NEW b \in Builds, Handler(b) PROVE Types'
  <2> USE <1>2 DEF Goto, Fail
  <2>1. CASE Decode(b)
    BY <2>1, ZenonT(30) DEF Decode
  <2>2. CASE StoreAuthConfigs(b)
    BY <2>2, CredsAreAddresses DEF StoreAuthConfigs, Entry
  <2>3. CASE GetBuildOptions(b)
    BY <2>3, ZenonT(30) DEF GetBuildOptions
  <2>4. CASE ExtractInTemp(b)
    BY <2>4, ZenonT(30) DEF ExtractInTemp
  <2>5. CASE ExtractContext(b)
    BY <2>5, ZenonT(30) DEF ExtractContext
  <2>6. CASE StartBuildctl(b)
    <3>1. pc' = [pc EXCEPT ![b] = "load"] \/ pc' = [pc EXCEPT ![b] = "wait"] \/ Fail(b, "cleanup")
      BY <2>6, Zenon DEF StartBuildctl
    <3> QED
      BY <2>6, <3>1, ZenonT(30) DEF StartBuildctl
  <2>7. CASE LoadImage(b)
    <3>1. header' \in [Builds -> {"none", "ok", "error"}]
          /\ sent' \in [Builds -> SUBSET {"stdout", "stderr", "aux", "error"}]
      BY <2>7, WriteTyped DEF LoadImage
    <3>2. images' \in [Tags -> Builds \cup {Old, None}]
      <4>1. images' = images \/ images' = Named(b)
        BY <2>7, Zenon DEF LoadImage
      <4> QED
        BY <4>1, <1>i, <1>n, ZenonT(30)
    <3>3. PICK l \in {"wait", "cleanup"}, o \in {outcome[b], "error"} :
              pc' = [pc EXCEPT ![b] = l] /\ outcome' = [outcome EXCEPT ![b] = o]
      BY <2>7 DEF LoadImage
    <3>4. UNCHANGED <<options, entries, tempDir, processVars, tagNext, tagImage, helper>>
      BY <2>7, Zenon DEF LoadImage
    <3> QED
      BY <3>1, <3>2, <3>3, <3>4, ZenonT(30)
  <2>8. CASE Wait(b)
    BY <2>8, FirstTag, ZenonT(30) DEF Wait
  <2>9. CASE GetImage(b)
    <3>1. Head(options[b].tags) \in Tags
      BY <2>9 DEF GetImage
    <3>2. images[Head(options[b].tags)] \in Builds \cup {Old, None}
      BY <3>1
    <3>3. tagImage' \in [Builds -> Builds \cup {Old, None}]
      BY <2>9, <3>2, ZenonT(30) DEF GetImage
    <3> QED
      BY <2>9, <3>3, ZenonT(30) DEF GetImage
  <2>10. CASE CreateTag(b)
    <3>1. \/ Tagged(b) /\ UNCHANGED outcome
          \/ \E l \in {"delete", "cleanup"}, o \in {outcome[b], "error"} :
                /\ pc' = [pc EXCEPT ![b] = l]
                /\ outcome' = [outcome EXCEPT ![b] = o]
                /\ UNCHANGED <<images, tagNext>>
      BY <2>10 DEF CreateTag
    <3>2. UNCHANGED <<options, entries, tempDir, processVars, tagImage, responseVars, helper>>
      BY <2>10 DEF CreateTag
    <3>3. CASE Tagged(b) /\ UNCHANGED outcome
      <4>1. PICK l \in {"create", "events"} : pc' = [pc EXCEPT ![b] = l]
        BY <3>3, <1>t
      <4>2. images' \in [Tags -> Builds \cup {Old, None}] /\ tagNext' \in [Builds -> Nat]
        BY <3>3, <1>t
      <4> QED
        BY <3>2, <3>3, <4>1, <4>2
    <3>4. ASSUME NEW l \in {"delete", "cleanup"}, NEW o \in {outcome[b], "error"},
                 pc' = [pc EXCEPT ![b] = l], outcome' = [outcome EXCEPT ![b] = o],
                 UNCHANGED <<images, tagNext>>
          PROVE  Types'
      BY <3>2, <3>4
    <3> QED
      BY <3>1, <3>3, <3>4
  <2>11. CASE DeleteTag(b)
    BY <2>11, ZenonT(30) DEF DeleteTag
  <2>12. CASE RecreateTag(b)
    <3>1. \/ Tagged(b) /\ UNCHANGED outcome
          \/ \E l \in {"delete", "cleanup"}, o \in {outcome[b], "error"} :
                /\ pc' = [pc EXCEPT ![b] = l]
                /\ outcome' = [outcome EXCEPT ![b] = o]
                /\ UNCHANGED <<images, tagNext>>
      BY <2>12 DEF RecreateTag
    <3>2. UNCHANGED <<options, entries, tempDir, processVars, tagImage, responseVars, helper>>
      BY <2>12 DEF RecreateTag
    <3>3. CASE Tagged(b) /\ UNCHANGED outcome
      <4>1. PICK l \in {"create", "events"} : pc' = [pc EXCEPT ![b] = l]
        BY <3>3, <1>t
      <4>2. images' \in [Tags -> Builds \cup {Old, None}] /\ tagNext' \in [Builds -> Nat]
        BY <3>3, <1>t
      <4> QED
        BY <3>2, <3>3, <4>1, <4>2
    <3>4. ASSUME NEW l \in {"delete", "cleanup"}, NEW o \in {outcome[b], "error"},
                 pc' = [pc EXCEPT ![b] = l], outcome' = [outcome EXCEPT ![b] = o],
                 UNCHANGED <<images, tagNext>>
          PROVE  Types'
      BY <3>2, <3>4
    <3> QED
      BY <3>1, <3>3, <3>4
  <2>13. CASE PublishTagEvents(b)
    <3>1. header' \in [Builds -> {"none", "ok", "error"}]
          /\ sent' \in [Builds -> SUBSET {"stdout", "stderr", "aux", "error"}]
      <4>1. Write(b, "stdout") \/ UNCHANGED responseVars
        BY <2>13, Zenon DEF PublishTagEvents
      <4> QED
        BY <4>1, WriteTyped
    <3>2. pc' = [pc EXCEPT ![b] = "cleanup"]
          /\ \E o \in {"ok", "error"} : outcome' = [outcome EXCEPT ![b] = o]
      BY <2>13, Zenon DEF PublishTagEvents
    <3> QED
      BY <2>13, <3>1, <3>2 DEF PublishTagEvents
  <2>14. CASE Cleanup(b)
    BY <2>14 DEF Cleanup
  <2>15. CASE SendResult(b)
    BY <2>15, WriteTyped DEF SendResult
  <2>16. CASE RemoveCredentials(b)
    BY <2>16 DEF RemoveCredentials, NoEntry
  <2> QED
    BY <2>1, <2>2, <2>3, <2>4, <2>5, <2>6, <2>7, <2>8, <2>9, <2>10, <2>11, <2>12, <2>13, <2>14,
       <2>15, <2>16 DEF Handler
<1>3. ASSUME NEW b \in Builds, Environment(b) PROVE Types'
  <2>1. CASE BuildctlLog(b)
    BY <2>1 DEF BuildctlLog, Write
  <2>2. CASE BuildctlExit(b)
    <3>1. images' \in [Tags -> Builds \cup {Old, None}]
      <4>1. images' = images \/ images' = Named(b)
        BY <2>2, Zenon DEF BuildctlExit
      <4> QED
        BY <4>1, <1>i, <1>n, ZenonT(30)
    <3> QED
      BY <2>2, <3>1 DEF BuildctlExit
  <2>3. ASSUME NEW a \in Addresses, HelperGet(b, a) PROVE Types'
    BY <2>3 DEF HelperGet
  <2>4. CASE GetCredentials(b)
    <3>1. ASSUME NEW a \in entries[b].credentials, helper' = [helper EXCEPT ![b].answer = a]
          PROVE  helper' \in [Builds -> [server : Addresses \cup {None}, answer : Addresses \cup {None}]]
      BY <3>1, ZenonT(30)
    <3>2. ASSUME helper' = [helper EXCEPT ![b] = [server |-> None, answer |-> None]]
          PROVE  helper' \in [Builds -> [server : Addresses \cup {None}, answer : Addresses \cup {None}]]
      BY <3>2
    <3>3. helper' \in [Builds -> [server : Addresses \cup {None}, answer : Addresses \cup {None}]]
      BY <2>4, <3>1, <3>2, Zenon DEF GetCredentials
    <3> QED
      BY <2>4, <3>3 DEF GetCredentials
  <2>5. CASE HelperExit(b)
    BY <2>5 DEF HelperExit
  <2> QED
    BY <1>3, <2>1, <2>2, <2>3, <2>4, <2>5 DEF Environment
<1> QED
  BY <1>1, <1>2, <1>3 DEF Next

(* Every variable keeps its type, whatever fails. *)
THEOREM TypeCorrect == Spec => []TypeOK
<1>1. Types => TypeOK
  BY DEF Types
<1> QED
  BY <1>1, InitTypes, NextTypes, PTL DEF Spec

-----------------------------------------------------------------------------
(* The steps of Next, for the proofs that take them one by one. *)
LEMMA Steps ==
    ASSUME Next
    PROVE  \E b \in Builds :
              \/ Decode(b) \/ StoreAuthConfigs(b) \/ GetBuildOptions(b)
              \/ ExtractInTemp(b) \/ ExtractContext(b)
              \/ StartBuildctl(b) \/ LoadImage(b) \/ Wait(b)
              \/ GetImage(b) \/ CreateTag(b) \/ DeleteTag(b) \/ RecreateTag(b)
              \/ PublishTagEvents(b) \/ Cleanup(b) \/ SendResult(b) \/ RemoveCredentials(b)
              \/ BuildctlLog(b) \/ BuildctlExit(b)
              \/ \E a \in Addresses : HelperGet(b, a)
              \/ GetCredentials(b) \/ HelperExit(b)
BY Zenon DEF Next, Handler, Environment

(* A step of the handler of b that leaves the cache alone goes to none of the
   places where the cache must be empty, and it moves b only. *)
Moves(b) ==
    /\ entries' = entries /\ options' = options
    /\ \E l \in HandlerPCs \ {"start", "done"} :
          /\ pc' = [pc EXCEPT ![b] = l]
          /\ l = "store" => pc[b] = "start"

(* Such a step keeps the cache scoped. *)
LEMMA CachePreserved ==
    ASSUME Types, CredentialsScoped, NEW b \in Builds, Moves(b)
    PROVE  CredentialsScoped'
BY DEF Types, TypeOK, Options, CredentialsScoped, Moves, Entry, NoEntry

(* The step from one state to the next keeps the cache scoped. *)
LEMMA NextScoped == Types /\ CredentialsScoped /\ [Next]_vars => CredentialsScoped'
<1> SUFFICES ASSUME Types, CredentialsScoped, [Next]_vars PROVE CredentialsScoped'
  OBVIOUS
<1>1. CASE UNCHANGED vars
  BY <1>1 DEF vars, CredentialsScoped
<1>2. CASE Next
  <2>1. PICK b \in Builds :
              \/ Decode(b) \/ StoreAuthConfigs(b) \/ GetBuildOptions(b)
              \/ ExtractInTemp(b) \/ ExtractContext(b)
              \/ StartBuildctl(b) \/ LoadImage(b) \/ Wait(b)
              \/ GetImage(b) \/ CreateTag(b) \/ DeleteTag(b) \/ RecreateTag(b)
              \/ PublishTagEvents(b) \/ Cleanup(b) \/ SendResult(b) \/ RemoveCredentials(b)
              \/ BuildctlLog(b) \/ BuildctlExit(b)
              \/ \E a \in Addresses : HelperGet(b, a)
              \/ GetCredentials(b) \/ HelperExit(b)
    BY <1>2, Steps
  <2>2. CASE StoreAuthConfigs(b)
    BY <2>2 DEF StoreAuthConfigs, Goto, Types, TypeOK, Options, CredentialsScoped
  <2>3. CASE RemoveCredentials(b)
    BY <2>3 DEF RemoveCredentials, Goto, Types, TypeOK, Options, CredentialsScoped
  <2>4. CASE BuildctlLog(b) \/ BuildctlExit(b) \/ (\E a \in Addresses : HelperGet(b, a))
             \/ GetCredentials(b) \/ HelperExit(b)
    <3>1. UNCHANGED <<pc, entries, options>>
      BY <2>4, Zenon DEF BuildctlLog, BuildctlExit, HelperGet, GetCredentials, HelperExit
    <3> QED
      BY <3>1 DEF CredentialsScoped
  <2>5. CASE Decode(b)
    <3>1. Moves(b)
      BY <2>5, Zenon DEF Decode, Moves, Goto, Fail, HandlerPCs
    <3> QED
      BY <3>1, CachePreserved
  <2>6. CASE GetBuildOptions(b) \/ ExtractInTemp(b) \/ ExtractContext(b)
    <3>1. Moves(b)
      BY <2>6 DEF GetBuildOptions, ExtractInTemp, ExtractContext, Moves, Goto, Fail, HandlerPCs
    <3> QED
      BY <3>1, CachePreserved
  <2>7. CASE StartBuildctl(b) \/ LoadImage(b) \/ Wait(b)
    <3>1. Moves(b)
      BY <2>7 DEF StartBuildctl, LoadImage, Wait, Moves, Goto, Fail, HandlerPCs
    <3> QED
      BY <3>1, CachePreserved
  <2>8. CASE GetImage(b) \/ CreateTag(b) \/ DeleteTag(b) \/ RecreateTag(b)
    <3>1. Moves(b)
      BY <2>8 DEF GetImage, CreateTag, DeleteTag, RecreateTag, Tagged, Moves, Goto, Fail, HandlerPCs
    <3> QED
      BY <3>1, CachePreserved
  <2>9. CASE PublishTagEvents(b) \/ Cleanup(b) \/ SendResult(b)
    <3>1. Moves(b)
      BY <2>9 DEF PublishTagEvents, Cleanup, SendResult, Moves, Goto, Fail, HandlerPCs
    <3> QED
      BY <3>1, CachePreserved
  <2> QED
    BY <2>1, <2>2, <2>3, <2>4, <2>5, <2>6, <2>7, <2>8, <2>9
<1> QED
  BY <1>1, <1>2

(* The cache holds credentials only of builds whose handler runs, and theirs. *)
THEOREM CredentialsScopedHold == Spec => []CredentialsScoped
<1>1. Init => CredentialsScoped
  BY DEF Init, CredentialsScoped
<1> QED
  BY <1>1, InitTypes, NextTypes, NextScoped, PTL DEF Spec

-----------------------------------------------------------------------------
(* What ServedMatches says of one answer. *)
Matches(server, answer, creds) ==
    LET s == Parse[server]
        t == Parse[answer]
    IN  /\ answer \in creds
        /\ s = None => answer = server
        /\ s # None =>
              /\ t # None /\ t.host = s.host
              /\ s.port # Empty => t.port = s.port
              /\ s.path # Empty => t.path = s.path
              /\ (\E a \in creds : Parse[a] = s) => t = s

(* getTarget, for every server and every set of credentials. *)
LEMMA TargetMatches ==
    ASSUME NEW server, NEW creds, NEW a \in GetTarget(server, creds) \cap creds
    PROVE  Matches(server, a, creds)
<1> DEFINE s == Parse[server]
           urls == {x \in creds : Parse[x] # None}
           exact == {x \in urls : Parse[x] = s}
<1>1. CASE s = None
  <2>1. a = server
    BY <1>1 DEF GetTarget
  <2> QED
    BY <1>1, <2>1 DEF Matches
<1>2. CASE s # None /\ exact # {}
  <2>1. a \in exact
    BY <1>2 DEF GetTarget
  <2>2. Parse[a] = s /\ Parse[a] # None
    BY <2>1
  <2> QED
    BY <1>2, <2>2 DEF Matches
<1>3. CASE s # None /\ exact = {}
  <2>1. a \in urls /\ ApproximateMatch(s, Parse[a])
    BY <1>3 DEF GetTarget
  <2>2. Parse[a].host = s.host
        /\ (s.port # Empty => Parse[a].port = s.port)
        /\ (s.path # Empty => Parse[a].path = s.path)
    BY <2>1 DEF ApproximateMatch
  <2>3. ~\E x \in creds : Parse[x] = s
    BY <1>3
  <2> QED
    BY <1>3, <2>1, <2>2, <2>3 DEF Matches
<1> QED
  BY <1>1, <1>2, <1>3

(* What a build asks for stays, and only the helper's steps change the helper. *)
LEMMA Frame ==
    ASSUME [Next]_vars
    PROVE  /\ options' = options
           /\ \/ helper' = helper
              \/ \E b \in Builds : \/ \E a \in Addresses : HelperGet(b, a)
                                   \/ GetCredentials(b) \/ HelperExit(b)
<1>1. CASE UNCHANGED vars
  BY <1>1 DEF vars
<1>2. CASE Next
  <2>1. PICK b \in Builds : Handler(b) \/ Environment(b)
    BY <1>2 DEF Next
  <2>2. CASE Handler(b)
    BY <2>2, Zenon DEF Handler, Decode, StoreAuthConfigs, GetBuildOptions, ExtractInTemp,
       ExtractContext, StartBuildctl, LoadImage, Wait, GetImage, CreateTag, DeleteTag, RecreateTag,
       PublishTagEvents, Cleanup, SendResult, RemoveCredentials
  <2>3. CASE Environment(b)
    BY <2>3, Zenon DEF Environment, BuildctlLog, BuildctlExit, HelperGet, GetCredentials, HelperExit
  <2> QED
    BY <2>1, <2>2, <2>3
<1> QED
  BY <1>1, <1>2

(* Every step keeps what was served matching what was asked. *)
LEMMA NextServed ==
    Types /\ CredentialsScoped /\ ServedMatches /\ [Next]_vars => ServedMatches'
<1> SUFFICES ASSUME Types, CredentialsScoped, ServedMatches, [Next]_vars,
                    NEW c \in Builds, helper'[c].answer # None
             PROVE  Matches(helper'[c].server, helper'[c].answer, options'[c].creds)
  BY DEF ServedMatches, Matches
<1>1. options' = options
  BY Frame
<1>h. helper \in [Builds -> [server : Addresses \cup {None}, answer : Addresses \cup {None}]]
  BY DEF Types, TypeOK, Options
<1>2. CASE helper'[c] = helper[c]
  BY <1>1, <1>2 DEF ServedMatches, Matches
<1>3. ASSUME NEW b \in Builds, NEW a \in Addresses, HelperGet(b, a), helper'[c] # helper[c]
      PROVE  FALSE
  <2>1. helper' = [helper EXCEPT ![b].server = a]
    BY <1>3 DEF HelperGet
  <2>2. c = b
    BY <1>3, <1>h, <2>1
  <2>3. helper[b] = [server |-> None, answer |-> None]
    BY <1>3, Zenon DEF HelperGet
  <2> QED
    BY <1>h, <2>1, <2>2, <2>3
<1>4. ASSUME NEW b \in Builds, HelperExit(b), helper'[c] # helper[c] PROVE FALSE
  BY <1>4 DEF HelperExit, Types, TypeOK, Options
<1>5. ASSUME NEW b \in Builds, GetCredentials(b), helper'[c] # helper[c]
      PROVE  Matches(helper'[c].server, helper'[c].answer, options[c].creds)
  <2> DEFINE creds == entries[b].credentials
             targets == GetTarget(helper[b].server, creds) \cap creds
  <2>1. \/ \E a \in targets : helper' = [helper EXCEPT ![b].answer = a]
        \/ helper' = [helper EXCEPT ![b] = [server |-> None, answer |-> None]]
    BY <1>5, Zenon DEF GetCredentials
  <2>2. helper' # [helper EXCEPT ![b] = [server |-> None, answer |-> None]]
    BY <1>5, <1>h
  <2>3. PICK a \in targets : helper' = [helper EXCEPT ![b].answer = a]
    BY <2>1, <2>2, Zenon
  <2> HIDE DEF targets
  <2>4. c = b /\ helper'[c].server = helper[b].server /\ helper'[c].answer = a
    BY <1>5, <1>h, <2>3
  <2> USE DEF targets
  <2>5. Matches(helper[b].server, a, creds)
    BY <2>3, TargetMatches
  <2>6. creds = options[b].creds
    <3>1. entries[b] # NoEntry
      BY <2>3 DEF NoEntry
    <3>2. entries[b] = [known |-> TRUE, credentials |-> options[b].creds]
      BY <3>1, Zenon DEF CredentialsScoped, Entry
    <3> QED
      BY <3>2
  <2> QED
    BY <2>4, <2>5, <2>6
<1> QED
  BY <1>1, <1>2, <1>3, <1>4, <1>5, Frame

(* The helper is served credentials of the registry it asks for, whatever
   addresses the credentials are kept under and in whatever order. *)
THEOREM ServedMatchesHold == Spec => []ServedMatches
<1>1. Init => ServedMatches
  BY DEF Init, ServedMatches
<1>2. Init => CredentialsScoped
  BY DEF Init, CredentialsScoped
<1> QED
  BY <1>1, <1>2, InitTypes, NextTypes, NextScoped, NextServed, PTL DEF Spec

-----------------------------------------------------------------------------
(* Before RunBuild has started buildctl, and after service.Build is over. *)
Early == {"start", "store", "options", "extract", "tar", "buildctl"}
Late  == {"cleanup", "answer", "return", "done"}

(* A step of the handler of b that is not about buildctl. *)
Apart(b, l, o) ==
    /\ UNCHANGED <<options, buildctl, reaped>>
    /\ pc' = [pc EXCEPT ![b] = l]
    /\ outcome' = [outcome EXCEPT ![b] = o]
    /\ pc[b] \notin {"load", "wait"}
    /\ l # "load"
    /\ l \in Early => pc[b] \in Early
    /\ pc[b] \in Late => l \in Late /\ o = outcome[b]

(* Such a step keeps the invariant. *)
LEMMA ApartKeeps ==
    ASSUME Types, ProcessInv, NEW b \in Builds, NEW l, NEW o, Apart(b, l, o) PROVE ProcessInv'
BY DEF Types, TypeOK, Options, ProcessInv, Unreaped, NotStarted, Apart, Early, Late

(* Only RunBuild's steps, and the end of buildctl, are about buildctl. *)
LEMMA OthersApart ==
    ASSUME Types, NEW b \in Builds, Handler(b),
           ~StartBuildctl(b), ~LoadImage(b), ~Wait(b)
    PROVE  \E l \in HandlerPCs, o \in {outcome[b], "ok", "error"} : Apart(b, l, o)
<1>o. outcome = [outcome EXCEPT ![b] = outcome[b]]
  BY DEF Types, TypeOK, Options
<1> USE <1>o DEF Apart, Goto, Fail, processVars, imageVars, HandlerPCs, Early, Late
<1>1. CASE Decode(b)
  <2>1. /\ pc[b] = "start" /\ UNCHANGED <<options, buildctl, reaped>>
        /\ \/ pc' = [pc EXCEPT ![b] = "options"] /\ outcome' = outcome
           \/ pc' = [pc EXCEPT ![b] = "store"] /\ outcome' = outcome
           \/ Fail(b, "answer")
    BY <1>1, Zenon DEF Decode
  <2> QED
    BY <2>1
<1>2. CASE StoreAuthConfigs(b) \/ GetBuildOptions(b) \/ ExtractInTemp(b) \/ ExtractContext(b)
  BY <1>2 DEF StoreAuthConfigs, GetBuildOptions, ExtractInTemp, ExtractContext
<1>3. CASE GetImage(b) \/ DeleteTag(b)
  BY <1>3 DEF GetImage, DeleteTag
<1>4. CASE CreateTag(b) \/ RecreateTag(b)
  <2>1. /\ pc[b] \in {"create", "recreate"} /\ UNCHANGED <<options, buildctl, reaped>>
        /\ \/ pc' = [pc EXCEPT ![b] = "events"] /\ outcome' = outcome
           \/ pc' = [pc EXCEPT ![b] = "create"] /\ outcome' = outcome
           \/ pc' = [pc EXCEPT ![b] = "delete"] /\ outcome' = outcome
           \/ Fail(b, "cleanup")
    BY <1>4, Zenon DEF CreateTag, RecreateTag, Tagged
  <2> QED
    BY <2>1
<1>5. CASE PublishTagEvents(b)
  <2>1. /\ pc[b] = "events" /\ UNCHANGED <<options, buildctl, reaped>>
        /\ pc' = [pc EXCEPT ![b] = "cleanup"]
        /\ outcome' = [outcome EXCEPT ![b] = "ok"] \/ outcome' = [outcome EXCEPT ![b] = "error"]
    BY <1>5, Zenon DEF PublishTagEvents
  <2> QED
    BY <2>1
<1>6. CASE Cleanup(b) \/ SendResult(b) \/ RemoveCredentials(b)
  BY <1>6 DEF Cleanup, SendResult, RemoveCredentials
<1> QED
  BY <1>1, <1>2, <1>3, <1>4, <1>5, <1>6, Zenon DEF Handler

(* A build that a step leaves alone keeps its part of the invariant. *)
LEMMA OtherBuild ==
    ASSUME ProcessInv, NEW c \in Builds, options' = options,
           pc'[c] = pc[c], outcome'[c] = outcome[c], buildctl'[c] = buildctl[c],
           c \in reaped' <=> c \in reaped
    PROVE  Unreaped(c)' /\ NotStarted(c)'
BY DEF ProcessInv, Unreaped, NotStarted

(* The step from one state to the next keeps the invariant. *)
LEMMA NextProcess == Types /\ ProcessInv /\ [Next]_vars => ProcessInv'
<1> SUFFICES ASSUME Types, ProcessInv, [Next]_vars PROVE ProcessInv'
  OBVIOUS
<1>t. /\ pc \in [Builds -> HandlerPCs]
      /\ buildctl \in [Builds -> {"none", "running", "ok", "failed"}]
      /\ outcome \in [Builds -> {"none", "ok", "error"}]
      /\ options \in [Builds -> [creds : CredSets, output : {"load", "image", "elsewhere"}, quiet : BOOLEAN, tags : TagLists]]
  BY DEF Types, TypeOK, Options
<1>1. CASE UNCHANGED vars
  BY <1>1 DEF vars, ProcessInv, Unreaped, NotStarted
<1>2. ASSUME NEW b \in Builds, Handler(b) PROVE ProcessInv'
  <2>1. CASE StartBuildctl(b)
    <3>1. /\ pc[b] = "buildctl" /\ UNCHANGED <<options, reaped>>
          /\ \/ /\ buildctl' = [buildctl EXCEPT ![b] = "running"] /\ outcome' = outcome
                /\ \/ options[b].output = "load" /\ pc' = [pc EXCEPT ![b] = "load"]
                   \/ pc' = [pc EXCEPT ![b] = "wait"]
             \/ buildctl' = buildctl /\ Fail(b, "cleanup")
      BY <2>1, Zenon DEF StartBuildctl, Goto
    <3>2. ASSUME NEW c \in Builds, c # b PROVE Unreaped(c)' /\ NotStarted(c)'
      BY <3>1, <3>2, <1>t, OtherBuild DEF Fail, Goto
    <3>3. Unreaped(b)' /\ NotStarted(b)'
      <4>1. CASE buildctl' = buildctl /\ Fail(b, "cleanup")
        <5>1. buildctl'[b] = "none" /\ pc'[b] = "cleanup"
          BY <3>1, <4>1, <1>t DEF Fail, Goto, ProcessInv, NotStarted
        <5> QED
          BY <5>1 DEF Unreaped, NotStarted
      <4>2. CASE pc' = [pc EXCEPT ![b] = "wait"]
        <5>1. pc'[b] = "wait"
          BY <4>2, <1>t
        <5> QED
          BY <5>1 DEF Unreaped, NotStarted
      <4>3. CASE options[b].output = "load" /\ pc' = [pc EXCEPT ![b] = "load"]
        <5>1. pc'[b] = "load" /\ options'[b].output = "load"
          BY <3>1, <4>3, <1>t
        <5> QED
          BY <5>1 DEF Unreaped, NotStarted
      <4> QED
        BY <3>1, <4>1, <4>2, <4>3
    <3> QED
      BY <3>2, <3>3 DEF ProcessInv
  <2>2. CASE LoadImage(b)
    <3>1. /\ pc[b] = "load" /\ UNCHANGED <<options, buildctl, reaped>>
          /\ \/ outcome' = outcome /\ pc' = [pc EXCEPT ![b] = "wait"]
             \/ /\ pc' = [pc EXCEPT ![b] = "cleanup"]
                /\ outcome' = [outcome EXCEPT ![b] = "error"]
      BY <2>2, Zenon DEF LoadImage, Goto, Fail, processVars
    <3>2. ASSUME NEW c \in Builds, c # b PROVE Unreaped(c)' /\ NotStarted(c)'
      BY <3>1, <3>2, <1>t, OtherBuild
    <3>3. options'[b].output = "load"
      BY <3>1 DEF ProcessInv, NotStarted
    <3>4. \/ pc'[b] = "wait"
          \/ pc'[b] = "cleanup" /\ outcome'[b] = "error"
      BY <3>1, <1>t
    <3>5. Unreaped(b)' /\ NotStarted(b)'
      BY <3>3, <3>4 DEF Unreaped, NotStarted
    <3> QED
      BY <3>2, <3>5 DEF ProcessInv
  <2>3. CASE Wait(b)
    <3>1. /\ reaped' = reaped \cup {b} /\ UNCHANGED <<options, buildctl>>
          /\ \E l \in {"tag", "events", "cleanup"} : pc' = [pc EXCEPT ![b] = l]
          /\ outcome' = outcome \/ outcome' = [outcome EXCEPT ![b] = "error"]
      BY <2>3, Zenon DEF Wait, Goto, Fail
    <3>2. ASSUME NEW c \in Builds, c # b PROVE Unreaped(c)' /\ NotStarted(c)'
      BY <3>1, <3>2, <1>t, OtherBuild
    <3>3. b \in reaped' /\ pc'[b] \in {"tag", "events", "cleanup"}
      BY <3>1, <1>t
    <3>4. Unreaped(b)' /\ NotStarted(b)'
      BY <3>3 DEF Unreaped, NotStarted
    <3> QED
      BY <3>2, <3>4 DEF ProcessInv
  <2>4. CASE ~StartBuildctl(b) /\ ~LoadImage(b) /\ ~Wait(b)
    BY <1>2, <2>4, OthersApart, ApartKeeps
  <2> QED
    BY <2>1, <2>2, <2>3, <2>4
<1>3. ASSUME NEW b \in Builds, Environment(b) PROVE ProcessInv'
  <2>1. CASE BuildctlExit(b)
    BY <2>1, <1>t DEF BuildctlExit, ProcessInv, Unreaped, NotStarted
  <2>2. CASE ~BuildctlExit(b)
    <3>1. UNCHANGED <<pc, options, buildctl, reaped, outcome>>
      BY <1>3, <2>2, Zenon DEF Environment, BuildctlLog, HelperGet, GetCredentials, HelperExit,
         processVars
    <3> QED
      BY <3>1 DEF ProcessInv, Unreaped, NotStarted
  <2> QED
    BY <2>1, <2>2
<1> QED
  BY <1>1, <1>2, <1>3 DEF Next

(* A started buildctl is waited for unless the load of its image failed. *)
THEOREM UnreapedOnlyByLoadFailureHolds == Spec => []UnreapedOnlyByLoadFailure
<1>1. Init => ProcessInv
  BY DEF Init, ProcessInv, Unreaped, NotStarted
<1>2. ProcessInv => UnreapedOnlyByLoadFailure
  BY DEF ProcessInv, Unreaped, UnreapedOnlyByLoadFailure
<1> QED
  BY <1>1, <1>2, InitTypes, NextTypes, NextProcess, PTL DEF Spec

-----------------------------------------------------------------------------
(* A temporary directory belongs to a build in service.Build. *)
TempInv == \A b \in tempDir : pc[b] \in InService

(* The two calls that can leave the directory behind do not fail. *)
RemovalWorks == "FindTarBinary" \notin MayFail /\ "RemoveAll" \notin MayFail

(* A step of the handler of b as TempInv sees it. *)
TempStep(b) ==
    \E l \in HandlerPCs :
        /\ pc' = [pc EXCEPT ![b] = l]
        /\ \/ tempDir' = tempDir /\ (pc[b] \in InService => l \in InService)
           \/ tempDir' = tempDir \cup {b} /\ l \in InService
           \/ tempDir' = tempDir \ {b}

(* Every step of a handler is of that form. *)
LEMMA HandlerTempStep ==
    ASSUME RemovalWorks, NEW b \in Builds, Handler(b) PROVE TempStep(b)
<1> USE DEF TempStep, Goto, Fail, InService, HandlerPCs
<1>1. CASE Decode(b)
  BY <1>1, Zenon DEF Decode
<1>2. CASE StoreAuthConfigs(b) \/ GetBuildOptions(b) \/ ExtractContext(b)
  BY <1>2 DEF StoreAuthConfigs, GetBuildOptions, ExtractContext
<1>3. CASE ExtractInTemp(b)
  BY <1>3 DEF ExtractInTemp, RemovalWorks, Fails
<1>4. CASE StartBuildctl(b)
  BY <1>4, Zenon DEF StartBuildctl
<1>5. CASE LoadImage(b) \/ GetImage(b) \/ DeleteTag(b)
  BY <1>5 DEF LoadImage, GetImage, DeleteTag
<1>6. CASE Wait(b)
  BY <1>6, Zenon DEF Wait
<1>7. CASE CreateTag(b) \/ RecreateTag(b)
  <2>1. /\ tempDir' = tempDir
        /\ \E l \in {"create", "delete", "events", "cleanup"} : pc' = [pc EXCEPT ![b] = l]
    BY <1>7, Zenon DEF CreateTag, RecreateTag, Tagged
  <2> QED
    BY <2>1
<1>8. CASE PublishTagEvents(b)
  <2>1. tempDir' = tempDir /\ pc' = [pc EXCEPT ![b] = "cleanup"]
    BY <1>8, Zenon DEF PublishTagEvents
  <2> QED
    BY <2>1
<1>9. CASE Cleanup(b)
  BY <1>9 DEF Cleanup, RemovalWorks, Fails
<1>10. CASE SendResult(b) \/ RemoveCredentials(b)
  BY <1>10 DEF SendResult, RemoveCredentials
<1> QED
  BY <1>1, <1>2, <1>3, <1>4, <1>5, <1>6, <1>7, <1>8, <1>9, <1>10, Zenon DEF Handler

(* The step from one state to the next keeps the invariant. *)
LEMMA NextTemp ==
    ASSUME RemovalWorks PROVE Types /\ TempInv /\ [Next]_vars => TempInv'
<1> SUFFICES ASSUME Types, TempInv, [Next]_vars PROVE TempInv'
  OBVIOUS
<1>1. CASE UNCHANGED vars
  BY <1>1 DEF vars, TempInv
<1>2. ASSUME NEW b \in Builds, Handler(b) PROVE TempInv'
  <2>1. TempStep(b)
    BY <1>2, HandlerTempStep
  <2>2. pc \in [Builds -> HandlerPCs] /\ tempDir \subseteq Builds
    BY DEF Types, TypeOK, Options
  <2>3. PICK l \in HandlerPCs :
            /\ pc' = [pc EXCEPT ![b] = l]
            /\ \/ tempDir' = tempDir /\ (pc[b] \in InService => l \in InService)
               \/ tempDir' = tempDir \cup {b} /\ l \in InService
               \/ tempDir' = tempDir \ {b}
    BY <2>1 DEF TempStep
  <2>4. ASSUME NEW c \in tempDir' PROVE pc'[c] \in InService
    BY <2>2, <2>3, <2>4 DEF TempInv
  <2> QED
    BY <2>4 DEF TempInv
<1>3. ASSUME NEW b \in Builds, Environment(b) PROVE TempInv'
  <2>1. UNCHANGED <<pc, tempDir>>
    BY <1>3, Zenon DEF Environment, BuildctlLog, BuildctlExit, HelperGet, GetCredentials, HelperExit
  <2> QED
    BY <2>1 DEF TempInv
<1> QED
  BY <1>1, <1>2, <1>3 DEF Next

(* The build context is gone when a request is over, on every error path,
   unless tar is missing or the removal itself fails. *)
THEOREM TempDirRemovedHolds == ASSUME RemovalWorks PROVE Spec => []TempDirRemoved
<1>1. Init => TempInv
  BY DEF Init, TempInv
<1>2. Types /\ TempInv => TempDirRemoved
  BY DEF Types, TypeOK, Options, TempInv, TempDirRemoved, InService
<1>3. Types /\ TempInv /\ [Next]_vars => TempInv'
  BY NextTemp
<1> QED
  BY <1>1, <1>2, <1>3, InitTypes, NextTypes, PTL DEF Spec

-----------------------------------------------------------------------------
(* Where RunBuild gives the image its further tags. *)
Looping == {"create", "delete", "recreate"}

(* A build has an outcome once RunBuild, or what comes before, is over.  An
   image was loaded only if buildctl ended well.  The loop over the tags starts
   at the second, has an image to give, and stays within the list. *)
Loop(b) ==
    /\ outcome[b] # "none" <=> pc[b] \in Late
    /\ pc[b] \in Early \cup {"load", "wait", "tag"} => tagNext[b] = 2
    /\ pc[b] = "wait" /\ options[b].output = "load" => buildctl[b] = "ok"
    /\ pc[b] = "tag" => Len(options[b].tags) > 1
    /\ pc[b] \in Looping => tagNext[b] \in 2..Len(options[b].tags) /\ tagImage[b] # None

LoopInv == \A b \in Builds : Loop(b)

(* An error is written by the handler, at its end, as FailureReported says; a
   buildctl that was waited for has ended. *)
Report(b) ==
    /\ header[b] = "none" => sent[b] = {}
    /\ pc[b] \notin {"return", "done"} => "error" \notin sent[b] /\ header[b] # "error"
    /\ b \in reaped => buildctl[b] \in {"ok", "failed"}
    /\ pc[b] \in {"return", "done"} =>
          /\ ("error" \in sent[b]) <=> (outcome[b] # "ok")
          /\ header[b] = "error" => sent[b] = {"error"} \/ (b \notin reaped /\ options[b].output = "load")

ReportInv == \A b \in Builds : Report(b)

(* What the tags of a build name, as long as no other build uses them: the
   first its image once buildctl has exported or the daemon has loaded it, the
   ones the loop has passed too, except for the one it is about to create again. *)
OwnTags(b) ==
    /\ pc[b] = "wait" /\ buildctl[b] = "ok" /\ options[b].tags # <<>> =>
          images[Head(options[b].tags)] = b
    /\ pc[b] = "tag" => images[Head(options[b].tags)] = b
    /\ pc[b] \in Looping =>
          /\ tagImage[b] = b
          /\ \A i \in 1..tagNext[b] - 1 :
                \/ images[options[b].tags[i]] = b
                \/ pc[b] = "recreate" /\ options[b].tags[i] = NextTag(b)
    /\ pc[b] = "events" \/ outcome[b] = "ok" =>
          \A i \in 1..Len(options[b].tags) : images[options[b].tags[i]] = b

(* The image of a build goes to the store at all. *)
Stored(b) == options[b].output # "elsewhere"

OwnInv == \A b \in Builds : Alone(b) /\ Stored(b) => OwnTags(b)

(* The list of a build's tags. *)
LEMMA TagsTyped ==
    ASSUME TypeOK, NEW b \in Builds
    PROVE  /\ options[b].tags \in Seq(Tags)
           /\ Len(options[b].tags) \in Nat
           /\ \A i \in 1..Len(options[b].tags) : options[b].tags[i] \in Tags
           /\ options[b].tags # <<>> => /\ Len(options[b].tags) >= 1
                                       /\ Head(options[b].tags) = options[b].tags[1]
<1>1. options[b].tags \in Seq(Tags)
  BY BuildAssumption DEF TypeOK, Options
<1> QED
  BY <1>1

(* A step of the handler of b leaves every other build alone. *)
Aside(b) ==
    /\ options' = options
    /\ \A c \in Builds \ {b} :
          /\ pc'[c] = pc[c] /\ outcome'[c] = outcome[c] /\ buildctl'[c] = buildctl[c]
          /\ tagNext'[c] = tagNext[c] /\ tagImage'[c] = tagImage[c]
          /\ header'[c] = header[c] /\ sent'[c] = sent[c]
          /\ c \in reaped' <=> c \in reaped

(* Every step of a handler is of that form. *)
LEMMA HandlerAside == ASSUME Types, NEW b \in Builds, Handler(b) PROVE Aside(b)
<1> USE DEF Aside, Goto, Fail, processVars, imageVars, responseVars, Types, TypeOK
<1>1. CASE Decode(b)
  BY <1>1 DEF Decode
<1>2. CASE StoreAuthConfigs(b)
  BY <1>2 DEF StoreAuthConfigs
<1>3. CASE GetBuildOptions(b)
  BY <1>3 DEF GetBuildOptions
<1>4. CASE ExtractInTemp(b)
  BY <1>4 DEF ExtractInTemp
<1>5. CASE ExtractContext(b)
  BY <1>5 DEF ExtractContext
<1>6. CASE StartBuildctl(b)
  BY <1>6 DEF StartBuildctl
<1>7. CASE LoadImage(b)
  BY <1>7 DEF LoadImage, Write
<1>8. CASE Wait(b)
  BY <1>8 DEF Wait
<1>9. CASE GetImage(b)
  BY <1>9 DEF GetImage
<1>10. CASE CreateTag(b)
  BY <1>10 DEF CreateTag, Tagged
<1>11. CASE DeleteTag(b)
  BY <1>11 DEF DeleteTag
<1>12. CASE RecreateTag(b)
  BY <1>12 DEF RecreateTag, Tagged
<1>13. CASE PublishTagEvents(b)
  BY <1>13 DEF PublishTagEvents, Write
<1>14. CASE Cleanup(b)
  BY <1>14 DEF Cleanup
<1>15. CASE SendResult(b)
  BY <1>15 DEF SendResult, Write, WriteError
<1>16. CASE RemoveCredentials(b)
  BY <1>16 DEF RemoveCredentials
<1> QED
  BY <1>1, <1>2, <1>3, <1>4, <1>5, <1>6, <1>7, <1>8, <1>9, <1>10, <1>11, <1>12, <1>13,
     <1>14, <1>15, <1>16, Zenon DEF Handler

(* A step of the handler of b keeps the progress of b in order, one case per action. *)
LEMMA HandlerLoop == ASSUME Types, LoopInv, NEW b \in Builds, Handler(b) PROVE Loop(b)'
<1> USE DEF Goto, Fail, imageVars, processVars, Types, TypeOK, Early, Late, Looping, Loop
<1>a. Loop(b)
  BY DEF LoopInv
<1>b. Len(options[b].tags) \in Nat
  BY TagsTyped
<1>1. CASE Decode(b)
  BY <1>1, <1>a, <1>b DEF Decode
<1>2. CASE StoreAuthConfigs(b)
  BY <1>2, <1>a, <1>b DEF StoreAuthConfigs
<1>3. CASE GetBuildOptions(b)
  BY <1>3, <1>a, <1>b DEF GetBuildOptions
<1>4. CASE ExtractInTemp(b)
  BY <1>4, <1>a, <1>b DEF ExtractInTemp
<1>5. CASE ExtractContext(b)
  BY <1>5, <1>a, <1>b DEF ExtractContext
<1>6. CASE StartBuildctl(b)
  BY <1>6, <1>a, <1>b DEF StartBuildctl
<1>7. CASE LoadImage(b)
  BY <1>7, <1>a, <1>b DEF LoadImage
<1>8. CASE Wait(b)
  BY <1>8, <1>a, <1>b DEF Wait
<1>9. CASE GetImage(b)
  BY <1>9, <1>a, <1>b DEF GetImage
<1>10. CASE CreateTag(b)
  BY <1>10, <1>a, <1>b DEF CreateTag, Tagged
<1>11. CASE DeleteTag(b)
  BY <1>11, <1>a, <1>b DEF DeleteTag
<1>12. CASE RecreateTag(b)
  BY <1>12, <1>a, <1>b DEF RecreateTag, Tagged
<1>13. CASE PublishTagEvents(b)
  BY <1>13, <1>a, <1>b DEF PublishTagEvents
<1>14. CASE Cleanup(b)
  BY <1>14, <1>a, <1>b DEF Cleanup
<1>15. CASE SendResult(b)
  BY <1>15, <1>a, <1>b DEF SendResult
<1>16. CASE RemoveCredentials(b)
  BY <1>16, <1>a, <1>b DEF RemoveCredentials
<1> QED
  BY <1>1, <1>2, <1>3, <1>4, <1>5, <1>6, <1>7, <1>8, <1>9, <1>10, <1>11, <1>12, <1>13,
     <1>14, <1>15, <1>16, Zenon DEF Handler

(* A step of the handler of b keeps its response in order, one case per action. *)
LEMMA HandlerReport ==
    ASSUME Types, ProcessInv, LoopInv, ReportInv, NEW b \in Builds, Handler(b)
    PROVE  Report(b)'
<1> USE DEF Goto, Fail, processVars, responseVars, Types, TypeOK, Report
<1>a. Report(b) /\ Loop(b) /\ NotStarted(b)
  BY DEF LoopInv, ReportInv, ProcessInv
<1>1. CASE Decode(b)
  BY <1>1, <1>a DEF Decode
<1>2. CASE StoreAuthConfigs(b)
  BY <1>2, <1>a DEF StoreAuthConfigs
<1>3. CASE GetBuildOptions(b)
  BY <1>3, <1>a DEF GetBuildOptions
<1>4. CASE ExtractInTemp(b)
  BY <1>4, <1>a DEF ExtractInTemp
<1>5. CASE ExtractContext(b)
  BY <1>5, <1>a DEF ExtractContext
<1>6. CASE StartBuildctl(b)
  BY <1>6, <1>a DEF StartBuildctl, NotStarted
<1>7. CASE LoadImage(b)
  BY <1>7, <1>a DEF LoadImage, Write
<1>8. CASE Wait(b)
  BY <1>8, <1>a DEF Wait
<1>9. CASE GetImage(b)
  BY <1>9, <1>a DEF GetImage
<1>10. CASE CreateTag(b)
  BY <1>10, <1>a DEF CreateTag, Tagged
<1>11. CASE DeleteTag(b)
  BY <1>11, <1>a DEF DeleteTag
<1>12. CASE RecreateTag(b)
  BY <1>12, <1>a DEF RecreateTag, Tagged
<1>13. CASE PublishTagEvents(b)
  BY <1>13, <1>a DEF PublishTagEvents, Write
<1>14. CASE Cleanup(b)
  BY <1>14, <1>a DEF Cleanup
<1>15. CASE SendResult(b)
  BY <1>15, <1>a DEF SendResult, Write, WriteError, Loop, Late
<1>16. CASE RemoveCredentials(b)
  BY <1>16, <1>a DEF RemoveCredentials
<1> QED
  BY <1>1, <1>2, <1>3, <1>4, <1>5, <1>6, <1>7, <1>8, <1>9, <1>10, <1>11, <1>12, <1>13,
     <1>14, <1>15, <1>16, Zenon DEF Handler

(* The environment of a build changes its process, its log and its helper. *)
LEMMA EnvironmentSteps ==
    ASSUME NEW b \in Builds, Environment(b)
    PROVE  /\ UNCHANGED <<pc, options, tagNext, tagImage, outcome, reaped>>
           /\ \/ BuildctlExit(b) /\ UNCHANGED responseVars
              \/ BuildctlLog(b) /\ UNCHANGED <<images, buildctl>>
              \/ UNCHANGED <<images, buildctl, responseVars>>
BY DEF Environment, BuildctlLog, BuildctlExit, HelperGet, GetCredentials, HelperExit, processVars,
   imageVars

(* So does a step of the environment of any build: buildctl writes to the response
   of a build that returned only if its load failed. *)
LEMMA EnvironmentReport ==
    ASSUME Types, ProcessInv, LoopInv, ReportInv, NEW b \in Builds, Environment(b), NEW c \in Builds
    PROVE  Report(c)'
<1>a. /\ Report(c) /\ Unreaped(c)
      /\ UNCHANGED <<pc, options, outcome, reaped>>
  BY EnvironmentSteps DEF ReportInv, ProcessInv
<1>1. CASE BuildctlExit(b) /\ UNCHANGED responseVars
  <2>1. c \in reaped => buildctl'[c] \in {"ok", "failed"}
    BY <1>1, <1>a DEF BuildctlExit, Types, TypeOK, Report
  <2> QED
    BY <1>1, <1>a, <2>1 DEF Report, responseVars
<1>2. CASE BuildctlLog(b) /\ UNCHANGED <<images, buildctl>>
  <2>1. CASE c = b
    <3>1. buildctl[b] = "running" /\ b \notin reaped
      BY <1>2, <1>a, <2>1 DEF BuildctlLog, Report
    <3>2. pc[b] \in {"return", "done"} => options[b].output = "load"
      BY <3>1, <1>a, <2>1 DEF Unreaped
    <3>3. /\ header'[b] = IF header[b] = "none" THEN "ok" ELSE header[b]
          /\ sent'[b] = sent[b] \cup {"stderr"}
      BY <1>2 DEF BuildctlLog, Write, Types, TypeOK
    <3> QED
      BY <1>2, <1>a, <2>1, <3>1, <3>2, <3>3 DEF Report
  <2>2. CASE c # b
    BY <1>2, <1>a, <2>2 DEF BuildctlLog, Write, Report, Types, TypeOK
  <2> QED
    BY <2>1, <2>2
<1>3. CASE UNCHANGED <<images, buildctl, responseVars>>
  BY <1>3, <1>a DEF Report, responseVars
<1> QED
  BY <1>1, <1>2, <1>3, EnvironmentSteps

(* The step from one state to the next keeps both. *)
LEMMA NextReport ==
    Types /\ ProcessInv /\ LoopInv /\ ReportInv /\ [Next]_vars => LoopInv' /\ ReportInv'
<1> SUFFICES ASSUME Types, ProcessInv, LoopInv, ReportInv, [Next]_vars PROVE LoopInv' /\ ReportInv'
  OBVIOUS
<1>1. CASE UNCHANGED vars
  BY <1>1 DEF vars, LoopInv, Loop, ReportInv, Report
<1>2. ASSUME NEW b \in Builds, Handler(b) PROVE LoopInv' /\ ReportInv'
  <2>1. Aside(b) /\ Loop(b)' /\ Report(b)'
    BY <1>2, HandlerAside, HandlerLoop, HandlerReport
  <2>2. ASSUME NEW c \in Builds \ {b} PROVE Loop(c)' /\ Report(c)'
    BY <2>1 DEF Aside, LoopInv, Loop, ReportInv, Report
  <2> QED
    BY <2>1, <2>2 DEF LoopInv, ReportInv
<1>3. ASSUME NEW b \in Builds, Environment(b) PROVE LoopInv' /\ ReportInv'
  <2>1. LoopInv'
    BY <1>3, EnvironmentSteps, ZenonT(30) DEF LoopInv, Loop, BuildctlExit, Types, TypeOK
  <2> QED
    BY <1>3, <2>1, EnvironmentReport DEF ReportInv
<1> QED
  BY <1>1, <1>2, <1>3 DEF Next

(* What the proofs about tags and responses start from. *)
LEMMA BuildSafe == Spec => [](Types /\ ProcessInv /\ LoopInv /\ ReportInv)
<1>1. Init => ProcessInv /\ LoopInv /\ ReportInv
  BY DEF Init, ProcessInv, Unreaped, NotStarted, LoopInv, Loop, ReportInv, Report, Early, Late, Looping
<1> QED
  BY <1>1, InitTypes, NextTypes, NextProcess, NextReport, PTL DEF Spec

(* A build that failed says so, by its status or in the stream, one that did
   not does not, and an error response holds nothing else unless a buildctl
   nobody waited for still writes to it. *)
THEOREM FailureReportedHolds == Spec => []FailureReported
<1>1. ReportInv => FailureReported
  BY DEF ReportInv, Report, FailureReported
<1> QED
  BY <1>1, BuildSafe, PTL

-----------------------------------------------------------------------------
(* The tag that build c has deleted and not created again, or failed to. *)
Lost(c, t) ==
    /\ tagNext[c] \in 2..Len(options[c].tags)
    /\ NextTag(c) = t
    /\ pc[c] = "recreate" \/ outcome[c] = "error"

(* A step of a handler changes what tags name only for the tags of its build,
   and takes a name away only between Delete and Create. *)
ImageStep(b, t) ==
    /\ images'[t] # images[t] => t \in TagsOf(b) /\ pc[b] \notin Early
    /\ images'[t] = None => \/ images[t] = None
                            \/ pc'[b] = "recreate" /\ Lost(b, t)'

(* Named: the first tag of a build, if it has one. *)
LEMMA NamedTags ==
    ASSUME Types, NEW b \in Builds, NEW t \in Tags
    PROVE  /\ Named(b)[t] # images[t] => t \in TagsOf(b)
           /\ Named(b)[t] = None => images[t] = None
           /\ options[b].tags # <<>> => Named(b)[Head(options[b].tags)] = b
<1>1. b # None /\ TypeOK
  BY BuildAssumption DEF Types
<1>2. CASE options[b].tags = <<>>
  BY <1>2 DEF Named
<1>3. CASE options[b].tags # <<>>
  <2> DEFINE h == Head(options[b].tags)
  <2>1. h \in Tags /\ h \in TagsOf(b)
    BY <1>1, <1>3, TagsTyped DEF TagsOf
  <2>2. Named(b) = [images EXCEPT ![h] = b]
    BY <1>3 DEF Named
  <2> HIDE DEF h
  <2>3. /\ Named(b)[t] # images[t] => t = h
        /\ Named(b)[t] = None => images[t] = None
        /\ Named(b)[h] = b
    BY <1>1, <2>1, <2>2 DEF TypeOK
  <2> QED
    BY <2>1, <2>3 DEF h
<1> QED
  BY <1>2, <1>3

(* The tag the loop has come to is a tag of the build. *)
LEMMA NextTagOwn ==
    ASSUME Types, LoopInv, NEW b \in Builds, pc[b] \in Looping
    PROVE  NextTag(b) \in Tags /\ NextTag(b) \in TagsOf(b)
BY TagsTyped DEF Types, LoopInv, Loop, NextTag, TagsOf

(* Every step of a handler is of that form, one case per action. *)
LEMMA HandlerImages ==
    ASSUME Types, LoopInv, NEW b \in Builds, Handler(b), NEW t \in Tags PROVE ImageStep(b, t)
<1> USE DEF Goto, Fail, imageVars, Types, TypeOK, ImageStep, Early
<1>a. Loop(b)
  BY DEF LoopInv
<1>1. CASE Decode(b)
  BY <1>1 DEF Decode
<1>2. CASE StoreAuthConfigs(b)
  BY <1>2 DEF StoreAuthConfigs
<1>3. CASE GetBuildOptions(b)
  BY <1>3 DEF GetBuildOptions
<1>4. CASE ExtractInTemp(b)
  BY <1>4 DEF ExtractInTemp
<1>5. CASE ExtractContext(b)
  BY <1>5 DEF ExtractContext
<1>6. CASE StartBuildctl(b)
  BY <1>6 DEF StartBuildctl
<1>7. CASE LoadImage(b)
  <2>1. images' = images \/ images' = Named(b)
    BY <1>7, Zenon DEF LoadImage
  <2> QED
    BY <1>7, <2>1, NamedTags DEF LoadImage
<1>8. CASE Wait(b)
  BY <1>8 DEF Wait
<1>9. CASE GetImage(b)
  BY <1>9 DEF GetImage
<1>10. CASE CreateTag(b)
  <2>1. NextTag(b) \in Tags /\ NextTag(b) \in TagsOf(b) /\ tagImage[b] # None /\ pc[b] = "create"
    BY <1>10, <1>a, NextTagOwn DEF CreateTag, Looping, Loop
  <2>2. images' = images \/ images' = [images EXCEPT ![NextTag(b)] = tagImage[b]]
    BY <1>10, Zenon DEF CreateTag, Tagged
  <2> QED
    BY <2>1, <2>2
<1>11. CASE DeleteTag(b)
  <2>1. /\ NextTag(b) \in Tags /\ NextTag(b) \in TagsOf(b) /\ pc[b] = "delete"
        /\ tagNext[b] \in 2..Len(options[b].tags)
    BY <1>11, <1>a, NextTagOwn DEF DeleteTag, Looping, Loop
  <2>2. CASE images' = images
    BY <2>2
  <2>3. CASE images' = [images EXCEPT ![NextTag(b)] = None] /\ Goto(b, "recreate")
    <3>1. pc'[b] = "recreate" /\ UNCHANGED <<tagNext, options>>
      BY <1>11, <2>3 DEF DeleteTag
    <3>2. Lost(b, NextTag(b))'
      BY <2>1, <3>1 DEF Lost, NextTag
    <3>3. t = NextTag(b) \/ images'[t] = images[t]
      BY <2>1, <2>3
    <3>4. t = NextTag(b) => Lost(b, t)'
      BY <3>1, <2>1 DEF Lost, NextTag
    <3> QED
      BY <2>1, <3>1, <3>3, <3>4
  <2> QED
    BY <1>11, <2>2, <2>3, Zenon DEF DeleteTag
<1>12. CASE RecreateTag(b)
  <2>1. NextTag(b) \in Tags /\ NextTag(b) \in TagsOf(b) /\ tagImage[b] # None /\ pc[b] = "recreate"
    BY <1>12, <1>a, NextTagOwn DEF RecreateTag, Looping, Loop
  <2>2. images' = images \/ images' = [images EXCEPT ![NextTag(b)] = tagImage[b]]
    BY <1>12, Zenon DEF RecreateTag, Tagged
  <2> QED
    BY <2>1, <2>2
<1>13. CASE PublishTagEvents(b)
  BY <1>13 DEF PublishTagEvents
<1>14. CASE Cleanup(b)
  BY <1>14 DEF Cleanup
<1>15. CASE SendResult(b)
  BY <1>15 DEF SendResult
<1>16. CASE RemoveCredentials(b)
  BY <1>16 DEF RemoveCredentials
<1> QED
  BY <1>1, <1>2, <1>3, <1>4, <1>5, <1>6, <1>7, <1>8, <1>9, <1>10, <1>11, <1>12, <1>13,
     <1>14, <1>15, <1>16, Zenon DEF Handler

(* What a build has lost stays lost until some build names it again. *)
LEMMA LostKept ==
    ASSUME Types, LoopInv, NEW b \in Builds, Handler(b), NEW c \in Builds, NEW t \in Tags, Lost(c, t)
    PROVE  images'[t] # None \/ Lost(c, t)'
<1>a. Loop(b) /\ Aside(b)
  BY HandlerAside DEF LoopInv
<1>1. CASE c # b
  BY <1>1, <1>a DEF Aside, Lost, NextTag
<1>2. CASE c = b
  <2>1. CASE pc[b] = "recreate"
    <3>1. RecreateTag(b)
      BY <2>1, Zenon DEF Handler, Decode, StoreAuthConfigs, GetBuildOptions,
         ExtractInTemp, ExtractContext, StartBuildctl, LoadImage, Wait, GetImage, CreateTag, DeleteTag, PublishTagEvents,
         Cleanup, SendResult, RemoveCredentials
    <3>2. CASE Tagged(b)
      <4>1. images' = [images EXCEPT ![t] = tagImage[b]]
        BY <1>2, <3>2 DEF Tagged, Lost
      <4> QED
        BY <4>1, <2>1, <1>a DEF Loop, Looping, Types, TypeOK
    <3>3. CASE Fail(b, "cleanup") /\ UNCHANGED <<images, tagNext>>
      BY <1>2, <1>a, <3>3 DEF Fail, Lost, NextTag, Aside, Types, TypeOK
    <3> QED
      BY <3>1, <3>2, <3>3, Zenon DEF RecreateTag
  <2>2. CASE outcome[b] = "error"
    <3>1. pc[b] \in Late
      BY <2>2, <1>a DEF Loop
    <3>2. Cleanup(b) \/ SendResult(b) \/ RemoveCredentials(b)
      BY <3>1, Zenon DEF Late, Handler, Decode, StoreAuthConfigs, GetBuildOptions,
         ExtractInTemp, ExtractContext, StartBuildctl, LoadImage, Wait, GetImage, CreateTag, DeleteTag, RecreateTag, PublishTagEvents
    <3>3. UNCHANGED <<outcome, tagNext, options>>
      BY <3>2 DEF Cleanup, SendResult, RemoveCredentials, imageVars
    <3> QED
      BY <1>2, <2>2, <3>3 DEF Lost, NextTag
  <2> QED
    BY <1>2, <2>1, <2>2 DEF Lost
<1> QED
  BY <1>1, <1>2

(* A build comes to end well only in PublishTagEvents, which finds its tags. *)
LEMMA EndsWell ==
    ASSUME Types, NEW b \in Builds, Handler(b), outcome'[b] = "ok", outcome[b] # "ok"
    PROVE  /\ pc[b] = "events" /\ images' = images
           /\ \A i \in 1..Len(options[b].tags) : images[options[b].tags[i]] # None
<1> USE DEF Fail, imageVars, Types, TypeOK
<1>1. CASE Decode(b)
  BY <1>1 DEF Decode
<1>2. CASE StoreAuthConfigs(b)
  BY <1>2 DEF StoreAuthConfigs
<1>3. CASE GetBuildOptions(b)
  BY <1>3 DEF GetBuildOptions
<1>4. CASE ExtractInTemp(b)
  BY <1>4 DEF ExtractInTemp
<1>5. CASE ExtractContext(b)
  BY <1>5 DEF ExtractContext
<1>6. CASE StartBuildctl(b)
  BY <1>6 DEF StartBuildctl
<1>7. CASE LoadImage(b)
  BY <1>7 DEF LoadImage
<1>8. CASE Wait(b)
  BY <1>8 DEF Wait
<1>9. CASE GetImage(b)
  BY <1>9 DEF GetImage
<1>10. CASE CreateTag(b)
  BY <1>10 DEF CreateTag
<1>11. CASE DeleteTag(b)
  BY <1>11 DEF DeleteTag
<1>12. CASE RecreateTag(b)
  BY <1>12 DEF RecreateTag
<1>13. CASE PublishTagEvents(b)
  BY <1>13 DEF PublishTagEvents
<1>14. CASE Cleanup(b)
  BY <1>14 DEF Cleanup
<1>15. CASE SendResult(b)
  BY <1>15 DEF SendResult
<1>16. CASE RemoveCredentials(b)
  BY <1>16 DEF RemoveCredentials
<1> QED
  BY <1>1, <1>2, <1>3, <1>4, <1>5, <1>6, <1>7, <1>8, <1>9, <1>10, <1>11, <1>12, <1>13,
     <1>14, <1>15, <1>16, Zenon DEF Handler

(* The step from one state to the next keeps TagKept. *)
LEMMA NextKept == Types /\ LoopInv /\ TagKept /\ [Next]_vars => TagKept'
<1> SUFFICES ASSUME Types, LoopInv, TagKept, [Next]_vars PROVE TagKept'
  OBVIOUS
<1>t. /\ \A b \in Builds : TagsOf(b) \subseteq Tags
      /\ \A b \in Builds : outcome[b] = "ok" =>
            \A t \in TagsOf(b) : images[t] # None \/ \E c \in Builds : Lost(c, t)
  BY TagsTyped DEF Types, TagsOf, TagKept, Lost
<1>k. SUFFICES \A d \in Builds : outcome'[d] = "ok" =>
          \A t \in TagsOf(d)' : images'[t] # None \/ \E c \in Builds : Lost(c, t)'
  BY DEF TagKept, Lost
<1>1. CASE UNCHANGED vars
  BY <1>1, <1>t DEF vars, TagsOf, Lost, NextTag
<1>2. ASSUME NEW b \in Builds, Handler(b), NEW d \in Builds, outcome'[d] = "ok", NEW t \in TagsOf(d)'
      PROVE  images'[t] # None \/ \E c \in Builds : Lost(c, t)'
  <2>1. Aside(b) /\ t \in TagsOf(d) /\ t \in Tags
    BY <1>2, <1>t, HandlerAside DEF Aside, TagsOf
  <2>2. SUFFICES ASSUME images'[t] = None PROVE \E c \in Builds : Lost(c, t)'
    OBVIOUS
  <2>3. CASE images[t] # None
    BY <1>2, <2>1, <2>2, <2>3, HandlerImages DEF ImageStep
  <2>4. CASE images[t] = None
    <3>1. outcome[d] = "ok"
      <4>1. SUFFICES ASSUME outcome[d] # "ok" PROVE FALSE
        OBVIOUS
      <4>2. d = b
        BY <1>2, <2>1, <4>1 DEF Aside
      <4> QED
        BY <1>2, <2>1, <2>4, <4>1, <4>2, EndsWell DEF TagsOf
    <3>2. PICK c \in Builds : Lost(c, t)
      BY <1>t, <2>1, <2>4, <3>1
    <3> QED
      BY <1>2, <2>1, <2>2, <3>2, LostKept
  <2> QED
    BY <2>3, <2>4
<1>3. ASSUME NEW b \in Builds, Environment(b), NEW d \in Builds, outcome'[d] = "ok", NEW t \in TagsOf(d)'
      PROVE  images'[t] # None \/ \E c \in Builds : Lost(c, t)'
  <2>1. UNCHANGED <<pc, options, tagNext, outcome>>
    BY <1>3, EnvironmentSteps
  <2>2. images' = images \/ images' = Named(b)
    BY <1>3, EnvironmentSteps, Zenon DEF BuildctlExit
  <2>3. t \in TagsOf(d) /\ t \in Tags
    BY <1>t, <2>1 DEF TagsOf
  <2>4. images[t] # None => images'[t] # None
    BY <2>2, <2>3, NamedTags
  <2> QED
    BY <1>3, <1>t, <2>1, <2>3, <2>4 DEF Lost, NextTag
<1> QED
  BY <1>1, <1>2, <1>3 DEF Next

(* A tag of a build that ended well names an image for good, except where
   another build is between Delete and Create of it, or failed there. *)
THEOREM TagKeptHolds == Spec => []TagKept
<1>1. Init => TagKept
  BY DEF Init, TagKept
<1> QED
  BY <1>1, NextKept, BuildSafe, PTL DEF Spec

-----------------------------------------------------------------------------
(* The tags of a list as the positions of the list. *)
LEMMA TagsByIndex ==
    ASSUME Types, NEW b \in Builds
    PROVE  /\ \A i \in 1..Len(options[b].tags) : options[b].tags[i] \in TagsOf(b)
           /\ options[b].tags # <<>> => Head(options[b].tags) \in TagsOf(b)
BY TagsTyped DEF Types, TagsOf

(* A build whose state and tags a step leaves alone keeps OwnTags. *)
LEMMA OwnTagsKept ==
    ASSUME Types, LoopInv, NEW c \in Builds, OwnTags(c), options' = options,
           pc'[c] = pc[c], outcome'[c] = outcome[c], buildctl'[c] = buildctl[c],
           tagNext'[c] = tagNext[c], tagImage'[c] = tagImage[c],
           \A t \in TagsOf(c) : images'[t] = images[t]
    PROVE  OwnTags(c)'
<1> DEFINE tags == options[c].tags
<1>1. /\ \A i \in 1..Len(tags) : images'[tags[i]] = images[tags[i]]
      /\ tags # <<>> => images'[Head(tags)] = images[Head(tags)]
      /\ Len(tags) \in Nat /\ tagNext[c] \in Nat /\ Loop(c)
  BY TagsByIndex, TagsTyped DEF Types, TypeOK, LoopInv
<1>2. pc[c] = "tag" => tags # <<>>
  BY <1>1, TagsTyped DEF Types, Loop
<1>3. pc[c] \in Looping => \A i \in 1..tagNext[c] - 1 : i \in 1..Len(tags)
  BY <1>1 DEF Loop
<1> QED
  BY <1>1, <1>2, <1>3, ZenonT(30) DEF OwnTags, NextTag

(* Tagged: the build's image under one more tag. *)
LEMMA TaggedOwn ==
    ASSUME Types, LoopInv, NEW b \in Builds, OwnTags(b), Tagged(b), pc[b] \in {"create", "recreate"},
           UNCHANGED <<options, tagImage, outcome, buildctl>>
    PROVE  OwnTags(b)'
<1> DEFINE tags == options[b].tags
           n    == tagNext[b]
<1>1. /\ n \in 2..Len(tags) /\ n \in Nat /\ Len(tags) \in Nat /\ tagImage[b] = b
      /\ \A i \in 1..Len(tags) : tags[i] \in Tags
      /\ outcome[b] = "none"
  BY TagsTyped DEF Types, TypeOK, LoopInv, Loop, Looping, OwnTags, Late
<1>2. /\ images' = [images EXCEPT ![tags[n]] = b]
      /\ tagNext'[b] = n + 1
      /\ pc'[b] = IF n = Len(tags) THEN "events" ELSE "create"
  BY <1>1 DEF Tagged, NextTag, Goto, Types, TypeOK
<1>3. ASSUME NEW i \in 1..n PROVE images'[tags[i]] = b
  <2>1. tags[i] \in Tags /\ tags[n] \in Tags
    BY <1>1
  <2>2. tags[i] = tags[n] \/ images[tags[i]] = b
    <3>1. CASE i = n
      BY <3>1
    <3>2. CASE i # n
      <4>1. i \in 1..n - 1
        BY <1>1, <3>2
      <4> QED
        BY <4>1 DEF OwnTags, NextTag, Looping
    <3> QED
      BY <3>1, <3>2
  <2> QED
    BY <1>2, <2>1, <2>2 DEF Types, TypeOK
<1>4. CASE n = Len(tags)
  <2>1. pc'[b] = "events" /\ outcome'[b] = "none" /\ options'[b].tags = tags
    BY <1>1, <1>2, <1>4
  <2> QED
    BY <2>1, <1>3, <1>4 DEF OwnTags, Looping
<1>5. CASE n # Len(tags)
  <2>1. /\ pc'[b] = "create" /\ outcome'[b] = "none" /\ options'[b].tags = tags
        /\ tagImage'[b] = b /\ 1..tagNext'[b] - 1 = 1..n
    BY <1>1, <1>2, <1>5
  <2> QED
    BY <2>1, <1>3 DEF OwnTags, Looping
<1> QED
  BY <1>4, <1>5

(* A step of the handler of b keeps OwnTags of b, one case per action. *)
LEMMA HandlerOwn ==
    ASSUME Types, LoopInv, NEW b \in Builds, OwnTags(b), Handler(b) PROVE OwnTags(b)'
<1>a. Loop(b) /\ Loop(b)' /\ Aside(b) /\ TypeOK
  BY HandlerLoop, HandlerAside DEF LoopInv, Types
<1>b. /\ Len(options[b].tags) \in Nat
      /\ options[b].tags # <<>> => /\ Len(options[b].tags) >= 1
                                   /\ Head(options[b].tags) = options[b].tags[1]
      /\ options[b].tags = <<>> => Len(options[b].tags) = 0
  BY TagsTyped DEF Types
<1>z. ASSUME pc'[b] \notin {"wait", "tag", "events"} \cup Looping, outcome'[b] # "ok" PROVE OwnTags(b)'
  BY <1>z DEF OwnTags
<1>f. ASSUME Fail(b, "cleanup") \/ Fail(b, "answer") PROVE OwnTags(b)'
  BY <1>f, <1>z DEF Fail, Goto, Types, TypeOK, Looping
<1> USE DEF Goto, imageVars, Types, TypeOK, Early, Late, Looping
<1>1. CASE Decode(b)
  BY <1>1, <1>a, <1>f, <1>z DEF Decode, Loop
<1>2. CASE StoreAuthConfigs(b)
  BY <1>2, <1>a, <1>f, <1>z DEF StoreAuthConfigs, Loop
<1>3. CASE GetBuildOptions(b)
  BY <1>3, <1>a, <1>f, <1>z DEF GetBuildOptions, Loop
<1>4. CASE ExtractInTemp(b)
  BY <1>4, <1>a, <1>f, <1>z DEF ExtractInTemp, Loop
<1>5. CASE ExtractContext(b)
  BY <1>5, <1>a, <1>f, <1>z DEF ExtractContext, Loop
<1>6. CASE StartBuildctl(b)
  <2>1. CASE buildctl' = [buildctl EXCEPT ![b] = "running"] /\ UNCHANGED outcome
    <3>1. outcome'[b] = "none" /\ buildctl'[b] = "running"
      BY <1>6, <2>1, <1>a DEF StartBuildctl, Loop
    <3>2. pc'[b] \in {"load", "wait", "cleanup"}
      BY <1>6 DEF StartBuildctl, Fail
    <3> QED
      BY <3>1, <3>2 DEF OwnTags
  <2> QED
    BY <1>6, <2>1, <1>f, Zenon DEF StartBuildctl
<1>7. CASE LoadImage(b)
  <2>1. CASE images' = Named(b) /\ Goto(b, "wait") /\ UNCHANGED outcome
    <3>1. options[b].tags # <<>> => images'[Head(options[b].tags)] = b
      <4>1. SUFFICES ASSUME options[b].tags # <<>> PROVE images'[Head(options[b].tags)] = b
        OBVIOUS
      <4>2. Head(options[b].tags) \in Tags
        BY <4>1, <1>b, TagsTyped
      <4> QED
        BY <2>1, <4>1, <4>2, NamedTags
    <3> QED
      BY <1>7, <2>1, <3>1, <1>a DEF OwnTags, Loop, Aside, LoadImage
  <2> QED
    BY <1>7, <2>1, <1>f, Zenon DEF LoadImage
<1>8. CASE Wait(b)
  <2>1. CASE buildctl[b] = "ok" /\ UNCHANGED outcome
    <3>1. /\ outcome'[b] = "none" /\ UNCHANGED <<images, options>>
          /\ pc'[b] = IF Len(options[b].tags) > 1 THEN "tag" ELSE "events"
          /\ options[b].tags # <<>> => images[Head(options[b].tags)] = b
      BY <1>8, <2>1, <1>a DEF Wait, OwnTags, Loop
    <3>2. CASE Len(options[b].tags) > 1
      BY <1>b, <3>1, <3>2 DEF OwnTags
    <3>3. CASE Len(options[b].tags) <= 1
      <4>1. \A i \in 1..Len(options[b].tags) : images[options[b].tags[i]] = b
        BY <1>b, <3>1, <3>3
      <4> QED
        BY <1>b, <3>1, <3>3, <4>1 DEF OwnTags
    <3> QED
      BY <1>b, <3>2, <3>3
  <2> QED
    BY <1>8, <2>1, <1>f, Zenon DEF Wait
<1>9. CASE GetImage(b)
  <2>1. CASE /\ tagImage' = [tagImage EXCEPT ![b] = images[Head(options[b].tags)]]
             /\ Goto(b, "create") /\ UNCHANGED outcome
    <3>1. /\ pc'[b] = "create" /\ outcome'[b] = "none" /\ UNCHANGED <<images, options, tagNext>>
          /\ tagNext[b] = 2 /\ images[Head(options[b].tags)] = b /\ Len(options[b].tags) > 1
      BY <1>9, <2>1, <1>a DEF GetImage, OwnTags, Loop
    <3>2. tagImage'[b] = b /\ images[options[b].tags[1]] = b
      BY <2>1, <3>1, <1>b
    <3>3. \A i \in 1..tagNext'[b] - 1 : i = 1
      BY <3>1
    <3> QED
      BY <3>1, <3>2, <3>3 DEF OwnTags
  <2> QED
    BY <1>9, <2>1, <1>f, Zenon DEF GetImage
<1>10. CASE CreateTag(b)
  <2>1. CASE Tagged(b) /\ UNCHANGED outcome
    BY <1>10, <2>1, TaggedOwn DEF CreateTag, processVars
  <2>2. CASE Goto(b, "delete") /\ UNCHANGED <<images, tagNext, outcome>>
    BY <1>10, <2>2, <1>a DEF CreateTag, OwnTags, Loop
  <2> QED
    BY <1>10, <2>1, <2>2, <1>f, Zenon DEF CreateTag
<1>11. CASE DeleteTag(b)
  <2>1. CASE images' = [images EXCEPT ![NextTag(b)] = None] /\ Goto(b, "recreate") /\ UNCHANGED outcome
    <3>1. /\ pc'[b] = "recreate" /\ outcome'[b] = "none" /\ UNCHANGED <<options, tagNext, tagImage>>
          /\ tagImage[b] = b /\ tagNext[b] \in 2..Len(options[b].tags)
      BY <1>11, <2>1, <1>a DEF DeleteTag, OwnTags, Loop
    <3>2. ASSUME NEW i \in 1..tagNext[b] - 1
          PROVE  images'[options[b].tags[i]] = b \/ options[b].tags[i] = NextTag(b)
      <4>1. i \in 1..Len(options[b].tags)
        BY <3>1, <1>b
      <4>2. options[b].tags[i] \in Tags
        BY <4>1, TagsTyped
      <4>3. images[options[b].tags[i]] = b \/ options[b].tags[i] = NextTag(b)
        BY <1>11, <3>2 DEF DeleteTag, OwnTags
      <4> QED
        BY <2>1, <4>2, <4>3
    <3> QED
      BY <3>1, <3>2 DEF OwnTags, NextTag
  <2> QED
    BY <1>11, <2>1, <1>f, Zenon DEF DeleteTag
<1>12. CASE RecreateTag(b)
  <2>1. CASE Tagged(b) /\ UNCHANGED outcome
    BY <1>12, <2>1, TaggedOwn DEF RecreateTag, processVars
  <2> QED
    BY <1>12, <2>1, <1>f, Zenon DEF RecreateTag
<1>13. CASE PublishTagEvents(b)
  <2>1. pc'[b] = "cleanup" /\ UNCHANGED <<images, options>> /\ pc[b] = "events"
    BY <1>13 DEF PublishTagEvents, Fail
  <2> QED
    BY <2>1 DEF OwnTags
<1>14. CASE Cleanup(b)
  BY <1>14, <1>a DEF Cleanup, OwnTags, Loop
<1>15. CASE SendResult(b)
  BY <1>15, <1>a DEF SendResult, OwnTags, Loop
<1>16. CASE RemoveCredentials(b)
  BY <1>16, <1>a DEF RemoveCredentials, OwnTags, Loop
<1> QED
  BY <1>1, <1>2, <1>3, <1>4, <1>5, <1>6, <1>7, <1>8, <1>9, <1>10, <1>11, <1>12, <1>13,
     <1>14, <1>15, <1>16, Zenon DEF Handler

(* Where the environment of b names its image: buildctl's exporter, before
   the handler has waited for it. *)
LEMMA EnvironmentOwn ==
    ASSUME Types, ProcessInv, LoopInv, ReportInv, NEW b \in Builds, OwnTags(b), Environment(b),
           Stored(b)
    PROVE  OwnTags(b)'
<1>a. /\ Loop(b) /\ Unreaped(b) /\ Report(b)
      /\ UNCHANGED <<pc, options, tagNext, tagImage, outcome, reaped>>
  BY EnvironmentSteps DEF LoopInv, ProcessInv, ReportInv
<1>1. CASE BuildctlExit(b)
  <2>1. buildctl[b] = "running" /\ b \notin reaped
    BY <1>1, <1>a DEF BuildctlExit, Report
  <2>2. \/ pc[b] \in {"load", "wait"}
        \/ pc[b] \in {"cleanup", "answer", "return", "done"} /\ outcome[b] = "error"
    BY <2>1, <1>a DEF Unreaped
  <2>3. CASE pc[b] # "wait"
    BY <1>a, <2>2, <2>3 DEF OwnTags, Looping, Loop, Late
  <2>4. CASE pc[b] = "wait"
    <3>1. options[b].output = "image" /\ outcome[b] = "none"
      BY <1>a, <2>1, <2>4 DEF Loop, Late, Types, TypeOK, Options, Stored
    <3>2. CASE images' = Named(b)
      <4>1. options[b].tags # <<>> => images'[Head(options[b].tags)] = b
        BY <3>2, NamedTags, TagsTyped DEF Types
      <4> QED
        BY <1>a, <2>4, <3>1, <4>1 DEF OwnTags, Looping
    <3>3. CASE buildctl' = [buildctl EXCEPT ![b] = "failed"]
      <4>1. buildctl'[b] # "ok"
        BY <3>3 DEF Types, TypeOK
      <4> QED
        BY <1>a, <2>4, <3>1, <4>1 DEF OwnTags, Looping
    <3> QED
      BY <1>1, <3>1, <3>2, <3>3, Zenon DEF BuildctlExit
  <2> QED
    BY <2>3, <2>4
<1>2. CASE UNCHANGED <<images, buildctl>>
  BY <1>a, <1>2 DEF OwnTags, NextTag
<1> QED
  BY <1>1, <1>2, EnvironmentSteps

(* A step of b changes what the tags of b name, once b has started. *)
LEMMA TouchesOwn ==
    ASSUME Types, ProcessInv, LoopInv, NEW b \in Builds, Handler(b) \/ Environment(b)
    PROVE  /\ options' = options
           /\ \A c \in Builds \ {b} :
                 /\ pc'[c] = pc[c] /\ outcome'[c] = outcome[c] /\ buildctl'[c] = buildctl[c]
                 /\ tagNext'[c] = tagNext[c] /\ tagImage'[c] = tagImage[c]
           /\ \A t \in Tags : images'[t] # images[t] => t \in TagsOf(b) /\ pc'[b] # "start"
           /\ pc'[b] = "start" => pc[b] = "start"
<1>1. CASE Handler(b)
  <2>1. pc'[b] # "start"
    BY <1>1 DEF Handler, Decode, StoreAuthConfigs, GetBuildOptions, ExtractInTemp, ExtractContext,
       StartBuildctl, LoadImage, Wait, GetImage, CreateTag, DeleteTag, RecreateTag, Tagged,
       PublishTagEvents, Cleanup, SendResult, RemoveCredentials, Goto, Fail, Types, TypeOK
  <2> QED
    BY <1>1, <2>1, HandlerAside, HandlerImages, SMTT(30) DEF Aside, ImageStep
<1>2. CASE Environment(b)
  <2>1. UNCHANGED <<pc, options, tagNext, tagImage, outcome>>
    BY <1>2, EnvironmentSteps
  <2>2. CASE BuildctlExit(b)
    <3>1. pc[b] # "start"
      BY <2>2 DEF BuildctlExit, ProcessInv, NotStarted
    <3>2. images' = images \/ images' = Named(b)
      BY <2>2, Zenon DEF BuildctlExit
    <3>3. \A c \in Builds \ {b} : buildctl'[c] = buildctl[c]
      BY <2>2 DEF BuildctlExit, Types, TypeOK
    <3> QED
      BY <2>1, <3>1, <3>2, <3>3, NamedTags
  <2>3. CASE UNCHANGED <<images, buildctl>>
    BY <2>1, <2>3
  <2> QED
    BY <1>2, <2>2, <2>3, EnvironmentSteps
<1> QED
  BY <1>1, <1>2

(* The step from one state to the next keeps OwnInv. *)
LEMMA NextOwn == Types /\ ProcessInv /\ LoopInv /\ ReportInv /\ OwnInv /\ [Next]_vars => OwnInv'
<1> SUFFICES ASSUME Types, ProcessInv, LoopInv, ReportInv, OwnInv, [Next]_vars PROVE OwnInv'
  OBVIOUS
<1>1. CASE UNCHANGED vars
  <2>1. UNCHANGED <<pc, options, buildctl, images, tagNext, tagImage, outcome>>
    BY <1>1 DEF vars
  <2>2. ASSUME NEW c \in Builds
        PROVE  (Alone(c)' <=> Alone(c)) /\ (Stored(c)' <=> Stored(c)) /\ (OwnTags(c)' <=> OwnTags(c))
    BY <2>1 DEF OwnTags, NextTag, Alone, TagsOf, Stored
  <2> QED
    BY <2>2 DEF OwnInv
<1>2. ASSUME NEW b \in Builds, Handler(b) \/ Environment(b), NEW c \in Builds, Alone(c)', Stored(c)'
      PROVE  OwnTags(c)'
  <2>1. /\ options' = options /\ Stored(c)
        /\ \A d \in Builds \ {b} : pc'[d] = pc[d]
        /\ \A t \in Tags : images'[t] # images[t] => t \in TagsOf(b) /\ pc'[b] # "start"
    BY <1>2, TouchesOwn DEF Stored
  <2>2. /\ \A d \in Builds : TagsOf(d)' = TagsOf(d) /\ TagsOf(d) \subseteq Tags
        /\ \A d \in Builds \ {c} : pc'[d] = "start" \/ TagsOf(c) \cap TagsOf(d) = {}
    <3>1. \A d \in Builds : TagsOf(d)' = TagsOf(d)
      BY <2>1 DEF TagsOf
    <3>2. \A d \in Builds : TagsOf(d) \subseteq Tags
      BY TagsTyped DEF Types, TagsOf
    <3> QED
      BY <1>2, <3>1, <3>2 DEF Alone
  <2>3. CASE c = b
    <3>1. Alone(b)
      BY <2>1, <2>2, <2>3 DEF Alone
    <3> QED
      BY <1>2, <2>1, <2>3, <3>1, HandlerOwn, EnvironmentOwn DEF OwnInv
  <2>4. CASE c # b
    <3>1. \A t \in TagsOf(c) : images'[t] = images[t]
      BY <2>1, <2>2, <2>4
    <3>2. pc'[b] = "start" => pc[b] = "start"
      BY <1>2, TouchesOwn
    <3>3. OwnTags(c)
      BY <2>1, <2>2, <2>4, <3>2 DEF Alone, OwnInv
    <3> QED
      BY <1>2, <2>1, <2>4, <3>1, <3>3, TouchesOwn, OwnTagsKept
  <2> QED
    BY <2>3, <2>4
<1> QED
  BY <1>1, <1>2 DEF Next, OwnInv

(* A build that ends well, whose image goes to the store and whose tags no other
   build uses, leaves every tag naming the image that it made, whatever fails in
   the others. *)
THEOREM TagsNameOwnImageHolds == Spec => []TagsNameOwnImage
<1>1. Init => OwnInv
  BY DEF Init, OwnInv, OwnTags, Looping
<1>2. Types /\ OwnInv => TagsNameOwnImage
  BY DEF OwnInv, OwnTags, TagsNameOwnImage, TagsOf, Stored
<1> QED
  BY <1>1, <1>2, NextOwn, BuildSafe, PTL DEF Spec
=============================================================================
