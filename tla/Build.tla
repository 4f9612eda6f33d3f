------------------------------- MODULE Build -------------------------------
(***************************************************************************)
(* POST /build: the handler that keeps the registry credentials of a build *)
(* for as long as the build runs, the service that unpacks the build       *)
(* context into a temporary directory, RunBuild, which starts buildctl,    *)
(* loads the image from its output and tags it, and the credential service *)
(* that the credential helper of a running buildctl asks.                  *)
(*                                                                         *)
(* A build's ID is 32 random bytes: two builds never get the same one, and *)
(* the ID is written as the build.  So is the image a build makes.         *)
(***************************************************************************)
EXTENDS Integers, Sequences, FiniteSets

CONSTANTS
    Builds,    \* the build requests
    Addresses, \* registry addresses: keys of X-Registry-Config, servers a helper asks for
    URLs,      \* URLs: records of a scheme, a host, a port and a path
    Parse,     \* registryurl.Parse: the URL of an address, or None
    Empty,     \* a port or a path that a URL does not have
    CredSets,  \* what X-Registry-Config may hold: sets of addresses
    TagLists,  \* the lists of tags a build may ask for
    Tags,      \* the image references in them
    Old,       \* an image that was there before
    MayFail,   \* calls that may fail
    None       \* no URL, no image, no server, no answer

Calls == {"DecodeRegistryConfig", "GenerateBuildID", "getBuildOptions", "MkdirTemp",
          "FindTarBinary", "tar", "Start", "NewClient", "Import", "Unpack", "imageCreate",
          "PublishEvent", "RemoveAll", "validatePeerCreds"}

ASSUME BuildAssumption ==
    /\ Parse \in [Addresses -> URLs \cup {None}]
    /\ CredSets \subseteq SUBSET Addresses
    /\ TagLists \subseteq Seq(Tags)
    /\ None \notin Builds \cup Addresses \cup URLs \cup {Old}
    /\ Old \notin Builds
    /\ MayFail \subseteq Calls

VARIABLES
    pc,        \* where each build request is
    options,   \* what each build asks for
    entries,   \* CredentialCache.Entries: the credentials of each build ID, or NoEntry
    tempDir,   \* the builds whose temporary directory exists
    buildctl,  \* the buildctl process of each build
    reaped,    \* the builds whose buildctl has been waited for
    images,    \* the image each tag names
    tagNext,   \* the index of the tag that each build has come to
    tagImage,  \* the image that each build gives its tags
    outcome,   \* how each build has ended, for its handler
    header,    \* the status line that each response has got
    sent,      \* what the body of each response holds
    helper     \* what each buildctl's credential helper asks and was answered

vars == <<pc, options, entries, tempDir, buildctl, reaped, images, tagNext, tagImage, outcome,
          header, sent, helper>>
responseVars == <<header, sent>>
processVars == <<buildctl, reaped>>
imageVars == <<images, tagNext, tagImage>>

NoEntry == [known |-> FALSE, credentials |-> {}]

Entry(creds) == [known |-> TRUE, credentials |-> creds]

(* What a build asks for.  generateBuildctlArgs settles its tags and where the
   image goes: "load", out of buildctl as an archive that has to be loaded;
   "image", into the image store; "elsewhere", for a client that asks for an
   output of type local or tar, or an archive with dest=, into no store. *)
Options == [creds : CredSets, output : {"load", "image", "elsewhere"}, quiet : BOOLEAN, tags : TagLists]

Init ==
    /\ pc = [b \in Builds |-> "start"]
    /\ options \in [Builds -> Options]
    /\ entries = [b \in Builds |-> NoEntry]
    /\ tempDir = {}
    /\ buildctl = [b \in Builds |-> "none"]
    /\ reaped = {}
    /\ images \in [Tags -> {Old, None}]
    /\ tagNext = [b \in Builds |-> 2]
    /\ tagImage = [b \in Builds |-> None]
    /\ outcome = [b \in Builds |-> "none"]
    /\ header = [b \in Builds |-> "none"]
    /\ sent = [b \in Builds |-> {}]
    /\ helper = [b \in Builds |-> [server |-> None, answer |-> None]]

Goto(b, l) == pc' = [pc EXCEPT ![b] = l]

Fails(call) == call \in MayFail

(* The error Build or the handler goes on with, and where. *)
Fail(b, l) ==
    /\ outcome' = [outcome EXCEPT ![b] = "error"]
    /\ Goto(b, l)

-----------------------------------------------------------------------------
(* StreamWriter: the first Write or WriteAux makes it a 200, a first WriteError
   an error response; a later WriteError is a record of the stream. *)
Write(b, what) ==
    /\ header' = [header EXCEPT ![b] = IF @ = "none" THEN "ok" ELSE @]
    /\ sent' = [sent EXCEPT ![b] = @ \cup {what}]

WriteError(b) ==
    /\ header' = [header EXCEPT ![b] = IF @ = "none" THEN "error" ELSE @]
    /\ sent' = [sent EXCEPT ![b] = @ \cup {"error"}]

-----------------------------------------------------------------------------
(* The handler decodes X-Registry-Config and draws a build ID for credentials. *)
Decode(b) ==
    /\ pc[b] = "start"
    /\ \/ /\ Goto(b, IF options[b].creds = {} THEN "options" ELSE "store")
          /\ UNCHANGED outcome
       \/ /\ options[b].creds # {}
          /\ Fails("DecodeRegistryConfig") \/ Fails("GenerateBuildID")
          /\ Fail(b, "answer")
    /\ UNCHANGED <<options, entries, tempDir, processVars, imageVars, responseVars, helper>>

(* Mutant: the ID of the build is not drawn at random but shared. *)
StoreAuthConfigsShared(b) ==
    /\ pc[b] = "store"
    /\ entries' = [c \in Builds |-> Entry(options[b].creds)]
    /\ Goto(b, "options")
    /\ UNCHANGED <<options, tempDir, processVars, imageVars, outcome, responseVars, helper>>

(* The removal is deferred and the credentials are stored. *)
StoreAuthConfigs(b) ==
    /\ pc[b] = "store"
    /\ entries' = [entries EXCEPT ![b] = Entry(options[b].creds)]
    /\ Goto(b, "options")
    /\ UNCHANGED <<options, tempDir, processVars, imageVars, outcome, responseVars, helper>>

GetBuildOptions(b) ==
    /\ pc[b] = "options"
    /\ \/ Goto(b, "extract") /\ UNCHANGED outcome
       \/ Fails("getBuildOptions") /\ Fail(b, "answer")
    /\ UNCHANGED <<options, entries, tempDir, processVars, imageVars, responseVars, helper>>

(* ExtractInTemp makes the directory before it looks for tar. *)
ExtractInTemp(b) ==
    /\ pc[b] = "extract"
    /\ \/ /\ tempDir' = tempDir \cup {b}
          /\ \/ Goto(b, "tar") /\ UNCHANGED outcome
             \/ Fails("FindTarBinary") /\ Fail(b, "answer")
       \/ /\ Fails("MkdirTemp")
          /\ Fail(b, "answer")
          /\ UNCHANGED tempDir
    /\ UNCHANGED <<options, entries, processVars, imageVars, responseVars, helper>>

(* Mutant: Cleanup is deferred after tar has run. *)
ExtractContextUndeferred(b) ==
    /\ pc[b] = "tar"
    /\ \/ Goto(b, "buildctl") /\ UNCHANGED outcome
       \/ Fails("tar") /\ Fail(b, "answer")
    /\ UNCHANGED <<options, entries, tempDir, processVars, imageVars, responseVars, helper>>

(* From here on Cleanup is deferred. *)
ExtractContext(b) ==
    /\ pc[b] = "tar"
    /\ \/ Goto(b, "buildctl") /\ UNCHANGED outcome
       \/ Fails("tar") /\ Fail(b, "cleanup")
    /\ UNCHANGED <<options, entries, tempDir, processVars, imageVars, responseVars, helper>>

(* RunBuild: generateBuildctlArgs, the output pipe and Start. *)
StartBuildctl(b) ==
    /\ pc[b] = "buildctl"
    /\ \/ /\ buildctl' = [buildctl EXCEPT ![b] = "running"]
          /\ Goto(b, IF options[b].output = "load" THEN "load" ELSE "wait")
          /\ UNCHANGED outcome
       \/ /\ Fails("Start")
          /\ Fail(b, "cleanup")
          /\ UNCHANGED buildctl
    /\ UNCHANGED <<options, entries, tempDir, reaped, imageVars, responseVars, helper>>

(* The reference a build gives its image itself, in the exporter or on import. *)
Named(b) == IF options[b].tags = <<>> THEN images
            ELSE [images EXCEPT ![Head(options[b].tags)] = b]

(* loadImage reads buildctl's output to its end, and unpacks the images that
   were imported.  When it fails RunBuild returns at once, without Wait. *)
LoadImage(b) ==
    /\ pc[b] = "load"
    /\ \/ /\ buildctl[b] = "ok"
          /\ images' = Named(b)
          /\ Write(b, "stdout")
          /\ Goto(b, "wait")
          /\ UNCHANGED outcome
       \/ /\ buildctl[b] = "failed" \/ Fails("Import") \/ Fails("NewClient")
          /\ Fail(b, "cleanup")
          /\ UNCHANGED <<images, responseVars>>
       \/ /\ buildctl[b] = "ok" /\ Fails("Unpack")
          /\ images' = Named(b)
          /\ IF options[b].quiet THEN UNCHANGED responseVars ELSE Write(b, "stdout")
          /\ Fail(b, "cleanup")
    /\ UNCHANGED <<options, entries, tempDir, processVars, tagNext, tagImage, helper>>

(* Mutant: a build without loading does not wait either. *)
WaitNever(b) ==
    /\ pc[b] = "wait"
    /\ Goto(b, IF Len(options[b].tags) > 1 THEN "tag" ELSE "events")
    /\ UNCHANGED <<options, entries, tempDir, processVars, imageVars, outcome, responseVars, helper>>

(* buildctlCmd.Wait(). *)
Wait(b) ==
    /\ pc[b] = "wait"
    /\ buildctl[b] \in {"ok", "failed"}
    /\ reaped' = reaped \cup {b}
    /\ \/ /\ buildctl[b] = "ok"
          /\ Goto(b, IF Len(options[b].tags) > 1 THEN "tag" ELSE "events")
          /\ UNCHANGED outcome
       \/ /\ buildctl[b] = "failed"
          /\ Fail(b, "cleanup")
    /\ UNCHANGED <<options, entries, tempDir, buildctl, imageVars, responseVars, helper>>

-----------------------------------------------------------------------------
(* RunBuild gives the image that the first tag names the other tags too. *)
GetImage(b) ==
    /\ pc[b] = "tag"
    /\ \/ /\ images[Head(options[b].tags)] # None
          /\ tagImage' = [tagImage EXCEPT ![b] = images[Head(options[b].tags)]]
          /\ Goto(b, "create")
          /\ UNCHANGED outcome
       \/ /\ images[Head(options[b].tags)] = None
          /\ Fail(b, "cleanup")
          /\ UNCHANGED tagImage
    /\ UNCHANGED <<options, entries, tempDir, processVars, images, tagNext, responseVars, helper>>

(* The tag that the loop over tags[1:] has come to. *)
NextTag(b) == options[b].tags[tagNext[b]]

(* The tag is created and the loop goes on. *)
Tagged(b) ==
    /\ images' = [images EXCEPT ![NextTag(b)] = tagImage[b]]
    /\ tagNext' = [tagNext EXCEPT ![b] = @ + 1]
    /\ Goto(b, IF tagNext[b] = Len(options[b].tags) THEN "events" ELSE "create")

(* Mutant: a tag that exists already is taken for done. *)
CreateTagIgnoresExisting(b) ==
    /\ pc[b] = "create"
    /\ \/ images[NextTag(b)] = None /\ Tagged(b)
       \/ /\ images[NextTag(b)] # None
          /\ tagNext' = [tagNext EXCEPT ![b] = @ + 1]
          /\ Goto(b, IF tagNext[b] = Len(options[b].tags) THEN "events" ELSE "create")
          /\ UNCHANGED images
    /\ UNCHANGED <<options, entries, tempDir, processVars, tagImage, outcome, responseVars, helper>>

(* Create a tag; one that exists is deleted first, then created. *)
CreateTag(b) ==
    /\ pc[b] = "create"
    /\ \/ /\ images[NextTag(b)] = None
          /\ Tagged(b)
          /\ UNCHANGED outcome
       \/ /\ images[NextTag(b)] # None
          /\ Goto(b, "delete")
          /\ UNCHANGED <<images, tagNext, outcome>>
       \/ /\ Fails("imageCreate")
          /\ Fail(b, "cleanup")
          /\ UNCHANGED <<images, tagNext>>
    /\ UNCHANGED <<options, entries, tempDir, processVars, tagImage, responseVars, helper>>

(* Mutant: the loop continues without creating the tag again. *)
DeleteTagContinue(b) ==
    /\ pc[b] = "delete"
    /\ images' = [images EXCEPT ![NextTag(b)] = None]
    /\ tagNext' = [tagNext EXCEPT ![b] = @ + 1]
    /\ Goto(b, IF tagNext[b] = Len(options[b].tags) THEN "events" ELSE "create")
    /\ UNCHANGED <<options, entries, tempDir, processVars, tagImage, outcome, responseVars, helper>>

DeleteTag(b) ==
    /\ pc[b] = "delete"
    /\ \/ /\ images[NextTag(b)] # None
          /\ images' = [images EXCEPT ![NextTag(b)] = None]
          /\ Goto(b, "recreate")
          /\ UNCHANGED outcome
       \/ /\ images[NextTag(b)] = None
          /\ Fail(b, "cleanup")
          /\ UNCHANGED images
    /\ UNCHANGED <<options, entries, tempDir, processVars, tagNext, tagImage, responseVars, helper>>

RecreateTag(b) ==
    /\ pc[b] = "recreate"
    /\ \/ /\ images[NextTag(b)] = None
          /\ Tagged(b)
          /\ UNCHANGED outcome
       \/ /\ images[NextTag(b)] # None \/ Fails("imageCreate")
          /\ Fail(b, "cleanup")
          /\ UNCHANGED <<images, tagNext>>
    /\ UNCHANGED <<options, entries, tempDir, processVars, tagImage, responseVars, helper>>

(* publishTagEvent for every tag: the image must be found under it. *)
PublishTagEvents(b) ==
    /\ pc[b] = "events"
    /\ LET tags == options[b].tags
           found == \A i \in 1..Len(tags) : images[tags[i]] # None
       IN  \/ /\ found
              /\ outcome' = [outcome EXCEPT ![b] = "ok"]
              /\ Goto(b, "cleanup")
              /\ IF tags = <<>> THEN UNCHANGED responseVars ELSE Write(b, "stdout")
           \/ /\ tags # <<>>
              /\ ~found \/ Fails("PublishEvent")
              /\ Fail(b, "cleanup")
              /\ \/ UNCHANGED responseVars
                 \/ Len(tags) > 1 /\ Write(b, "stdout")
    /\ UNCHANGED <<options, entries, tempDir, processVars, imageVars, helper>>

(* The deferred Cleanup of the build context, on every way out of Build. *)
Cleanup(b) ==
    /\ pc[b] = "cleanup"
    /\ tempDir' \in {tempDir \ {b}} \cup (IF Fails("RemoveAll") THEN {tempDir} ELSE {})
    /\ Goto(b, "answer")
    /\ UNCHANGED <<options, entries, processVars, imageVars, outcome, responseVars, helper>>

(* Mutant: an error is reported only while the status can still be set. *)
SendResultOnce(b) ==
    /\ pc[b] = "answer"
    /\ \/ outcome[b] # "ok" /\ header[b] = "none" /\ WriteError(b)
       \/ outcome[b] # "ok" /\ header[b] # "none" /\ UNCHANGED responseVars
       \/ outcome[b] = "ok" /\ UNCHANGED responseVars
    /\ Goto(b, "return")
    /\ UNCHANGED <<options, entries, tempDir, processVars, imageVars, outcome, helper>>

(* The handler reports the error, or sends the image IDs. *)
SendResult(b) ==
    /\ pc[b] = "answer"
    /\ \/ outcome[b] = "error" /\ WriteError(b)
       \/ outcome[b] = "ok" /\ options[b].tags # <<>> /\ Write(b, "aux")
       \/ outcome[b] = "ok" /\ options[b].tags = <<>> /\ UNCHANGED responseVars
    /\ Goto(b, "return")
    /\ UNCHANGED <<options, entries, tempDir, processVars, imageVars, outcome, helper>>

(* Mutant: the removal is not deferred but follows a build that went well. *)
RemoveCredentialsOnSuccess(b) ==
    /\ pc[b] = "return"
    /\ entries' = [entries EXCEPT ![b] = IF outcome[b] = "ok" THEN NoEntry ELSE @]
    /\ header' = [header EXCEPT ![b] = IF @ = "none" THEN "ok" ELSE @]
    /\ Goto(b, "done")
    /\ UNCHANGED <<options, tempDir, processVars, imageVars, outcome, sent, helper>>

(* The deferred RemoveCredentials; net/http makes an unset status a 200. *)
RemoveCredentials(b) ==
    /\ pc[b] = "return"
    /\ entries' = [entries EXCEPT ![b] = NoEntry]
    /\ header' = [header EXCEPT ![b] = IF @ = "none" THEN "ok" ELSE @]
    /\ Goto(b, "done")
    /\ UNCHANGED <<options, tempDir, processVars, imageVars, outcome, sent, helper>>

-----------------------------------------------------------------------------
(* buildctl writes its log to the response unless the build is quiet.  The
   goroutine that copies it lives until buildctl closes the pipe. *)
BuildctlLog(b) ==
    /\ buildctl[b] = "running" /\ ~options[b].quiet
    /\ Write(b, "stderr")
    /\ UNCHANGED <<pc, options, entries, tempDir, processVars, imageVars, outcome, helper>>

(* buildctl ends.  Its exporter has named the image if that goes to the store. *)
BuildctlExit(b) ==
    /\ buildctl[b] = "running"
    /\ \/ /\ buildctl' = [buildctl EXCEPT ![b] = "ok"]
          /\ images' = IF options[b].output = "image" THEN Named(b) ELSE images
       \/ /\ buildctl' = [buildctl EXCEPT ![b] = "failed"]
          /\ UNCHANGED images
    /\ UNCHANGED <<pc, options, entries, tempDir, reaped, tagNext, tagImage, outcome, responseVars, helper>>

(* buildctl runs the credential helper, which has the build ID if there is one. *)
HelperGet(b, server) ==
    /\ buildctl[b] = "running"
    /\ options[b].creds # {}
    /\ helper[b] = [server |-> None, answer |-> None]
    /\ helper' = [helper EXCEPT ![b].server = server]
    /\ UNCHANGED <<pc, options, entries, tempDir, processVars, imageVars, outcome, responseVars>>

(* Mutant: the port of the target is taken even where s names one. *)
ApproximateMatchAnyPort(s, t) ==
    t = [scheme |-> t.scheme,
         host   |-> s.host,
         port   |-> t.port,
         path   |-> IF s.path = Empty THEN t.path ELSE s.path]

(* approximateMatch: target's scheme, and its port and path where s has none. *)
ApproximateMatch(s, t) ==
    t = [scheme |-> t.scheme,
         host   |-> s.host,
         port   |-> IF s.port = Empty THEN t.port ELSE s.port,
         path   |-> IF s.path = Empty THEN t.path ELSE s.path]

(* getTarget, over a map whose order is random: any exact match, else any
   approximate one.  An address that is no URL stands for itself. *)
GetTarget(server, creds) ==
    LET urls == {a \in creds : Parse[a] # None}
        exact == {a \in urls : Parse[a] = Parse[server]}
    IN  IF Parse[server] = None THEN {server}
        ELSE IF exact # {} THEN exact
        ELSE {a \in urls : ApproximateMatch(Parse[server], Parse[a])}

(* GetCredentials, behind the check of the peer; every error is a 404 or a
   401, which the helper reports as credentials not found. *)
GetCredentials(b) ==
    /\ helper[b].server # None /\ helper[b].answer = None
    /\ LET creds == entries[b].credentials
           targets == GetTarget(helper[b].server, creds) \cap creds
       IN  \/ \E a \in targets : helper' = [helper EXCEPT ![b].answer = a]
           \/ /\ targets = {} \/ ~entries[b].known \/ Fails("validatePeerCreds")
              /\ helper' = [helper EXCEPT ![b] = [server |-> None, answer |-> None]]
    /\ UNCHANGED <<pc, options, entries, tempDir, processVars, imageVars, outcome, responseVars>>

(* The helper has handed the answer to buildctl and ends. *)
HelperExit(b) ==
    /\ helper[b].answer # None
    /\ helper' = [helper EXCEPT ![b] = [server |-> None, answer |-> None]]
    /\ UNCHANGED <<pc, options, entries, tempDir, processVars, imageVars, outcome, responseVars>>

(* Every step of the goroutine that serves b. *)
Handler(b) ==
    \/ Decode(b) \/ StoreAuthConfigs(b) \/ GetBuildOptions(b)
    \/ ExtractInTemp(b) \/ ExtractContext(b)
    \/ StartBuildctl(b) \/ LoadImage(b) \/ Wait(b)
    \/ GetImage(b) \/ CreateTag(b) \/ DeleteTag(b) \/ RecreateTag(b)
    \/ PublishTagEvents(b) \/ Cleanup(b) \/ SendResult(b) \/ RemoveCredentials(b)

Environment(b) ==
    \/ BuildctlLog(b) \/ BuildctlExit(b)
    \/ \E a \in Addresses : HelperGet(b, a)
    \/ GetCredentials(b) \/ HelperExit(b)

Next == \E b \in Builds : Handler(b) \/ Environment(b)

Spec == Init /\ [][Next]_vars

(* Goroutines run, and a buildctl that was started ends. *)
Fairness == \A b \in Builds : WF_vars(Handler(b)) /\ WF_vars(BuildctlExit(b))

FairSpec == Spec /\ Fairness

-----------------------------------------------------------------------------
HandlerPCs == {"start", "store", "options", "extract", "tar", "buildctl", "load", "wait", "tag",
               "create", "delete", "recreate", "events", "cleanup", "answer", "return", "done"}

(* Every variable has its type. *)
TypeOK ==
    /\ pc \in [Builds -> HandlerPCs]
    /\ options \in [Builds -> Options]
    /\ entries \in [Builds -> [known : BOOLEAN, credentials : SUBSET Addresses]]
    /\ tempDir \subseteq Builds
    /\ buildctl \in [Builds -> {"none", "running", "ok", "failed"}]
    /\ reaped \subseteq Builds
    /\ images \in [Tags -> Builds \cup {Old, None}]
    /\ tagNext \in [Builds -> Nat]
    /\ tagImage \in [Builds -> Builds \cup {Old, None}]
    /\ outcome \in [Builds -> {"none", "ok", "error"}]
    /\ header \in [Builds -> {"none", "ok", "error"}]
    /\ sent \in [Builds -> SUBSET {"stdout", "stderr", "aux", "error"}]
    /\ helper \in [Builds -> [server : Addresses \cup {None}, answer : Addresses \cup {None}]]

(* The cache holds credentials only of builds whose handler still runs, on
   every error path of the handler, of Build and of RunBuild, and never those
   of another build. *)
CredentialsScoped ==
    \A b \in Builds : entries[b] # NoEntry =>
        /\ pc[b] \notin {"start", "store", "done"}
        /\ entries[b] = Entry(options[b].creds)

(* Credentials are removed eventually, whatever the build comes to. *)
CredentialsEventuallyRemoved ==
    \A b \in Builds : entries[b] # NoEntry ~> entries[b] = NoEntry

(* getTarget serves credentials of the asked registry only: of its host, of
   its port and path where the helper names one, and those of the very same
   URL when the build has them, whatever the order of the map. *)
ServedMatches ==
    \A b \in Builds : helper[b].answer # None =>
        LET s == Parse[helper[b].server]
            t == Parse[helper[b].answer]
        IN  /\ helper[b].answer \in options[b].creds
            /\ s = None => helper[b].answer = helper[b].server
            /\ s # None =>
                  /\ t # None /\ t.host = s.host
                  /\ s.port # Empty => t.port = s.port
                  /\ s.path # Empty => t.path = s.path
                  /\ (\E a \in options[b].creds : Parse[a] = s) => t = s

(* build.go:40, "clean up the directory before exiting the method": the build
   context does not outlive the request. *)
TempDirRemoved == \A b \in Builds : pc[b] = "done" => b \notin tempDir

(* RunBuild's Start and Wait: a buildctl that was started has ended and was
   waited for when its request is over, unless loading the image failed. *)
UnreapedOnlyByLoadFailure ==
    \A b \in Builds :
        pc[b] = "done" /\ buildctl[b] # "none" /\ b \notin reaped =>
            options[b].output = "load" /\ outcome[b] = "error"

(* StreamWriter: a build that failed says so, by its status or in the stream;
   a build that did not, does not; and nothing else is in the body of an error
   response, save what a buildctl nobody waited for still writes. *)
FailureReported ==
    \A b \in Builds : pc[b] \in {"return", "done"} =>
        /\ ("error" \in sent[b]) <=> (outcome[b] # "ok")
        /\ header[b] = "error" =>
              sent[b] = {"error"} \/ (b \notin reaped /\ options[b].output = "load")

TagsOf(b) == {options[b].tags[i] : i \in 1..Len(options[b].tags)}

Alone(b) == \A c \in Builds \ {b} : pc[c] = "start" \/ TagsOf(b) \cap TagsOf(c) = {}

(* RunBuild and publishTagEvent: a build that ends well with no other build
   using its tags leaves every tag naming the image that it made, unless the
   client asked for an output that is not stored: its tags, found and handed
   out all the same, then name an older image. *)
TagsNameOwnImage ==
    \A b \in Builds :
        pc[b] # "start" /\ outcome[b] = "ok" /\ Alone(b) /\ options[b].output # "elsewhere" =>
            \A t \in TagsOf(b) : images[t] = b

(* RunBuild's Delete and Create of a tag that exists: a tag of a build that
   ended well names an image for good, except while another build is between
   the two, or when that build failed there. *)
TagKept ==
    \A b \in Builds : outcome[b] = "ok" =>
        \A t \in TagsOf(b) :
            \/ images[t] # None
            \/ \E c \in Builds :
                  /\ tagNext[c] \in 2..Len(options[c].tags)
                  /\ NextTag(c) = t
                  /\ pc[c] = "recreate" \/ outcome[c] = "error"
=============================================================================
