SPECIFICATION ImagesSpec
CONSTANTS
    r1 = r1
    r2 = r2
    r3 = r3
    i = i
    j = j
    web = web
    db = db
    None = None
    Requests = {r1, r2, r3}
    Ids = {i, j}
    Names = {web, db}
    Prefix <- WebBeginsJ
    Workloads <- AllWorkloads
    MayFail = {"handler", "SearchContainer", "GetContainerStatus", "nerdctl", "CreateContainer", "updateContainerMetadata", "Task", "mountSnapshot", "MountAll", "Stat", "tar", "Unmount", "getNetwork", "addNetworkConfig", "connectNetwork", "deleteNet"}
    q1 = q1
    q2 = q2
    app = app
    lib = lib
    appTmp = appTmp
    multi = multi
    single = single
    short = short
    long = long
    ImageRequests = {q1, q2}
    References = {app, lib, appTmp}
    Pushable = {app}
    PushRef <- AppTmp
    Digests = {multi, single}
    Texts = {short, long}
    Begins <- ShortAndLong
    Reduce <- SinglePlatform
    ImageOf <- OneImageEach
    Mixes <- ContainersAndImages
    ImageMayFail = {"handler", "ParseDockerRef", "GetDockerResolver", "PullImage", "LoadImage", "build", "walk", "Get", "Create", "Delete", "PublishEvent", "Convert", "PushImage", "DeferredDelete", "SearchImage", "GetUsedImages", "cont.Image", "ContainerStatus", "DeleteImage", "read"}
INVARIANTS TypeOK ActsOnChecked NameLostOnlyByWriteBack TempDirLeftOnlyByFailure SnapshotLostOnlyByFailure TempRefLeftOnlyByFailure PushBrokenOnlyByOther
PROPERTY UsedImageRemovedOnlyByRace
CHECK_DEADLOCK FALSE
