SPECIFICATION PairedSpec
CONSTANTS
    b1 = b1
    b2 = b2
    t1 = t1
    t2 = t2
    plain = plain
    http = http
    port = port
    other = other
    path = path
    odd = odd
    Empty = Empty
    Old = Old
    None = None
    Builds = {b1, b2}
    Addresses = {plain}
    URLs <- AllURLs
    Parse <- ParseAll
    CredSets <- SomeCreds
    Tags = {t1, t2}
    TagLists <- SharedTags
    MayFail = {"DecodeRegistryConfig", "GenerateBuildID", "getBuildOptions", "MkdirTemp", "tar", "Start", "NewClient", "Import", "Unpack", "imageCreate", "PublishEvent"}
INVARIANTS CredentialsScoped TempDirRemoved UnreapedOnlyByLoadFailure FailureReported TagsNameOwnImage TagKept
SYMMETRY Symmetry
CHECK_DEADLOCK FALSE
