SPECIFICATION FairSpec
CONSTANTS
    b1 = b1
    b2 = b2
    t1 = t1
    t2 = t2
    plain = plain
    http = http
    port = port
    other = other
    path = path
    odd = odd
    Empty = Empty
    Old = Old
    None = None
    Builds = {b1}
    Addresses = {plain, http, port, other, path, odd}
    URLs <- AllURLs
    Parse <- ParseAll
    CredSets <- AllCreds
    Tags = {t1}
    TagLists <- MaybeTag
    MayFail = {"validatePeerCreds", "FindTarBinary", "RemoveAll"}
INVARIANTS ServedMatches
PROPERTIES CredentialsEventuallyRemoved
CHECK_DEADLOCK FALSE
