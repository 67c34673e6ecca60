SPECIFICATION FairSpec
CONSTANTS
    Prop = {"EMAIL"}
    Value = {"internet", "plain", "labelled", "typed", "home", "a", "r1", "r2", "uid", "v3", "v4"}
    None = None
    V4 = "v4"
    Time <- MCTime
    u1 = u1
    u2 = u2
    id1 = id1
    id2 = id2
    id3 = id3
    UID = {u1, u2}
    ID = {id1, id2}
    Path = {"own"}
    OwnPath = "own"
    NoCard = NoCard
    Deleted = Deleted
    SyncPolicy = "PolicyPreferCardDAV"
    MaxNewProton = 1
    Dropped = {}
    Fold <- FoldEmail
    RejectDuplicateUID = TRUE
    CallFault = {"fetch", "index", "put", "putLost", "update", "updateLost", "create", "createLost", "refetch", "save"}
    StopAt = {"fetch", "loop", "put", "update", "create", "refetch", "save"}
    MaxFault = 1
    UserCard <- CardsEmail
    UserPath = {"own"}
    EditPhase = {"idle", "fetch", "loop", "put", "update", "create", "refetch", "save"}
    MaxEdit = 1
INVARIANTS
    TypeOK
    QuietAgreement
PROPERTIES
    QuietRunsChangeNothing
    EventuallyQuiet
    EveryContactCopied
