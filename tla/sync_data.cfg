SPECIFICATION FairSpec
CONSTANTS
    long = long exact = exact empty = empty tree = tree bare = bare
    item1 = item1 item0 = item0 item2 = item2
    longLeaf = longLeaf exactLeaf = exactLeaf emptyLeaf = emptyLeaf
    Files <- MCFiles
    Folders <- MCFolders
    Leaves <- MCLeaves
    LeavesOf <- MCLeavesOf
    Size <- MCSize
    FolderSize <- MCFolderSize
    Readable <- MCLeaves
    BlockData = 2
    NoFile = NoFile
    NoLeaf = NoLeaf
    Paths <- MCLeaves
    PathOf <- MCPathOf
    Writable <- MCLeaves
    Absent = Absent
    NoPath = NoPath
    s1 = s1 s2 = s2
    Senders = {s1}
    SenderNum = 1
    Requests = {long, tree}
    FileOf <- MCFileOf
    NoRequest = NoRequest
    NoSender = NoSender
    Faults = FALSE
    MaxSessions = 1
    MaxStops = 0
    MaxResizes = 0
    Concurrency = {1}
INVARIANTS InOrder BuilderReady EndMeansWhole CancelLeavesNoStump
    NoCancelAfterComplete CompleteMeansDelivered
PROPERTIES ProgressGrows EveryRequestEnds EveryTransferEnds
CHECK_DEADLOCK FALSE
