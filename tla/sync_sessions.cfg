SPECIFICATION Spec
CONSTANTS
    long = long exact = exact empty = empty tree = tree bare = bare
    item1 = item1 item0 = item0 item2 = item2
    longLeaf = longLeaf exactLeaf = exactLeaf emptyLeaf = emptyLeaf
    Files <- MCFiles
    Folders <- MCFolders
    Leaves <- MCLeaves
    LeavesOf <- MCLeavesOf
    Size <- MCSize
    FolderSize <- MCFolderSize
    Readable <- MCLeaves
    BlockData = 2
    NoFile = NoFile
    NoLeaf = NoLeaf
    Paths <- MCLeaves
    PathOf <- MCPathOf
    Writable <- MCLeaves
    Absent = Absent
    NoPath = NoPath
    s1 = s1 s2 = s2
    Senders = {s1, s2}
    SenderNum = 1
    Requests = {exact, tree}
    FileOf <- MCFileOf
    NoRequest = NoRequest
    NoSender = NoSender
    Faults = TRUE
    MaxSessions = 2
    MaxStops = 1
    MaxResizes = 0
    Concurrency = {1}
SYMMETRY MCSymmetry
INVARIANTS OneHolder BuilderReady EndMeansWhole
    CancelLeavesNoStump NoCancelAfterComplete
CHECK_DEADLOCK FALSE
