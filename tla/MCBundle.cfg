SPECIFICATION PollSpec
CONSTANTS
    x = x
    y = y
    x0 = x0
    x1 = x1
    y0 = y0
    y1 = y1
    y2 = y2
    poller = poller
    request = request
    Layers = {x, y}
    SlOf <- OwnIds
    States <- MCStates
    Genesis <- MCGenesis
    Children <- MCChildren
    Raising <- MCRaising
    Bundles <- MCBundles
    Plain <- MCPlain
    EventKeys = {1}
    Threads = {poller, request}
    Locked = {poller}
    Sources = {"poll"}
    MaxPosts = 2
    MaxCrashes = 1
INVARIANTS
    TypeOK
    Linked
    EvidenceKept
    RejectionsAreDeserved
    HalfCommittedCanBeCompleted
PROPERTIES
    ImplementsVerifiedChains
    InterruptedIsCompleted
CHECK_DEADLOCK FALSE
