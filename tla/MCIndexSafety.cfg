SPECIFICATION Spec
CONSTANTS
    s0 = s0
    s1 = s1
    s2 = s2
    t1 = t1
    poller = poller
    request = request
    States <- MCStates
    Genesis = s0
    Payloads <- AllPayloads
    Raising <- RaisingPayloads
    Envelopes <- MCEnvelopes
    EventKeys = {1}
    Threads = {poller, request}
    Locked = {poller}
    Sources = {"poll"}
    ReportsHeight = FALSE
    MaxPosts = 2
    MaxCrashes = 1
INVARIANTS
    TypeOK
    Linked
    CheckpointIsHead
    RejectedAreInvalid
    EvidenceKept
PROPERTIES
    ImplementsVerifiedChain
CHECK_DEADLOCK FALSE
