SPECIFICATION PollSpec
CONSTANTS
    s0 = s0
    s1 = s1
    s2 = s2
    t1 = t1
    poller = poller
    request = request
    States <- MCStates
    Genesis = s0
    Payloads <- LivePayloads
    Raising <- RaisingPayloads
    Envelopes <- NoEnvelopes
    EventKeys = {0}
    Threads = {poller, request}
    Locked = {poller}
    Sources = {"poll"}
    ReportsHeight = TRUE
    MaxPosts = 2
    MaxCrashes = 1
PROPERTIES
    PollerCatchesUp
CHECK_DEADLOCK FALSE
