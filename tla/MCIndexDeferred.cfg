SPECIFICATION PollSpec
CONSTANTS
    s0 = s0
    s1 = s1
    s2 = s2
    t1 = t1
    poller = poller
    request = request
    States <- MCStates
    Genesis = s0
    Payloads <- LivePayloads
    Raising = {}
    Envelopes <- NoEnvelopes
    EventKeys = {0}
    Threads = {poller}
    Locked = {poller}
    Sources = {"poll"}
    ReportsHeight = TRUE
    MaxPosts = 2
    MaxCrashes = 0
PROPERTIES
    DeferredIsRetried
CHECK_DEADLOCK FALSE
