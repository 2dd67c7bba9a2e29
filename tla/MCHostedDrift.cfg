SPECIFICATION Spec
CONSTANTS
    issuer = issuer
    alice = alice
    pay = pay
    gold = gold
    pool = pool
    bundle = bundle
    leg = leg
    None = None
    Addresses = {issuer, alice}
    Issuer = issuer
    Assets = {pay, gold}
    DefaultAsset = pay
    Pools = {pool}
    Bundles = {bundle}
    Legs = {leg}
    Unit = 1
    Requests <- MCRequests
    ExecutionRequests <- MCExecutionRequests
    ForeignRequests <- MCForeignRequests
    InitialAssets = {pay}
    Threads = {t1, t2}
    Operations = {"register"}
    MaxQueued = 2
    MaxCommits = 2
    MaxForeign = 0
    MaxCrashes = 0
INVARIANTS
    OwnBatchesPass
CHECK_DEADLOCK FALSE
