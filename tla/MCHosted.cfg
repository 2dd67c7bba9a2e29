SPECIFICATION Spec
CONSTANTS
    issuer = issuer
    alice = alice
    pay = pay
    gold = gold
    pool = pool
    bundle = bundle
    leg = leg
    None = None
    Addresses = {issuer, alice}
    Issuer = issuer
    Assets = {pay, gold}
    DefaultAsset = pay
    Pools = {pool}
    Bundles = {bundle}
    Legs = {leg}
    Unit = 1
    Requests <- MCRequests
    ExecutionRequests <- MCExecutionRequests
    ForeignRequests <- MCForeignRequests
    InitialAssets = {pay}
    Threads = {t1, t2}
    Operations = {"execute", "index", "sync", "accept", "copy", "register"}
    MaxQueued = 1
    MaxCommits = 3
    MaxForeign = 1
    MaxCrashes = 1
SYMMETRY MCSymmetry
INVARIANTS
    TypeOK
    NumbersFree
    OneInFlight
    CurrentIsInStep
    VerdictIsTrue
CHECK_DEADLOCK FALSE
