SPECIFICATION Spec
CONSTANTS
    issuer = issuer
    alice = alice
    pay = pay
    pool = pool
    leg = leg
    bundle = bundle
    None = None
    Addresses = {issuer, alice}
    Issuer = issuer
    Assets = {pay}
    DefaultAsset = pay
    Pools = {pool}
    Bundles = {bundle}
    Legs = {leg}
    Unit = 1
    Procs = {p1}
    Requests <- MCRequests
    MaxSubmissions = 3
    MaxBatches = 3
    MaxCrashes = 2
INVARIANTS
    TypeOK
    AppliedOnce
    PublishedChain
    AppliesPrefix
    VerifierLinked
    VerifiedIsPrefix
CHECK_DEADLOCK FALSE
