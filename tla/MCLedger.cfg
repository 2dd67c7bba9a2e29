SPECIFICATION Spec
CONSTANTS
    alice = alice
    pay = pay
    gold = gold
    pool = pool
    bundle = bundle
    leg = leg
    None = None
    Addresses = {issuer, alice}
    Issuer = issuer
    Assets = {pay, gold}
    DefaultAsset = pay
    Pools = {pool}
    Bundles = {bundle}
    Legs = {leg}
    Unit = 2
    Requests <- MCRequests
    Contexts <- MCContexts
    MaxNonce = 5
INVARIANTS
    TypeOK
    Accounted
    UnregisteredIsEmpty
PROPERTIES
    FrozenMovesOnlyWithSupply
CHECK_DEADLOCK FALSE
