------------------------------ MODULE MCLedger ------------------------------
(***************************************************************************)
(* A small instance of Ledger: the issuer and one user, the default asset  *)
(* and one registrable asset, one pool.  Amounts are halves of a unit.  The *)
(* AMM context authorises every kind of pool movement of the user.         *)
(***************************************************************************)
EXTENDS Ledger

CONSTANTS alice, pay, gold, pool, bundle, leg

Movements(amounts) ==
    [kind: PoolKinds, leg: {leg}, pool: {pool}, asset: Assets,
     address: {alice}, amount: amounts]

MCContexts == {[bundle |-> bundle, movements |-> Movements({1})]}

\* The issuer's controls, signed by the issuer or (rejected) by the user.
Controls ==
    [type: {"register_asset", "mint", "burn", "freeze", "unfreeze"},
     sender: Addresses, asset: Assets, amount: {0, 2, 3}, from: Addresses,
     to: Addresses, pool: {pool}, bundle: {None}, leg: {None}, amm: {None}]

Transfers ==
    [type: TransferKinds, sender: Addresses, asset: Assets, amount: {0, 1, 2, 4},
     from: Addresses, to: Addresses, pool: {pool}, bundle: {bundle, None},
     leg: {leg, None}, amm: {None}]

PoolMoves ==
    [type: PoolKinds, sender: Addresses, asset: Assets, amount: {2, 3, 4},
     from: {alice}, to: {alice}, pool: {pool}, bundle: {bundle, None},
     leg: {leg}, amm: {None} \cup
         {[bundle |-> bundle, movements |-> Movements({2})]}]

MCRequests == Controls \cup Transfers \cup PoolMoves

=============================================================================
