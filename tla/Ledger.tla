------------------------------- MODULE Ledger -------------------------------
(***************************************************************************)
(* The payment ledger as a state machine: one step per action that F       *)
(* (apply_action, src/core.py) accepts.  Both the operator's current state *)
(* and a verifier's verified state evolve only by such steps.              *)
(***************************************************************************)
EXTENDS Transition

CONSTANTS
    Requests,       \* the semantic inputs submitted
    Contexts,       \* the bundle contexts F may be given
    MaxNonce        \* bound: steps explored from genesis

ASSUME LedgerAssumption ==
    /\ Requests \subseteq Request
    /\ Contexts \subseteq Context
    /\ MaxNonce \in Nat

VARIABLES
    state,          \* the ledger
    rounded         \* auxiliary: accepted moves of a fraction, per asset

vars == <<state, rounded>>

Init ==
    /\ \E registered \in SUBSET Assets : state = Genesis(registered)
    /\ rounded = [x \in Assets |-> 0]

\* A fraction taken from an account for another holder: what is taken is
\* rounded up to whole units and what is given is rounded down.
MovesFraction(r) ==
    /\ r.type \in TransferKinds \cup {"pool_deposit", "pool_swap_in"}
    /\ r.amount % Unit # 0

\* F applied to request r under the next nonce.
Take(r, context) ==
    LET action == [nonce |-> state.nonce + 1, request |-> r]
    IN  /\ state.nonce < MaxNonce
        /\ Applies(state, action, context)
        /\ state' = ApplyAction(state, action)
        /\ rounded' = IF MovesFraction(r)
                      THEN [rounded EXCEPT ![r.asset] = @ + 1] ELSE rounded

RegisterAsset(r, context) == r.type = "register_asset" /\ Take(r, context)
Mint(r, context) == r.type = "mint" /\ Take(r, context)
Burn(r, context) == r.type = "burn" /\ Take(r, context)
Transfer(r, context) == r.type \in TransferKinds /\ Take(r, context)
Pool(r, context) == r.type \in PoolKinds /\ Take(r, context)
Freeze(r, context) == r.type = "freeze" /\ Take(r, context)
Unfreeze(r, context) == r.type = "unfreeze" /\ Take(r, context)

Next ==
    \E r \in Requests, context \in Contexts \cup {None} :
        \/ RegisterAsset(r, context)
        \/ Mint(r, context)
        \/ Burn(r, context)
        \/ Transfer(r, context)
        \/ Pool(r, context)
        \/ Freeze(r, context)
        \/ Unfreeze(r, context)

Spec == Init /\ [][Next]_vars

-----------------------------------------------------------------------------
\* Properties.

\* The state is a ledger state: in particular no balance and no escrow is ever
\* negative, whatever amounts are requested.  (A burn checks the balance and not
\* the supply: that the supply is never negative follows with Accounted.)
TypeOK == state \in LedgerState /\ rounded \in [Assets -> Nat]

Circulating(s, asset) == SumFunction(s.balance[asset])

Escrowed(s, asset) == SumFunction([p \in Pools |-> s.escrow[p][asset]])

\* The part of the supply nobody holds.
Missing(s, asset) ==
    s.supply[asset] - (Circulating(s, asset) + Escrowed(s, asset))

\* Funds are accounted for: of every asset, accounts and pool escrows together
\* hold the whole supply except one unit for each accepted transfer, deposit
\* or swap-in of a fraction (State.set_balance takes int(balance - amount) from
\* the one and adds int(amount) to the other).  So no mix of mints, burns,
\* transfers and pool movements creates funds, mints, burns and withdrawals of
\* a fraction lose none, and while amounts are whole the supply is exactly what
\* is held.
Accounted ==
    \A asset \in Assets : Missing(state, asset) = rounded[asset]

\* A frozen account is inert except for the issuer: while it is frozen in an
\* asset its balance can change only by exactly the change of the asset's
\* total supply, that is by a mint to it or a burn from it.  No transfer and
\* no pool movement, in either direction, reaches it.
FrozenMovesOnlyWithSupply ==
    [][\A asset \in Assets : \A a \in state.frozen[asset] :
           state'.balance[asset][a] - state.balance[asset][a]
               \in {0, state'.supply[asset] - state.supply[asset]}]_vars

\* An asset nobody registered stays empty: only the default asset is usable
\* without a registration, so no unregistered asset ever has supply, funds,
\* escrow or a frozen account.
UnregisteredIsEmpty ==
    \A asset \in Assets \ (state.assets \cup {DefaultAsset}) :
        /\ state.supply[asset] = 0
        /\ \A a \in Addresses : state.balance[asset][a] = 0
        /\ \A p \in Pools : state.escrow[p][asset] = 0
        /\ state.frozen[asset] = {}

=============================================================================
