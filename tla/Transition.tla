----------------------------- MODULE Transition -----------------------------
(***************************************************************************)
(* The payment semantic layer's transition function F(S, Input) -> S'      *)
(* (src/core.py): when an action is accepted, what it changes, and the two *)
(* ways a batch of actions is run through it -- process_batch, which skips *)
(* the actions F rejects, and verify_batch, which fails on the first one.  *)
(*                                                                         *)
(* Abstractions.  An address stands for the verification key it is the     *)
(* hash of.  A state hash is the state itself (no collisions).  An absent  *)
(* asset id is DefaultAsset, as every handler normalises it.  Asset        *)
(* metadata is dropped: F never reads it.                                  *)
(*                                                                         *)
(* Amounts.  A requested amount is any JSON number (Action.from_dict       *)
(* checks nothing), so it is counted in parts, Unit of them to a whole     *)
(* unit.  What the ledger stores is whole units: every store goes through  *)
(* int(), which drops the fraction (Whole).                                *)
(***************************************************************************)
EXTENDS Integers, SequencesExt

CONSTANTS
    Addresses,      \* account addresses, the issuer's included
    Issuer,         \* the address of issuer_vk
    Assets,         \* asset ids
    DefaultAsset,   \* DEFAULT_ASSET_ID, known without being registered
    Pools,          \* AMM pool ids
    Bundles,        \* bundle ids an AMM context or an action may name
    Legs,           \* leg ids
    Unit,           \* parts of a whole unit an amount is counted in
    None            \* an absent bundle id, leg id or context

ASSUME ConstantsAssumption ==
    /\ Issuer \in Addresses
    /\ DefaultAsset \in Assets
    /\ Unit \in Nat \ {0}
    /\ None \notin Bundles \cup Legs

-----------------------------------------------------------------------------
\* Types.

PoolKinds == {"pool_deposit", "pool_withdraw", "pool_swap_in", "pool_swap_out"}

TransferKinds == {"transfer", "bundle_transfer"}

ActionTypes ==
    {"register_asset", "mint", "burn", "freeze", "unfreeze"}
        \cup TransferKinds \cup PoolKinds

\* One asset movement of an AMM context: its amount is whole units, int() was
\* applied to it.
Movement ==
    [kind: PoolKinds, leg: Legs, pool: Pools, asset: Assets,
     address: Addresses, amount: Int]

Context == [bundle: Bundles, movements: SUBSET Movement]

\* A semantic input before a nonce is assigned; its amount is in parts.  "from" is
\* the account whose funds the action names (from_addr, owner or trader); "to" is
\* the recipient of a mint or transfer and the target of a freeze; "amm" is
\* amm_context.
Request ==
    [type: ActionTypes, sender: Addresses, asset: Assets, amount: Int,
     from: Addresses, to: Addresses, pool: Pools,
     bundle: Bundles \cup {None}, leg: Legs \cup {None},
     amm: Context \cup {None}]

\* A semantic input with its nonce.
Action == [nonce: Nat, request: Request]

LedgerState ==
    [nonce: Nat, assets: SUBSET Assets,
     balance: [Assets -> [Addresses -> Nat]], supply: [Assets -> Int],
     frozen: [Assets -> SUBSET Addresses],
     escrow: [Pools -> [Assets -> Nat]]]

\* The state of a new semantic layer whose registry declares the assets in
\* registered: no funds, no frozen account, nonce 0.
Genesis(registered) ==
    [nonce |-> 0, assets |-> registered,
     balance |-> [x \in Assets |-> [a \in Addresses |-> 0]],
     supply |-> [x \in Assets |-> 0],
     frozen |-> [x \in Assets |-> {}],
     escrow |-> [p \in Pools |-> [x \in Assets |-> 0]]]

-----------------------------------------------------------------------------
\* Amounts.

\* (Mutant of Whole: to the next whole unit, away from zero.)
WholeUp(parts) ==
    IF parts >= 0 THEN -((-parts) \div Unit) ELSE parts \div Unit

\* int() of an amount in parts: whole units, toward zero.
Whole(parts) ==
    IF parts >= 0 THEN parts \div Unit ELSE -((-parts) \div Unit)

\* int(units + amount), int(units - amount) and units >= amount, for a stored
\* number of whole units and an amount in parts.
Plus(units, amount) == Whole(units * Unit + amount)
Minus(units, amount) == Whole(units * Unit - amount)
Covers(units, amount) == units * Unit >= amount

-----------------------------------------------------------------------------
\* When F accepts request r in state s, nonce check apart.

\* (Mutant of Known: no registry check.)
KnownAlways(s, asset) == TRUE

Known(s, asset) == asset = DefaultAsset \/ asset \in s.assets

\* Some movement of the effective context (the bundle's, else the action's
\* own) describes exactly this pool action.
MatchesMovement(r, context) ==
    LET effective == IF context # None THEN context ELSE r.amm
    IN  /\ effective # None
        /\ r.bundle = effective.bundle
        /\ r.leg # None
        /\ [kind |-> r.type, leg |-> r.leg, pool |-> r.pool, asset |-> r.asset,
            address |-> r.from, amount |-> Whole(r.amount)] \in effective.movements

AcceptsRegister(s, r) ==
    /\ r.sender = Issuer
    /\ r.asset \notin s.assets

AcceptsMint(s, r) ==
    /\ r.sender = Issuer
    /\ Known(s, r.asset)
    /\ r.amount > 0

\* (Mutant of AcceptsBurn: the balance check is missing.)
BurnWithoutFunds(s, r) == AcceptsMint(s, r)

AcceptsBurn(s, r) ==
    /\ AcceptsMint(s, r)
    /\ Covers(s.balance[r.asset][r.from], r.amount)

\* (Mutant of AcceptsTransfer: the balance check is missing.)
TransferWithoutFunds(s, r, context) ==
    /\ Known(s, r.asset)
    /\ r.amount > 0
    /\ r.sender = r.from

AcceptsTransfer(s, r, context) ==
    /\ Known(s, r.asset)
    /\ r.amount > 0
    /\ r.type = "bundle_transfer" =>
           /\ context # None
           /\ r.bundle = context.bundle
           /\ r.leg # None
    /\ r.sender = r.from
    /\ r.from \notin s.frozen[r.asset]
    /\ r.to \notin s.frozen[r.asset]
    /\ Covers(s.balance[r.asset][r.from], r.amount)

\* (Mutant of AcceptsPool: a frozen trader is let through.)
PoolIgnoringFreeze(s, r, context) ==
    /\ Known(s, r.asset)
    /\ r.amount > 0
    /\ r.sender = r.from
    /\ MatchesMovement(r, context)
    /\ IF r.type \in {"pool_deposit", "pool_swap_in"}
       THEN Covers(s.balance[r.asset][r.from], r.amount)
       ELSE Covers(s.escrow[r.pool][r.asset], r.amount)

\* (Mutant of AcceptsPool: the account's or the pool's funds are not checked.)
PoolWithoutFunds(s, r, context) ==
    /\ Known(s, r.asset)
    /\ r.amount > 0
    /\ r.sender = r.from
    /\ MatchesMovement(r, context)

AcceptsPool(s, r, context) ==
    /\ Known(s, r.asset)
    /\ r.amount > 0
    /\ r.sender = r.from
    /\ r.from \notin s.frozen[r.asset]
    /\ MatchesMovement(r, context)
    /\ IF r.type \in {"pool_deposit", "pool_swap_in"}
       THEN Covers(s.balance[r.asset][r.from], r.amount)
       ELSE Covers(s.escrow[r.pool][r.asset], r.amount)

AcceptsFreeze(s, r) ==
    /\ r.sender = Issuer
    /\ Known(s, r.asset)

Accepts(s, r, context) ==
    \/ r.type = "register_asset" /\ AcceptsRegister(s, r)
    \/ r.type = "mint" /\ AcceptsMint(s, r)
    \/ r.type = "burn" /\ AcceptsBurn(s, r)
    \/ r.type \in TransferKinds /\ AcceptsTransfer(s, r, context)
    \/ r.type \in PoolKinds /\ AcceptsPool(s, r, context)
    \/ r.type \in {"freeze", "unfreeze"} /\ AcceptsFreeze(s, r)

-----------------------------------------------------------------------------
\* What an accepted request changes, the nonce apart.

Credit(s, asset, a, n) == [s EXCEPT !.balance[asset][a] = Plus(@, n)]

Debit(s, asset, a, n) == [s EXCEPT !.balance[asset][a] = Minus(@, n)]

Effect(s, r) ==
    CASE r.type = "register_asset" -> [s EXCEPT !.assets = @ \cup {r.asset}]
      [] r.type = "mint" ->
            [Credit(s, r.asset, r.to, r.amount)
                EXCEPT !.supply[r.asset] = Plus(@, r.amount)]
      [] r.type = "burn" ->
            [Debit(s, r.asset, r.from, r.amount)
                EXCEPT !.supply[r.asset] = Minus(@, r.amount)]
      [] r.type \in TransferKinds ->
            Credit(Debit(s, r.asset, r.from, r.amount), r.asset, r.to, r.amount)
      [] r.type \in {"pool_deposit", "pool_swap_in"} ->
            [Debit(s, r.asset, r.from, r.amount)
                EXCEPT !.escrow[r.pool][r.asset] = @ + Whole(r.amount)]
      [] r.type \in {"pool_withdraw", "pool_swap_out"} ->
            [Credit(s, r.asset, r.from, r.amount)
                EXCEPT !.escrow[r.pool][r.asset] = @ - Whole(r.amount)]
      [] r.type = "freeze" -> [s EXCEPT !.frozen[r.asset] = @ \cup {r.to}]
      [] r.type = "unfreeze" -> [s EXCEPT !.frozen[r.asset] = @ \ {r.to}]

-----------------------------------------------------------------------------
\* apply_action and the batches.  An action is [nonce, request].

\* (Mutant of Applies: any nonce will do.)
AppliesAnyNonce(s, action, context) == Accepts(s, action.request, context)

Applies(s, action, context) ==
    /\ action.nonce = s.nonce + 1
    /\ Accepts(s, action.request, context)

ApplyAction(s, action) ==
    [Effect(s, action.request) EXCEPT !.nonce = action.nonce]

\* process_batch takes one action: F accepts it, or it is skipped.
ProcessOne(acc, action, context) ==
    IF Applies(acc.state, action, context)
    THEN [state |-> ApplyAction(acc.state, action),
          applied |-> Append(acc.applied, action)]
    ELSE acc

\* process_batch: the state after the actions F accepts, and those actions.
ProcessBatch(s, actions, context) ==
    LET run[i \in 0..Len(actions)] ==
            IF i = 0 THEN [state |-> s, applied |-> <<>>]
            ELSE ProcessOne(run[i - 1], actions[i], context)
    IN  run[Len(actions)]

\* verify_batch takes one action: the first one F rejects fails the batch.
VerifyOne(acc, action, context) ==
    IF acc.ok /\ Applies(acc.state, action, context)
    THEN [state |-> ApplyAction(acc.state, action), ok |-> TRUE]
    ELSE [state |-> acc.state, ok |-> FALSE]

\* verify_batch: every action must be accepted and the claimed state reached.
VerifyBatch(s, actions, claimed, context) ==
    LET run[i \in 0..Len(actions)] ==
            IF i = 0 THEN [state |-> s, ok |-> TRUE]
            ELSE VerifyOne(run[i - 1], actions[i], context)
    IN  run[Len(actions)] = [state |-> claimed, ok |-> TRUE]

=============================================================================
