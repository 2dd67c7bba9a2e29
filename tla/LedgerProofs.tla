---------------------------- MODULE LedgerProofs ----------------------------
(***************************************************************************)
(* Theorems about Ledger, for every set of addresses, assets, pools,       *)
(* requests and contexts.                                                  *)
(***************************************************************************)
EXTENDS Ledger, TransitionProofs

-----------------------------------------------------------------------------
\* A step is the effect of one accepted request, under the next nonce.
LEMMA StepIsLocal ==
    ASSUME TypeOK, Next
    PROVE  \E context : \E r \in Request, e \in LedgerState :
              /\ Accepts(state, r, context)
              /\ e = Effect(state, r)
              /\ EffectIsLocal(state, r, e)
              /\ state' = [e EXCEPT !.nonce = state.nonce + 1]
              /\ rounded' = IF MovesFraction(r)
                            THEN [rounded EXCEPT ![r.asset] = @ + 1] ELSE rounded
<1>1. PICK r \in Requests, context \in Contexts \cup {None} : Take(r, context)
  BY DEF Next, RegisterAsset, Mint, Burn, Transfer, Pool, Freeze, Unfreeze
<1>2. r \in Request
  BY LedgerAssumption
<1>3. /\ Accepts(state, r, context)
      /\ state' = [Effect(state, r) EXCEPT !.nonce = state.nonce + 1]
      /\ rounded' = IF MovesFraction(r)
                    THEN [rounded EXCEPT ![r.asset] = @ + 1] ELSE rounded
  BY <1>1 DEF Take, Applies, ApplyAction
<1>4. EffectIsLocal(state, r, Effect(state, r))
  BY <1>2, <1>3, AcceptedIsLocal DEF TypeOK
<1>5. Effect(state, r) \in LedgerState
  BY <1>4 DEF EffectIsLocal
<1> QED
  BY <1>2, <1>3, <1>4, <1>5

\* The state is always a ledger state: no balance and no pool escrow is ever
\* negative, however many accounts, assets, pools and requests there are, and
\* whatever fractions are requested.
THEOREM LedgerTypeCorrect == Spec => []TypeOK
<1>1. Init => TypeOK
  BY GenesisType DEF Init, TypeOK
<1>2. TypeOK /\ [Next]_vars => TypeOK'
  <2> SUFFICES ASSUME TypeOK, [Next]_vars
               PROVE  TypeOK'
    OBVIOUS
  <2>1. CASE Next
    <3>1. PICK r \in Request, e \in LedgerState :
              /\ state' = [e EXCEPT !.nonce = state.nonce + 1]
              /\ rounded' = IF MovesFraction(r)
                            THEN [rounded EXCEPT ![r.asset] = @ + 1] ELSE rounded
      BY <2>1, StepIsLocal
    <3>2. state.nonce + 1 \in Nat
      BY DEF TypeOK, LedgerState
    <3>3. state' \in LedgerState
      BY <3>1, <3>2 DEF LedgerState
    <3>4. rounded' \in [Assets -> Nat]
      BY <3>1, RequestFields DEF TypeOK
    <3> QED
      BY <3>3, <3>4 DEF TypeOK
  <2>2. CASE UNCHANGED vars
    BY <2>2 DEF TypeOK, vars
  <2> QED
    BY <2>1, <2>2
<1> QED
  BY <1>1, <1>2, PTL DEF Spec

\* Nothing can be held in, moved in or frozen in an asset that is neither the
\* default asset nor registered.
THEOREM UnregisteredAssetsEmpty == Spec => []UnregisteredIsEmpty
<1>1. Init => UnregisteredIsEmpty
  BY DEF Init, Genesis, UnregisteredIsEmpty
<1>2. TypeOK /\ UnregisteredIsEmpty /\ [Next]_vars => UnregisteredIsEmpty'
  <2> SUFFICES ASSUME TypeOK, UnregisteredIsEmpty, [Next]_vars
               PROVE  UnregisteredIsEmpty'
    OBVIOUS
  <2>1. CASE Next
    <3>1. PICK r \in Request, e \in LedgerState :
              /\ EffectIsLocal(state, r, e)
              /\ state' = [e EXCEPT !.nonce = state.nonce + 1]
      BY <2>1, StepIsLocal
    <3>2. /\ state'.balance = e.balance /\ state'.supply = e.supply
          /\ state'.frozen = e.frozen /\ state'.escrow = e.escrow
          /\ state'.assets = e.assets
      BY <3>1 DEF LedgerState
    <3>3. SUFFICES ASSUME NEW asset \in Assets \ (e.assets \cup {DefaultAsset})
                   PROVE  /\ e.supply[asset] = 0
                          /\ \A a \in Addresses : e.balance[asset][a] = 0
                          /\ \A p \in Pools : e.escrow[p][asset] = 0
                          /\ e.frozen[asset] = {}
      BY <3>2 DEF UnregisteredIsEmpty
    <3>4. asset \notin state.assets
      BY <3>1 DEF EffectIsLocal
    <3>5. CASE asset # r.asset
      BY <3>1, <3>4, <3>5 DEF EffectIsLocal, UnregisteredIsEmpty
    <3>6. CASE asset = r.asset
      BY <3>1, <3>4, <3>6 DEF EffectIsLocal, UnregisteredIsEmpty, Known
    <3> QED
      BY <3>5, <3>6
  <2>2. CASE UNCHANGED vars
    BY <2>2 DEF UnregisteredIsEmpty, vars
  <2> QED
    BY <2>1, <2>2
<1> QED
  BY <1>1, <1>2, LedgerTypeCorrect, PTL DEF Spec

-----------------------------------------------------------------------------
\* Where the funds are.

\* A ledger is two Python dictionaries: finitely many accounts and pools.
FiniteLedger == IsFiniteSet(Addresses) /\ IsFiniteSet(Pools)

\* What accounts and pools hold of asset y differs by n.
HoldsMore(s, t, y, n) ==
    Circulating(t, y) + Escrowed(t, y) = Circulating(s, y) + Escrowed(s, y) + n

LEMMA TotalsType ==
    ASSUME FiniteLedger, NEW s \in LedgerState, NEW y \in Assets
    PROVE  Circulating(s, y) \in Int /\ Escrowed(s, y) \in Int /\ s.supply[y] \in Int
<1>1. s.balance[y] \in [Addresses -> Int] /\ s.supply[y] \in Int
  BY DEF LedgerState
<1>2. [p \in Pools |-> s.escrow[p][y]] \in [Pools -> Int]
  BY DEF LedgerState
<1> QED
  BY <1>1, <1>2, SumType DEF FiniteLedger, Circulating, Escrowed

\* One account's balance changes by n, and nothing else that counts.
LEMMA BalanceMoves ==
    ASSUME FiniteLedger, NEW s \in LedgerState, NEW t \in LedgerState,
           SameButBalance(s, t), NEW x \in Assets, NEW a \in Addresses, NEW n \in Int,
           \A y \in Assets, b \in Addresses :
              t.balance[y][b] = IF y = x /\ b = a THEN s.balance[x][a] + n
                                                  ELSE s.balance[y][b],
           NEW y \in Assets
    PROVE  HoldsMore(s, t, y, IF y = x THEN n ELSE 0)
<1>1. PICK f, g : /\ f = s.balance[y] /\ f \in [Addresses -> Nat]
                  /\ g = t.balance[y] /\ g \in [Addresses -> Nat]
  BY DEF LedgerState
<1>2. f \in [Addresses -> Int] /\ g \in [Addresses -> Int] /\ f[a] \in Int
  BY <1>1
<1>3. Circulating(t, y) = Circulating(s, y) + (IF y = x THEN n ELSE 0)
  <2>1. CASE y = x
    <3>1. \A b \in Addresses \ {a} : g[b] = f[b]
      BY <1>1, <2>1
    <3>2. g[a] = f[a] + n
      BY <1>1, <2>1
    <3>3. SumFunction(g) = SumFunction(f) + (g[a] - f[a])
      BY <1>2, <3>1, SumChanges DEF FiniteLedger
    <3>4. g[a] - f[a] = n
      BY <1>2, <3>2
    <3> QED
      BY <1>1, <2>1, <3>3, <3>4 DEF Circulating
  <2>2. CASE y # x
    <3>1. \A b \in Addresses : g[b] = f[b]
      BY <1>1, <2>2
    <3>2. g = f
      BY <1>1, <3>1
    <3>3. Circulating(s, y) \in Int
      BY TotalsType
    <3> QED
      BY <1>1, <2>2, <3>2, <3>3 DEF Circulating
  <2> QED
    BY <2>1, <2>2
<1>4. Escrowed(t, y) = Escrowed(s, y)
  BY DEF SameButBalance, Escrowed
<1>5. Circulating(s, y) \in Int /\ Escrowed(s, y) \in Int
  BY TotalsType
<1>6. PICK m \in Int : m = IF y = x THEN n ELSE 0
  OBVIOUS
<1> QED
  BY <1>3, <1>4, <1>5, <1>6 DEF HoldsMore

LEMMA CreditMoves ==
    ASSUME FiniteLedger, NEW s \in LedgerState, NEW x \in Assets, NEW a \in Addresses,
           NEW n \in Nat, NEW c, c = Credit(s, x, a, n)
    PROVE  /\ c \in LedgerState /\ SameButBalance(s, c)
           /\ \A y \in Assets : HoldsMore(s, c, y, IF y = x THEN Whole(n) ELSE 0)
<1>1. /\ c \in LedgerState /\ SameButBalance(s, c)
      /\ \A y \in Assets, b \in Addresses :
            c.balance[y][b] = IF y = x /\ b = a THEN s.balance[x][a] + Whole(n)
                                                ELSE s.balance[y][b]
  BY CreditType
<1>2. PICK d \in Int : d = Whole(n)
  BY WholeType
<1> QED
  BY <1>1, <1>2, BalanceMoves

LEMMA DebitMoves ==
    ASSUME FiniteLedger, NEW s \in LedgerState, NEW x \in Assets, NEW a \in Addresses,
           NEW n \in Nat, Covers(s.balance[x][a], n), NEW c, c = Debit(s, x, a, n)
    PROVE  /\ c \in LedgerState /\ SameButBalance(s, c)
           /\ \A y \in Assets : HoldsMore(s, c, y, IF y = x THEN -Loss(n) ELSE 0)
<1>1. /\ c \in LedgerState /\ SameButBalance(s, c)
      /\ \A y \in Assets, b \in Addresses :
            c.balance[y][b] = IF y = x /\ b = a THEN s.balance[x][a] - Loss(n)
                                                ELSE s.balance[y][b]
  BY DebitType
<1>2. Loss(n) \in Nat
  BY WholeType
<1>3. PICK d \in Int : d = -Loss(n) /\ s.balance[x][a] - Loss(n) = s.balance[x][a] + d
  <2>1. -Loss(n) \in Int /\ s.balance[x][a] - Loss(n) = s.balance[x][a] + (-Loss(n))
    BY <1>2 DEF LedgerState
  <2> QED
    BY <2>1
<1>4. \A y \in Assets, b \in Addresses :
         c.balance[y][b] = IF y = x /\ b = a THEN s.balance[x][a] + d
                                             ELSE s.balance[y][b]
  BY <1>1, <1>3
<1> QED
  BY <1>1, <1>3, <1>4, BalanceMoves

\* One pool's escrow of one asset becomes n.
LEMMA EscrowMoves ==
    ASSUME FiniteLedger, NEW s \in LedgerState, NEW p \in Pools, NEW x \in Assets,
           NEW n \in Nat, NEW t, t = [s EXCEPT !.escrow[p][x] = n]
    PROVE  /\ t \in LedgerState /\ t.supply = s.supply
           /\ \A y \in Assets :
                 HoldsMore(s, t, y, IF y = x THEN n - s.escrow[p][x] ELSE 0)
<1>1. /\ t \in LedgerState /\ t.supply = s.supply /\ t.balance = s.balance
      /\ \A q \in Pools, y \in Assets \ {x} : t.escrow[q][y] = s.escrow[q][y]
      /\ \A q \in Pools : t.escrow[q][x] = IF q = p THEN n ELSE s.escrow[q][x]
  BY EscrowType
<1>2. ASSUME NEW y \in Assets
      PROVE  HoldsMore(s, t, y, IF y = x THEN n - s.escrow[p][x] ELSE 0)
  <2>1. PICK f, g : /\ f = [q \in Pools |-> s.escrow[q][y]]
                    /\ g = [q \in Pools |-> t.escrow[q][y]]
    OBVIOUS
  <2>2. f \in [Pools -> Int] /\ g \in [Pools -> Int]
    BY <1>1, <2>1 DEF LedgerState
  <2>3. /\ Circulating(t, y) = Circulating(s, y)
        /\ Circulating(s, y) \in Int /\ Escrowed(s, y) \in Int
    BY <1>1, TotalsType DEF Circulating
  <2>4. CASE y = x
    <3>1. g[p] = n /\ f[p] = s.escrow[p][x] /\ \A q \in Pools \ {p} : g[q] = f[q]
      BY <1>1, <2>1, <2>4
    <3>2. SumFunction(g) = SumFunction(f) + (g[p] - f[p])
      BY <2>2, <3>1, SumChanges DEF FiniteLedger
    <3>3. Escrowed(t, y) = Escrowed(s, y) + (n - s.escrow[p][x])
      BY <2>1, <3>1, <3>2 DEF Escrowed
    <3>4. s.escrow[p][x] \in Int
      BY DEF LedgerState
    <3> QED
      BY <2>3, <2>4, <3>3, <3>4 DEF HoldsMore
  <2>5. CASE y # x
    <3>1. g = f
      BY <1>1, <2>1, <2>5
    <3>2. Escrowed(t, y) = Escrowed(s, y)
      BY <2>1, <3>1 DEF Escrowed
    <3> QED
      BY <2>3, <2>5, <3>2 DEF HoldsMore
  <2> QED
    BY <2>4, <2>5
<1> QED
  BY <1>1, <1>2

\* Two changes in a row.
LEMMA HoldsTwice ==
    ASSUME FiniteLedger, NEW s \in LedgerState, NEW t \in LedgerState, NEW e,
           NEW y \in Assets, NEW m \in Int, NEW n \in Int,
           HoldsMore(s, t, y, m), HoldsMore(t, e, y, n)
    PROVE  HoldsMore(s, e, y, m + n)
<1>1. PICK a \in Int, b \in Int : a = Circulating(s, y) /\ b = Escrowed(s, y)
  BY TotalsType
<1>2. Circulating(e, y) + Escrowed(e, y) = a + b + m + n
  BY <1>1 DEF HoldsMore
<1>3. a + b + m + n = a + b + (m + n)
  BY ONLY a \in Int, b \in Int, m \in Int, n \in Int
<1> QED
  BY <1>1, <1>2, <1>3 DEF HoldsMore

\* What changes with the holdings changed by d and the supply by m, of asset x.
Moves(s, e, x, d, m) ==
    \A y \in Assets :
        /\ HoldsMore(s, e, y, IF y = x THEN d ELSE 0)
        /\ e.supply[y] = s.supply[y] + (IF y = x THEN m ELSE 0)

\* One unit for the fraction moved.
Rounding(r) == IF MovesFraction(r) THEN 1 ELSE 0

LEMMA MovesAccount ==
    ASSUME FiniteLedger, NEW s \in LedgerState, NEW e, NEW x \in Assets, NEW d \in Int,
           NEW m \in Int, NEW k \in Int, m - d = k, Moves(s, e, x, d, m), NEW y \in Assets
    PROVE  Missing(e, y) = Missing(s, y) + (IF y = x THEN k ELSE 0)
<1>1. PICK a \in Int, b \in Int, c \in Int :
          a = Circulating(s, y) /\ b = Escrowed(s, y) /\ c = s.supply[y]
  BY TotalsType
<1>2. PICK i \in Int, j \in Int, l \in Int :
          /\ i = (IF y = x THEN d ELSE 0) /\ j = (IF y = x THEN m ELSE 0)
          /\ l = (IF y = x THEN k ELSE 0) /\ j - i = l
  BY SMTT(20)
<1>3. /\ Circulating(e, y) + Escrowed(e, y) = a + b + i
      /\ e.supply[y] = c + j
  BY <1>1, <1>2 DEF Moves, HoldsMore
<1>4. (c + j) - (a + b + i) = (c - (a + b)) + l
  BY ONLY <1>2, a \in Int, b \in Int, c \in Int, i \in Int, j \in Int, l \in Int
<1> QED
  BY <1>1, <1>2, <1>3, <1>4 DEF Missing

\* No more of an asset is held than its supply: then a supply covers what any
\* account holds.
NotOverdrawn(s) == \A y \in Assets : Missing(s, y) >= 0

LEMMA SupplyAtLeast ==
    ASSUME FiniteLedger, NEW s \in LedgerState, NotOverdrawn(s), NEW x \in Assets
    PROVE  /\ s.supply[x] \in Nat
           /\ \A a \in Addresses : s.supply[x] >= s.balance[x][a]
<1>1. PICK f \in [Addresses -> Nat], g \in [Pools -> Nat] :
          f = s.balance[x] /\ g = [p \in Pools |-> s.escrow[p][x]]
  <2>1. s.balance[x] \in [Addresses -> Nat]
    BY DEF LedgerState
  <2>2. [p \in Pools |-> s.escrow[p][x]] \in [Pools -> Nat]
    BY DEF LedgerState
  <2> QED
    BY <2>1, <2>2
<1>2. PICK a \in Int, b \in Int, c \in Int :
          a = Circulating(s, x) /\ b = Escrowed(s, x) /\ c = s.supply[x]
  BY TotalsType
<1>3. a >= 0 /\ \A h \in Addresses : a >= f[h]
  BY <1>1, <1>2, SumAtLeast DEF Circulating, FiniteLedger
<1>4. b >= 0
  BY <1>1, <1>2, SumAtLeast DEF Escrowed, FiniteLedger
<1>5. c - (a + b) >= 0
  BY <1>2 DEF NotOverdrawn, Missing
<1>6. c >= a
  BY <1>4, <1>5
<1>7. \A h \in Addresses : f[h] \in Nat
  BY <1>1
<1> QED
  BY <1>1, <1>2, <1>3, <1>6, <1>7

\* Issuing: the supply follows one account's balance.
LEMMA IssueMoves ==
    ASSUME FiniteLedger, NEW s \in LedgerState, NEW t \in LedgerState, SameButBalance(s, t),
           NEW x \in Assets, NEW n \in Int, NEW k, k = s.supply[x] + n,
           \A y \in Assets : HoldsMore(s, t, y, IF y = x THEN n ELSE 0),
           NEW e, e = [t EXCEPT !.supply[x] = k]
    PROVE  Moves(s, e, x, n, n)
<1>1. k \in Int /\ t.supply = s.supply /\ s.supply \in [Assets -> Int]
  BY DEF LedgerState, SameButBalance
<1>2. /\ e.balance = t.balance /\ e.escrow = t.escrow
      /\ e.supply[x] = k
      /\ \A y \in Assets \ {x} : e.supply[y] = t.supply[y]
  BY <1>1, SupplyType
<1> SUFFICES ASSUME NEW y \in Assets
             PROVE  /\ HoldsMore(s, e, y, IF y = x THEN n ELSE 0)
                    /\ e.supply[y] = s.supply[y] + (IF y = x THEN n ELSE 0)
  BY DEF Moves
<1>3. HoldsMore(s, e, y, IF y = x THEN n ELSE 0)
  BY <1>2 DEF HoldsMore, Circulating, Escrowed
<1>4. e.supply[y] = s.supply[y] + (IF y = x THEN n ELSE 0)
  BY <1>1, <1>2
<1> QED
  BY <1>3, <1>4

\* Moving: one holder's holding follows another's.
LEMMA TwoMoves ==
    ASSUME FiniteLedger, NEW s \in LedgerState, NEW t \in LedgerState, NEW e,
           t.supply = s.supply, e.supply = t.supply,
           NEW x \in Assets, NEW m \in Int, NEW n \in Int, NEW d \in Int, d = m + n,
           \A y \in Assets : /\ HoldsMore(s, t, y, IF y = x THEN m ELSE 0)
                             /\ HoldsMore(t, e, y, IF y = x THEN n ELSE 0)
    PROVE  Moves(s, e, x, d, 0)
<1> SUFFICES ASSUME NEW y \in Assets
             PROVE  /\ HoldsMore(s, e, y, IF y = x THEN d ELSE 0)
                    /\ e.supply[y] = s.supply[y] + (IF y = x THEN 0 ELSE 0)
  BY DEF Moves
<1>1. PICK i \in Int, j \in Int : /\ i = IF y = x THEN m ELSE 0
                                  /\ j = IF y = x THEN n ELSE 0
  OBVIOUS
<1>2. i + j = IF y = x THEN d ELSE 0
  BY <1>1
<1>3. HoldsMore(s, e, y, i + j)
  BY <1>1, HoldsTwice
<1>4. s.supply[y] \in Int
  BY DEF LedgerState
<1> QED
  BY <1>2, <1>3, <1>4

\* Every accepted request leaves every unit of every asset where it can be
\* accounted for, but the one a moved fraction loses.
LEMMA AcceptedMoves ==
    ASSUME FiniteLedger, NEW s \in LedgerState, NEW r \in Request, NEW context,
           Accepts(s, r, context), NotOverdrawn(s)
    PROVE  \E d \in Int, m \in Int :
              m - d = Rounding(r) /\ Moves(s, Effect(s, r), r.asset, d, m)
<1>1. PICK x \in Assets, from \in Addresses, to \in Addresses, p \in Pools, n \in Int :
          /\ x = r.asset /\ from = r.from /\ to = r.to /\ p = r.pool /\ n = r.amount
  BY RequestFields
<1>2. s.balance[x][from] \in Nat /\ s.escrow[p][x] \in Nat
  BY DEF LedgerState
<1>3. CASE r.type \in {"register_asset", "freeze", "unfreeze"}
  <2>1. PICK e : e = Effect(s, r)
    BY SMTT(20)
  <2>2. e.balance = s.balance /\ e.escrow = s.escrow /\ e.supply = s.supply
    BY <1>3, <2>1 DEF Effect, TransferKinds, LedgerState
  <2>3. Rounding(r) = 0
    BY <1>3 DEF Rounding, MovesFraction, TransferKinds
  <2>4. Moves(s, e, x, 0, 0)
    <3> SUFFICES ASSUME NEW y \in Assets
                 PROVE  /\ HoldsMore(s, e, y, IF y = x THEN 0 ELSE 0)
                        /\ e.supply[y] = s.supply[y] + (IF y = x THEN 0 ELSE 0)
      BY DEF Moves
    <3>1. Circulating(s, y) \in Int /\ Escrowed(s, y) \in Int /\ s.supply[y] \in Int
      BY TotalsType
    <3>2. Circulating(e, y) = Circulating(s, y) /\ Escrowed(e, y) = Escrowed(s, y)
      BY <2>2 DEF Circulating, Escrowed
    <3> QED
      BY <2>2, <3>1, <3>2 DEF HoldsMore
  <2> QED
    BY <1>1, <2>1, <2>3, <2>4
<1>4. CASE r.type = "mint"
  <2>1. n \in Nat
    BY <1>1, <1>4 DEF Accepts, AcceptsMint, TransferKinds, PoolKinds
  <2>2. PICK t : t = Credit(s, x, to, n)
    OBVIOUS
  <2>3. /\ t \in LedgerState /\ SameButBalance(s, t)
        /\ \A y \in Assets : HoldsMore(s, t, y, IF y = x THEN Whole(n) ELSE 0)
    BY <2>1, <2>2, CreditMoves
  <2>4. PICK d \in Int : d = Whole(n)
    BY <2>1, WholeType
  <2>5. PICK k : k = Plus(t.supply[x], n)
    OBVIOUS
  <2>6. k = s.supply[x] + d
    <3>1. t.supply[x] = s.supply[x] /\ s.supply[x] \in Nat
      BY <2>3, SupplyAtLeast DEF SameButBalance
    <3> QED
      BY <2>1, <2>4, <2>5, <3>1, PlusWhole
  <2>7. PICK e : e = [t EXCEPT !.supply[x] = k]
    OBVIOUS
  <2>8. Moves(s, e, x, d, d)
    BY <2>3, <2>4, <2>6, <2>7, IssueMoves
  <2>9. Effect(s, r) = e
    BY <1>1, <1>4, <2>2, <2>5, <2>7 DEF Effect, TransferKinds
  <2>10. d - d = Rounding(r)
    BY <1>4 DEF Rounding, MovesFraction, TransferKinds
  <2> QED
    BY <1>1, <2>4, <2>8, <2>9, <2>10
<1>5. CASE r.type = "burn"
  <2>1. n \in Nat /\ Covers(s.balance[x][from], n)
    BY <1>1, <1>5 DEF Accepts, AcceptsBurn, AcceptsMint, TransferKinds, PoolKinds
  <2>2. PICK t : t = Debit(s, x, from, n)
    OBVIOUS
  <2>3. /\ t \in LedgerState /\ SameButBalance(s, t)
        /\ \A y \in Assets : HoldsMore(s, t, y, IF y = x THEN -Loss(n) ELSE 0)
    BY <2>1, <2>2, DebitMoves
  <2>4. PICK d \in Int : d = -Loss(n)
    BY <2>1, WholeType
  <2>5. PICK k : k = Minus(t.supply[x], n)
    OBVIOUS
  <2>6. k = s.supply[x] + d
    <3>1. /\ t.supply[x] = s.supply[x] /\ s.supply[x] \in Nat
          /\ s.supply[x] >= s.balance[x][from]
      BY <2>3, SupplyAtLeast DEF SameButBalance
    <3>2. Covers(s.supply[x], n)
      BY <1>2, <2>1, <3>1, CoversWhole
    <3>3. k = s.supply[x] - Loss(n) /\ Loss(n) \in Nat
      BY <2>1, <2>5, <3>1, <3>2, MinusLoss, WholeType
    <3> QED
      BY <2>4, <3>1, <3>3
  <2>7. PICK e : e = [t EXCEPT !.supply[x] = k]
    OBVIOUS
  <2>8. Moves(s, e, x, d, d)
    BY <2>3, <2>4, <2>6, <2>7, IssueMoves
  <2>9. Effect(s, r) = e
    BY <1>1, <1>5, <2>2, <2>5, <2>7 DEF Effect, TransferKinds
  <2>10. d - d = Rounding(r)
    BY <1>5 DEF Rounding, MovesFraction, TransferKinds
  <2> QED
    BY <1>1, <2>4, <2>8, <2>9, <2>10
<1>6. CASE r.type \in TransferKinds
  <2>1. n \in Nat /\ Covers(s.balance[x][from], n)
    BY <1>1, <1>6 DEF Accepts, AcceptsTransfer, TransferKinds, PoolKinds
  <2>2. PICK t : t = Debit(s, x, from, n)
    OBVIOUS
  <2>3. PICK e : e = Credit(t, x, to, n)
    OBVIOUS
  <2>4. PICK i \in Int, j \in Int, d \in Int :
            i = -Loss(n) /\ j = Whole(n) /\ d = i + j /\ 0 - d = Rounding(r)
    BY <1>1, <1>6, <2>1, WholeType DEF Rounding, MovesFraction
  <2>5. /\ t \in LedgerState /\ SameButBalance(s, t)
        /\ \A y \in Assets : HoldsMore(s, t, y, IF y = x THEN i ELSE 0)
    BY <2>1, <2>2, <2>4, DebitMoves
  <2>6. /\ SameButBalance(t, e)
        /\ \A y \in Assets : HoldsMore(t, e, y, IF y = x THEN j ELSE 0)
    BY <2>1, <2>3, <2>4, <2>5, CreditMoves
  <2>7. t.supply = s.supply /\ e.supply = t.supply
    BY <2>5, <2>6 DEF SameButBalance
  <2>8. Moves(s, e, x, d, 0)
    BY <2>4, <2>5, <2>6, <2>7, TwoMoves
  <2>9. Effect(s, r) = e
    BY <1>1, <1>6, <2>2, <2>3 DEF Effect, TransferKinds
  <2> QED
    BY <1>1, <2>4, <2>8, <2>9
<1>7. CASE r.type \in {"pool_deposit", "pool_swap_in"}
  <2>1. n \in Nat /\ Covers(s.balance[x][from], n)
    BY <1>1, <1>7 DEF Accepts, AcceptsPool, TransferKinds, PoolKinds
  <2>2. PICK t : t = Debit(s, x, from, n)
    OBVIOUS
  <2>3. PICK i \in Int, j \in Nat, d \in Int :
            i = -Loss(n) /\ j = Whole(n) /\ d = i + j /\ 0 - d = Rounding(r)
    BY <1>1, <1>7, <2>1, WholeType DEF Rounding, MovesFraction
  <2>4. /\ t \in LedgerState /\ SameButBalance(s, t)
        /\ \A y \in Assets : HoldsMore(s, t, y, IF y = x THEN i ELSE 0)
    BY <2>1, <2>2, <2>3, DebitMoves
  <2>5. PICK k \in Nat : k = t.escrow[p][x]
    BY <2>4 DEF LedgerState
  <2>6. PICK l \in Nat : l = k + j
    OBVIOUS
  <2>7. PICK e : e = [t EXCEPT !.escrow[p][x] = l]
    OBVIOUS
  <2>8. /\ e.supply = t.supply
        /\ \A y \in Assets : HoldsMore(t, e, y, IF y = x THEN j ELSE 0)
    <3>1. l - k = j
      BY <2>6
    <3> QED
      BY <2>4, <2>5, <2>6, <2>7, <3>1, EscrowMoves
  <2>9. t.supply = s.supply /\ j \in Int
    BY <2>4 DEF SameButBalance
  <2>10. Moves(s, e, x, d, 0)
    BY <2>3, <2>4, <2>8, <2>9, TwoMoves
  <2>11. Effect(s, r) = e
    BY <1>1, <1>7, <2>2, <2>3, <2>5, <2>6, <2>7 DEF Effect, TransferKinds
  <2> QED
    BY <1>1, <2>3, <2>10, <2>11
<1>8. CASE r.type \in {"pool_withdraw", "pool_swap_out"}
  <2>1. n \in Nat /\ Covers(s.escrow[p][x], n)
    BY <1>1, <1>8 DEF Accepts, AcceptsPool, TransferKinds, PoolKinds
  <2>2. PICK t : t = Credit(s, x, from, n)
    OBVIOUS
  <2>3. PICK i \in Nat : i = Whole(n)
    BY <2>1, WholeType
  <2>4. /\ t \in LedgerState /\ SameButBalance(s, t)
        /\ \A y \in Assets : HoldsMore(s, t, y, IF y = x THEN i ELSE 0)
    BY <2>1, <2>2, <2>3, CreditMoves
  <2>5. PICK k \in Nat : k = t.escrow[p][x] /\ k - i \in Nat
    BY <1>2, <2>1, <2>3, <2>4, CoversWhole DEF SameButBalance
  <2>6. PICK l \in Nat, j \in Int : l = k - i /\ j = -i
    BY <2>5
  <2>7. PICK e : e = [t EXCEPT !.escrow[p][x] = l]
    OBVIOUS
  <2>8. /\ e.supply = t.supply
        /\ \A y \in Assets : HoldsMore(t, e, y, IF y = x THEN j ELSE 0)
    <3>1. l - k = j
      BY <2>6
    <3> QED
      BY <2>4, <2>5, <2>6, <2>7, <3>1, EscrowMoves
  <2>9. t.supply = s.supply /\ i \in Int /\ 0 = i + j
    BY <2>4, <2>6, SMTT(20) DEF SameButBalance
  <2>10. Moves(s, e, x, 0, 0)
    BY <2>4, <2>6, <2>8, <2>9, TwoMoves
  <2>11. Effect(s, r) = e
    BY <1>1, <1>8, <2>2, <2>3, <2>5, <2>6, <2>7 DEF Effect, TransferKinds
  <2>12. 0 - 0 = Rounding(r)
    BY <1>8 DEF Rounding, MovesFraction, TransferKinds
  <2> QED
    BY <1>1, <2>10, <2>11, <2>12
<1> QED
  BY <1>3, <1>4, <1>5, <1>6, <1>7, <1>8 DEF Accepts, PoolKinds

LEMMA AcceptedAccounts ==
    ASSUME FiniteLedger, NEW s \in LedgerState, NEW r \in Request, NEW context,
           Accepts(s, r, context), NotOverdrawn(s), NEW y \in Assets
    PROVE  Missing(Effect(s, r), y)
               = Missing(s, y) + (IF y = r.asset THEN Rounding(r) ELSE 0)
<1>1. PICK e : e = Effect(s, r)
  BY Zenon
<1>2. PICK x \in Assets, k \in Int : x = r.asset /\ k = Rounding(r)
  BY RequestFields DEF Rounding
<1>3. PICK d \in Int, m \in Int : m - d = k /\ Moves(s, e, x, d, m)
  BY <1>1, <1>2, AcceptedMoves
<1>4. Missing(e, y) = Missing(s, y) + (IF y = x THEN k ELSE 0)
  BY <1>3, MovesAccount
<1> QED
  BY <1>1, <1>2, <1>4

\* The nonce counts for nothing.
LEMMA SameHoldings ==
    ASSUME NEW e \in LedgerState, NEW n, NEW t, t = [e EXCEPT !.nonce = n], NEW y
    PROVE  Missing(t, y) = Missing(e, y)
<1>1. t.balance = e.balance /\ t.escrow = e.escrow /\ t.supply = e.supply
  BY DEF LedgerState
<1> QED
  BY <1>1 DEF Missing, Circulating, Escrowed

\* For every asset, whatever is minted, burnt, transferred, deposited, swapped and
\* withdrawn, in whole or fractional amounts, accounts and pools hold the total supply
\* less one unit per accepted transfer, deposit or swap-in of a fraction.
THEOREM FundsAccountedFor ==
    ASSUME FiniteLedger
    PROVE  Spec => []Accounted
<1>1. Init => Accounted
  <2> SUFFICES ASSUME Init, NEW y \in Assets
               PROVE  Missing(state, y) = rounded[y]
    BY DEF Accounted
  <2>1. PICK f, g : f = [a \in Addresses |-> 0] /\ g = [p \in Pools |-> 0]
    OBVIOUS
  <2>2. /\ state.balance[y] = f /\ state.supply[y] = 0
        /\ [p \in Pools |-> state.escrow[p][y]] = g
        /\ rounded[y] = 0
    BY <2>1 DEF Init, Genesis
  <2>3. SumFunction(f) = 0 /\ SumFunction(g) = 0
    BY <2>1, SumOfZeros DEF FiniteLedger
  <2> QED
    BY <2>2, <2>3 DEF Missing, Circulating, Escrowed
<1>2. TypeOK /\ Accounted /\ [Next]_vars => Accounted'
  <2> SUFFICES ASSUME TypeOK, Accounted, [Next]_vars
               PROVE  Accounted'
    OBVIOUS
  <2>1. CASE Next
    <3>1. PICK context : \E r \in Request, e \in LedgerState :
              /\ Accepts(state, r, context)
              /\ e = Effect(state, r)
              /\ state' = [e EXCEPT !.nonce = state.nonce + 1]
              /\ rounded' = IF MovesFraction(r)
                            THEN [rounded EXCEPT ![r.asset] = @ + 1] ELSE rounded
      BY <2>1, StepIsLocal
    <3>2. PICK r \in Request, e \in LedgerState :
              /\ Accepts(state, r, context)
              /\ e = Effect(state, r)
              /\ state' = [e EXCEPT !.nonce = state.nonce + 1]
              /\ rounded' = IF MovesFraction(r)
                            THEN [rounded EXCEPT ![r.asset] = @ + 1] ELSE rounded
      BY <3>1
    <3>3. PICK s, t : s = state /\ t = state' /\ s \in LedgerState
      BY DEF TypeOK
    <3>4. \A y \in Assets : Missing(s, y) = rounded[y] /\ rounded[y] \in Nat
      BY <3>3 DEF Accounted, TypeOK
    <3>5. NotOverdrawn(s)
      BY <3>4 DEF NotOverdrawn
    <3>6. ASSUME NEW y \in Assets
          PROVE  Missing(t, y) = rounded'[y]
      <4>1. Missing(t, y) = Missing(e, y)
        BY <3>2, <3>3, SameHoldings
      <4>2. Missing(e, y) = Missing(s, y) + (IF y = r.asset THEN Rounding(r) ELSE 0)
        BY <3>2, <3>3, <3>5, AcceptedAccounts
      <4>3. rounded'[y] = rounded[y] + (IF y = r.asset THEN Rounding(r) ELSE 0)
        BY <3>2, <3>4 DEF Rounding, TypeOK
      <4> QED
        BY <3>4, <4>1, <4>2, <4>3
    <3> QED
      BY <3>3, <3>6 DEF Accounted, Missing, Circulating, Escrowed
  <2>2. CASE UNCHANGED vars
    BY <2>2 DEF Accounted, Missing, Circulating, Escrowed, vars
  <2> QED
    BY <2>1, <2>2
<1> QED
  BY <1>1, <1>2, LedgerTypeCorrect, PTL DEF Spec

\* A frozen account's balance changes only by what the issuer mints or burns: the same
\* whole units reach the account and the supply, also for a fractional amount.
THEOREM FrozenAccountsInert ==
    ASSUME FiniteLedger
    PROVE  Spec => FrozenMovesOnlyWithSupply
<1> DEFINE Inert == \A asset \in Assets : \A a \in state.frozen[asset] :
              state'.balance[asset][a] - state.balance[asset][a]
                  \in {0, state'.supply[asset] - state.supply[asset]}
<1>1. TypeOK /\ Accounted /\ [Next]_vars => [Inert]_vars
  <2> SUFFICES ASSUME TypeOK, Accounted, Next PROVE Inert
    OBVIOUS
  <2>1. PICK r \in Request, e \in LedgerState :
            /\ EffectIsLocal(state, r, e)
            /\ state' = [e EXCEPT !.nonce = state.nonce + 1]
    BY StepIsLocal
  <2>2. state'.balance = e.balance /\ state'.supply = e.supply
    BY <2>1 DEF LedgerState
  <2>3. \A asset \in Assets :
           /\ state.frozen[asset] \subseteq Addresses
           /\ \A a \in Addresses : state.balance[asset][a] \in Nat
    BY DEF TypeOK, LedgerState
  <2>4. NotOverdrawn(state) /\ state \in LedgerState
    BY DEF NotOverdrawn, Accounted, TypeOK
  <2>5. \A asset \in Assets : \A a \in Addresses :
           state.supply[asset] >= state.balance[asset][a]
    BY <2>4, SupplyAtLeast
  <2>6. ASSUME NEW asset \in Assets, NEW a \in state.frozen[asset]
        PROVE  e.balance[asset][a] - state.balance[asset][a]
                   \in {0, e.supply[asset] - state.supply[asset]}
    <3>1. CASE asset = r.asset
      BY <2>1, <2>3, <2>5, <3>1 DEF EffectIsLocal
    <3>2. CASE asset # r.asset
      BY <2>1, <2>3, <3>2 DEF EffectIsLocal
    <3> QED
      BY <3>1, <3>2
  <2> QED
    BY <2>2, <2>6
<1> QED
  BY <1>1, LedgerTypeCorrect, FundsAccountedFor, PTL DEF Spec, FrozenMovesOnlyWithSupply

\* Nothing is created, and whole amounts lose nothing.
Accounts(s, t, whole) ==
    /\ \A y \in Assets : Missing(t, y) - Missing(s, y) \in Nat
    /\ whole => \A y \in Assets : Missing(t, y) = Missing(s, y)

LEMMA AppliedAccounts ==
    ASSUME FiniteLedger, NEW s \in LedgerState, NEW action \in Action, NEW context,
           Applies(s, action, context), NotOverdrawn(s)
    PROVE  /\ NotOverdrawn(ApplyAction(s, action))
           /\ Accounts(s, ApplyAction(s, action), action.request.amount % Unit = 0)
<1>1. PICK r \in Request : r = action.request
  BY DEF Action
<1>2. PICK e, t : e = Effect(s, r) /\ t = ApplyAction(s, action)
  OBVIOUS
<1>3. Accepts(s, r, context) /\ t = [e EXCEPT !.nonce = action.nonce]
  BY <1>1, <1>2 DEF Applies, ApplyAction
<1>4. e \in LedgerState
  BY <1>2, <1>3, AcceptedIsLocal DEF EffectIsLocal
<1>5. ASSUME NEW y \in Assets
      PROVE  /\ Missing(s, y) \in Int /\ Missing(s, y) >= 0
             /\ Missing(t, y) \in {Missing(s, y), Missing(s, y) + 1}
             /\ r.amount % Unit = 0 => Missing(t, y) = Missing(s, y)
  <2>1. Missing(s, y) \in Int /\ Missing(s, y) >= 0
    BY TotalsType DEF Missing, NotOverdrawn
  <2>2. Missing(t, y) = Missing(s, y) + (IF y = r.asset THEN Rounding(r) ELSE 0)
    BY <1>2, <1>3, <1>4, AcceptedAccounts, SameHoldings
  <2> QED
    BY <2>1, <2>2 DEF Rounding, MovesFraction
<1> QED
  BY <1>1, <1>2, <1>5 DEF NotOverdrawn, Accounts

\* A verifier accepts no payload that creates funds: from a state in which no asset is
\* held beyond its supply, every payload verify_batch accepts leads to such a state,
\* however many actions it has, and if their amounts are whole it loses nothing either.
THEOREM PayloadsAccount ==
    ASSUME FiniteLedger, NEW s \in LedgerState, NEW actions \in Seq(Action),
           NEW context, NEW claimed, VerifyBatch(s, actions, claimed, context),
           NotOverdrawn(s)
    PROVE  /\ NotOverdrawn(claimed)
           /\ (\A i \in 1..Len(actions) : actions[i].request.amount % Unit = 0)
                 => \A y \in Assets : Missing(claimed, y) = Missing(s, y)
<1>1. PICK path : IsPath(path, s, actions, context) /\ path[Len(actions)] = claimed
  BY VerifiedIsPath
<1>2. PICK N \in Nat : N = Len(actions)
  OBVIOUS
<1>3. PICK whole \in BOOLEAN : whole <=> \A i \in 1..N : actions[i].request.amount % Unit = 0
  BY Zenon
<1>4. /\ path \in [0..N -> LedgerState] /\ path[0] = s
      /\ \A i \in 1..N : /\ actions[i] \in Action
                         /\ Applies(path[i - 1], actions[i], context)
                         /\ path[i] = ApplyAction(path[i - 1], actions[i])
  BY <1>1, <1>2 DEF IsPath
<1> DEFINE Good(n) == /\ NotOverdrawn(path[n])
                      /\ whole => \A y \in Assets : Missing(path[n], y) = Missing(s, y)
           S == {n \in 0..N : Good(n)}
<1>5. 0 \in S
  BY <1>4
<1>6. ASSUME NEW n \in S, n \in 0..N-1
      PROVE  n + 1 \in S
  <2>1. n + 1 \in 1..N /\ (n + 1) - 1 = n /\ n + 1 \in 0..N /\ n \in 0..N
    BY <1>6
  <2>2. PICK p, q, a : p = path[n] /\ q = path[n + 1] /\ a = actions[n + 1]
    BY SMTT(20)
  <2>3. /\ NotOverdrawn(p)
        /\ whole => \A y \in Assets : Missing(p, y) = Missing(s, y)
    <3>1. Good(n)
      BY <1>6
    <3> QED
      BY <2>2, <3>1
  <2>4. /\ p \in LedgerState /\ a \in Action
        /\ Applies(p, a, context) /\ q = ApplyAction(p, a)
    BY <1>4, <2>1, <2>2
  <2>5. NotOverdrawn(q) /\ Accounts(p, q, a.request.amount % Unit = 0)
    BY <2>3, <2>4, AppliedAccounts
  <2>6. ASSUME whole, NEW y \in Assets
        PROVE  Missing(q, y) = Missing(s, y)
    <3>1. a.request.amount % Unit = 0
      BY <1>3, <2>1, <2>2, <2>6
    <3>2. Missing(q, y) = Missing(p, y)
      BY <2>5, <3>1 DEF Accounts
    <3> QED
      BY <2>3, <2>6, <3>2
  <2>7. Good(n + 1)
    BY <2>2, <2>5, <2>6
  <2> HIDE DEF Good
  <2> QED
    BY <2>1, <2>7
<1>7. 0..N \subseteq S
  <2> HIDE DEF S
  <2> QED
    BY <1>5, <1>6, NatInduct
<1>8. Good(N)
  <2>1. N \in 0..N
    OBVIOUS
  <2> HIDE DEF Good
  <2> QED
    BY <1>7, <2>1
<1> QED
  BY <1>1, <1>2, <1>3, <1>8

=============================================================================
