-------------------------- MODULE TransitionProofs --------------------------
(***************************************************************************)
(* Theorems about the transition function and the two ways a batch is run  *)
(* through it, for every set of addresses, assets, pools and bundles.      *)
(*                                                                         *)
(* What a batch does is defined by recursion on its length.  Induction     *)
(* here is on sets of numbers: a property is stated as a set S of lengths  *)
(* with 0 \in S and n + 1 \in S for every n \in S (NatInduct).             *)
(***************************************************************************)
EXTENDS Transition, FiniteSetTheorems, WellFoundedInduction, TLAPS

-----------------------------------------------------------------------------
\* Amounts in parts and whole units.

LEMMA TimesAtLeast ==
    ASSUME NEW u \in Nat \ {0}, NEW k \in Nat \ {0}
    PROVE  k * u >= u
<1>1. PICK j \in Nat : k = j + 1
  <2>1. k - 1 \in Nat /\ k = (k - 1) + 1
    OBVIOUS
  <2> QED
    BY <2>1
<1>2. j * u \in Nat
  OBVIOUS
<1>3. k * u = j * u + u
  BY <1>1
<1> QED
  BY <1>2, <1>3

LEMMA Division ==
    ASSUME NEW m \in Int, NEW u \in Nat \ {0}
    PROVE  \E d \in Int, t \in 0..u-1 : d = m \div u /\ t = m % u /\ m = d * u + t
<1>1. m \div u \in Int /\ m % u \in 0..u-1 /\ m = (m \div u) * u + (m % u)
  BY SMTT(20)
<1> QED
  BY <1>1

LEMMA OneQuotient ==
    ASSUME NEW u \in Nat \ {0}, NEW d \in Int, NEW q \in Int,
           NEW r \in 0..u-1, NEW t \in 0..u-1, q * u + r = d * u + t
    PROVE  q = d
<1>1. (q - d) * u = t - r /\ (d - q) * u = r - t
  BY SMTT(20)
<1>2. CASE q > d
  <2>1. q - d \in Nat \ {0}
    BY <1>2
  <2>2. (q - d) * u >= u
    BY <2>1, TimesAtLeast
  <2> QED
    BY <1>1, <2>2
<1>3. CASE d > q
  <2>1. d - q \in Nat \ {0}
    BY <1>3
  <2>2. (d - q) * u >= u
    BY <2>1, TimesAtLeast
  <2> QED
    BY <1>1, <2>2
<1> QED
  BY <1>2, <1>3

LEMMA Quotient ==
    ASSUME NEW u \in Nat \ {0}, NEW q \in Int, NEW r \in 0..u-1,
           NEW m \in Int, m = q * u + r
    PROVE  m \div u = q
<1>1. PICK d \in Int, t \in 0..u-1 : d = m \div u /\ m = d * u + t
  BY Division
<1>2. q = d
  BY <1>1, OneQuotient
<1> QED
  BY <1>1, <1>2

\* What an account loses to a debit of n parts: n rounded up to whole units.
Loss(n) == IF n % Unit = 0 THEN Whole(n) ELSE Whole(n) + 1

\* A credit of n parts adds Whole(n) units, a covered debit takes Loss(n).
LEMMA WholeType ==
    ASSUME NEW n \in Nat
    PROVE  /\ Whole(n) \in Nat /\ Loss(n) \in Nat
           /\ n % Unit = 0 => Loss(n) = Whole(n)
           /\ n % Unit # 0 => Loss(n) = Whole(n) + 1
<1>1. PICK u \in Nat \ {0} : u = Unit
  BY ConstantsAssumption
<1>2. PICK d \in Int, t \in 0..u-1 : d = n \div u /\ t = n % u /\ n = d * u + t
  BY Division
<1>3. d >= 0
  <2> SUFFICES ASSUME d < 0 PROVE FALSE
    OBVIOUS
  <2>1. -d \in Nat \ {0}
    OBVIOUS
  <2>2. (-d) * u >= u
    BY <2>1, TimesAtLeast
  <2>3. (-d) * u = -(d * u)
    BY SMTT(20)
  <2> QED
    BY <1>2, <2>2, <2>3
<1>4. Whole(n) = d
  BY <1>1, <1>2 DEF Whole
<1> QED
  BY <1>1, <1>2, <1>3, <1>4 DEF Loss

LEMMA WholeInt ==
    ASSUME NEW n \in Int
    PROVE  Whole(n) \in Int
<1>1. PICK u \in Nat \ {0} : u = Unit
  BY ConstantsAssumption
<1>2. n \div u \in Int /\ (-n) \div u \in Int
  <2>1. -n \in Int
    OBVIOUS
  <2> QED
    BY <2>1, Division
<1> QED
  BY <1>1, <1>2 DEF Whole

LEMMA PlusMinusInt ==
    ASSUME NEW b \in Int, NEW n \in Int
    PROVE  Plus(b, n) \in Int /\ Minus(b, n) \in Int
<1>1. Unit \in Int
  BY ConstantsAssumption
<1>2. b * Unit + n \in Int /\ b * Unit - n \in Int
  BY <1>1
<1> QED
  BY <1>2, WholeInt DEF Plus, Minus

LEMMA PlusWhole ==
    ASSUME NEW b \in Nat, NEW n \in Nat
    PROVE  Plus(b, n) = b + Whole(n)
<1>1. PICK u \in Nat \ {0} : u = Unit
  BY ConstantsAssumption
<1>2. PICK d \in Int, t \in 0..u-1 : d = n \div u /\ n = d * u + t
  BY Division
<1>3. b * u \in Nat /\ (b + d) * u = b * u + d * u
  BY SMTT(20)
<1>4. PICK m \in Nat : m = b * u + n
  BY <1>3
<1>5. m = (b + d) * u + t /\ b + d \in Int
  BY <1>2, <1>3, <1>4
<1>6. m \div u = b + d
  BY <1>5, Quotient
<1>7. Plus(b, n) = m \div u /\ Whole(n) = d
  BY <1>1, <1>2, <1>4 DEF Plus, Whole
<1> QED
  BY <1>6, <1>7

LEMMA MinusLoss ==
    ASSUME NEW b \in Nat, NEW n \in Nat, Covers(b, n)
    PROVE  Minus(b, n) = b - Loss(n) /\ Minus(b, n) \in Nat
<1>1. PICK u \in Nat \ {0} : u = Unit
  BY ConstantsAssumption
<1>2. PICK d \in Int, t \in 0..u-1 : d = n \div u /\ t = n % u /\ n = d * u + t
  BY Division
<1>3. b * u \in Nat /\ b * u >= n
  BY <1>1 DEF Covers
<1>4. PICK m \in Nat : m = b * u - n
  BY <1>3
<1>5. Whole(n) = d
  BY <1>1, <1>2 DEF Whole
<1>6. Minus(b, n) = Whole(m) /\ Whole(m) \in Nat /\ Whole(m) = m \div u
  <2>1. Minus(b, n) = Whole(m)
    BY <1>1, <1>4 DEF Minus
  <2>2. Whole(m) = m \div u
    BY <1>1, <1>4 DEF Whole
  <2> QED
    BY <2>1, <2>2, WholeType
<1>7. CASE t = 0
  <2>1. (b - d) * u = b * u - d * u
    BY SMTT(20)
  <2>2. m = (b - d) * u + 0 /\ b - d \in Int /\ 0 \in 0..u-1
    BY <1>2, <1>4, <1>7, <2>1
  <2>3. m \div u = b - d
    BY <2>2, Quotient
  <2> QED
    BY <1>1, <1>2, <1>5, <1>6, <1>7, <2>3 DEF Loss
<1>8. CASE t # 0
  <2>1. (b - (d + 1)) * u = b * u - d * u - u
    BY SMTT(20)
  <2>2. m = (b - (d + 1)) * u + (u - t) /\ b - (d + 1) \in Int /\ u - t \in 0..u-1
    BY <1>2, <1>4, <1>8, <2>1
  <2>3. m \div u = b - (d + 1)
    BY <2>2, Quotient
  <2> QED
    BY <1>1, <1>2, <1>5, <1>6, <1>8, <2>3 DEF Loss
<1> QED
  BY <1>7, <1>8

\* What covers an amount covers its whole units, and so does whatever is more.
LEMMA CoversWhole ==
    ASSUME NEW b \in Nat, NEW n \in Nat, Covers(b, n)
    PROVE  /\ b - Whole(n) \in Nat
           /\ \A c \in Nat : c >= b => Covers(c, n)
<1>1. PICK u \in Nat \ {0} : u = Unit
  BY ConstantsAssumption
<1>2. Minus(b, n) = b - Loss(n) /\ Minus(b, n) \in Nat
  BY MinusLoss
<1>3. b - Whole(n) \in Nat
  BY <1>2, WholeType
<1>4. ASSUME NEW c \in Nat, c >= b
      PROVE  Covers(c, n)
  <2>1. PICK e \in Nat : c = b + e
    <3>1. c - b \in Nat /\ c = b + (c - b)
      BY <1>4
    <3> QED
      BY <3>1
  <2>2. c * u = b * u + e * u /\ e * u \in Nat /\ b * u \in Nat
    BY <2>1, SMTT(20)
  <2> QED
    BY <1>1, <2>2 DEF Covers
<1> QED
  BY <1>3, <1>4

-----------------------------------------------------------------------------
\* The effect of one request.

\* s and t differ in balances only.
SameButBalance(s, t) ==
    /\ t.nonce = s.nonce
    /\ t.assets = s.assets
    /\ t.supply = s.supply
    /\ t.frozen = s.frozen
    /\ t.escrow = s.escrow

LEMMA GenesisType ==
    ASSUME NEW registered \in SUBSET Assets
    PROVE  Genesis(registered) \in LedgerState
  BY DEF Genesis, LedgerState

\* Replacing the balance table replaces nothing else.
LEMMA BalanceType ==
    ASSUME NEW s \in LedgerState, NEW t \in [Assets -> [Addresses -> Nat]]
    PROVE  /\ [s EXCEPT !.balance = t] \in LedgerState
           /\ [s EXCEPT !.balance = t].balance = t
           /\ SameButBalance(s, [s EXCEPT !.balance = t])
  BY DEF LedgerState, SameButBalance

\* Crediting an account keeps a ledger state a ledger state, and adds the whole
\* units of the amount to that account's balance only.
LEMMA CreditType ==
    ASSUME NEW s \in LedgerState, NEW x \in Assets, NEW a \in Addresses,
           NEW n \in Nat
    PROVE  /\ Credit(s, x, a, n) \in LedgerState
           /\ SameButBalance(s, Credit(s, x, a, n))
           /\ \A y \in Assets, b \in Addresses :
                 Credit(s, x, a, n).balance[y][b] =
                     IF y = x /\ b = a THEN s.balance[x][a] + Whole(n)
                                       ELSE s.balance[y][b]
<1> DEFINE row == [s.balance[x] EXCEPT ![a] = Plus(@, n)]
           table == [s.balance EXCEPT ![x] = row]
<1>1. s.balance \in [Assets -> [Addresses -> Nat]]
  BY DEF LedgerState
<1>2. /\ row \in [Addresses -> Nat]
      /\ row[a] = s.balance[x][a] + Whole(n)
  <2>1. s.balance[x][a] \in Nat
    BY <1>1
  <2>2. /\ Plus(s.balance[x][a], n) = s.balance[x][a] + Whole(n)
        /\ Whole(n) \in Nat
    BY <2>1, PlusWhole, WholeType
  <2>3. Plus(s.balance[x][a], n) \in Nat
    BY <2>1, <2>2
  <2> QED
    BY <1>1, <2>2, <2>3
<1>3. table \in [Assets -> [Addresses -> Nat]]
  BY <1>1, <1>2
<1>4. \A y \in Assets, b \in Addresses :
         table[y][b] = IF y = x /\ b = a THEN s.balance[x][a] + Whole(n)
                                         ELSE s.balance[y][b]
  BY <1>1, <1>2
<1>5. Credit(s, x, a, n) = [s EXCEPT !.balance = table]
  BY DEF Credit
<1> HIDE DEF table
<1> QED
  BY <1>3, <1>4, <1>5, BalanceType

\* Debiting an account that holds enough takes the amount rounded up.
LEMMA DebitType ==
    ASSUME NEW s \in LedgerState, NEW x \in Assets, NEW a \in Addresses,
           NEW n \in Nat, Covers(s.balance[x][a], n)
    PROVE  /\ Debit(s, x, a, n) \in LedgerState
           /\ SameButBalance(s, Debit(s, x, a, n))
           /\ \A y \in Assets, b \in Addresses :
                 Debit(s, x, a, n).balance[y][b] =
                     IF y = x /\ b = a THEN s.balance[x][a] - Loss(n)
                                       ELSE s.balance[y][b]
<1> DEFINE row == [s.balance[x] EXCEPT ![a] = Minus(@, n)]
           table == [s.balance EXCEPT ![x] = row]
<1>1. s.balance \in [Assets -> [Addresses -> Nat]]
  BY DEF LedgerState
<1>2. /\ row \in [Addresses -> Nat]
      /\ row[a] = s.balance[x][a] - Loss(n)
  <2>1. s.balance[x][a] \in Nat
    BY <1>1
  <2>2. /\ Minus(s.balance[x][a], n) = s.balance[x][a] - Loss(n)
        /\ Minus(s.balance[x][a], n) \in Nat
    BY <2>1, MinusLoss
  <2> QED
    BY <1>1, <2>2
<1>3. table \in [Assets -> [Addresses -> Nat]]
  BY <1>1, <1>2
<1>4. \A y \in Assets, b \in Addresses :
         table[y][b] = IF y = x /\ b = a THEN s.balance[x][a] - Loss(n)
                                         ELSE s.balance[y][b]
  BY <1>1, <1>2
<1>5. Debit(s, x, a, n) = [s EXCEPT !.balance = table]
  BY DEF Debit
<1> HIDE DEF table
<1> QED
  BY <1>3, <1>4, <1>5, BalanceType

\* The other components F changes one entry of.
LEMMA SupplyType ==
    ASSUME NEW s \in LedgerState, NEW x \in Assets, NEW n \in Int
    PROVE  LET t == [s EXCEPT !.supply[x] = n]
           IN  /\ t \in LedgerState
               /\ t.nonce = s.nonce /\ t.assets = s.assets
               /\ t.balance = s.balance /\ t.frozen = s.frozen
               /\ t.escrow = s.escrow
               /\ t.supply[x] = n
               /\ \A y \in Assets \ {x} : t.supply[y] = s.supply[y]
  BY DEF LedgerState

LEMMA FrozenType ==
    ASSUME NEW s \in LedgerState, NEW x \in Assets, NEW S \in SUBSET Addresses
    PROVE  LET t == [s EXCEPT !.frozen[x] = S]
           IN  /\ t \in LedgerState
               /\ t.nonce = s.nonce /\ t.assets = s.assets
               /\ t.balance = s.balance /\ t.supply = s.supply
               /\ t.escrow = s.escrow
               /\ \A y \in Assets \ {x} : t.frozen[y] = s.frozen[y]
  BY DEF LedgerState

LEMMA EscrowType ==
    ASSUME NEW s \in LedgerState, NEW p \in Pools, NEW x \in Assets, NEW n \in Nat
    PROVE  LET t == [s EXCEPT !.escrow[p][x] = n]
           IN  /\ t \in LedgerState
               /\ t.nonce = s.nonce /\ t.assets = s.assets
               /\ t.balance = s.balance /\ t.supply = s.supply
               /\ t.frozen = s.frozen
               /\ \A q \in Pools, y \in Assets \ {x} :
                     t.escrow[q][y] = s.escrow[q][y]
               /\ \A q \in Pools :
                     t.escrow[q][x] = IF q = p THEN n ELSE s.escrow[q][x]
<1> DEFINE row == [s.escrow[p] EXCEPT ![x] = n]
           table == [s.escrow EXCEPT ![p] = row]
<1>1. s.escrow \in [Pools -> [Assets -> Nat]]
  BY DEF LedgerState
<1>2. row \in [Assets -> Nat]
  BY <1>1
<1>3. table \in [Pools -> [Assets -> Nat]]
  BY <1>1, <1>2
<1>4. /\ \A q \in Pools, y \in Assets \ {x} : table[q][y] = s.escrow[q][y]
      /\ \A q \in Pools : table[q][x] = IF q = p THEN n ELSE s.escrow[q][x]
  BY <1>1, <1>2
<1>5. [s EXCEPT !.escrow[p][x] = n] = [s EXCEPT !.escrow = table]
  OBVIOUS
<1> HIDE DEF table
<1> QED
  BY <1>3, <1>4, <1>5 DEF LedgerState

\* The fields of a request.
LEMMA RequestFields ==
    ASSUME NEW r \in Request
    PROVE  /\ r.type \in ActionTypes
           /\ r.asset \in Assets
           /\ r.amount \in Int
           /\ r.from \in Addresses
           /\ r.to \in Addresses
           /\ r.pool \in Pools
  BY DEF Request

\* What an accepted effect does to every component: it changes the entries of
\* the request's asset only, never the nonce, and an account frozen in that
\* asset only by what the supply changes, provided the supply is no less than
\* what the account holds.
EffectIsLocal(s, r, e) ==
    /\ e \in LedgerState
    /\ e.nonce = s.nonce
    /\ s.assets \subseteq e.assets
    /\ r.type # "register_asset" => Known(s, r.asset)
    /\ \A y \in Assets \ {r.asset} :
          /\ e.supply[y] = s.supply[y]
          /\ e.frozen[y] = s.frozen[y]
          /\ \A a \in Addresses : e.balance[y][a] = s.balance[y][a]
          /\ \A p \in Pools : e.escrow[p][y] = s.escrow[p][y]
    /\ r.type = "register_asset" =>
          /\ e.supply = s.supply /\ e.frozen = s.frozen
          /\ e.balance = s.balance /\ e.escrow = s.escrow
    /\ \A a \in s.frozen[r.asset] :
          s.supply[r.asset] >= s.balance[r.asset][a] =>
              e.balance[r.asset][a] - s.balance[r.asset][a]
                  \in {0, e.supply[r.asset] - s.supply[r.asset]}

LEMMA RegisterIsLocal ==
    ASSUME NEW s \in LedgerState, NEW r \in Request, r.type = "register_asset"
    PROVE  EffectIsLocal(s, r, Effect(s, r))
<1>1. Effect(s, r) = [s EXCEPT !.assets = @ \cup {r.asset}]
  BY DEF Effect, TransferKinds
<1> QED
  BY <1>1, RequestFields, SMTT(20) DEF EffectIsLocal, LedgerState

LEMMA MintIsLocal ==
    ASSUME NEW s \in LedgerState, NEW r \in Request, r.type = "mint",
           AcceptsMint(s, r)
    PROVE  EffectIsLocal(s, r, Effect(s, r))
<1> DEFINE c == Credit(s, r.asset, r.to, r.amount)
           n == Plus(c.supply[r.asset], r.amount)
           e == [c EXCEPT !.supply[r.asset] = n]
<1>1. r.asset \in Assets /\ r.to \in Addresses /\ r.amount \in Nat
  BY RequestFields DEF AcceptsMint
<1>2. /\ c \in LedgerState /\ SameButBalance(s, c)
      /\ \A y \in Assets, b \in Addresses :
            c.balance[y][b] =
                IF y = r.asset /\ b = r.to
                THEN s.balance[r.asset][r.to] + Whole(r.amount)
                ELSE s.balance[y][b]
  BY <1>1, CreditType, SMTT(20)
<1>3. /\ n \in Int /\ Whole(r.amount) \in Nat /\ s.supply[r.asset] \in Int
      /\ s.supply[r.asset] >= 0 => n - s.supply[r.asset] = Whole(r.amount)
  <2>1. c.supply[r.asset] = s.supply[r.asset] /\ s.supply[r.asset] \in Int
    BY <1>1, <1>2 DEF LedgerState, SameButBalance
  <2>2. n \in Int /\ Whole(r.amount) \in Nat
    <3>1. PICK k \in Int, m \in Nat : k = c.supply[r.asset] /\ m = r.amount
      BY <1>1, <2>1
    <3>2. m \in Int
      OBVIOUS
    <3>3. Plus(k, m) \in Int
      BY <3>2, PlusMinusInt
    <3> QED
      BY <1>1, <3>1, <3>3, WholeType
  <2>3. ASSUME s.supply[r.asset] >= 0
        PROVE  n = s.supply[r.asset] + Whole(r.amount)
    <3>1. s.supply[r.asset] \in Nat
      BY <2>1, <2>3
    <3> QED
      BY <1>1, <2>1, <3>1, PlusWhole
  <2> QED
    BY <2>1, <2>2, <2>3
<1>4. Effect(s, r) = e
  BY DEF Effect, TransferKinds
<1>5. /\ e \in LedgerState
      /\ e.nonce = c.nonce /\ e.assets = c.assets
      /\ e.balance = c.balance /\ e.frozen = c.frozen /\ e.escrow = c.escrow
      /\ e.supply[r.asset] = n
      /\ \A y \in Assets \ {r.asset} : e.supply[y] = c.supply[y]
  BY <1>1, <1>2, <1>3, SupplyType
<1>6. /\ s.frozen[r.asset] \subseteq Addresses
      /\ \A a \in Addresses : s.balance[r.asset][a] \in Nat
  BY <1>1 DEF LedgerState
<1> HIDE DEF c, n, e
<1> QED
  BY <1>1, <1>2, <1>3, <1>4, <1>5, <1>6
     DEF EffectIsLocal, SameButBalance, AcceptsMint

LEMMA BurnIsLocal ==
    ASSUME NEW s \in LedgerState, NEW r \in Request, r.type = "burn",
           AcceptsBurn(s, r)
    PROVE  EffectIsLocal(s, r, Effect(s, r))
<1> DEFINE c == Debit(s, r.asset, r.from, r.amount)
           n == Minus(c.supply[r.asset], r.amount)
           e == [c EXCEPT !.supply[r.asset] = n]
<1>1. r.asset \in Assets /\ r.from \in Addresses /\ r.amount \in Nat
  BY RequestFields DEF AcceptsBurn, AcceptsMint
<1>2. /\ c \in LedgerState /\ SameButBalance(s, c)
      /\ \A y \in Assets, b \in Addresses :
            c.balance[y][b] =
                IF y = r.asset /\ b = r.from
                THEN s.balance[r.asset][r.from] - Loss(r.amount)
                ELSE s.balance[y][b]
  BY <1>1, DebitType DEF AcceptsBurn
<1>3. /\ n \in Int /\ Loss(r.amount) \in Nat /\ s.supply[r.asset] \in Int
      /\ s.supply[r.asset] >= s.balance[r.asset][r.from]
            => n - s.supply[r.asset] = -Loss(r.amount)
  <2>1. /\ c.supply[r.asset] = s.supply[r.asset] /\ s.supply[r.asset] \in Int
        /\ s.balance[r.asset][r.from] \in Nat
    BY <1>1, <1>2 DEF LedgerState, SameButBalance
  <2>2. n \in Int /\ Loss(r.amount) \in Nat
    <3>1. PICK k \in Int, m \in Nat : k = c.supply[r.asset] /\ m = r.amount
      BY <1>1, <2>1
    <3>2. m \in Int
      OBVIOUS
    <3>3. Minus(k, m) \in Int
      BY <3>2, PlusMinusInt
    <3> QED
      BY <1>1, <3>1, <3>3, WholeType
  <2>3. ASSUME s.supply[r.asset] >= s.balance[r.asset][r.from]
        PROVE  n = s.supply[r.asset] - Loss(r.amount)
    <3>1. s.supply[r.asset] \in Nat
      BY <2>1, <2>3
    <3>2. Covers(s.supply[r.asset], r.amount)
      BY <1>1, <2>1, <2>3, <3>1, CoversWhole DEF AcceptsBurn
    <3> QED
      BY <1>1, <2>1, <3>1, <3>2, MinusLoss
  <2> QED
    BY <2>1, <2>2, <2>3
<1>4. Effect(s, r) = e
  BY DEF Effect, TransferKinds
<1>5. /\ e \in LedgerState
      /\ e.nonce = c.nonce /\ e.assets = c.assets
      /\ e.balance = c.balance /\ e.frozen = c.frozen /\ e.escrow = c.escrow
      /\ e.supply[r.asset] = n
      /\ \A y \in Assets \ {r.asset} : e.supply[y] = c.supply[y]
  BY <1>1, <1>2, <1>3, SupplyType
<1>6. /\ s.frozen[r.asset] \subseteq Addresses
      /\ \A a \in Addresses : s.balance[r.asset][a] \in Nat
  BY <1>1 DEF LedgerState
<1> HIDE DEF c, n, e
<1> QED
  BY <1>1, <1>2, <1>3, <1>4, <1>5, <1>6
     DEF EffectIsLocal, SameButBalance, AcceptsBurn, AcceptsMint

LEMMA TransferIsLocal ==
    ASSUME NEW s \in LedgerState, NEW r \in Request, NEW context,
           r.type \in TransferKinds, AcceptsTransfer(s, r, context)
    PROVE  EffectIsLocal(s, r, Effect(s, r))
<1> DEFINE d == Debit(s, r.asset, r.from, r.amount)
           e == Credit(d, r.asset, r.to, r.amount)
<1>1. /\ r.asset \in Assets /\ r.from \in Addresses /\ r.to \in Addresses
      /\ r.amount \in Nat
  BY RequestFields DEF AcceptsTransfer
<1>2. /\ d \in LedgerState /\ SameButBalance(s, d)
      /\ \A y \in Assets, b \in Addresses :
            d.balance[y][b] =
                IF y = r.asset /\ b = r.from
                THEN s.balance[r.asset][r.from] - Loss(r.amount)
                ELSE s.balance[y][b]
  BY <1>1, DebitType DEF AcceptsTransfer
<1>3. /\ e \in LedgerState /\ SameButBalance(d, e)
      /\ \A y \in Assets, b \in Addresses :
            e.balance[y][b] =
                IF y = r.asset /\ b = r.to
                THEN d.balance[r.asset][r.to] + Whole(r.amount)
                ELSE d.balance[y][b]
  BY <1>1, <1>2, CreditType, SMTT(20)
<1>4. Effect(s, r) = e
  BY DEF Effect, TransferKinds
<1>5. /\ s.frozen[r.asset] \subseteq Addresses
      /\ s.supply[r.asset] \in Int
      /\ \A a \in Addresses : s.balance[r.asset][a] \in Nat
  BY <1>1 DEF LedgerState
<1> HIDE DEF d, e
<1> QED
  BY <1>1, <1>2, <1>3, <1>4, <1>5
     DEF EffectIsLocal, SameButBalance, AcceptsTransfer, TransferKinds

LEMMA PoolIsLocal ==
    ASSUME NEW s \in LedgerState, NEW r \in Request, NEW context,
           r.type \in PoolKinds, AcceptsPool(s, r, context)
    PROVE  EffectIsLocal(s, r, Effect(s, r))
<1>1. /\ r.asset \in Assets /\ r.from \in Addresses /\ r.pool \in Pools
      /\ r.amount \in Nat /\ r.from \notin s.frozen[r.asset]
  BY RequestFields DEF AcceptsPool
<1>2. /\ s.frozen[r.asset] \subseteq Addresses
      /\ s.supply[r.asset] \in Int
      /\ s.escrow[r.pool][r.asset] \in Nat
      /\ \A a \in Addresses : s.balance[r.asset][a] \in Nat
  BY <1>1 DEF LedgerState
<1>3. CASE r.type \in {"pool_deposit", "pool_swap_in"}
  <2> DEFINE c == Debit(s, r.asset, r.from, r.amount)
             n == c.escrow[r.pool][r.asset] + Whole(r.amount)
             e == [c EXCEPT !.escrow[r.pool][r.asset] = n]
  <2>1. /\ c \in LedgerState /\ SameButBalance(s, c)
        /\ \A y \in Assets, b \in Addresses :
              c.balance[y][b] =
                  IF y = r.asset /\ b = r.from
                  THEN s.balance[r.asset][r.from] - Loss(r.amount)
                  ELSE s.balance[y][b]
    BY <1>1, <1>3, DebitType DEF AcceptsPool
  <2>2. n \in Nat
    BY <1>1, <1>2, <2>1, WholeType DEF SameButBalance
  <2>3. Effect(s, r) = e
    BY <1>3 DEF Effect, TransferKinds
  <2> HIDE DEF c, n
  <2>4. /\ e \in LedgerState
        /\ e.nonce = c.nonce /\ e.assets = c.assets
        /\ e.balance = c.balance /\ e.supply = c.supply /\ e.frozen = c.frozen
        /\ \A q \in Pools, y \in Assets \ {r.asset} :
              e.escrow[q][y] = c.escrow[q][y]
    BY <1>1, <2>1, <2>2, EscrowType
  <2> HIDE DEF e
  <2> QED
    BY <1>1, <1>2, <1>3, <2>1, <2>3, <2>4
       DEF EffectIsLocal, SameButBalance, AcceptsPool
<1>4. CASE r.type \in {"pool_withdraw", "pool_swap_out"}
  <2> DEFINE c == Credit(s, r.asset, r.from, r.amount)
             n == c.escrow[r.pool][r.asset] - Whole(r.amount)
             e == [c EXCEPT !.escrow[r.pool][r.asset] = n]
  <2>1. /\ c \in LedgerState /\ SameButBalance(s, c)
        /\ \A y \in Assets, b \in Addresses :
              c.balance[y][b] =
                  IF y = r.asset /\ b = r.from
                  THEN s.balance[r.asset][r.from] + Whole(r.amount)
                  ELSE s.balance[y][b]
    BY <1>1, CreditType, SMTT(20)
  <2>2. n \in Nat
    <3>1. Covers(s.escrow[r.pool][r.asset], r.amount)
      BY <1>4 DEF AcceptsPool
    <3>2. s.escrow[r.pool][r.asset] - Whole(r.amount) \in Nat
      BY <1>1, <1>2, <3>1, CoversWhole
    <3> QED
      BY <2>1, <3>2 DEF SameButBalance
  <2>3. Effect(s, r) = e
    BY <1>4 DEF Effect, TransferKinds
  <2> HIDE DEF c, n
  <2>4. /\ e \in LedgerState
        /\ e.nonce = c.nonce /\ e.assets = c.assets
        /\ e.balance = c.balance /\ e.supply = c.supply /\ e.frozen = c.frozen
        /\ \A q \in Pools, y \in Assets \ {r.asset} :
              e.escrow[q][y] = c.escrow[q][y]
    BY <1>1, <2>1, <2>2, EscrowType
  <2> HIDE DEF e
  <2> QED
    BY <1>1, <1>2, <1>4, <2>1, <2>3, <2>4
       DEF EffectIsLocal, SameButBalance, AcceptsPool
<1> QED
  BY <1>3, <1>4 DEF PoolKinds

LEMMA FreezeIsLocal ==
    ASSUME NEW s \in LedgerState, NEW r \in Request,
           r.type \in {"freeze", "unfreeze"}, AcceptsFreeze(s, r)
    PROVE  EffectIsLocal(s, r, Effect(s, r))
<1> DEFINE S == IF r.type = "freeze" THEN s.frozen[r.asset] \cup {r.to}
                                     ELSE s.frozen[r.asset] \ {r.to}
           e == [s EXCEPT !.frozen[r.asset] = S]
<1>1. r.asset \in Assets /\ r.to \in Addresses
  BY RequestFields
<1>2. /\ s.frozen[r.asset] \in SUBSET Addresses
      /\ s.supply[r.asset] \in Int
      /\ \A a \in Addresses : s.balance[r.asset][a] \in Nat
  BY <1>1 DEF LedgerState
<1>3. S \in SUBSET Addresses
  BY <1>1, <1>2
<1>4. Effect(s, r) = e
  BY DEF Effect, TransferKinds
<1> HIDE DEF S
<1>5. /\ e \in LedgerState
      /\ e.nonce = s.nonce /\ e.assets = s.assets
      /\ e.balance = s.balance /\ e.supply = s.supply /\ e.escrow = s.escrow
      /\ \A y \in Assets \ {r.asset} : e.frozen[y] = s.frozen[y]
  BY <1>1, <1>3, FrozenType
<1> HIDE DEF e
<1> QED
  BY <1>1, <1>2, <1>4, <1>5 DEF EffectIsLocal, AcceptsFreeze

LEMMA AcceptedIsLocal ==
    ASSUME NEW s \in LedgerState, NEW r \in Request, NEW context,
           Accepts(s, r, context)
    PROVE  EffectIsLocal(s, r, Effect(s, r))
  BY RegisterIsLocal, MintIsLocal, BurnIsLocal, TransferIsLocal, PoolIsLocal,
     FreezeIsLocal DEF Accepts

-----------------------------------------------------------------------------
\* Induction, and functions defined by recursion on an initial segment.

\* A set that has 0 and the successor of each of its numbers below N has all
\* numbers up to N.
LEMMA NatInduct ==
    ASSUME NEW N \in Nat, NEW S, 0 \in S, \A n \in S : n \in 0..N-1 => n + 1 \in S
    PROVE  0..N \subseteq S
<1> DEFINE T == 0..N \ S
           less == {p \in Nat \X Nat : p[1] < p[2]}
<1> SUFFICES ASSUME T # {} PROVE FALSE
  OBVIOUS
<1>1. PICK u \in T : \A v \in T : ~ (<<v, u>> \in less)
  <2>1. IsWellFoundedOn(less, Nat)
    BY NatLessThanWellFounded, Zenon DEF OpToRel
  <2>2. T \subseteq Nat /\ T # {}
    OBVIOUS
  <2> HIDE DEF T, less
  <2> QED
    BY <2>1, <2>2, WFMin
<1>2. u \in Nat \ {0} /\ u <= N
  OBVIOUS
<1>3. u - 1 \notin T
  <2>1. <<u - 1, u>> \in less
    BY <1>2
  <2> HIDE DEF T, less
  <2> QED
    BY <1>1, <2>1
<1>4. u - 1 \in S /\ u - 1 \in 0..N-1
  BY <1>2, <1>3
<1>5. u \in S
  BY <1>2, <1>4
<1> QED
  BY <1>5

\* Iterating a function N times from a: the run of results exists.
IsIteration(run, A, a, N, step) ==
    /\ run \in [0..N -> A]
    /\ run[0] = a
    /\ \A i \in 1..N : run[i] = step[i][run[i - 1]]

LEMMA RunExists ==
    ASSUME NEW A, NEW a \in A, NEW N \in Nat, NEW step \in [1..N -> [A -> A]]
    PROVE  \E run : IsIteration(run, A, a, N, step)
<1> DEFINE IsRun(run, n) == /\ run[0] = a
                            /\ \A i \in 1..n : run[i] = step[i][run[i - 1]]
           S == {n \in 0..N : \E run \in [0..n -> A] : IsRun(run, n)}
<1>1. 0 \in S
  <2> DEFINE first == [i \in 0..0 |-> a]
  <2>1. first \in [0..0 -> A] /\ IsRun(first, 0) /\ 0 \in 0..N
    OBVIOUS
  <2> HIDE DEF first, IsRun
  <2> QED
    BY <2>1
<1>2. ASSUME NEW n \in S, n \in 0..N-1
      PROVE  n + 1 \in S
  <2>1. PICK run \in [0..n -> A] : IsRun(run, n)
    OBVIOUS
  <2> DEFINE longer == [i \in 0..n+1 |-> IF i = n + 1 THEN step[n + 1][run[n]] ELSE run[i]]
  <2>2. run[n] \in A /\ n + 1 \in 1..N
    <3>1. n \in 0..n /\ n + 1 \in 1..N
      BY <1>2
    <3> QED
      BY <2>1, <3>1
  <2>3. step[n + 1][run[n]] \in A
    BY <2>2
  <2>4. longer \in [0..n+1 -> A]
    BY <2>1, <2>3
  <2>5. IsRun(longer, n + 1)
    <3>1. longer[0] = a
      BY <2>1, <1>2
    <3>2. \A i \in 1..n : longer[i] = run[i] /\ longer[i - 1] = run[i - 1]
      BY <1>2
    <3>3. longer[n + 1] = step[n + 1][run[n]] /\ longer[n] = run[n]
      BY <1>2
    <3>4. \A i \in 1..n+1 : i \in 1..n \/ i = n + 1
      BY <1>2
    <3> HIDE DEF longer
    <3> QED
      BY <1>2, <2>1, <3>1, <3>2, <3>3, <3>4
  <2> HIDE DEF longer, IsRun
  <2> QED
    BY <1>2, <2>4, <2>5
<1>3. N \in S
  <2> HIDE DEF S
  <2> QED
    BY <1>1, <1>2, NatInduct
<1> QED
  BY <1>3 DEF IsIteration

-----------------------------------------------------------------------------
\* Sums (SumFunction of the community modules) of the values of a function with a
\* finite domain: how a sum changes with one value, and with one more value.

\* sum gives the total of f over every subset of S, adding one element at a time in
\* the order CHOOSE happens to take them.
AddsUp(sum, f, S) ==
    sum = [T \in SUBSET S |->
              IF T = {} THEN 0
              ELSE f[CHOOSE x \in T : TRUE] + sum[T \ {CHOOSE x \in T : TRUE}]]

LEMMA SumUnfolds ==
    ASSUME NEW S, NEW f, DOMAIN f = S
    PROVE  \E sum : /\ SumFunction(f) = sum[S]
                    /\ sum = CHOOSE g : AddsUp(g, f, S)
  BY DEF SumFunction, SumFunctionOnSet, FoldFunctionOnSet, MapThenFoldSet, AddsUp

\* Subsets of at most n elements.
Small(S, n) == {T \in SUBSET S : Cardinality(T) <= n}

LEMMA SmallSets ==
    ASSUME NEW S, IsFiniteSet(S)
    PROVE  /\ \A T \in SUBSET S : T \in Small(S, 0) <=> T = {}
           /\ \A n \in Nat : \A T \in Small(S, n + 1) : \A x \in T : T \ {x} \in Small(S, n)
           /\ Small(S, Cardinality(S)) = SUBSET S
           /\ Cardinality(S) \in Nat
<1>1. \A T \in SUBSET S : IsFiniteSet(T) /\ Cardinality(T) \in Nat
                          /\ Cardinality(T) <= Cardinality(S)
  BY FS_Subset, FS_CardinalityType
<1>2. Cardinality(S) \in Nat
  BY FS_CardinalityType
<1>3. \A T \in SUBSET S : T \in Small(S, 0) <=> T = {}
  BY <1>1, FS_EmptySet DEF Small
<1>4. ASSUME NEW n \in Nat, NEW T \in Small(S, n + 1), NEW x \in T
      PROVE  T \ {x} \in Small(S, n)
  <2>1. T \in SUBSET S /\ IsFiniteSet(T) /\ Cardinality(T) \in Nat /\ Cardinality(T) <= n + 1
    BY <1>1 DEF Small
  <2>2. Cardinality(T \ {x}) = Cardinality(T) - 1
    BY <2>1, FS_RemoveElement
  <2> QED
    BY <2>1, <2>2 DEF Small
<1>5. Small(S, Cardinality(S)) = SUBSET S
  BY <1>1 DEF Small
<1> QED
  BY <1>2, <1>3, <1>4, <1>5

LEMMA ChosenIn ==
    ASSUME NEW T, T # {}
    PROVE  (CHOOSE x \in T : TRUE) \in T
  OBVIOUS

\* The recursion has a solution, so CHOOSE takes one.
LEMMA AddsUpExists ==
    ASSUME NEW S, IsFiniteSet(S), NEW f \in [S -> Int]
    PROVE  \E sum : AddsUp(sum, f, S)
<1> DEFINE one(T) == CHOOSE x \in T : TRUE
           next(g) == [T \in SUBSET S |->
                          IF T = {} THEN 0 ELSE f[one(T)] + g[T \ {one(T)}]]
           Fits(g, n) == \A T \in Small(S, n) : g[T] = next(g)[T]
           good == {n \in 0..Cardinality(S) : \E g : DOMAIN g = SUBSET S /\ Fits(g, n)}
<1>1. Cardinality(S) \in Nat /\ Small(S, Cardinality(S)) = SUBSET S
  BY SmallSets
<1>2. \A n : Small(S, n) \subseteq SUBSET S
  BY DEF Small
<1>3. 0 \in good
  <2>1. PICK g : g = [T \in SUBSET S |-> 0]
    OBVIOUS
  <2>2. ASSUME NEW T \in Small(S, 0)
        PROVE  g[T] = next(g)[T]
    <3>1. T \in SUBSET S /\ T = {}
      BY <1>2, SmallSets
    <3> QED
      BY <2>1, <3>1
  <2>3. Fits(g, 0)
    BY <2>2
  <2>4. 0 \in 0..Cardinality(S) /\ DOMAIN g = SUBSET S
    BY <1>1, <2>1
  <2> HIDE DEF Fits
  <2> QED
    BY <2>3, <2>4
<1>4. ASSUME NEW n \in good, n \in 0..Cardinality(S)-1
      PROVE  n + 1 \in good
  <2>1. PICK g : DOMAIN g = SUBSET S /\ Fits(g, n)
    OBVIOUS
  <2>2. PICK h : h = next(g)
    OBVIOUS
  <2>3. DOMAIN h = SUBSET S
    BY <2>2
  <2>4. ASSUME NEW T \in Small(S, n + 1)
        PROVE  h[T] = next(h)[T]
    <3>1. T \in SUBSET S /\ n \in Nat
      BY <1>1, <1>2, <1>4
    <3>2. CASE T = {}
      BY <2>2, <3>1, <3>2
    <3>3. CASE T # {}
      <4>1. PICK x \in T : x = one(T)
        BY <3>3, ChosenIn
      <4>2. PICK U \in Small(S, n) : U = T \ {x}
        BY <3>1, SmallSets
      <4>3. h[U] = g[U]
        BY <2>1, <2>2, <4>2
      <4>4. h[T] = f[x] + g[U] /\ next(h)[T] = f[x] + h[U]
        BY <2>2, <3>1, <3>3, <4>1, <4>2
      <4> QED
        BY <4>3, <4>4
    <3> QED
      BY <3>2, <3>3
  <2>5. n + 1 \in 0..Cardinality(S)
    BY <1>1, <1>4
  <2>6. Fits(h, n + 1)
    BY <2>4
  <2> QED
    BY <2>3, <2>5, <2>6
<1>5. Cardinality(S) \in good
  <2>1. Cardinality(S) \in 0..Cardinality(S)
    BY <1>1
  <2> HIDE DEF good
  <2> QED
    BY <1>1, <1>3, <1>4, <2>1, NatInduct
<1>6. PICK g : DOMAIN g = SUBSET S /\ \A T \in SUBSET S : g[T] = next(g)[T]
  BY <1>1, <1>5
<1>7. PICK h : h = next(g)
  OBVIOUS
<1>8. \A T \in SUBSET S : h[T] = g[T]
  BY <1>6, <1>7
<1>9. next(h) = next(g)
  <2>1. \A T \in SUBSET S : T \ {one(T)} \in SUBSET S
    OBVIOUS
  <2> HIDE DEF one
  <2> QED
    BY <1>8, <2>1
<1>10. h = next(h)
  BY <1>7, <1>9
<1> QED
  BY <1>10 DEF AddsUp

\* The total of f over the sets between {} and S, whatever order they are taken in.
IsTotal(sum, f, S) ==
    /\ sum \in [SUBSET S -> Int]
    /\ sum[{}] = 0
    /\ \A T \in SUBSET S : \A y \in T : sum[T] = f[y] + sum[T \ {y}]

LEMMA TotalOf ==
    ASSUME NEW S, IsFiniteSet(S), NEW f \in [S -> Int]
    PROVE  \E sum : IsTotal(sum, f, S) /\ SumFunction(f) = sum[S]
<1> DEFINE one(T) == CHOOSE x \in T : TRUE
<1>1. PICK sum : SumFunction(f) = sum[S] /\ sum = CHOOSE g : AddsUp(g, f, S)
  BY SumUnfolds
<1>2. AddsUp(sum, f, S)
  BY <1>1, AddsUpExists
<1>3. /\ DOMAIN sum = SUBSET S
      /\ sum = [T \in SUBSET S |-> sum[T]]
      /\ \A T \in SUBSET S :
            sum[T] = IF T = {} THEN 0 ELSE f[one(T)] + sum[T \ {one(T)}]
  BY <1>2 DEF AddsUp
<1>4. Cardinality(S) \in Nat /\ Small(S, Cardinality(S)) = SUBSET S
  BY SmallSets
<1>5. \A n : Small(S, n) \subseteq SUBSET S
  BY DEF Small
<1>6. \A x \in S : f[x] \in Int
  OBVIOUS
<1>7. sum[{}] = 0 /\ {} \in SUBSET S
  BY <1>3
<1> DEFINE Good(T) == /\ sum[T] \in Int
                      /\ \A y \in T : sum[T] = f[y] + sum[T \ {y}]
           good == {n \in 0..Cardinality(S) : \A T \in Small(S, n) : Good(T)}
<1>8. 0 \in good
  <2>1. Good({})
    BY <1>7
  <2>2. 0 \in 0..Cardinality(S) /\ \A T \in Small(S, 0) : T = {}
    BY <1>4, <1>5, SmallSets
  <2> HIDE DEF Good
  <2> QED
    BY <2>1, <2>2
<1>9. ASSUME NEW n \in good, n \in 0..Cardinality(S)-1
      PROVE  n + 1 \in good
  <2>1. n \in Nat /\ n + 1 \in 0..Cardinality(S)
    BY <1>4, <1>9
  <2>2. \A T \in Small(S, n) : Good(T)
    <3> HIDE DEF Good
    <3> QED
      OBVIOUS
  <2>3. ASSUME NEW T \in Small(S, n + 1), T # {}
        PROVE  Good(T)
    <3>1. T \in SUBSET S /\ \A y \in T : T \ {y} \in Small(S, n)
      BY <1>5, <2>1, SmallSets
    <3>2. PICK c \in T : c = one(T)
      BY <2>3, ChosenIn
    <3>3. sum[T] = f[c] + sum[T \ {c}]
      BY <1>3, <2>3, <3>1, <3>2
    <3>4. PICK V \in Small(S, n) : V = T \ {c}
      BY <3>1
    <3>5. Good(V)
      BY <2>2
    <3>6. sum[T] \in Int
      <4>1. f[c] \in Int
        BY <1>6, <3>1
      <4> QED
        BY <3>3, <3>4, <3>5, <4>1
    <3>7. ASSUME NEW y \in T, y # c
          PROVE  sum[T] = f[y] + sum[T \ {y}]
      <4>1. PICK W \in Small(S, n) : W = T \ {y}
        BY <3>1
      <4>2. Good(W)
        BY <2>2
      <4>3. PICK U : U = V \ {y} /\ U = W \ {c} /\ y \in V /\ c \in W
        BY <3>4, <3>7, <4>1
      <4>4. sum[V] = f[y] + sum[U] /\ sum[W] = f[c] + sum[U]
        BY <3>5, <4>2, <4>3
      <4>5. sum[U] \in Int
        <5>1. U \in Small(S, n)
          <6>1. V \in SUBSET S /\ IsFiniteSet(V) /\ Cardinality(V) <= n
            BY FS_Subset DEF Small
          <6>2. U \in SUBSET V /\ IsFiniteSet(U) /\ Cardinality(U) <= Cardinality(V)
            BY <4>3, <6>1, FS_Subset
          <6>3. Cardinality(U) \in Nat /\ Cardinality(V) \in Nat
            BY <6>1, <6>2, FS_CardinalityType
          <6> QED
            BY <2>1, <6>1, <6>2, <6>3 DEF Small
        <5> QED
          BY <2>2, <5>1
      <4>6. f[c] \in Int /\ f[y] \in Int
        BY <1>6, <3>1
      <4>7. PICK p, q, v \in Int : p = f[c] /\ q = f[y] /\ v = sum[U]
        BY <4>5, <4>6
      <4>8. sum[T] = p + (q + v) /\ sum[W] = p + v
        BY <3>3, <3>4, <4>4, <4>7
      <4>9. p + (q + v) = q + (p + v)
        BY ONLY p \in Int, q \in Int, v \in Int
      <4> QED
        BY <4>1, <4>7, <4>8, <4>9
    <3> QED
      BY <3>2, <3>3, <3>6, <3>7
  <2>4. Good({})
    BY <1>7
  <2> HIDE DEF Good
  <2> QED
    BY <2>1, <2>3, <2>4
<1>10. Cardinality(S) \in good
  <2>1. Cardinality(S) \in 0..Cardinality(S)
    BY <1>4
  <2> HIDE DEF good
  <2> QED
    BY <1>4, <1>8, <1>9, <2>1, NatInduct
<1>11. \A T \in SUBSET S : Good(T)
  BY <1>4, <1>10
<1>12. sum \in [SUBSET S -> Int]
  BY <1>3, <1>11
<1> QED
  BY <1>1, <1>7, <1>11, <1>12 DEF IsTotal

\* Totals over the same elements with the same values are equal.
LEMMA TotalsAgree ==
    ASSUME NEW U, IsFiniteSet(U), NEW S, NEW R, U \subseteq S, U \subseteq R,
           NEW f, NEW g, \A x \in U : f[x] = g[x],
           NEW sum, IsTotal(sum, f, S), NEW tot, IsTotal(tot, g, R)
    PROVE  sum[U] = tot[U]
<1>1. Cardinality(U) \in Nat /\ Small(U, Cardinality(U)) = SUBSET U
  BY SmallSets
<1> DEFINE good == {n \in 0..Cardinality(U) : \A T \in Small(U, n) : sum[T] = tot[T]}
<1>2. 0 \in good
  <2>1. \A T \in Small(U, 0) : T = {}
    BY SmallSets DEF Small
  <2>2. sum[{}] = tot[{}]
    BY DEF IsTotal
  <2>3. \A T \in Small(U, 0) : sum[T] = tot[T]
    BY <2>1, <2>2, Zenon
  <2>4. 0 \in 0..Cardinality(U)
    BY <1>1
  <2> QED
    BY <2>3, <2>4
<1>3. ASSUME NEW n \in good, n \in 0..Cardinality(U)-1
      PROVE  n + 1 \in good
  <2>1. n \in Nat /\ n + 1 \in 0..Cardinality(U) /\ \A T \in Small(U, n) : sum[T] = tot[T]
    BY <1>1, <1>3
  <2>2. ASSUME NEW T \in Small(U, n + 1)
        PROVE  sum[T] = tot[T]
    <3>1. CASE T = {}
      BY <3>1 DEF IsTotal
    <3>2. CASE T # {}
      <4>1. PICK x \in T : TRUE
        BY <3>2
      <4>2. T \in SUBSET U /\ T \in SUBSET S /\ T \in SUBSET R
        BY DEF Small
      <4>3. T \ {x} \in Small(U, n)
        BY <2>1, SmallSets
      <4>4. sum[T] = f[x] + sum[T \ {x}] /\ tot[T] = g[x] + tot[T \ {x}]
        BY <4>2 DEF IsTotal
      <4> QED
        BY <2>1, <4>2, <4>3, <4>4
    <3> QED
      BY <3>1, <3>2
  <2> QED
    BY <2>1, <2>2
<1>4. Cardinality(U) \in good
  <2>1. Cardinality(U) \in 0..Cardinality(U)
    BY <1>1
  <2> HIDE DEF good
  <2> QED
    BY <1>1, <1>2, <1>3, <2>1, NatInduct
<1> QED
  BY <1>1, <1>4

LEMMA SumType ==
    ASSUME NEW S, IsFiniteSet(S), NEW f \in [S -> Int]
    PROVE  SumFunction(f) \in Int
<1>1. PICK sum : IsTotal(sum, f, S) /\ SumFunction(f) = sum[S]
  BY TotalOf
<1> QED
  BY <1>1 DEF IsTotal

\* Changing one value changes the sum by as much.
LEMMA SumChanges ==
    ASSUME NEW S, IsFiniteSet(S), NEW f \in [S -> Int], NEW g \in [S -> Int],
           NEW x \in S, \A y \in S \ {x} : g[y] = f[y]
    PROVE  SumFunction(g) = SumFunction(f) + (g[x] - f[x])
<1>1. PICK sum : IsTotal(sum, f, S) /\ SumFunction(f) = sum[S]
  BY TotalOf
<1>2. PICK tot : IsTotal(tot, g, S) /\ SumFunction(g) = tot[S]
  BY TotalOf
<1>3. PICK U \in SUBSET S : U = S \ {x} /\ IsFiniteSet(U)
  BY FS_RemoveElement
<1>4. tot[U] = sum[U]
  BY <1>1, <1>2, <1>3, TotalsAgree
<1>5. sum[S] = f[x] + sum[U] /\ tot[S] = g[x] + tot[U] /\ sum[U] \in Int
  BY <1>1, <1>2, <1>3 DEF IsTotal
<1>6. f[x] \in Int /\ g[x] \in Int
  OBVIOUS
<1> QED
  BY <1>1, <1>2, <1>4, <1>5, <1>6

\* Numbers that are not negative add up to at least each of them.
LEMMA TotalAtLeast ==
    ASSUME NEW S, IsFiniteSet(S), NEW f \in [S -> Nat], NEW sum, IsTotal(sum, f, S)
    PROVE  \A T \in SUBSET S : sum[T] >= 0
<1>1. Cardinality(S) \in Nat /\ Small(S, Cardinality(S)) = SUBSET S
  BY SmallSets
<1> DEFINE good == {n \in 0..Cardinality(S) : \A T \in Small(S, n) : sum[T] >= 0}
<1>2. 0 \in good
  <2>1. \A T \in Small(S, 0) : T = {}
    BY SmallSets DEF Small
  <2>2. sum[{}] >= 0 /\ 0 \in 0..Cardinality(S)
    BY <1>1 DEF IsTotal
  <2> QED
    BY <2>1, <2>2
<1>3. ASSUME NEW n \in good, n \in 0..Cardinality(S)-1
      PROVE  n + 1 \in good
  <2>1. n \in Nat /\ n + 1 \in 0..Cardinality(S) /\ \A T \in Small(S, n) : sum[T] >= 0
    BY <1>1, <1>3
  <2>2. ASSUME NEW T \in Small(S, n + 1)
        PROVE  sum[T] >= 0
    <3>1. CASE T = {}
      BY <3>1 DEF IsTotal
    <3>2. CASE T # {}
      <4>1. PICK x \in T : TRUE
        BY <3>2
      <4>2. T \in SUBSET S /\ x \in S /\ T \ {x} \in SUBSET S
        BY DEF Small
      <4>3. T \ {x} \in Small(S, n)
        BY <2>1, SmallSets
      <4>4. sum[T] = f[x] + sum[T \ {x}] /\ f[x] \in Nat /\ sum[T \ {x}] \in Int
        BY <4>2 DEF IsTotal
      <4> QED
        BY <2>1, <4>3, <4>4
    <3> QED
      BY <3>1, <3>2
  <2> QED
    BY <2>1, <2>2
<1>4. Cardinality(S) \in good
  <2>1. Cardinality(S) \in 0..Cardinality(S)
    BY <1>1
  <2> HIDE DEF good
  <2> QED
    BY <1>1, <1>2, <1>3, <2>1, NatInduct
<1> QED
  BY <1>1, <1>4

LEMMA SumAtLeast ==
    ASSUME NEW S, IsFiniteSet(S), NEW f \in [S -> Nat]
    PROVE  SumFunction(f) >= 0 /\ \A x \in S : SumFunction(f) >= f[x]
<1>1. f \in [S -> Int] /\ \A x \in S : f[x] \in Nat
  OBVIOUS
<1>2. PICK sum : IsTotal(sum, f, S) /\ SumFunction(f) = sum[S]
  BY <1>1, TotalOf
<1>3. \A T \in SUBSET S : sum[T] >= 0
  BY <1>2, TotalAtLeast
<1>4. ASSUME NEW x \in S
      PROVE  sum[S] >= f[x]
  <2>1. sum[S] = f[x] + sum[S \ {x}] /\ sum[S \ {x}] \in Int /\ sum[S \ {x}] >= 0
    BY <1>2, <1>3 DEF IsTotal
  <2> QED
    BY <1>1, <2>1
<1> QED
  BY <1>2, <1>3, <1>4

\* Nothing adds up to nothing.
LEMMA SumOfZeros ==
    ASSUME NEW S, IsFiniteSet(S), NEW f \in [S -> Int], \A x \in S : f[x] = 0
    PROVE  SumFunction(f) = 0
<1>1. PICK sum : IsTotal(sum, f, S) /\ SumFunction(f) = sum[S]
  BY TotalOf
<1>2. PICK tot : tot = [T \in SUBSET S |-> 0]
  OBVIOUS
<1>3. IsTotal(tot, f, S)
  <2>1. tot \in [SUBSET S -> Int] /\ tot[{}] = 0
    BY <1>2
  <2>2. \A T \in SUBSET S : \A y \in T : y \in S /\ tot[T] = 0 /\ tot[T \ {y}] = 0
    BY <1>2
  <2>3. ASSUME NEW T \in SUBSET S, NEW y \in T
        PROVE  tot[T] = f[y] + tot[T \ {y}]
    <3>1. f[y] = 0 /\ tot[T] = 0 /\ tot[T \ {y}] = 0
      BY <2>2
    <3> QED
      BY ONLY <3>1
  <2> QED
    BY <2>1, <2>3 DEF IsTotal
<1>4. sum[S] = tot[S]
  BY <1>1, <1>3, TotalsAgree
<1> QED
  BY <1>1, <1>2, <1>4

-----------------------------------------------------------------------------
\* One action.

LEMMA NonceType ==
    ASSUME NEW e \in LedgerState, NEW n \in Nat
    PROVE  LET t == [e EXCEPT !.nonce = n]
           IN  /\ t \in LedgerState
               /\ t.nonce = n /\ t.assets = e.assets
  BY DEF LedgerState

\* An action that applies leads to a ledger state with the next nonce.
LEMMA ApplyType ==
    ASSUME NEW s \in LedgerState, NEW action \in Action, NEW context,
           Applies(s, action, context)
    PROVE  /\ ApplyAction(s, action) \in LedgerState
           /\ ApplyAction(s, action).nonce = s.nonce + 1
           /\ action.nonce = s.nonce + 1
           /\ s.assets \subseteq ApplyAction(s, action).assets
<1>1. PICK r \in Request : r = action.request
  BY DEF Action
<1>2. PICK e : e = Effect(s, r)
  OBVIOUS
<1>3. EffectIsLocal(s, r, e)
  BY <1>1, <1>2, AcceptedIsLocal DEF Applies
<1>4. e \in LedgerState /\ s.assets \subseteq e.assets
  BY <1>3 DEF EffectIsLocal
<1>5. s.nonce \in Nat /\ action.nonce = s.nonce + 1
  BY DEF LedgerState, Applies
<1>6. ApplyAction(s, action) = [e EXCEPT !.nonce = action.nonce]
  BY <1>1, <1>2 DEF ApplyAction
<1>7. /\ ApplyAction(s, action) \in LedgerState
      /\ ApplyAction(s, action).nonce = action.nonce
      /\ ApplyAction(s, action).assets = e.assets
  BY <1>4, <1>5, <1>6, NonceType
<1> QED
  BY <1>4, <1>5, <1>7

\* How far process_batch has come, and how far verify_batch.
Progress == [state : LedgerState, applied : Seq(Action)]

Outcome == [state : LedgerState, ok : BOOLEAN]

LEMMA ProcessOneType ==
    ASSUME NEW acc \in Progress, NEW action \in Action, NEW context
    PROVE  ProcessOne(acc, action, context) \in Progress
<1>1. acc.state \in LedgerState /\ acc.applied \in Seq(Action)
  BY DEF Progress
<1>2. CASE Applies(acc.state, action, context)
  <2>1. ApplyAction(acc.state, action) \in LedgerState
    BY <1>1, <1>2, ApplyType
  <2>2. Append(acc.applied, action) \in Seq(Action)
    BY <1>1
  <2> QED
    BY <1>2, <2>1, <2>2 DEF ProcessOne, Progress
<1>3. CASE ~Applies(acc.state, action, context)
  BY <1>3 DEF ProcessOne
<1> QED
  BY <1>2, <1>3

LEMMA VerifyOneType ==
    ASSUME NEW acc \in Outcome, NEW action \in Action, NEW context
    PROVE  VerifyOne(acc, action, context) \in Outcome
<1>1. acc.state \in LedgerState /\ acc.ok \in BOOLEAN
  BY DEF Outcome
<1>2. CASE acc.ok /\ Applies(acc.state, action, context)
  <2>1. ApplyAction(acc.state, action) \in LedgerState
    BY <1>1, <1>2, ApplyType
  <2> QED
    BY <1>2, <2>1 DEF VerifyOne, Outcome
<1>3. CASE ~(acc.ok /\ Applies(acc.state, action, context))
  BY <1>1, <1>3 DEF VerifyOne, Outcome
<1> QED
  BY <1>2, <1>3

-----------------------------------------------------------------------------
\* The runs of process_batch and verify_batch, action by action.

IsProcessRun(run, s, actions, context) ==
    /\ run \in [0..Len(actions) -> Progress]
    /\ run[0] = [state |-> s, applied |-> <<>>]
    /\ \A i \in 1..Len(actions) : run[i] = ProcessOne(run[i - 1], actions[i], context)

LEMMA ProcessRun ==
    ASSUME NEW s \in LedgerState, NEW actions \in Seq(Action), NEW context
    PROVE  \E run : /\ IsProcessRun(run, s, actions, context)
                    /\ ProcessBatch(s, actions, context) = run[Len(actions)]
<1> DEFINE N == Len(actions)
           first == [state |-> s, applied |-> <<>>]
           Follows(run) == run = [i \in 0..N |-> IF i = 0 THEN first
                                     ELSE ProcessOne(run[i - 1], actions[i], context)]
           step == [i \in 1..N |-> [acc \in Progress |-> ProcessOne(acc, actions[i], context)]]
<1>1. N \in Nat /\ first \in Progress /\ \A i \in 1..N : actions[i] \in Action
  BY DEF Progress
<1>2. step \in [1..N -> [Progress -> Progress]]
  BY <1>1, ProcessOneType
<1>3. \E run : Follows(run)
  <2>0. N \in Nat /\ first \in Progress
    BY <1>1
  <2>1. PICK run : IsIteration(run, Progress, first, N, step)
    <3> HIDE DEF N, first, step
    <3> QED
      BY <1>2, <2>0, RunExists
  <2>2. \A i \in 1..N : run[i - 1] \in Progress
    <3>1. \A i \in 1..N : i - 1 \in 0..N
      BY <1>1
    <3> QED
      BY <2>1, <3>1 DEF IsIteration
  <2>3. \A i \in 1..N : step[i][run[i - 1]] = ProcessOne(run[i - 1], actions[i], context)
    BY <2>2
  <2>4. \A i \in 0..N : i = 0 \/ i \in 1..N
    BY <1>1
  <2> HIDE DEF step, N, first
  <2>5. \A i \in 0..N : run[i] = IF i = 0 THEN first
                                 ELSE ProcessOne(run[i - 1], actions[i], context)
    BY <1>1, <2>1, <2>3, <2>4 DEF IsIteration
  <2>6. run = [i \in 0..N |-> run[i]]
    BY <2>1 DEF IsIteration
  <2> QED
    BY <2>5, <2>6
<1>4. PICK run : run = CHOOSE r : Follows(r)
  OBVIOUS
<1>5. Follows(run)
  <2> HIDE DEF Follows
  <2> QED
    BY <1>3, <1>4
<1>6. ProcessBatch(s, actions, context) = run[N]
  BY <1>4 DEF ProcessBatch
<1>7. /\ DOMAIN run = 0..N /\ run[0] = first
      /\ \A i \in 1..N : run[i] = ProcessOne(run[i - 1], actions[i], context)
  <2> DEFINE entry(i) == IF i = 0 THEN first ELSE ProcessOne(run[i - 1], actions[i], context)
  <2>1. DOMAIN run = 0..N /\ \A i \in 0..N : run[i] = entry(i)
    BY <1>5
  <2>2. 0 \in 0..N /\ \A i \in 1..N : i \in 0..N /\ i # 0
    BY <1>1
  <2> QED
    BY <2>1, <2>2
<1> DEFINE S == {i \in 0..N : run[i] \in Progress}
<1>8. 0 \in S
  <2>1. 0 \in 0..N
    BY <1>1
  <2> HIDE DEF N, first
  <2> QED
    BY <1>1, <1>7, <2>1
<1>9. ASSUME NEW i \in S, i \in 0..N-1
      PROVE  i + 1 \in S
  <2>1. i + 1 \in 1..N /\ (i + 1) - 1 = i /\ run[i] \in Progress
    BY <1>1, <1>9
  <2>2. run[i + 1] = ProcessOne(run[i], actions[i + 1], context)
    BY <1>7, <2>1
  <2>3. run[i + 1] \in Progress
    BY <1>1, <2>1, <2>2, ProcessOneType
  <2> QED
    BY <1>1, <2>1, <2>3
<1>10. 0..N \subseteq S
  <2> HIDE DEF S, N
  <2> QED
    BY <1>1, <1>8, <1>9, NatInduct
<1>11. run \in [0..N -> Progress]
  <2>1. run = [i \in 0..N |-> run[i]]
    BY <1>5
  <2> QED
    BY <2>1, <1>10
<1> QED
  BY <1>6, <1>7, <1>11 DEF IsProcessRun

IsVerifyRun(run, s, actions, context) ==
    /\ run \in [0..Len(actions) -> Outcome]
    /\ run[0] = [state |-> s, ok |-> TRUE]
    /\ \A i \in 1..Len(actions) : run[i] = VerifyOne(run[i - 1], actions[i], context)

LEMMA VerifyRun ==
    ASSUME NEW s \in LedgerState, NEW actions \in Seq(Action), NEW context
    PROVE  \E run : /\ IsVerifyRun(run, s, actions, context)
                    /\ \A claimed : VerifyBatch(s, actions, claimed, context) <=>
                          run[Len(actions)] = [state |-> claimed, ok |-> TRUE]
<1> DEFINE N == Len(actions)
           first == [state |-> s, ok |-> TRUE]
           Follows(run) == run = [i \in 0..N |-> IF i = 0 THEN first
                                     ELSE VerifyOne(run[i - 1], actions[i], context)]
           step == [i \in 1..N |-> [acc \in Outcome |-> VerifyOne(acc, actions[i], context)]]
<1>1. N \in Nat /\ first \in Outcome /\ \A i \in 1..N : actions[i] \in Action
  BY DEF Outcome
<1>2. step \in [1..N -> [Outcome -> Outcome]]
  BY <1>1, VerifyOneType
<1>3. \E run : Follows(run)
  <2>0. N \in Nat /\ first \in Outcome
    BY <1>1
  <2>1. PICK run : IsIteration(run, Outcome, first, N, step)
    <3> HIDE DEF N, first, step
    <3> QED
      BY <1>2, <2>0, RunExists
  <2>2. \A i \in 1..N : run[i - 1] \in Outcome
    <3>1. \A i \in 1..N : i - 1 \in 0..N
      BY <1>1
    <3> QED
      BY <2>1, <3>1 DEF IsIteration
  <2>3. \A i \in 1..N : step[i][run[i - 1]] = VerifyOne(run[i - 1], actions[i], context)
    BY <2>2
  <2>4. \A i \in 0..N : i = 0 \/ i \in 1..N
    BY <1>1
  <2> HIDE DEF step, N, first
  <2>5. \A i \in 0..N : run[i] = IF i = 0 THEN first
                                 ELSE VerifyOne(run[i - 1], actions[i], context)
    BY <1>1, <2>1, <2>3, <2>4 DEF IsIteration
  <2>6. run = [i \in 0..N |-> run[i]]
    BY <2>1 DEF IsIteration
  <2> QED
    BY <2>5, <2>6
<1>4. PICK run : run = CHOOSE r : Follows(r)
  OBVIOUS
<1>5. Follows(run)
  <2> HIDE DEF Follows
  <2> QED
    BY <1>3, <1>4
<1>6. \A claimed : VerifyBatch(s, actions, claimed, context) <=>
                       run[N] = [state |-> claimed, ok |-> TRUE]
  BY <1>4 DEF VerifyBatch
<1>7. /\ DOMAIN run = 0..N /\ run[0] = first
      /\ \A i \in 1..N : run[i] = VerifyOne(run[i - 1], actions[i], context)
  <2> DEFINE entry(i) == IF i = 0 THEN first ELSE VerifyOne(run[i - 1], actions[i], context)
  <2>1. DOMAIN run = 0..N /\ \A i \in 0..N : run[i] = entry(i)
    BY <1>5
  <2>2. 0 \in 0..N /\ \A i \in 1..N : i \in 0..N /\ i # 0
    BY <1>1
  <2> QED
    BY <2>1, <2>2
<1> DEFINE S == {i \in 0..N : run[i] \in Outcome}
<1>8. 0 \in S
  <2>1. 0 \in 0..N
    BY <1>1
  <2> HIDE DEF N, first
  <2> QED
    BY <1>1, <1>7, <2>1
<1>9. ASSUME NEW i \in S, i \in 0..N-1
      PROVE  i + 1 \in S
  <2>1. i + 1 \in 1..N /\ (i + 1) - 1 = i /\ run[i] \in Outcome
    BY <1>1, <1>9
  <2>2. run[i + 1] = VerifyOne(run[i], actions[i + 1], context)
    BY <1>7, <2>1
  <2>3. run[i + 1] \in Outcome
    BY <1>1, <2>1, <2>2, VerifyOneType
  <2> QED
    BY <1>1, <2>1, <2>3
<1>10. 0..N \subseteq S
  <2> HIDE DEF S, N
  <2> QED
    BY <1>1, <1>8, <1>9, NatInduct
<1>11. run \in [0..N -> Outcome]
  <2>1. run = [i \in 0..N |-> run[i]]
    BY <1>5
  <2> QED
    BY <2>1, <1>10
<1> QED
  BY <1>6, <1>7, <1>11 DEF IsVerifyRun

-----------------------------------------------------------------------------
\* Chains of accepted actions.

\* F accepts the actions one after the other, and path lists the states.
IsPath(path, s, actions, context) ==
    /\ path \in [0..Len(actions) -> LedgerState]
    /\ path[0] = s
    /\ \A i \in 1..Len(actions) :
          /\ Applies(path[i - 1], actions[i], context)
          /\ path[i] = ApplyAction(path[i - 1], actions[i])

\* verify_batch accepts a payload if and only if F accepts its actions one after
\* the other and the last state is the claimed one.
THEOREM VerifiedIsPath ==
    ASSUME NEW s \in LedgerState, NEW actions \in Seq(Action), NEW context,
           NEW claimed
    PROVE  VerifyBatch(s, actions, claimed, context) <=>
               \E path : IsPath(path, s, actions, context) /\ path[Len(actions)] = claimed
<1> DEFINE N == Len(actions)
<1>1. PICK run : /\ IsVerifyRun(run, s, actions, context)
                 /\ VerifyBatch(s, actions, claimed, context) <=>
                       run[N] = [state |-> claimed, ok |-> TRUE]
  BY VerifyRun
<1>2. /\ N \in Nat /\ 0 \in 0..N /\ N \in 0..N
      /\ \A i \in 1..N : i \in 0..N /\ i - 1 \in 0..N
  OBVIOUS
<1>3. /\ run \in [0..N -> Outcome]
      /\ run[0] = [state |-> s, ok |-> TRUE]
      /\ \A i \in 1..N : run[i] = VerifyOne(run[i - 1], actions[i], context)
  BY <1>1 DEF IsVerifyRun
<1> HIDE DEF N
<1>4. ASSUME run[N] = [state |-> claimed, ok |-> TRUE]
      PROVE  \E path : IsPath(path, s, actions, context) /\ path[N] = claimed
  <2> DEFINE S == {n \in 0..N : run[n].ok => \A i \in 0..n : run[i].ok}
             path == [i \in 0..N |-> run[i].state]
  <2>1. 0 \in S
    BY <1>2, <1>3
  <2>2. ASSUME NEW n \in S, n \in 0..N-1
        PROVE  n + 1 \in S
    <3>1. n + 1 \in 1..N /\ (n + 1) - 1 = n /\ n + 1 \in 0..N
      BY <1>2, <2>2
    <3>2. run[n + 1].ok => run[n].ok
      <4>1. run[n + 1] = VerifyOne(run[n], actions[n + 1], context)
        BY <1>3, <3>1
      <4> QED
        BY <4>1 DEF VerifyOne
    <3>3. \A i \in 0..n+1 : i \in 0..n \/ i = n + 1
      BY <2>2
    <3> QED
      BY <3>1, <3>2, <3>3
  <2>3. N \in S
    <3> HIDE DEF S
    <3> QED
      BY <1>2, <2>1, <2>2, NatInduct
  <2>4. \A i \in 0..N : run[i].ok
    BY <1>4, <2>3
  <2>5. ASSUME NEW i \in 1..N
        PROVE  /\ Applies(run[i - 1].state, actions[i], context)
               /\ run[i].state = ApplyAction(run[i - 1].state, actions[i])
    <3>1. run[i - 1].ok /\ run[i].ok
      BY <1>2, <2>4
    <3>2. run[i] = VerifyOne(run[i - 1], actions[i], context)
      BY <1>3
    <3> QED
      BY <3>1, <3>2 DEF VerifyOne
  <2>6. path \in [0..N -> LedgerState] /\ path[0] = s /\ path[N] = claimed
    BY <1>2, <1>3, <1>4 DEF Outcome
  <2>7. \A i \in 1..N : path[i] = run[i].state /\ path[i - 1] = run[i - 1].state
    BY <1>2
  <2> HIDE DEF path
  <2>8. IsPath(path, s, actions, context)
    BY <2>5, <2>6, <2>7 DEF IsPath, N
  <2> QED
    BY <2>6, <2>8
<1>5. ASSUME NEW path, IsPath(path, s, actions, context), path[N] = claimed
      PROVE  run[N] = [state |-> claimed, ok |-> TRUE]
  <2> DEFINE S == {n \in 0..N : run[n] = [state |-> path[n], ok |-> TRUE]}
  <2>1. 0 \in S
    BY <1>2, <1>3, <1>5 DEF IsPath
  <2>2. ASSUME NEW n \in S, n \in 0..N-1
        PROVE  n + 1 \in S
    <3>1. n + 1 \in 1..N /\ (n + 1) - 1 = n /\ n + 1 \in 0..N
      BY <1>2, <2>2
    <3>2. /\ Applies(path[n], actions[n + 1], context)
          /\ path[n + 1] = ApplyAction(path[n], actions[n + 1])
      BY <1>5, <3>1 DEF IsPath, N
    <3>3. run[n + 1] = VerifyOne(run[n], actions[n + 1], context)
      BY <1>3, <3>1
    <3>4. run[n].ok /\ run[n].state = path[n]
      OBVIOUS
    <3>5. run[n + 1] = [state |-> path[n + 1], ok |-> TRUE]
      BY <3>2, <3>3, <3>4 DEF VerifyOne
    <3> QED
      BY <3>1, <3>5
  <2>3. N \in S
    <3> HIDE DEF S
    <3> QED
      BY <1>2, <2>1, <2>2, NatInduct
  <2> QED
    BY <1>5, <2>3
<1> QED
  BY <1>1, <1>4, <1>5 DEF N

\* A chain uses up one nonce per action and never unregisters an asset.
LEMMA PathNonces ==
    ASSUME NEW s \in LedgerState, NEW actions \in Seq(Action), NEW context,
           NEW path, IsPath(path, s, actions, context)
    PROVE  /\ \A i \in 0..Len(actions) : path[i].nonce = s.nonce + i
           /\ \A i \in 1..Len(actions) : actions[i].nonce = s.nonce + i
<1> DEFINE N == Len(actions)
           S == {n \in 0..N : path[n].nonce = s.nonce + n}
<1>1. /\ N \in Nat /\ 0 \in 0..N /\ s.nonce \in Nat
      /\ \A i \in 1..N : i - 1 \in 0..N /\ actions[i] \in Action
  BY DEF LedgerState
<1>2. /\ path \in [0..N -> LedgerState] /\ path[0] = s
      /\ \A i \in 1..N : /\ Applies(path[i - 1], actions[i], context)
                         /\ path[i] = ApplyAction(path[i - 1], actions[i])
  BY DEF IsPath
<1> HIDE DEF N
<1>3. \A i \in 1..N : /\ path[i].nonce = path[i - 1].nonce + 1
                      /\ actions[i].nonce = path[i - 1].nonce + 1
  <2> TAKE i \in 1..N
  <2>1. path[i - 1] \in LedgerState /\ actions[i] \in Action
    BY <1>1, <1>2
  <2> QED
    BY <1>2, <2>1, ApplyType
<1>4. 0 \in S
  BY <1>1, <1>2
<1>5. ASSUME NEW n \in S, n \in 0..N-1
      PROVE  n + 1 \in S
  <2>1. n + 1 \in 1..N /\ (n + 1) - 1 = n /\ n + 1 \in 0..N
    BY <1>1, <1>5
  <2>2. path[n].nonce = s.nonce + n /\ path[n + 1].nonce = path[n].nonce + 1
    BY <1>3, <2>1
  <2>3. path[n + 1].nonce = s.nonce + (n + 1)
    <3>1. n \in Nat /\ s.nonce \in Nat
      BY <1>1, <1>5
    <3>2. (s.nonce + n) + 1 = s.nonce + (n + 1)
      BY ONLY <3>1
    <3> QED
      BY ONLY <2>2, <3>2
  <2> QED
    BY <2>1, <2>3
<1>6. 0..N \subseteq S
  <2> HIDE DEF S
  <2> QED
    BY <1>1, <1>4, <1>5, NatInduct
<1>7. \A i \in 0..N : path[i].nonce = s.nonce + i
  BY <1>6
<1>8. \A i \in 1..N : actions[i].nonce = s.nonce + i
  <2> TAKE i \in 1..N
  <2>1. i - 1 \in 0..N /\ i \in Nat /\ s.nonce \in Nat
    BY <1>1
  <2>2. actions[i].nonce = s.nonce + (i - 1) + 1
    BY <1>3, <1>7, <2>1
  <2> QED
    BY <2>1, <2>2
<1> QED
  BY <1>7, <1>8 DEF N

\* One more accepted action makes a chain one longer.
LEMMA PathAppend ==
    ASSUME NEW s \in LedgerState, NEW actions \in Seq(Action), NEW context,
           NEW path, IsPath(path, s, actions, context),
           NEW action \in Action, Applies(path[Len(actions)], action, context)
    PROVE  \E longer : /\ IsPath(longer, s, Append(actions, action), context)
                       /\ longer[Len(actions) + 1] =
                             ApplyAction(path[Len(actions)], action)
<1> DEFINE N == Len(actions)
           more == Append(actions, action)
           t == ApplyAction(path[N], action)
           longer == [i \in 0..N+1 |-> IF i = N + 1 THEN t ELSE path[i]]
<1>1. /\ N \in Nat /\ Len(more) = N + 1 /\ more[N + 1] = action
      /\ \A i \in 1..N : more[i] = actions[i]
  OBVIOUS
<1>2. /\ path \in [0..N -> LedgerState] /\ path[0] = s
      /\ \A i \in 1..N : /\ Applies(path[i - 1], actions[i], context)
                         /\ path[i] = ApplyAction(path[i - 1], actions[i])
  BY DEF IsPath
<1>3. t \in LedgerState
  <2>1. path[N] \in LedgerState
    BY <1>1, <1>2
  <2> QED
    BY <2>1, ApplyType
<1>4. Applies(path[N], action, context)
  OBVIOUS
<1> HIDE DEF N, more, t
<1>5. longer \in [0..N+1 -> LedgerState]
  BY <1>1, <1>2, <1>3
<1>6. longer[0] = s /\ longer[N + 1] = t /\ longer[N] = path[N]
  BY <1>1, <1>2
<1>7. \A i \in 1..N : longer[i] = path[i] /\ longer[i - 1] = path[i - 1]
  BY <1>1
<1> HIDE DEF longer
<1>8. ASSUME NEW i \in 1..N+1
      PROVE  /\ Applies(longer[i - 1], more[i], context)
             /\ longer[i] = ApplyAction(longer[i - 1], more[i])
  <2>1. CASE i \in 1..N
    BY <1>1, <1>2, <1>7, <2>1
  <2>2. CASE i = N + 1
    <3>1. i - 1 = N
      BY <1>1, <2>2
    <3> QED
      BY <1>1, <1>4, <1>6, <2>2, <3>1 DEF t
  <2> QED
    BY <1>1, <2>1, <2>2
<1>9. IsPath(longer, s, more, context)
  BY <1>1, <1>5, <1>6, <1>8 DEF IsPath
<1> QED
  BY <1>6, <1>9 DEF N, more, t

-----------------------------------------------------------------------------
\* What process_batch makes of a queue.

LEMMA ProcessedPath ==
    ASSUME NEW s \in LedgerState, NEW actions \in Seq(Action), NEW context,
           NEW result, result = ProcessBatch(s, actions, context)
    PROVE  /\ result \in Progress
           /\ \E path : /\ IsPath(path, s, result.applied, context)
                        /\ path[Len(result.applied)] = result.state
<1> DEFINE N == Len(actions)
           Reached(acc) == \E path : /\ IsPath(path, s, acc.applied, context)
                                     /\ path[Len(acc.applied)] = acc.state
<1>1. PICK run : IsProcessRun(run, s, actions, context) /\ result = run[N]
  BY ProcessRun
<1>2. /\ N \in Nat /\ 0 \in 0..N /\ N \in 0..N
      /\ \A i \in 1..N : i \in 0..N /\ i - 1 \in 0..N /\ actions[i] \in Action
  OBVIOUS
<1>3. /\ run \in [0..N -> Progress]
      /\ run[0] = [state |-> s, applied |-> <<>>]
      /\ \A i \in 1..N : run[i] = ProcessOne(run[i - 1], actions[i], context)
  BY <1>1 DEF IsProcessRun
<1> HIDE DEF N
<1>4. Reached(run[0])
  <2> DEFINE path == [i \in 0..0 |-> s]
  <2>1. run[0].state = s /\ run[0].applied = <<>> /\ Len(<<>>) = 0
    BY <1>3
  <2>2. path \in [0..0 -> LedgerState] /\ path[0] = s /\ 1..0 = {}
    OBVIOUS
  <2> HIDE DEF path
  <2>3. IsPath(path, s, <<>>, context)
    BY <2>1, <2>2 DEF IsPath
  <2> QED
    BY <2>1, <2>2, <2>3
<1>5. ASSUME NEW acc \in Progress, NEW action \in Action, Reached(acc)
      PROVE  Reached(ProcessOne(acc, action, context))
  <2>1. acc.state \in LedgerState /\ acc.applied \in Seq(Action)
    BY DEF Progress
  <2>2. PICK path : /\ IsPath(path, s, acc.applied, context)
                    /\ path[Len(acc.applied)] = acc.state
    BY <1>5
  <2>3. CASE Applies(acc.state, action, context)
    <3>1. PICK longer :
              /\ IsPath(longer, s, Append(acc.applied, action), context)
              /\ longer[Len(acc.applied) + 1] = ApplyAction(acc.state, action)
      BY <2>1, <2>2, <2>3, PathAppend
    <3>2. ProcessOne(acc, action, context) =
              [state |-> ApplyAction(acc.state, action),
               applied |-> Append(acc.applied, action)]
      BY <2>3 DEF ProcessOne
    <3>3. Len(Append(acc.applied, action)) = Len(acc.applied) + 1
      BY <2>1
    <3> QED
      BY <3>1, <3>2, <3>3
  <2>4. CASE ~Applies(acc.state, action, context)
    BY <1>5, <2>4 DEF ProcessOne
  <2> QED
    BY <2>3, <2>4
<1> DEFINE S == {n \in 0..N : Reached(run[n])}
<1> HIDE DEF Reached
<1>6. 0 \in S
  BY <1>2, <1>4
<1>7. ASSUME NEW n \in S, n \in 0..N-1
      PROVE  n + 1 \in S
  <2>1. n + 1 \in 1..N /\ (n + 1) - 1 = n /\ n + 1 \in 0..N /\ n \in 0..N
    BY <1>2, <1>7
  <2>2. run[n + 1] = ProcessOne(run[n], actions[n + 1], context)
    BY <1>3, <2>1
  <2>3. run[n] \in Progress /\ actions[n + 1] \in Action /\ Reached(run[n])
    BY <1>2, <1>3, <2>1
  <2> QED
    BY <1>5, <2>1, <2>2, <2>3
<1>8. N \in S
  <2> HIDE DEF S
  <2> QED
    BY <1>2, <1>6, <1>7, NatInduct
<1>9. Reached(result) /\ result \in Progress
  BY <1>1, <1>2, <1>3, <1>8
<1> QED
  BY <1>9 DEF Reached

\* What process_batch returns is a sound ledger state and actions, and its actions
\* are numbered on from the state it began with.
LEMMA ProcessBatchType ==
    ASSUME NEW s \in LedgerState, NEW actions \in Seq(Action), NEW context,
           NEW result, result = ProcessBatch(s, actions, context)
    PROVE  /\ result.state \in LedgerState
           /\ result.applied \in Seq(Action)
           /\ result.state.nonce = s.nonce + Len(result.applied)
           /\ \A i \in 1..Len(result.applied) : result.applied[i].nonce = s.nonce + i
<1>1. PICK path : /\ IsPath(path, s, result.applied, context)
                  /\ path[Len(result.applied)] = result.state
  BY ProcessedPath
<1>2. result.state \in LedgerState /\ result.applied \in Seq(Action)
  BY ProcessedPath DEF Progress
<1>3. Len(result.applied) \in 0..Len(result.applied)
  BY <1>2
<1> QED
  BY <1>1, <1>2, <1>3, PathNonces

\* Operator and verifier agree: whatever is queued, the payload process_batch makes
\* of it is one verify_batch accepts from the same state.
THEOREM ProcessedVerifies ==
    ASSUME NEW s \in LedgerState, NEW actions \in Seq(Action), NEW context,
           NEW result, result = ProcessBatch(s, actions, context)
    PROVE  VerifyBatch(s, result.applied, result.state, context)
<1>1. PICK path : /\ IsPath(path, s, result.applied, context)
                  /\ path[Len(result.applied)] = result.state
  BY ProcessedPath
<1>2. result.applied \in Seq(Action)
  BY ProcessBatchType
<1> QED
  BY <1>1, <1>2, VerifiedIsPath

\* A payload with actions is accepted from one nonce only: having been accepted
\* once it is no transition of any later state, whatever happened in between.
THEOREM NoReplay ==
    ASSUME NEW s \in LedgerState, NEW actions \in Seq(Action), actions # <<>>,
           NEW claimed, NEW context, VerifyBatch(s, actions, claimed, context),
           NEW later \in LedgerState, NEW reached, NEW other,
           VerifyBatch(later, actions, reached, other)
    PROVE  later.nonce = s.nonce /\ later.nonce < claimed.nonce
<1>1. PICK path : IsPath(path, s, actions, context) /\ path[Len(actions)] = claimed
  BY VerifiedIsPath
<1>2. PICK again : IsPath(again, later, actions, other)
  BY VerifiedIsPath
<1>3. Len(actions) \in Nat \ {0} /\ 1 \in 1..Len(actions) /\ Len(actions) \in 0..Len(actions)
  OBVIOUS
<1>4. actions[1].nonce = s.nonce + 1 /\ claimed.nonce = s.nonce + Len(actions)
  BY <1>1, <1>3, PathNonces
<1>5. actions[1].nonce = later.nonce + 1
  BY <1>2, <1>3, PathNonces
<1>6. s.nonce \in Nat /\ later.nonce \in Nat
  BY DEF LedgerState
<1> QED
  BY ONLY <1>3, <1>4, <1>5, <1>6

\* An action that F rejects under its nonce, or whose nonce is used up or ahead of
\* the next one, changes nothing: a queue of nothing else is skipped altogether.
LEMMA NoneApplies ==
    ASSUME NEW s \in LedgerState, NEW actions \in Seq(Action), NEW context,
           NEW result, result = ProcessBatch(s, actions, context),
           \A i \in 1..Len(actions) : ~Applies(s, actions[i], context)
    PROVE  result = [state |-> s, applied |-> <<>>]
<1> DEFINE N == Len(actions)
           first == [state |-> s, applied |-> <<>>]
<1>1. PICK run : IsProcessRun(run, s, actions, context) /\ result = run[N]
  BY ProcessRun
<1>2. N \in Nat /\ first.state = s
  OBVIOUS
<1>3. /\ run[0] = first
      /\ \A i \in 1..N : run[i] = ProcessOne(run[i - 1], actions[i], context)
      /\ \A i \in 1..N : ~Applies(s, actions[i], context)
  BY <1>1 DEF IsProcessRun
<1> HIDE DEF N, first
<1> DEFINE S == {n \in 0..N : run[n] = first}
<1>4. 0 \in S
  BY <1>2, <1>3
<1>5. ASSUME NEW n \in S, n \in 0..N-1
      PROVE  n + 1 \in S
  <2>1. n + 1 \in 1..N /\ (n + 1) - 1 = n /\ n + 1 \in 0..N
    BY <1>2, <1>5
  <2>2. run[n + 1] = ProcessOne(first, actions[n + 1], context)
    BY <1>3, <2>1
  <2>3. run[n + 1] = first
    BY <1>2, <1>3, <2>1, <2>2 DEF ProcessOne
  <2> QED
    BY <2>1, <2>3
<1>6. N \in S
  <2> HIDE DEF S
  <2>1. 0..N \subseteq S
    BY ONLY <1>2, <1>4, <1>5, NatInduct, Zenon
  <2>2. N \in 0..N
    BY <1>2
  <2> QED
    BY <2>1, <2>2
<1> QED
  BY <1>1, <1>6 DEF first

\* A queue numbered on from the state: process_batch applies its actions up to the
\* first one F rejects, and none of the queue applies to the state it returns.
LEMMA QueueInOrder ==
    ASSUME NEW s \in LedgerState, NEW actions \in Seq(Action), NEW context,
           NEW result, result = ProcessBatch(s, actions, context),
           \A i \in 1..Len(actions) : actions[i].nonce = s.nonce + i
    PROVE  /\ Len(result.applied) <= Len(actions)
           /\ \A i \in 1..Len(result.applied) : result.applied[i] = actions[i]
           /\ \A i \in 1..Len(actions) : ~Applies(result.state, actions[i], context)
<1> DEFINE N == Len(actions)
           UpTo(acc, n) ==
              \E k \in 0..n :
                 /\ Len(acc.applied) = k
                 /\ acc.state.nonce = s.nonce + k
                 /\ \A i \in 1..k : acc.applied[i] = actions[i]
                 /\ k < n => ~Applies(acc.state, actions[k + 1], context)
<1>1. PICK run : IsProcessRun(run, s, actions, context) /\ result = run[N]
  BY ProcessRun
<1>2. /\ N \in Nat /\ 0 \in 0..N /\ N \in 0..N /\ s.nonce \in Nat
      /\ \A i \in 1..N : actions[i].nonce = s.nonce + i
      /\ \A i \in 1..N : actions[i] \in Action
  BY DEF LedgerState
<1>3. /\ run \in [0..N -> Progress]
      /\ run[0] = [state |-> s, applied |-> <<>>]
      /\ \A i \in 1..N : run[i] = ProcessOne(run[i - 1], actions[i], context)
  BY <1>1 DEF IsProcessRun
<1> HIDE DEF N
<1>4. UpTo(run[0], 0)
  <2>1. run[0].state = s /\ run[0].applied = <<>> /\ Len(<<>>) = 0 /\ 1..0 = {} /\ 0 \in 0..0
    BY <1>3
  <2> QED
    BY <1>2, <2>1
<1>5. ASSUME NEW n \in 0..N-1, NEW acc \in Progress, UpTo(acc, n)
      PROVE  UpTo(ProcessOne(acc, actions[n + 1], context), n + 1)
  <2> DEFINE next == ProcessOne(acc, actions[n + 1], context)
  <2>1. PICK k \in 0..n :
           /\ Len(acc.applied) = k
           /\ acc.state.nonce = s.nonce + k
           /\ \A i \in 1..k : acc.applied[i] = actions[i]
           /\ k < n => ~Applies(acc.state, actions[k + 1], context)
    BY <1>5
  <2>2. acc.applied \in Seq(Action) /\ n + 1 \in 1..N /\ n \in Nat /\ k \in Nat
    BY <1>2 DEF Progress
  <2>3. CASE Applies(acc.state, actions[n + 1], context)
    <3>1. actions[n + 1].nonce = acc.state.nonce + 1
      BY <2>3 DEF Applies
    <3>2. actions[n + 1].nonce = s.nonce + (n + 1)
      BY <1>2, <2>2
    <3>3. k = n
      BY ONLY <1>2, <2>1, <2>2, <3>1, <3>2
    <3>4. next = [state |-> ApplyAction(acc.state, actions[n + 1]),
                  applied |-> Append(acc.applied, actions[n + 1])]
      BY <2>3 DEF ProcessOne
    <3>5. acc.state \in LedgerState /\ actions[n + 1] \in Action
      BY <1>2, <2>2 DEF Progress
    <3>6. next.state.nonce = s.nonce + (n + 1)
      <4>1. next.state.nonce = acc.state.nonce + 1
        BY <2>3, <3>4, <3>5, ApplyType
      <4> QED
        BY ONLY <3>1, <3>2, <4>1
    <3>7. /\ Len(next.applied) = n + 1
          /\ \A i \in 1..n : next.applied[i] = acc.applied[i]
          /\ next.applied[n + 1] = actions[n + 1]
      BY <2>1, <2>2, <3>3, <3>4, <3>5
    <3>8. \A i \in 1..n+1 : i \in 1..n \/ i = n + 1
      BY <2>2
    <3>9. \A i \in 1..n+1 : next.applied[i] = actions[i]
      BY <2>1, <3>3, <3>7, <3>8
    <3>10. n + 1 \in 0..n+1 /\ ~(n + 1 < n + 1)
      BY <2>2
    <3> HIDE DEF next
    <3> QED
      BY <3>6, <3>7, <3>9, <3>10 DEF next
  <2>4. CASE ~Applies(acc.state, actions[n + 1], context)
    <3>1. next = acc
      BY <2>4 DEF ProcessOne
    <3>2. k \in 0..n+1 /\ (k < n \/ k = n)
      BY <2>2
    <3> QED
      BY <2>1, <2>4, <3>1, <3>2
  <2> QED
    BY <2>3, <2>4
<1> DEFINE S == {n \in 0..N : UpTo(run[n], n)}
<1> HIDE DEF UpTo
<1>6. 0 \in S
  BY <1>2, <1>4
<1>7. ASSUME NEW n \in S, n \in 0..N-1
      PROVE  n + 1 \in S
  <2>1. n + 1 \in 1..N /\ (n + 1) - 1 = n /\ n + 1 \in 0..N /\ n \in 0..N
    BY <1>2, <1>7
  <2>2. run[n + 1] = ProcessOne(run[n], actions[n + 1], context)
    BY <1>3, <2>1
  <2>3. run[n] \in Progress /\ UpTo(run[n], n)
    BY <1>3, <2>1
  <2> QED
    BY <1>5, <1>7, <2>1, <2>2, <2>3
<1>8. N \in S
  <2> HIDE DEF S
  <2> QED
    BY <1>2, <1>6, <1>7, NatInduct
<1>9. PICK k \in 0..N :
         /\ Len(result.applied) = k
         /\ result.state.nonce = s.nonce + k
         /\ \A i \in 1..k : result.applied[i] = actions[i]
         /\ k < N => ~Applies(result.state, actions[k + 1], context)
  BY <1>1, <1>8 DEF UpTo
<1>10. ASSUME NEW i \in 1..N, Applies(result.state, actions[i], context)
       PROVE  FALSE
  <2>1. actions[i].nonce = result.state.nonce + 1 /\ actions[i].nonce = s.nonce + i
    BY <1>2, <1>10 DEF Applies
  <2>2. i = k + 1
    BY ONLY <1>2, <1>9, <2>1
  <2>3. k < N
    BY <1>2, <2>2
  <2> QED
    BY <1>9, <1>10, <2>2, <2>3
<1>11. k <= N
  BY <1>2
<1> QED
  BY <1>9, <1>10, <1>11 DEF N

=============================================================================
