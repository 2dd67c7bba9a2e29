---------------------------- MODULE HostedProofs ----------------------------
(***************************************************************************)
(* Theorems about the hosted operator, for every set of threads, accounts, *)
(* assets and requests and every bound.                                    *)
(*                                                                         *)
(* The inductive invariant says what each handler may rely on between two  *)
(* of its transactions.  At most one thread holds the lock, and the steps  *)
(* that commit a batch hold it; a batch about to be committed has a number *)
(* of its own, and every batch on record is verified; a row is marked      *)
(* verified only once its number is accepted.  Without a rejection there   *)
(* is no rollback, so a sync holds the lock too, and the stored next       *)
(* number is either the one after a batch on record or no later than the   *)
(* verifier's next.                                                        *)
(***************************************************************************)
EXTENDS HostedOperator, FiniteSetTheorems, TransitionProofs

Batch == [sequence: Nat, prev: LedgerState, new: LedgerState, actions: Seq(Action)]

Pcs ==
    {"idle", "queue_registration", "commit", "post", "record_submission", "wait", "record",
     "rollback", "delete_batch", "sync", "sync_write", "sync_delete"}

Local ==
    [pc: Pcs, locked: BOOLEAN, executing: BOOLEAN, asset: Assets,
     batch: Batch, verdict: BOOLEAN, seen: Nat]

Row == [batch: Batch, verified: BOOLEAN]

RowsSound ==
    \A n \in DOMAIN batches : batches[n] \in Row /\ batches[n].batch.sequence = n

Bounded == \E k \in Nat : \A n \in DOMAIN batches : n <= k

TablesSound ==
    /\ registry \subseteq Assets
    /\ state \in LedgerState
    /\ nextSequence \in Nat \ {0}
    /\ pending \in Seq(Action)
    /\ DOMAIN batches \subseteq Nat \ {0}
    /\ RowsSound
    /\ posted \subseteq Batch
    /\ accepted \in Seq(Batch)
    /\ rejected \subseteq Batch

\* Marked rows are accepted numbers, and at most one row is beyond those.
RowsInStep ==
    /\ \A n \in DOMAIN batches : batches[n].verified => n <= Len(accepted)
    /\ \A m, n \in DOMAIN batches : m > Len(accepted) /\ n > Len(accepted) => m = n

\* The stored counter, as long as nothing is rejected.
CounterInStep ==
    rejected = {} =>
        nextSequence <= Len(accepted) + 1 \/ nextSequence - 1 \in DOMAIN batches

\* The verifier has stood on b's state, at b's number or a later one.
Reached(b) ==
    \E n \in 1..Len(accepted) : b.sequence <= n /\ accepted[n].new = b.new

\* What handler locals l may rely on.
LocalSound(l) ==
    /\ l \in Local
    /\ l.pc \in {"commit", "post", "record_submission", "queue_registration"} => l.locked
    /\ l.pc = "commit" =>
          /\ l.batch.sequence \notin DOMAIN batches
          /\ l.batch.sequence # 0
          /\ \A n \in DOMAIN batches : n <= Len(accepted)
    /\ l.pc = "record" /\ l.verdict => Reached(l.batch)
    /\ l.pc \in {"sync_write", "sync_delete"} => l.seen \in 1..Len(accepted)
    /\ l.pc = "delete_batch" => rejected # {}
    /\ l.pc \in {"sync", "sync_write", "sync_delete"} => l.locked \/ rejected # {}
    /\ l.pc = "sync_delete" /\ rejected = {} => nextSequence <= Len(accepted) + 1

ThreadsSound ==
    /\ thread \in [Threads -> Local]
    /\ \A t \in Threads : LocalSound(thread[t])
    /\ \A t, u \in Threads : thread[t].locked /\ thread[u].locked => t = u

IInv ==
    /\ TablesSound
    /\ Bounded
    /\ RowsInStep
    /\ CounterInStep
    /\ ThreadsSound

-----------------------------------------------------------------------------
\* Numbers.

\* A bounded set of numbers with a member has a greatest one.
LEMMA MaxOfBounded ==
    ASSUME NEW S \in SUBSET Nat, NEW s \in S, NEW k \in Nat, \A n \in S : n <= k
    PROVE  Max(S) \in S /\ \A n \in S : n <= Max(S)
<1> DEFINE T == {u \in Nat : \A n \in S : n <= u}
           less == {p \in Nat \X Nat : p[1] < p[2]}
<1>1. PICK u \in T : \A v \in T : ~ (<<v, u>> \in less)
  <2>1. IsWellFoundedOn(less, Nat)
    BY NatLessThanWellFounded, Zenon DEF OpToRel
  <2>2. T \subseteq Nat /\ T # {}
    OBVIOUS
  <2> HIDE DEF T, less
  <2> QED
    BY <2>1, <2>2, WFMin
<1>2. u \in S
  <2> SUFFICES ASSUME u \notin S PROVE FALSE
    OBVIOUS
  <2>1. u \in Nat /\ \A n \in S : n \in Nat /\ n <= u /\ n # u
    OBVIOUS
  <2>2. u - 1 \in T
    BY <2>1
  <2>3. <<u - 1, u>> \in less
    BY <2>1, <2>2
  <2> QED
    BY <1>1, <2>2, <2>3
<1>3. \E x \in S : \A y \in S : x >= y
  BY <1>1, <1>2
<1>4. PICK x : x = Max(S)
  OBVIOUS
<1>5. x \in S /\ \A y \in S : x >= y
  BY <1>3, <1>4 DEF Max
<1> QED
  BY <1>4, <1>5

\* The number after those of D, and at least next.
LEMMA MaxAfter ==
    ASSUME NEW next \in Nat \ {0}, NEW D \in SUBSET (Nat \ {0}),
           NEW k \in Nat, \A n \in D : n <= k,
           NEW S, \A x : x \in S <=> x = next \/ \E n \in D : x = n + 1,
           NEW N, N = Max(S)
    PROVE  /\ N \in Nat \ {0} /\ next <= N
           /\ \A n \in D : n < N
           /\ N = next \/ N - 1 \in D
<1>1. S \in SUBSET Nat /\ next \in S
  OBVIOUS
<1>2. next + k + 1 \in Nat /\ \A n \in S : n <= next + k + 1
  OBVIOUS
<1>3. \A n \in D : n + 1 \in S
  OBVIOUS
<1>4. \A n \in S : n = next \/ \E d \in D : n = d + 1
  OBVIOUS
<1>6. N \in S /\ \A n \in S : n <= N
  BY <1>1, <1>2, MaxOfBounded
<1>7. N \in Nat \ {0} /\ next <= N
  BY <1>1, <1>4, <1>6
<1>8. \A n \in D : n < N
  BY <1>3, <1>6, <1>7
<1>9. N = next \/ N - 1 \in D
  BY <1>4, <1>6
<1> QED
  BY <1>7, <1>8, <1>9

\* The next number is above every batch on record.
LEMMA NextIsLast ==
    ASSUME TablesSound, Bounded, NEW N, N = NextBatchSequence
    PROVE  /\ N \in Nat \ {0} /\ nextSequence <= N
           /\ \A n \in DOMAIN batches : n < N
           /\ N = nextSequence \/ N - 1 \in DOMAIN batches
<1>1. PICK D : D = DOMAIN batches
  OBVIOUS
<1>2. PICK k \in Nat : \A n \in D : n <= k
  BY <1>1 DEF Bounded
<1>3. PICK S : S = {nextSequence} \cup {n + 1 : n \in D}
  OBVIOUS
<1>4. PICK next : next = nextSequence
  OBVIOUS
<1>5. next \in Nat \ {0} /\ D \in SUBSET (Nat \ {0})
  BY <1>1, <1>4 DEF TablesSound
<1>6. \A x : x \in S <=> x = next \/ \E n \in D : x = n + 1
  BY <1>3, <1>4
<1>7. N = Max(S)
  BY <1>1, <1>3 DEF NextBatchSequence
<1>8. /\ N \in Nat \ {0} /\ next <= N
      /\ \A n \in D : n < N
      /\ N = next \/ N - 1 \in D
  BY <1>2, <1>5, <1>6, <1>7, MaxAfter
<1> QED
  BY <1>1, <1>4, <1>8

\* When the checkpoint check passes, every batch on record is accepted, and the next
\* number is the verifier's next or a higher one.
LEMMA CurrentMeans ==
    ASSUME IInv, Current
    PROVE  \A n \in DOMAIN batches : n <= Len(accepted)
<1>1. Len(accepted) \in Nat /\ DOMAIN batches \subseteq Nat
  BY DEF IInv, TablesSound
<1> QED
  BY <1>1 DEF IInv, RowsInStep, Current, CheckpointGap

-----------------------------------------------------------------------------
\* Types.

LEMMA NewBatchType ==
    ASSUME NEW n \in Nat, NEW s \in LedgerState, NEW actions \in Seq(Action),
           NEW b, b = NewBatch(n, s, actions)
    PROVE  b \in Batch /\ b.sequence = n
<1>1. PICK result : result = ProcessBatch(s, actions, None)
  OBVIOUS
<1>2. result.state \in LedgerState /\ result.applied \in Seq(Action)
  BY <1>1, ProcessBatchType
<1>3. b = [sequence |-> n, prev |-> s, new |-> result.state, actions |-> result.applied]
  BY <1>1 DEF NewBatch
<1> QED
  BY <1>2, <1>3 DEF Batch

LEMMA BatchFields ==
    ASSUME NEW b \in Batch
    PROVE  /\ b.sequence \in Nat /\ b.prev \in LedgerState /\ b.new \in LedgerState
           /\ b.actions \in Seq(Action)
  BY DEF Batch

LEMMA LocalFields ==
    ASSUME NEW l \in Local
    PROVE  /\ l.locked \in BOOLEAN /\ l.executing \in BOOLEAN /\ l.asset \in Assets
           /\ l.batch \in Batch /\ l.verdict \in BOOLEAN /\ l.seen \in Nat
  BY DEF Local

LEMMA OneAction ==
    ASSUME NEW n \in Nat, NEW r \in Request,
           NEW action, action = [nonce |-> n, request |-> r]
    PROVE  action \in Action /\ <<action>> \in Seq(Action)
  BY DEF Action

LEMMA IdleType == Idle \in Local /\ Idle.pc = "idle" /\ ~Idle.locked
<1>1. PICK b : b = NoBatch
  OBVIOUS
<1>2. b \in Batch
  <2>1. PICK s \in LedgerState : s = Genesis({})
    BY GenesisType
  <2>2. <<>> \in Seq(Action) /\ b = NewBatch(0, s, <<>>)
    BY <1>1, <2>1 DEF NoBatch
  <2> QED
    BY <2>2, NewBatchType
<1>3. Idle = [pc |-> "idle", locked |-> FALSE, executing |-> FALSE, asset |-> DefaultAsset,
              batch |-> b, verdict |-> FALSE, seen |-> 0]
  BY <1>1 DEF Idle
<1> QED
  BY <1>2, <1>3, ConstantsAssumption DEF Local, Pcs

LEMMA IdleSound == LocalSound(Idle)
  BY IdleType DEF LocalSound

LEMMA CheckpointType ==
    ASSUME TablesSound
    PROVE  /\ Checkpoint.sequence = Len(accepted) /\ Checkpoint.state \in LedgerState
           /\ accepted # <<>> => /\ Len(accepted) \in 1..Len(accepted)
                                 /\ Checkpoint.state = accepted[Len(accepted)].new
<1>1. accepted \in Seq(Batch) /\ registry \in SUBSET Assets
  BY DEF TablesSound
<1>2. CASE accepted = <<>>
  BY <1>1, <1>2, GenesisType DEF Checkpoint
<1>3. CASE accepted # <<>>
  <2>1. Len(accepted) \in 1..Len(accepted)
    BY <1>1, <1>3
  <2>2. accepted[Len(accepted)] \in Batch
    BY <1>1, <2>1
  <2> QED
    BY <1>3, <2>1, <2>2, BatchFields DEF Checkpoint
<1> QED
  BY <1>2, <1>3

-----------------------------------------------------------------------------
\* What a step may do to the threads.

\* The verifier's log is only added to.
LogGrows ==
    /\ accepted \in Seq(Batch) /\ accepted' \in Seq(Batch)
    /\ Len(accepted) <= Len(accepted')
    /\ \A n \in 1..Len(accepted) : accepted'[n] = accepted[n]
    /\ rejected \subseteq rejected'

\* No batch is added, and the counter stays or does not pass the verifier's next.
NoCommit ==
    /\ DOMAIN batches' \subseteq DOMAIN batches
    /\ nextSequence' = nextSequence \/ nextSequence' <= Len(accepted') + 1
    /\ nextSequence \in Nat

\* What a handler relies on stays true when another one commits, as long as only
\* that one holds the lock.
LEMMA LocalForward ==
    ASSUME NEW l, LocalSound(l), LogGrows, DOMAIN batches \subseteq Nat,
           NoCommit \/ ~l.locked
    PROVE  LocalSound(l)'
<1>1. l \in Local
  BY DEF LocalSound
<1>2. PICK b : b = l.batch /\ b.sequence \in Nat
  BY <1>1, LocalFields, BatchFields
<1>3. l.locked \in BOOLEAN /\ l.verdict \in BOOLEAN
  BY <1>1, LocalFields
<1>4. Len(accepted) \in Nat /\ Len(accepted') \in Nat /\ Len(accepted) <= Len(accepted')
  BY DEF LogGrows
<1>5. ASSUME l.pc = "commit"
      PROVE  /\ b.sequence \notin DOMAIN batches'
             /\ b.sequence # 0
             /\ \A n \in DOMAIN batches' : n <= Len(accepted')
  <2>1. l.locked /\ NoCommit
    BY <1>5 DEF LocalSound
  <2> QED
    BY <1>2, <1>4, <1>5, <2>1 DEF LocalSound, NoCommit
<1>6. ASSUME Reached(b)
      PROVE  Reached(b)'
  <2>1. PICK n \in 1..Len(accepted) : b.sequence <= n /\ accepted[n].new = b.new
    BY <1>6 DEF Reached
  <2>2. n \in 1..Len(accepted') /\ accepted'[n] = accepted[n]
    BY <1>4 DEF LogGrows
  <2> QED
    BY <2>1, <2>2 DEF Reached
<1>7. ASSUME l.pc \in {"sync_write", "sync_delete"}
      PROVE  l.seen \in 1..Len(accepted')
  <2>1. l.seen \in 1..Len(accepted)
    BY <1>7 DEF LocalSound
  <2> QED
    BY <1>4, <2>1
<1>8. rejected # {} => rejected' # {}
  BY DEF LogGrows
<1>9. ASSUME l.pc = "sync_delete", rejected' = {}
      PROVE  nextSequence' <= Len(accepted') + 1
  <2>1. nextSequence <= Len(accepted) + 1 /\ l.locked
    BY <1>8, <1>9 DEF LocalSound
  <2> QED
    BY <1>4, <2>1 DEF NoCommit
<1> QED
  BY <1>2, <1>5, <1>6, <1>7, <1>8, <1>9 DEF LocalSound

LEMMA LogStays ==
    ASSUME TablesSound, UNCHANGED verifier
    PROVE  LogGrows
  BY DEF TablesSound, verifier, LogGrows

LEMMA CommitNone ==
    ASSUME TablesSound, UNCHANGED <<nextSequence, batches>>
    PROVE  NoCommit
  BY DEF TablesSound, NoCommit

\* Thread t goes on with locals l; it takes the lock only when it is free.
LEMMA ThreadGoesOn ==
    ASSUME TablesSound, ThreadsSound, NEW t \in Threads, NEW l, Goto(t, l),
           LocalSound(l)', l.locked => thread[t].locked \/ LockFree,
           LogGrows, NoCommit \/ thread[t].locked
    PROVE  ThreadsSound'
<1>1. l \in Local
  BY DEF LocalSound
<1>2. /\ thread' \in [Threads -> Local]
      /\ thread'[t] = l
      /\ \A u \in Threads \ {t} : thread'[u] = thread[u]
  BY <1>1 DEF ThreadsSound, Goto
<1>3. \A u \in Threads : thread[u] \in Local /\ thread[u].locked \in BOOLEAN
  BY LocalFields DEF ThreadsSound
<1>4. ASSUME NEW u \in Threads
      PROVE  LocalSound(thread[u])'
  <2>1. PICK m : m = thread'[u]
    OBVIOUS
  <2>2. CASE u = t
    BY <1>2, <2>2
  <2>3. CASE u # t
    <3>1. m = thread[u] /\ LocalSound(m)
      BY <1>2, <2>1, <2>3 DEF ThreadsSound
    <3>2. NoCommit \/ ~m.locked
      BY <2>3, <3>1 DEF ThreadsSound
    <3>3. DOMAIN batches \subseteq Nat
      BY DEF TablesSound
    <3>4. LocalSound(m)'
      BY <3>1, <3>2, <3>3, LocalForward
    <3> QED
      BY <2>1, <3>4
  <2> QED
    BY <2>2, <2>3
<1>5. \A u, v \in Threads : thread'[u].locked /\ thread'[v].locked => u = v
  BY <1>2, <1>3 DEF ThreadsSound, LockFree
<1> QED
  BY <1>2, <1>4, <1>5 DEF ThreadsSound

\* No thread moves.
LEMMA ThreadsStay ==
    ASSUME TablesSound, ThreadsSound, UNCHANGED thread, LogGrows, NoCommit
    PROVE  ThreadsSound'
<1>1. DOMAIN batches \subseteq Nat
  BY DEF TablesSound
<1>2. ASSUME NEW u \in Threads
      PROVE  LocalSound(thread[u])'
  <2>1. PICK m : m = thread[u] /\ m = thread'[u]
    OBVIOUS
  <2>2. LocalSound(m)
    BY <2>1 DEF ThreadsSound
  <2>3. LocalSound(m)'
    BY <1>1, <2>2, LocalForward
  <2> QED
    BY <2>1, <2>3
<1> QED
  BY <1>2 DEF ThreadsSound

\* Steps that leave batches, counter and verifier alone.
LEMMA TablesStay ==
    ASSUME IInv, UNCHANGED <<nextSequence, batches, verifier>>,
           registry' \subseteq Assets, state' \in LedgerState, pending' \in Seq(Action),
           posted' \subseteq Batch, ThreadsSound'
    PROVE  IInv'
<1>1. TablesSound'
  BY DEF IInv, TablesSound, RowsSound, verifier
<1>2. Bounded' /\ RowsInStep' /\ CounterInStep'
  BY DEF IInv, Bounded, RowsInStep, CounterInStep, verifier
<1> QED
  BY <1>1, <1>2 DEF IInv

\* Such a step of thread t.
LEMMA HandlerStep ==
    ASSUME IInv, UNCHANGED <<nextSequence, batches, verifier>>,
           registry' \subseteq Assets, state' \in LedgerState, pending' \in Seq(Action),
           posted' \subseteq Batch,
           NEW t \in Threads, NEW l, Goto(t, l), LocalSound(l),
           l.locked => thread[t].locked \/ LockFree
    PROVE  IInv'
<1>1. LogGrows /\ NoCommit /\ TablesSound /\ ThreadsSound /\ DOMAIN batches \subseteq Nat
  BY LogStays, CommitNone DEF IInv, TablesSound
<1>2. LocalSound(l)'
  BY <1>1, LocalForward
<1>3. ThreadsSound'
  BY <1>1, <1>2, ThreadGoesOn
<1> QED
  BY <1>3, TablesStay

\* A step of thread t that writes no table.
LEMMA LocalStep ==
    ASSUME IInv, UNCHANGED <<registry, operator, posted, verifier>>,
           NEW t \in Threads, NEW l, Goto(t, l), LocalSound(l),
           l.locked => thread[t].locked \/ LockFree
    PROVE  IInv'
<1>1. UNCHANGED <<registry, state, nextSequence, pending, batches, posted, verifier>>
  BY DEF operator
<1>2. /\ registry' \subseteq Assets /\ state' \in LedgerState /\ pending' \in Seq(Action)
      /\ posted' \subseteq Batch
  BY <1>1 DEF IInv, TablesSound
<1> QED
  BY <1>1, <1>2, HandlerStep

LEMMA DoneStep ==
    ASSUME IInv, UNCHANGED <<registry, operator, posted, verifier>>,
           NEW t \in Threads, Done(t)
    PROVE  IInv'
<1>1. PICK l : l = Idle
  OBVIOUS
<1>2. LocalSound(l) /\ ~l.locked
  BY <1>1, IdleSound, IdleType
<1>3. Goto(t, l)
  BY <1>1 DEF Done
<1> QED
  BY <1>2, <1>3, LocalStep

\* The locals of thread t.
LEMMA ThisThread ==
    ASSUME IInv, NEW t \in Threads
    PROVE  thread[t] \in Local /\ LocalSound(thread[t])
  BY DEF IInv, ThreadsSound

LEMMA RowType ==
    ASSUME TablesSound, NEW n \in DOMAIN batches
    PROVE  /\ batches[n].batch \in Batch /\ batches[n].batch.sequence = n
           /\ n \in Nat \ {0}
  BY DEF TablesSound, RowsSound, Row

-----------------------------------------------------------------------------
\* Queueing.

LEMMA NextNonceType ==
    ASSUME TablesSound
    PROVE  NextNonce \in Nat
<1>1. state.nonce \in Nat /\ Len(pending) \in Nat
  BY DEF TablesSound, LedgerState
<1> QED
  BY <1>1 DEF NextNonce

LEMMA QueueOne ==
    ASSUME TablesSound, NEW r \in Request
    PROVE  Append(pending, [nonce |-> NextNonce, request |-> r]) \in Seq(Action)
<1>1. PICK n \in Nat : n = NextNonce
  BY NextNonceType
<1>2. PICK action : action = [nonce |-> n, request |-> r]
  OBVIOUS
<1>3. action \in Action /\ pending \in Seq(Action)
  BY <1>2, OneAction DEF TablesSound
<1> QED
  BY <1>1, <1>2, <1>3

LEMMA QueueStep ==
    ASSUME IInv, NEW r \in Requests, Queue(r)
    PROVE  IInv'
<1>1. r \in Request
  BY HostedAssumption
<1>2. /\ pending' = Append(pending, [nonce |-> NextNonce, request |-> r])
      /\ UNCHANGED <<registry, state, nextSequence, batches, posted, verifier, thread>>
  BY DEF Queue
<1>3. TablesSound /\ ThreadsSound /\ LogGrows /\ NoCommit
  BY <1>2, LogStays, CommitNone DEF IInv
<1>4. pending' \in Seq(Action)
  BY <1>1, <1>2, <1>3, QueueOne
<1>5. ThreadsSound'
  BY <1>2, <1>3, ThreadsStay
<1> QED
  BY <1>2, <1>3, <1>4, <1>5, TablesStay DEF TablesSound

LEMMA RegisterAssetStep ==
    ASSUME IInv, NEW t \in Threads, NEW x \in Assets, RegisterAsset(t, x)
    PROVE  IInv'
<1>1. PICK l : l = [Idle EXCEPT !.pc = "queue_registration", !.locked = TRUE, !.asset = x]
  OBVIOUS
<1>2. /\ l \in Local /\ l.pc = "queue_registration" /\ l.locked
  BY <1>1, IdleType DEF Local, Pcs
<1>3. LocalSound(l)
  BY <1>2 DEF LocalSound
<1>4. /\ Goto(t, l) /\ LockFree
      /\ registry' = registry \cup {x}
      /\ UNCHANGED <<state, nextSequence, pending, batches, posted, verifier>>
  BY <1>1 DEF RegisterAsset, operator
<1>5. /\ registry' \subseteq Assets /\ state' \in LedgerState /\ pending' \in Seq(Action)
      /\ posted' \subseteq Batch
  BY <1>4 DEF IInv, TablesSound
<1> QED
  BY <1>3, <1>4, <1>5, HandlerStep

LEMMA RegistrationType ==
    ASSUME NEW x \in Assets
    PROVE  Registration(x) \in Request
<1>1. PICK p \in Pools : p = CHOOSE q \in Pools : TRUE
  BY HostedAssumption
<1>2. /\ Issuer \in Addresses /\ "register_asset" \in ActionTypes /\ 0 \in Int
      /\ None \in Bundles \cup {None} /\ None \in Legs \cup {None}
      /\ None \in Context \cup {None}
  BY ConstantsAssumption DEF ActionTypes
<1> QED
  BY <1>1, <1>2 DEF Registration, Request

LEMMA QueueRegistrationStep ==
    ASSUME IInv, NEW t \in Threads, QueueRegistration(t)
    PROVE  IInv'
<1>1. TablesSound
  BY DEF IInv
<1>2. PICK x \in Assets : x = thread[t].asset
  BY ThisThread, LocalFields
<1>3. /\ pending' = pending \/ pending' = Append(pending, [nonce |-> NextNonce,
                                                         request |-> Registration(x)])
      /\ Done(t)
      /\ UNCHANGED <<registry, state, nextSequence, batches, posted, verifier>>
  BY <1>2 DEF QueueRegistration
<1>4. pending' \in Seq(Action)
  BY <1>1, <1>3, RegistrationType, QueueOne DEF TablesSound
<1>5. PICK l : l = Idle
  OBVIOUS
<1>6. LocalSound(l) /\ ~l.locked /\ Goto(t, l)
  BY <1>3, <1>5, IdleSound, IdleType DEF Done
<1>7. registry' \subseteq Assets /\ state' \in LedgerState /\ posted' \subseteq Batch
  BY <1>1, <1>3 DEF TablesSound
<1> QED
  BY <1>3, <1>4, <1>6, <1>7, HandlerStep

-----------------------------------------------------------------------------
\* Batches and execution requests.

\* A handler that the checkpoint check let through cuts a batch under a number of
\* its own.
LEMMA CutSound ==
    ASSUME IInv, Current, NEW queue \in Seq(Action),
           NEW b, b = NewBatch(NextBatchSequence, state, queue)
    PROVE  /\ b \in Batch
           /\ \A l \in Local : l.pc = "commit" /\ l.locked /\ l.batch = b => LocalSound(l)
<1>1. PICK N : N = NextBatchSequence
  OBVIOUS
<1>2. N \in Nat \ {0} /\ N \notin DOMAIN batches
  <2>1. TablesSound /\ Bounded
    BY DEF IInv
  <2>2. N \in Nat \ {0} /\ \A n \in DOMAIN batches : n < N
    BY <1>1, <2>1, NextIsLast
  <2> QED
    BY <2>2
<1>3. b \in Batch /\ b.sequence = N
  <2>1. PICK s \in LedgerState : s = state
    BY DEF IInv, TablesSound
  <2> QED
    BY <1>1, <1>2, <2>1, NewBatchType
<1>4. \A n \in DOMAIN batches : n <= Len(accepted)
  BY CurrentMeans
<1> QED
  BY <1>2, <1>3, <1>4 DEF LocalSound

LEMMA CutBatchStep ==
    ASSUME IInv, NEW t \in Threads, CutBatch(t)
    PROVE  IInv'
<1>1. PICK queue \in Seq(Action) : queue = pending
  BY DEF IInv, TablesSound
<1>2. PICK b : b = NewBatch(NextBatchSequence, state, queue)
  OBVIOUS
<1>3. PICK l : l = [Idle EXCEPT !.pc = "commit", !.locked = TRUE, !.batch = b]
  OBVIOUS
<1>4. /\ Current /\ LockFree /\ Goto(t, l)
      /\ UNCHANGED <<registry, operator, posted, verifier>>
  BY <1>1, <1>2, <1>3 DEF CutBatch
<1>5. b \in Batch
  BY <1>2, <1>4, CutSound
<1>6. l \in Local /\ l.pc = "commit" /\ l.locked /\ l.batch = b
  BY <1>3, <1>5, IdleType DEF Local, Pcs
<1>7. LocalSound(l)
  BY <1>2, <1>4, <1>6, CutSound
<1> QED
  BY <1>4, <1>7, LocalStep

LEMMA ExecuteStep ==
    ASSUME IInv, NEW t \in Threads, NEW r \in ExecutionRequests, Execute(t, r)
    PROVE  IInv'
<1>1. r \in Request
  BY HostedAssumption
<1>2. PICK action : action = [nonce |-> state.nonce + 1, request |-> r]
  OBVIOUS
<1>3. PICK queue \in Seq(Action) : queue = <<action>>
  <2>1. state.nonce + 1 \in Nat
    BY DEF IInv, TablesSound, LedgerState
  <2> QED
    BY <1>1, <1>2, <2>1, OneAction
<1>4. PICK b : b = NewBatch(NextBatchSequence, state, queue)
  OBVIOUS
<1>5. PICK l : l = [Idle EXCEPT !.pc = "commit", !.locked = TRUE, !.executing = TRUE,
                              !.batch = b]
  OBVIOUS
<1>6. /\ Current /\ LockFree /\ Goto(t, l)
      /\ UNCHANGED <<registry, operator, posted, verifier>>
  BY <1>2, <1>3, <1>4, <1>5 DEF Execute
<1>7. b \in Batch
  BY <1>4, <1>6, CutSound
<1>8. l \in Local /\ l.pc = "commit" /\ l.locked /\ l.batch = b
  BY <1>5, <1>7, IdleType DEF Local, Pcs
<1>9. LocalSound(l)
  BY <1>4, <1>6, <1>8, CutSound
<1> QED
  BY <1>6, <1>9, LocalStep

\* A new row.
LEMMA RowAdded ==
    ASSUME IInv, NEW b \in Batch, b.sequence # 0, b.sequence \notin DOMAIN batches,
           \A n \in DOMAIN batches : n <= Len(accepted),
           batches' = [n \in DOMAIN batches \cup {b.sequence} |->
                          IF n = b.sequence THEN [batch |-> b, verified |-> FALSE]
                          ELSE batches[n]],
           UNCHANGED verifier
    PROVE  /\ DOMAIN batches' \subseteq Nat \ {0} /\ b.sequence \in DOMAIN batches'
           /\ RowsSound' /\ Bounded' /\ RowsInStep'
<1>1. PICK N \in Nat \ {0} : N = b.sequence
  BY BatchFields
<1>2. PICK D \in SUBSET (Nat \ {0}) : D = DOMAIN batches
  BY DEF IInv, TablesSound
<1>3. PICK row : row = [batch |-> b, verified |-> FALSE]
  OBVIOUS
<1>4. row \in Row /\ row.batch = b /\ ~row.verified
  BY <1>3 DEF Row
<1>5. /\ DOMAIN batches' = D \cup {N} /\ N \notin D
      /\ batches'[N] = row
      /\ \A n \in D : batches'[n] = batches[n]
  BY <1>1, <1>2, <1>3
<1>6. RowsSound'
  BY <1>1, <1>2, <1>4, <1>5 DEF IInv, TablesSound, RowsSound
<1>7. Bounded'
  <2>1. PICK k \in Nat : \A n \in D : n <= k
    BY <1>2 DEF IInv, Bounded
  <2>2. k + N \in Nat /\ \A n \in D \cup {N} : n <= k + N
    BY <1>2, <2>1
  <2> QED
    BY <1>5, <2>2 DEF Bounded
<1>8. UNCHANGED <<accepted, rejected>> /\ Len(accepted) \in Nat
  BY DEF verifier, IInv, TablesSound
<1>9. RowsInStep'
  <2>1. \A n \in D : n <= Len(accepted) /\ (batches[n].verified => n <= Len(accepted))
    BY <1>2
  <2>2. \A n \in DOMAIN batches' : batches'[n].verified => n <= Len(accepted')
    BY <1>4, <1>5, <1>8, <2>1
  <2>3. \A n \in DOMAIN batches' : n > Len(accepted') => n = N
    BY <1>2, <1>5, <1>8, <2>1
  <2> QED
    BY <2>2, <2>3 DEF RowsInStep
<1> QED
  BY <1>1, <1>2, <1>5, <1>6, <1>7, <1>9

LEMMA CommitStep ==
    ASSUME IInv, NEW t \in Threads, Commit(t)
    PROVE  IInv'
<1>1. PICK m : m = thread[t]
  OBVIOUS
<1>2. m \in Local /\ LocalSound(m) /\ m.pc = "commit"
  BY <1>1, ThisThread DEF Commit, At
<1>3. PICK b \in Batch : b = m.batch
  BY <1>2, LocalFields
<1>4. /\ m.locked /\ b.sequence # 0 /\ b.sequence \notin DOMAIN batches
      /\ \A n \in DOMAIN batches : n <= Len(accepted)
      /\ b.sequence \in Nat /\ b.new \in LedgerState
  BY <1>2, <1>3, BatchFields DEF LocalSound
<1>5. /\ state' = b.new
      /\ nextSequence' = b.sequence + 1
      /\ pending' = pending \/ pending' = <<>>
      /\ batches' = [n \in DOMAIN batches \cup {b.sequence} |->
                        IF n = b.sequence THEN [batch |-> b, verified |-> FALSE]
                        ELSE batches[n]]
      /\ Done(t) \/ Goto(t, [m EXCEPT !.pc = "post"])
      /\ UNCHANGED <<registry, posted, verifier>>
  BY <1>1, <1>3 DEF Commit
<1>6. /\ DOMAIN batches' \subseteq Nat \ {0} /\ b.sequence \in DOMAIN batches'
      /\ RowsSound' /\ Bounded' /\ RowsInStep'
  BY <1>4, <1>5, RowAdded
<1>7. UNCHANGED <<accepted, rejected>>
  BY <1>5 DEF verifier
<1>8. TablesSound'
  <2>1. pending \in Seq(Action) /\ <<>> \in Seq(Action)
    BY DEF IInv, TablesSound
  <2>2. pending' \in Seq(Action)
    BY <1>5, <2>1
  <2>3. nextSequence' \in Nat \ {0}
    BY <1>4, <1>5
  <2> QED
    BY <1>4, <1>5, <1>6, <1>7, <2>2, <2>3 DEF IInv, TablesSound
<1>9. CounterInStep'
  <2>1. nextSequence' - 1 = b.sequence
    BY <1>4, <1>5
  <2> QED
    BY <1>6, <2>1 DEF CounterInStep
<1>10. PICK l : Goto(t, l) /\ l \in {Idle, [m EXCEPT !.pc = "post"]}
  BY <1>5 DEF Done
<1>11. LocalSound(l)' /\ (l.locked => thread[t].locked)
  <2>1. CASE l = Idle
    <3>1. l \in Local /\ l.pc = "idle" /\ ~l.locked
      BY <2>1, IdleType
    <3> QED
      BY <3>1 DEF LocalSound
  <2>2. CASE l = [m EXCEPT !.pc = "post"]
    <3>1. l \in Local /\ l.pc = "post" /\ l.locked
      BY <1>2, <1>4, <2>2 DEF Local, Pcs
    <3> QED
      BY <1>1, <1>4, <3>1 DEF LocalSound
  <2> QED
    BY <1>10, <2>1, <2>2
<1>12. TablesSound /\ ThreadsSound /\ LogGrows /\ thread[t].locked
  BY <1>1, <1>4, <1>5, LogStays DEF IInv
<1>13. ThreadsSound'
  BY <1>10, <1>11, <1>12, ThreadGoesOn
<1> QED
  BY <1>6, <1>8, <1>9, <1>13 DEF IInv

-----------------------------------------------------------------------------
\* Posting and waiting for the verifier.

\* Locals that rely on nothing but the lock, or on nothing at all.
LEMMA FreeLocal ==
    ASSUME NEW l \in Local,
           \/ l.pc \in {"post", "record_submission", "sync"} /\ l.locked
           \/ l.pc \in {"idle", "wait", "rollback"}
           \/ l.pc = "record" /\ ~l.verdict
    PROVE  LocalSound(l)
  BY DEF LocalSound

LEMMA SubmitStep ==
    ASSUME IInv, NEW t \in Threads, NEW n \in DOMAIN batches, Submit(t, n)
    PROVE  IInv'
<1>1. PICK b \in Batch : b = batches[n].batch
  BY RowType DEF IInv
<1>2. PICK l : l = [Idle EXCEPT !.pc = "post", !.locked = TRUE, !.batch = b]
  OBVIOUS
<1>3. l \in Local /\ l.pc = "post" /\ l.locked
  BY <1>2, IdleType DEF Local, Pcs
<1>4. LocalSound(l)
  BY <1>3, FreeLocal
<1>5. /\ Goto(t, l) /\ LockFree
      /\ UNCHANGED <<registry, operator, posted, verifier>>
  BY <1>1, <1>2 DEF Submit
<1> QED
  BY <1>4, <1>5, LocalStep

LEMMA PostStep ==
    ASSUME IInv, NEW t \in Threads, Post(t)
    PROVE  IInv'
<1>1. PICK m : m = thread[t]
  OBVIOUS
<1>2. m \in Local /\ LocalSound(m) /\ m.pc = "post"
  BY <1>1, ThisThread DEF Post, At
<1>3. m.locked /\ m.batch \in Batch
  BY <1>2, LocalFields DEF LocalSound
<1>4. /\ posted' = posted \/ posted' = posted \cup {m.batch}
      /\ Goto(t, [m EXCEPT !.pc = "record_submission"]) \/ Done(t)
      /\ UNCHANGED <<registry, state, nextSequence, pending, batches, verifier>>
  BY <1>1 DEF Post, operator
<1>5. PICK l : Goto(t, l) /\ l \in {Idle, [m EXCEPT !.pc = "record_submission"]}
  BY <1>4 DEF Done
<1>6. LocalSound(l)
  <2>1. CASE l = Idle
    BY <2>1, IdleSound
  <2>2. CASE l = [m EXCEPT !.pc = "record_submission"]
    <3>1. l \in Local /\ l.pc = "record_submission" /\ l.locked
      BY <1>2, <1>3, <2>2 DEF Local, Pcs
    <3> QED
      BY <3>1, FreeLocal
  <2> QED
    BY <1>5, <2>1, <2>2
<1>7. /\ registry' \subseteq Assets /\ state' \in LedgerState /\ pending' \in Seq(Action)
      /\ posted' \subseteq Batch
  BY <1>3, <1>4 DEF IInv, TablesSound
<1>8. thread[t].locked
  BY <1>1, <1>3
<1> QED
  BY <1>4, <1>5, <1>6, <1>7, <1>8, HandlerStep

LEMMA RecordSubmissionStep ==
    ASSUME IInv, NEW t \in Threads, RecordSubmission(t)
    PROVE  IInv'
<1>1. PICK m \in Local : m = thread[t]
  BY ThisThread
<1>2. UNCHANGED <<registry, operator, posted, verifier>>
  BY DEF RecordSubmission
<1>3. CASE Done(t)
  BY <1>2, <1>3, DoneStep
<1>4. CASE ~Done(t)
  <2>1. PICK n \in DOMAIN batches :
            Goto(t, [m EXCEPT !.pc = "wait", !.locked = FALSE, !.batch = batches[n].batch])
    BY <1>1, <1>4 DEF RecordSubmission
  <2>2. PICK b \in Batch : b = batches[n].batch
    BY RowType DEF IInv
  <2>3. PICK l : l = [m EXCEPT !.pc = "wait", !.locked = FALSE, !.batch = b]
    OBVIOUS
  <2>4. l \in Local /\ l.pc = "wait" /\ ~l.locked
    BY <1>1, <2>3 DEF Local, Pcs
  <2>5. LocalSound(l) /\ Goto(t, l)
    BY <2>1, <2>2, <2>3, <2>4, FreeLocal
  <2> QED
    BY <1>2, <2>4, <2>5, LocalStep
<1> QED
  BY <1>3, <1>4

\* A batch the checkpoint matches is one the verifier has stood on.
LEMMA MatchReached ==
    ASSUME TablesSound, NEW b, accepted # <<>>, b.sequence <= Len(accepted),
           Checkpoint.state = b.new
    PROVE  Reached(b)
  BY CheckpointType DEF Reached

LEMMA WaitStep ==
    ASSUME IInv, NEW t \in Threads, Wait(t)
    PROVE  IInv'
<1>1. PICK m \in Local : m = thread[t]
  BY ThisThread
<1>2. PICK b \in Batch : b = m.batch
  BY <1>1, LocalFields
<1>3. PICK v : v = CheckpointMatches(b)
  OBVIOUS
<1>4. v \in BOOLEAN
  BY <1>3, Zenon DEF CheckpointMatches
<1>5. PICK l : l = [m EXCEPT !.pc = "record", !.verdict = v]
  OBVIOUS
<1>6. l \in Local /\ l.pc = "record" /\ l.verdict = v /\ l.batch = b /\ l.locked = m.locked
  BY <1>2, <1>4, <1>5 DEF Local, Pcs
<1>7. ASSUME v
      PROVE  Reached(b)
  <2>1. accepted # <<>> /\ Checkpoint.sequence >= b.sequence /\ Checkpoint.state = b.new
    BY <1>3, <1>7, Zenon DEF CheckpointMatches
  <2>2. Checkpoint.sequence = Len(accepted) /\ Len(accepted) \in Nat /\ b.sequence \in Nat
    BY CheckpointType, BatchFields DEF IInv, TablesSound
  <2>3. b.sequence <= Len(accepted)
    BY <2>1, <2>2
  <2> QED
    BY <2>1, <2>3, MatchReached DEF IInv
<1>8. LocalSound(l)
  BY <1>6, <1>7 DEF LocalSound
<1>9. Goto(t, l) /\ UNCHANGED <<registry, operator, posted, verifier>>
  BY <1>1, <1>2, <1>3, <1>5 DEF Wait
<1> QED
  BY <1>1, <1>6, <1>8, <1>9, LocalStep

LEMMA IndexStep ==
    ASSUME IInv, NEW t \in Threads, Index(t)
    PROVE  IInv'
<1>1. TablesSound /\ Checkpoint.sequence = Len(accepted) /\ Len(accepted) \in Nat
  BY CheckpointType DEF IInv, TablesSound
<1>2. PICK n \in DOMAIN batches : n = Len(accepted) /\ n = Checkpoint.sequence
  BY <1>1 DEF Index
<1>3. PICK b \in Batch : b = batches[n].batch /\ b.sequence = n
  BY <1>1, RowType
<1>4. PICK l : l = [Idle EXCEPT !.pc = "record", !.batch = b, !.verdict = TRUE]
  OBVIOUS
<1>5. /\ accepted # <<>> /\ Checkpoint.state = b.new /\ Goto(t, l)
      /\ UNCHANGED <<registry, operator, posted, verifier>>
  BY <1>2, <1>3, <1>4 DEF Index
<1>6. l \in Local /\ l.pc = "record" /\ l.batch = b /\ ~l.locked
  BY <1>4, IdleType DEF Local, Pcs
<1>7. Reached(b)
  BY <1>1, <1>2, <1>3, <1>5, MatchReached
<1>8. LocalSound(l)
  BY <1>6, <1>7 DEF LocalSound
<1> QED
  BY <1>5, <1>6, <1>8, LocalStep

LEMMA RecordVerificationStep ==
    ASSUME IInv, NEW t \in Threads, RecordVerification(t)
    PROVE  IInv'
<1>1. PICK m : m = thread[t]
  OBVIOUS
<1>2. m \in Local /\ LocalSound(m) /\ m.pc = "record"
  BY <1>1, ThisThread DEF RecordVerification, At
<1>3. PICK b \in Batch : b = m.batch
  BY <1>2, LocalFields
<1>4. PICK N \in Nat : N = b.sequence
  BY BatchFields
<1>5. UNCHANGED <<registry, state, nextSequence, pending, posted, verifier>>
  BY DEF RecordVerification
<1>6. CASE N \notin DOMAIN batches
  <2>1. Done(t) /\ UNCHANGED <<registry, operator, posted, verifier>>
    BY <1>1, <1>3, <1>4, <1>5, <1>6 DEF RecordVerification, operator
  <2> QED
    BY <2>1, DoneStep
<1>7. CASE N \in DOMAIN batches
  <2>1. PICK v \in BOOLEAN : v = m.verdict
    BY <1>2, LocalFields
  <2>2. batches' = [batches EXCEPT ![N].verified = v]
    BY <1>1, <1>3, <1>4, <1>7, <2>1 DEF RecordVerification
  <2>3. TablesSound /\ ThreadsSound
    BY DEF IInv
  <2>4. PICK row \in Row : row = batches[N] /\ row.batch.sequence = N
    BY <1>7, <2>3 DEF TablesSound, RowsSound
  <2>5. PICK marked : marked = [row EXCEPT !.verified = v]
    OBVIOUS
  <2>6. marked \in Row /\ marked.batch = row.batch /\ marked.verified = v
    BY <2>5 DEF Row
  <2>7. /\ DOMAIN batches' = DOMAIN batches
        /\ batches'[N] = marked
        /\ \A n \in DOMAIN batches : n # N => batches'[n] = batches[n]
    BY <1>7, <2>2, <2>4, <2>5
  <2>8. RowsSound' /\ Bounded'
    BY <2>3, <2>4, <2>6, <2>7 DEF RowsSound, TablesSound, IInv, Bounded
  <2>9. UNCHANGED <<accepted, rejected>> /\ Len(accepted) \in Nat
    BY <1>5, <2>3 DEF verifier, TablesSound
  <2>10. v => N <= Len(accepted)
    BY <1>2, <1>3, <1>4, <2>1, <2>9 DEF LocalSound, Reached
  <2>11. RowsInStep'
    BY <2>6, <2>7, <2>9, <2>10 DEF IInv, RowsInStep
  <2>12. CounterInStep'
    BY <1>5, <2>7, <2>9 DEF IInv, CounterInStep
  <2>13. TablesSound'
    BY <1>5, <2>3, <2>7, <2>8, <2>9 DEF TablesSound
  <2>14. LogGrows /\ NoCommit
    BY <1>5, <2>3, <2>7, LogStays DEF TablesSound, NoCommit
  <2>15. PICK l : /\ Goto(t, l)
                  /\ l = Idle \/ l = [m EXCEPT !.pc = "rollback", !.batch = row.batch]
    BY <1>1, <1>3, <1>4, <1>7, <2>4 DEF RecordVerification, Done
  <2>16. LocalSound(l) /\ (l.locked => thread[t].locked)
    <3>1. CASE l = Idle
      BY <3>1, IdleSound, IdleType
    <3>2. CASE l = [m EXCEPT !.pc = "rollback", !.batch = row.batch]
      <4>1. row.batch \in Batch
        BY DEF Row
      <4>2. l \in Local /\ l.pc = "rollback" /\ l.locked = m.locked
        BY <1>2, <3>2, <4>1 DEF Local, Pcs
      <4> QED
        BY <1>1, <4>2, FreeLocal
    <3> QED
      BY <2>15, <3>1, <3>2
  <2>17. LocalSound(l)'
    BY <2>3, <2>14, <2>16, LocalForward DEF TablesSound
  <2>18. ThreadsSound'
    BY <2>3, <2>14, <2>15, <2>16, <2>17, ThreadGoesOn
  <2> QED
    BY <2>8, <2>11, <2>12, <2>13, <2>18 DEF IInv
<1> QED
  BY <1>6, <1>7

-----------------------------------------------------------------------------
\* Rollback and sync from the verifier.

LEMMA RollbackStep ==
    ASSUME IInv, NEW t \in Threads, Rollback(t)
    PROVE  IInv'
<1>1. PICK m \in Local : m = thread[t]
  BY ThisThread
<1>2. UNCHANGED <<registry, operator, posted, verifier>>
  BY DEF Rollback
<1>3. CASE ~Rejected(m.batch)
  BY <1>1, <1>2, <1>3, DoneStep DEF Rollback
<1>4. CASE Rejected(m.batch)
  <2>1. PICK l : l = [m EXCEPT !.pc = "delete_batch"]
    OBVIOUS
  <2>2. l \in Local /\ l.pc = "delete_batch" /\ l.locked = m.locked
    BY <1>1, <2>1 DEF Local, Pcs
  <2>3. rejected # {}
    BY <1>4 DEF Rejected
  <2>4. LocalSound(l)
    BY <2>2, <2>3 DEF LocalSound
  <2>5. Goto(t, l)
    BY <1>1, <1>4, <2>1 DEF Rollback
  <2> QED
    BY <1>1, <1>2, <2>2, <2>4, <2>5, LocalStep
<1> QED
  BY <1>3, <1>4

\* Rows go.
LEMMA RowsRemoved ==
    ASSUME IInv, NEW S, batches' = Without(S), UNCHANGED verifier
    PROVE  /\ DOMAIN batches' \subseteq DOMAIN batches
           /\ RowsSound' /\ Bounded' /\ RowsInStep'
<1>1. /\ DOMAIN batches' \subseteq DOMAIN batches
      /\ \A n \in DOMAIN batches' : batches'[n] = batches[n]
  BY DEF Without
<1>2. UNCHANGED <<accepted, rejected>>
  BY DEF verifier
<1> QED
  BY <1>1, <1>2 DEF IInv, TablesSound, RowsSound, Bounded, RowsInStep

\* Rows go, and thread t goes on.
LEMMA DeleteStep ==
    ASSUME IInv, NEW S, batches' = Without(S), NEW t \in Threads, NEW l, Goto(t, l),
           LocalSound(l), l.locked => thread[t].locked,
           UNCHANGED <<registry, state, nextSequence, pending, posted, verifier>>,
           rejected # {} \/ nextSequence <= Len(accepted) + 1
    PROVE  IInv'
<1>1. /\ DOMAIN batches' \subseteq DOMAIN batches
      /\ RowsSound' /\ Bounded' /\ RowsInStep'
  BY RowsRemoved
<1>2. UNCHANGED <<accepted, rejected>>
  BY DEF verifier
<1>3. TablesSound /\ ThreadsSound /\ LogGrows /\ NoCommit
  BY <1>1, LogStays DEF IInv, TablesSound, NoCommit
<1>4. TablesSound'
  BY <1>1, <1>2, <1>3 DEF TablesSound
<1>5. CounterInStep'
  BY <1>2 DEF CounterInStep
<1>6. LocalSound(l)'
  BY <1>3, LocalForward DEF TablesSound
<1>7. ThreadsSound'
  BY <1>3, <1>6, ThreadGoesOn
<1> QED
  BY <1>1, <1>4, <1>5, <1>7 DEF IInv

LEMMA DeleteBatchStep ==
    ASSUME IInv, NEW t \in Threads, DeleteBatch(t)
    PROVE  IInv'
<1>1. PICK m : m = thread[t]
  OBVIOUS
<1>2. m \in Local /\ LocalSound(m) /\ m.pc = "delete_batch"
  BY <1>1, ThisThread DEF DeleteBatch, At
<1>3. rejected # {}
  BY <1>2 DEF LocalSound
<1>4. PICK l, S : l = [m EXCEPT !.pc = "sync"] /\ S = {m.batch.sequence}
  OBVIOUS
<1>5. l \in Local /\ l.pc = "sync" /\ l.locked = m.locked
  BY <1>2, <1>4 DEF Local, Pcs
<1>6. LocalSound(l)
  BY <1>3, <1>5 DEF LocalSound
<1>7. /\ batches' = Without(S) /\ Goto(t, l)
      /\ UNCHANGED <<registry, state, nextSequence, pending, posted, verifier>>
  BY <1>1, <1>4 DEF DeleteBatch
<1> QED
  BY <1>1, <1>3, <1>5, <1>6, <1>7, DeleteStep

LEMMA SyncStep ==
    ASSUME IInv, NEW t \in Threads, Sync(t)
    PROVE  IInv'
<1>1. PICK l : l = [Idle EXCEPT !.pc = "sync", !.locked = TRUE]
  OBVIOUS
<1>2. l \in Local /\ l.pc = "sync" /\ l.locked
  BY <1>1, IdleType DEF Local, Pcs
<1>3. LocalSound(l)
  BY <1>2, FreeLocal
<1>4. Goto(t, l) /\ LockFree /\ UNCHANGED <<registry, operator, posted, verifier>>
  BY <1>1 DEF Sync
<1> QED
  BY <1>3, <1>4, LocalStep

LEMMA SyncReadStep ==
    ASSUME IInv, NEW t \in Threads, SyncRead(t)
    PROVE  IInv'
<1>1. PICK m : m = thread[t]
  OBVIOUS
<1>2. m \in Local /\ LocalSound(m) /\ m.pc = "sync"
  BY <1>1, ThisThread DEF SyncRead, At
<1>3. UNCHANGED <<registry, operator, posted, verifier>>
  BY DEF SyncRead
<1>4. CASE accepted = <<>>
  BY <1>3, <1>4, DoneStep DEF SyncRead
<1>5. CASE accepted # <<>>
  <2>1. PICK n : n = Checkpoint.sequence
    OBVIOUS
  <2>2. n \in 1..Len(accepted) /\ n \in Nat
    BY <1>5, <2>1, CheckpointType DEF IInv
  <2>3. PICK l : l = [m EXCEPT !.pc = "sync_write", !.seen = n]
    OBVIOUS
  <2>4. l \in Local /\ l.pc = "sync_write" /\ l.seen = n /\ l.locked = m.locked
    BY <1>2, <2>2, <2>3 DEF Local, Pcs
  <2>5. LocalSound(l)
    BY <1>2, <2>2, <2>4 DEF LocalSound
  <2>6. Goto(t, l)
    BY <1>1, <1>5, <2>1, <2>3 DEF SyncRead
  <2> QED
    BY <1>1, <1>3, <2>4, <2>5, <2>6, LocalStep
<1> QED
  BY <1>4, <1>5

LEMMA SyncWriteStep ==
    ASSUME IInv, NEW t \in Threads, SyncWrite(t)
    PROVE  IInv'
<1>1. PICK m : m = thread[t]
  OBVIOUS
<1>2. m \in Local /\ LocalSound(m) /\ m.pc = "sync_write"
  BY <1>1, ThisThread DEF SyncWrite, At
<1>3. PICK n : n = m.seen
  OBVIOUS
<1>4. n \in 1..Len(accepted) /\ (m.locked \/ rejected # {})
  BY <1>2, <1>3 DEF LocalSound
<1>5. TablesSound /\ ThreadsSound /\ Len(accepted) \in Nat
  BY DEF IInv, TablesSound
<1>6. PICK l : l = [m EXCEPT !.pc = "sync_delete"]
  OBVIOUS
<1>7. l \in Local /\ l.pc = "sync_delete" /\ l.seen = n /\ l.locked = m.locked
  BY <1>2, <1>3, <1>6 DEF Local, Pcs
<1>8. /\ state' = accepted[n].new
      /\ nextSequence' = n + 1
      /\ Goto(t, l)
      /\ UNCHANGED <<registry, pending, batches, posted, verifier>>
  BY <1>1, <1>3, <1>6 DEF SyncWrite
<1>9. UNCHANGED <<accepted, rejected>>
  BY <1>8 DEF verifier
<1>10. state' \in LedgerState
  <2>1. accepted[n] \in Batch
    BY <1>4, <1>5 DEF TablesSound
  <2> QED
    BY <1>8, <2>1, BatchFields
<1>11. nextSequence' \in Nat \ {0} /\ nextSequence' <= Len(accepted') + 1
  BY <1>4, <1>5, <1>8, <1>9
<1>12. TablesSound'
  BY <1>5, <1>8, <1>9, <1>10, <1>11 DEF TablesSound, RowsSound
<1>13. Bounded' /\ RowsInStep'
  BY <1>8, <1>9 DEF IInv, Bounded, RowsInStep
<1>14. CounterInStep'
  BY <1>11 DEF CounterInStep
<1>15. LogGrows /\ NoCommit
  BY <1>5, <1>8, <1>11, LogStays DEF TablesSound, NoCommit
<1>16. LocalSound(l)'
  BY <1>4, <1>7, <1>9, <1>11 DEF LocalSound
<1>17. ThreadsSound'
  BY <1>1, <1>5, <1>7, <1>8, <1>15, <1>16, ThreadGoesOn
<1> QED
  BY <1>12, <1>13, <1>14, <1>17 DEF IInv

LEMMA SyncDeleteStep ==
    ASSUME IInv, NEW t \in Threads, SyncDelete(t)
    PROVE  IInv'
<1>1. PICK m : m = thread[t]
  OBVIOUS
<1>2. m \in Local /\ LocalSound(m) /\ m.pc = "sync_delete"
  BY <1>1, ThisThread DEF SyncDelete, At
<1>3. rejected # {} \/ nextSequence <= Len(accepted) + 1
  BY <1>2 DEF LocalSound
<1>4. PICK l, S : l = Idle /\ S = {n \in DOMAIN batches : n > m.seen}
  OBVIOUS
<1>5. LocalSound(l) /\ ~l.locked
  BY <1>4, IdleSound, IdleType
<1>6. /\ batches' = Without(S) /\ Goto(t, l)
      /\ UNCHANGED <<registry, state, nextSequence, pending, posted, verifier>>
  BY <1>1, <1>4 DEF SyncDelete, Done
<1> QED
  BY <1>3, <1>5, <1>6, DeleteStep

-----------------------------------------------------------------------------
\* The verifier and other posters.

\* The verifier logs a row, and nothing else happens.
LEMMA VerifierStep ==
    ASSUME IInv, LogGrows, rejected' \subseteq Batch,
           UNCHANGED <<registry, operator, posted, thread>>
    PROVE  IInv'
<1>1. UNCHANGED <<registry, state, nextSequence, pending, batches, posted, thread>>
  BY DEF operator
<1>2. TablesSound /\ ThreadsSound /\ DOMAIN batches \subseteq Nat /\ nextSequence \in Nat
  BY DEF IInv, TablesSound
<1>3. /\ accepted' \in Seq(Batch) /\ Len(accepted) \in Nat /\ Len(accepted') \in Nat
      /\ Len(accepted) <= Len(accepted') /\ (rejected' = {} => rejected = {})
  BY DEF LogGrows
<1>4. TablesSound'
  BY <1>1, <1>2, <1>3 DEF TablesSound, RowsSound
<1>5. Bounded'
  BY <1>1 DEF IInv, Bounded
<1>6. RowsInStep'
  <2>1. \A n \in DOMAIN batches : n <= Len(accepted) => n <= Len(accepted')
    BY <1>2, <1>3
  <2>2. \A n \in DOMAIN batches : n > Len(accepted') => n > Len(accepted)
    BY <1>2, <1>3
  <2> QED
    BY <1>1, <2>1, <2>2 DEF IInv, RowsInStep
<1>7. CounterInStep'
  BY <1>1, <1>2, <1>3 DEF IInv, CounterInStep
<1>8. NoCommit
  BY <1>1, <1>2 DEF NoCommit
<1>9. ThreadsSound'
  BY <1>1, <1>2, <1>8, ThreadsStay
<1> QED
  BY <1>4, <1>5, <1>6, <1>7, <1>9 DEF IInv

LEMMA AcceptGrows ==
    ASSUME TablesSound, NEW b \in Batch, Accept(b)
    PROVE  LogGrows /\ rejected' \subseteq Batch
<1>1. accepted \in Seq(Batch) /\ rejected \subseteq Batch
  BY DEF TablesSound
<1>2. accepted' = Append(accepted, b) /\ rejected' = rejected
  BY DEF Accept
<1>3. /\ accepted' \in Seq(Batch) /\ Len(accepted') = Len(accepted) + 1
      /\ \A n \in 1..Len(accepted) : accepted'[n] = accepted[n]
  BY <1>1, <1>2
<1> QED
  BY <1>1, <1>2, <1>3 DEF LogGrows

LEMMA IngestStep ==
    ASSUME IInv, NEW b \in posted, Ingest(b)
    PROVE  IInv'
<1>1. TablesSound /\ b \in Batch
  BY DEF IInv, TablesSound
<1>2. CASE Accept(b)
  BY <1>1, <1>2, AcceptGrows, VerifierStep DEF Ingest
<1>3. CASE rejected' = rejected \cup {b} /\ UNCHANGED accepted
  <2>1. LogGrows /\ rejected' \subseteq Batch
    BY <1>1, <1>3 DEF TablesSound, LogGrows
  <2> QED
    BY <2>1, VerifierStep DEF Ingest
<1> QED
  BY <1>2, <1>3 DEF Ingest

LEMMA AcceptBatchStep ==
    ASSUME IInv, AcceptBatch
    PROVE  IInv'
<1>1. TablesSound
  BY DEF IInv
<1>2. PICK b : Accept(b) /\ b = batches[Len(accepted) + 1].batch
  BY DEF AcceptBatch
<1>3. b \in Batch
  BY <1>1, <1>2, RowType DEF AcceptBatch
<1> QED
  BY <1>1, <1>2, <1>3, AcceptGrows, VerifierStep DEF AcceptBatch

\* Somebody posts, and nothing else happens.
LEMMA PostersStep ==
    ASSUME IInv, posted' \subseteq Batch, UNCHANGED <<registry, operator, verifier, thread>>
    PROVE  IInv'
<1>1. UNCHANGED <<registry, state, nextSequence, pending, batches, verifier, thread>>
  BY DEF operator
<1>2. TablesSound /\ ThreadsSound /\ LogGrows /\ NoCommit
  BY <1>1, LogStays, CommitNone DEF IInv
<1>3. ThreadsSound'
  BY <1>1, <1>2, ThreadsStay
<1>4. registry' \subseteq Assets /\ state' \in LedgerState /\ pending' \in Seq(Action)
  BY <1>1, <1>2 DEF TablesSound
<1> QED
  BY <1>1, <1>3, <1>4, TablesStay

LEMMA ForeignStep ==
    ASSUME IInv, NEW r \in ForeignRequests, Foreign(r)
    PROVE  IInv'
<1>1. r \in Request /\ TablesSound
  BY HostedAssumption DEF IInv
<1>2. PICK s \in LedgerState : s = Checkpoint.state
  BY <1>1, CheckpointType
<1>3. PICK n \in Nat : n = Checkpoint.sequence + 1
  BY <1>1, CheckpointType DEF TablesSound
<1>4. PICK action : action = [nonce |-> s.nonce + 1, request |-> r]
  OBVIOUS
<1>5. <<action>> \in Seq(Action)
  <2>1. s.nonce + 1 \in Nat
    BY DEF LedgerState
  <2> QED
    BY <1>1, <1>4, <2>1, OneAction
<1>6. PICK b : b = NewBatch(n, s, <<action>>)
  OBVIOUS
<1>7. b \in Batch
  BY <1>5, <1>6, NewBatchType
<1>8. posted' = posted \cup {b} /\ UNCHANGED <<registry, operator, verifier, thread>>
  BY <1>2, <1>3, <1>4, <1>6 DEF Foreign
<1>9. posted' \subseteq Batch
  BY <1>1, <1>7, <1>8 DEF TablesSound
<1> QED
  BY <1>8, <1>9, PostersStep

\* An action without its AMM context is an action.
LEMMA StrippedType ==
    ASSUME NEW action \in Action
    PROVE  [action EXCEPT !.request.amm = None] \in Action
<1>1. PICK r \in Request : r = action.request
  BY DEF Action
<1>2. [r EXCEPT !.amm = None] \in Request
  BY DEF Request
<1> QED
  BY <1>1, <1>2 DEF Action

LEMMA ForeignCopyStep ==
    ASSUME IInv, NEW b \in posted, ForeignCopy(b)
    PROVE  IInv'
<1>1. posted \subseteq Batch /\ b \in Batch /\ b.actions \in Seq(Action)
  BY BatchFields DEF IInv, TablesSound
<1>2. PICK actions : actions = [i \in DOMAIN b.actions |->
                                   [b.actions[i] EXCEPT !.request.amm = None]]
  OBVIOUS
<1>3. actions \in Seq(Action)
  <2>1. PICK N \in Nat : N = Len(b.actions) /\ DOMAIN b.actions = 1..N
    BY <1>1
  <2>2. \A i \in 1..N : b.actions[i] \in Action
    BY <1>1, <2>1
  <2>3. \A i \in 1..N : [b.actions[i] EXCEPT !.request.amm = None] \in Action
    BY <2>2, StrippedType
  <2>4. actions \in [1..N -> Action]
    BY <1>2, <2>1, <2>3
  <2> QED
    BY <2>4
<1>4. [b EXCEPT !.actions = actions] \in Batch
  BY <1>1, <1>3 DEF Batch
<1>5. /\ posted' = posted \cup {[b EXCEPT !.actions = actions]}
      /\ UNCHANGED <<registry, operator, verifier, thread>>
  BY <1>2 DEF ForeignCopy
<1>6. posted' \subseteq Batch
  BY <1>1, <1>4, <1>5
<1> QED
  BY <1>5, <1>6, PostersStep

LEMMA CrashStep ==
    ASSUME IInv, Crash
    PROVE  IInv'
<1>1. PICK l : l = Idle
  OBVIOUS
<1>2. l \in Local /\ l.pc = "idle" /\ ~l.locked
  BY <1>1, IdleType
<1>3. /\ thread' = [t \in Threads |-> l]
      /\ UNCHANGED <<registry, state, nextSequence, pending, batches, posted, verifier>>
  BY <1>1 DEF Crash, operator
<1>4. LocalSound(l)'
  BY <1>2 DEF LocalSound
<1>5. ThreadsSound'
  <2>1. thread' \in [Threads -> Local]
    BY <1>2, <1>3
  <2>2. \A t \in Threads : thread'[t] = l
    BY <1>3
  <2>3. \A t \in Threads : LocalSound(thread[t])'
    BY <1>4, <2>2
  <2> QED
    BY <1>2, <2>1, <2>2, <2>3 DEF ThreadsSound
<1>6. /\ registry' \subseteq Assets /\ state' \in LedgerState /\ pending' \in Seq(Action)
      /\ posted' \subseteq Batch
  BY <1>3 DEF IInv, TablesSound
<1> QED
  BY <1>3, <1>5, <1>6, TablesStay

-----------------------------------------------------------------------------
\* The invariant.

LEMMA InitSound ==
    ASSUME Init
    PROVE  IInv
<1>1. TablesSound /\ Bounded
  <2>1. state \in LedgerState
    BY HostedAssumption, GenesisType DEF Init
  <2>2. /\ registry \subseteq Assets /\ nextSequence \in Nat \ {0} /\ pending \in Seq(Action)
        /\ DOMAIN batches = {} /\ posted = {} /\ accepted \in Seq(Batch) /\ rejected = {}
    BY HostedAssumption DEF Init
  <2> QED
    BY <2>1, <2>2 DEF TablesSound, RowsSound, Bounded
<1>2. RowsInStep /\ CounterInStep
  <2>1. DOMAIN batches = {} /\ Len(accepted) = 0 /\ nextSequence = 1
    BY DEF Init
  <2> QED
    BY <2>1 DEF RowsInStep, CounterInStep
<1>3. ThreadsSound
  <2>1. PICK l : l = Idle
    OBVIOUS
  <2>2. l \in Local /\ LocalSound(l) /\ ~l.locked
    BY <2>1, IdleType, IdleSound
  <2>3. thread = [t \in Threads |-> l]
    BY <2>1 DEF Init
  <2> QED
    BY <2>2, <2>3 DEF ThreadsSound
<1> QED
  BY <1>1, <1>2, <1>3 DEF IInv

LEMMA StepSound ==
    ASSUME IInv, [Next]_vars
    PROVE  IInv'
<1>1. CASE UNCHANGED vars
  <2>1. UNCHANGED <<registry, operator, posted, verifier, thread>>
    BY <1>1 DEF vars
  <2>2. posted' \subseteq Batch
    BY <2>1 DEF IInv, TablesSound
  <2> QED
    BY <2>1, <2>2, PostersStep
<1>2. ASSUME NEW t \in Threads, Handler(t)
      PROVE  IInv'
  BY <1>2, RegisterAssetStep, QueueRegistrationStep, CutBatchStep, ExecuteStep, CommitStep,
     SubmitStep, PostStep, RecordSubmissionStep, WaitStep, IndexStep,
     RecordVerificationStep, RollbackStep, DeleteBatchStep, SyncStep, SyncReadStep,
     SyncWriteStep, SyncDeleteStep DEF Handler
<1>3. CASE Next
  BY <1>2, <1>3, QueueStep, IngestStep, AcceptBatchStep, ForeignStep, ForeignCopyStep,
     CrashStep DEF Next
<1> QED
  BY <1>1, <1>3

\* The operator's tables hold what the code puts there; in particular no handler
\* commits a state that overdraws an account or a pool.
THEOREM HostedTypeCorrect == Spec => []TypeOK
<1>1. IInv => TypeOK
  BY DEF IInv, TablesSound, RowsSound, TypeOK
<1> QED
  BY <1>1, InitSound, StepSound, PTL DEF Spec

\* The unique constraint on batch numbers never refuses a commit, whatever syncs,
\* rollbacks and restarts came before.
THEOREM CommitsAreNew == Spec => []NumbersFree
<1>1. IInv => NumbersFree
  BY DEF IInv, ThreadsSound, LocalSound, NumbersFree, At
<1> QED
  BY <1>1, InitSound, StepSound, PTL DEF Spec

\* At most one batch beyond the verified state waits for its verdict.
THEOREM OneUnverified == Spec => []OneInFlight
<1>1. IInv => OneInFlight
  <2> SUFFICES ASSUME IInv PROVE OneInFlight
    OBVIOUS
  <2>1. PICK S : S = {n \in DOMAIN batches : n > Len(accepted) /\ ~batches[n].verified}
    OBVIOUS
  <2>2. \A m, n \in S : m = n
    BY <2>1 DEF IInv, RowsInStep
  <2>3. CASE S = {}
    BY <2>1, <2>3, FS_EmptySet DEF OneInFlight
  <2>4. CASE S # {}
    <3>1. PICK n : S = {n}
      BY <2>2, <2>4
    <3>2. Cardinality(S) = 1
      BY <3>1, FS_Singleton
    <3> QED
      BY <2>1, <3>2 DEF OneInFlight
  <2> QED
    BY <2>3, <2>4
<1> QED
  BY <1>1, InitSound, StepSound, PTL DEF Spec

\* Without a rejection, an operator whose checkpoint check passes stands on the
\* verified state and its next batch is the verifier's next, whatever syncs and
\* restarts in the middle of one came before.
THEOREM CurrentStandsOnVerified == Spec => []CurrentIsInStep
<1>1. IInv => CurrentIsInStep
  <2> SUFFICES ASSUME IInv, rejected = {}, Current
               PROVE  /\ NextBatchSequence = Len(accepted) + 1
                      /\ accepted # <<>> => state = Checkpoint.state
    BY DEF CurrentIsInStep
  <2>1. PICK N : N = NextBatchSequence
    OBVIOUS
  <2>2. /\ N \in Nat \ {0} /\ nextSequence <= N
        /\ N = nextSequence \/ N - 1 \in DOMAIN batches
    BY <2>1, NextIsLast DEF IInv
  <2>3. /\ Len(accepted) \in Nat /\ nextSequence \in Nat \ {0}
        /\ DOMAIN batches \subseteq Nat
        /\ accepted # <<>> => Len(accepted) > 0
    BY DEF IInv, TablesSound
  <2>4. \A n \in DOMAIN batches : n <= Len(accepted)
    BY CurrentMeans
  <2>5. nextSequence <= Len(accepted) + 1
    BY <2>3, <2>4 DEF IInv, CounterInStep
  <2>6. N <= Len(accepted) + 1
    BY <2>2, <2>3, <2>4, <2>5
  <2>7. CASE accepted = <<>>
    <3>1. Len(accepted) = 0
      BY <2>7
    <3> QED
      BY <2>1, <2>2, <2>6, <2>7, <3>1
  <2>8. CASE accepted # <<>>
    <3>1. ~(Len(accepted) >= N)
      BY <2>1, <2>8 DEF Current, OperatorBehind
    <3>2. N = Len(accepted) + 1
      BY <2>2, <2>3, <2>6, <3>1
    <3>3. Len(accepted) = NextBatchSequence - 1
      BY <2>1, <2>3, <3>2
    <3> QED
      BY <2>1, <2>8, <3>2, <3>3 DEF Current, OperatorConflict
  <2> QED
    BY <2>7, <2>8
<1> QED
  BY <1>1, InitSound, StepSound, PTL DEF Spec

\* "Verified" is recorded only for a batch whose number the verifier has accepted and
\* whose state it has stood on, whoever was waiting meanwhile.
THEOREM RecordedIsTrue == Spec => []VerdictIsTrue
<1>1. IInv => VerdictIsTrue
  <2> SUFFICES ASSUME IInv, NEW t \in Threads, At(t, "record"), thread[t].verdict
               PROVE  \E n \in thread[t].batch.sequence..Len(accepted) :
                         accepted[n].new = thread[t].batch.new
    BY DEF VerdictIsTrue
  <2>1. PICK b \in Batch : b = thread[t].batch
    BY ThisThread, LocalFields
  <2>2. Reached(b) /\ b.sequence \in Nat
    BY <2>1, ThisThread, BatchFields DEF LocalSound, At
  <2>3. PICK n \in 1..Len(accepted) : b.sequence <= n /\ accepted[n].new = b.new
    BY <2>2 DEF Reached
  <2>4. n \in b.sequence..Len(accepted)
    BY <2>2, <2>3 DEF IInv, TablesSound
  <2> QED
    BY <2>1, <2>3, <2>4
<1> QED
  BY <1>1, InitSound, StepSound, PTL DEF Spec

=============================================================================
