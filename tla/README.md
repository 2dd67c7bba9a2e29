# A verification project for the EON payment semantic layer

The repository implements a *semantic layer* for payments on top of the EON base
layer. The base layer orders and stores opaque `Data`; an **operator** turns queued
actions into numbered batches and posts them, and a **verifier** reads the posts back,
re-executes them and keeps the state that wallets believe. There are two deployments of
the same ledger: command-line tools over JSON files, and a hosted API (FastAPI, SQLite,
threads) with marketplace execution requests.

This directory holds TLA+ models of that code, TLC runs over small instances, and TLAPS
proofs for every value of the constants. `PROJECT.json` lists the runs, the mutants that
show each property can fail, the code lines each definition stands for, the findings and
the hazards.

## Inventory

| Component | State it keeps | Operations | Correct when | Model |
| --- | --- | --- | --- | --- |
| Transition function (`core.py`) | ledger state: nonce, assets, balances, supply, frozen sets, pool escrow | `apply_action`, `process_batch`, `verify_batch` | no overdraft, every unit of supply accounted for, frozen accounts inert, nothing replayed | `Transition`, `Ledger` |
| CLI tools (`wallet.py`, `issuer.py`, `sl_operator.py`, `verifier.py`) | six JSON files | queue an action, cut a batch, accept an envelope | nothing applied twice, printed payloads one chain, verified log linked | `CliPipeline` |
| Verifier engine and store (`verifier_engine/`) | base events, verification log, checkpoint, cursors | ingest an event, accept an envelope, sync from a source | one linked chain, checkpoint is its head, rejections deserved, posted chain accepted in the end | `VerifierIndex` over `VerifiedChain` |
| Bundle ingestion (`engine.py`) | the log, checkpoint and cursors of several layers | one event with a payload for each of several layers | each layer keeps its chain, a bundle left half committed can be and is completed | `BundleIndex` over `VerifiedChains` |
| Hosted operator (`api.py` over `storage.py`) | registry, operator state, sequence counter, queue, batches | queue, register an asset, batch, execution request, post, wait, record, rollback, sync | operator agrees with the verifier when it says so, numbers never collide, verdicts are true | `HostedOperator` |
| Layer reset (`operator_init`, `reset_layer`, `initialize`, the migration) | the operator's and the verifier's tables of a layer | initialise, reset, migrate, sync | no hole in the log, no batch missing, "current" means the next number fits | `Runtime` |
| Payload and scalar framing (`eon_data.py`, `core.py`, `devnet_adapter.py`) | none | encode, frame, unframe, decode | decoding inverts encoding and leaves no byte unread | `Framing` |
| Wallet and account registry (`storage.py`) | wallets, account pool | register, allocate | | not modelled |
| Signed intents, account vault, devnet submitter, projections | none of their own | hashing, encryption, HTTP, formatting | | not modelled |

How they interact. Issuer and wallets only append to the operator's queue. A batch takes
the whole queue, runs it through F, keeps the state it ends in and hands out a payload
(previous state hash, actions, new state hash, sequence number). Posting and reading the
base layer is the only channel from operator to verifier, except the sandbox endpoints
that accept an operator's batch directly. In the hosted API both live in one process and,
by default, in one SQLite file, but never in one transaction: every storage call of the
one or the other is a transaction of its own. Handlers take `STATE_LOCK`, but waiting for
the verifier, recording its verdict, the rollback of a rejected execution request and
`/verifier/sync` run without it.

What is hard: the interleavings of those transactions, restarts between them, commands
killed between file writes, posts that arrive early, late, twice or from somebody else,
one event that moves several layers in several transactions, and three copies of "where
we are" (state, sequence counter, checkpoint) that must agree. `PROJECT.json` has the
full list of hazards, each with the properties that watch it.

## Modules

* **`Transition`** — the pure part of `core.py`: when F accepts a request
  (`Accepts...`), what it changes (`Effect`), and the two ways a batch is run through it:
  `ProcessBatch` skips what F rejects (`ProcessOne`), `VerifyBatch` fails on it
  (`VerifyOne`); both are recursive functions over the queue. An address stands for
  the key it is the hash of; a state stands for its hash; asset metadata is dropped.
  An action's amount is any number (`Action.from_dict` checks nothing), counted in parts
  of a unit, `Unit` of them to one; the ledger stores `int()` of every sum (`Whole`,
  `Plus`, `Minus`). Amounts and nonces that are no numbers at all belong to the payloads
  that raise (`Raising` below); the rounding of very large floats is left out.
* **`Ledger`** — the state machine of F, one action of the model per action type.
  `rounded` is auxiliary: it counts the accepted moves of a fraction.
* **`CliPipeline`** — every command as a process that interleaves at each file read and
  write: `StartSubmit`/`ComputeNonce`/`LoadQueue`/`SaveQueue` are `next_nonce` and
  `append_pending`; `StartBatch` to `Publish` are `cmd_batch`; `StartAccept`,
  `SaveVerified`, `SaveLog` are `accept_envelope`. `Crash` kills a command.
* **`VerifiedChain`**, **`VerifiedChains`** — the abstract verifiers, of one layer and of
  several: payloads are accepted one at a time, in order, each re-executing from the state
  the last one of its layer led to. Nothing ties the payloads of a bundle together.
* **`VerifierIndex`** — the engine: threads inside `sync_from_source`, `ingest_event` and
  `accept_envelope`, one step per store call; threads in `Locked` hold `STATE_LOCK` for
  the whole operation. The base layer is a sequence of posts by anyone. An envelope is
  accepted under whatever event key its client sends (`EventKeys`), so a log row may name
  an event that was never stored; `by` in a row is auxiliary and tells such rows from
  those of ingestion. A payload in
  `Raising` makes F raise something other than a `TransitionError`, which ends the whole
  operation. It implements `VerifiedChain` with `chain` mapped to the payloads of the
  accepted log rows.
* **`BundleIndex`** — `_ingest_bundle` in the same style: `Inspect` is the duplicate check
  and the decoding, `Examine` one turn of the loop over the children (ahead: the bundle
  is deferred; behind: the child is skipped; invalid: the bundle is rejected),
  `AppendEvent`, `CommitRejection` and `CommitChild` the writes. `AcceptPlain` is any
  other way a layer's chain may grow, an envelope under a client's event key included,
  which may be that of a bundle. It implements `VerifiedChains`.
* **`HostedOperator`** — the operator's handlers, one step per writing transaction, with
  the base layer and the verifier as `VerifiedChain` describes it. `locked` in a thread
  says that it holds `STATE_LOCK`. `NextBatchSequence` is the stored counter or the number
  after the last batch, whichever is higher. `Foreign` is another operator's valid post
  on the same layer; `ForeignCopy` is a second post of a batch that lacks its AMM
  contexts and therefore does not re-execute: since the log is searched by sequence and
  state hashes, its rejection is taken for the batch's own.
* **`Runtime`** — the operator's and the verifier's tables of several layers, through
  `/operator/init` with and without a reset, batches, sync-from-verifier, the migration of
  an older database and restarts, one step per transaction. `mirror` is
  `operator_batches`, which the default layer's batches are written to as well. The
  migration copies an older version's rows with their verification marks, whatever the
  verifier's tables hold; `orphaned` remembers a layer that got marks beyond its
  checkpoint. `Read` and `Write` are the two ends of an ingestion without the lock, so a
  reset may come between them.
* **`Framing`** — bytes to scalars and back in both framings, and transitions and bundles
  to bytes and back, with the widths as constants. JSON is two functions: `TextOf` is the
  one text the encoder writes for an action, `Parsed` what a decoder makes of a text, and
  many texts (spaces, order of keys, unknown keys) parse to one object. What is encoded,
  framed or posted comes from an operator (`EncodeItem`) or from anybody (`PostBytes`,
  `PostWords`).

`TransitionProofs`, `LedgerProofs`, `CliProofs`, `VerifierIndexProofs`,
`BundleIndexProofs`, `HostedProofs`, `RuntimeProofs` and `FramingProofs` have the
theorems. `MCLedger`, `MCCli`, `MCIndex`, `MCBundle`, `MCHosted`, `MCRuntime` and
`MCFraming` only give values to constants. Operators marked "Mutant of" are deliberate
faults; no behaviour uses them. They are what the mutants of `PROJECT.json` put in a
definition's place.

## Runs

| Run | Instance | Shows |
| --- | --- | --- |
| `ledger` | issuer and one user, default and one registrable asset, one pool, amounts in half units, 5 actions | type invariant (no overdraft), all supply held except one unit for each transfer or deposit of a fraction, unregistered assets empty, frozen accounts inert |
| `cli` | 3 queue commands, 3 batches, 2 kills, one process | no action applied twice, log linked or one state write ahead; without a kill: chain without gaps, log is a prefix of what was printed, batches apply prefixes |
| `index_safety` | a locked and an unlocked thread, 5 payloads (2 honest, one from another start, one that fails, one that raises), 2 posts, envelopes under the key of event 1, whether it was posted, stored, accepted or not, 1 restart | linked log, checkpoint is its head, rejections deserved, ingested verdicts have their event, refinement of `VerifiedChain` |
| `index_live` | the poll loop and an unlocked request, 2 posts with heights, 1 restart | a chain posted in order is accepted in the end, unless a payload that raises stops the loop or a sync loses an insert |
| `index_deferred` | the poll loop, 2 posts | **violation**: a deferred event is never looked at again |
| `bundle` | two layers, the poll loop and an unlocked request, 5 bundles of which 2 are posted, plain payloads under any event key, 1 restart | every layer's chain linked, ingested verdicts have their bundle, rejections deserved, half-committed bundles can be completed and are, refinement of `VerifiedChains` |
| `hosted` | 2 threads, one mint or registration, 3 commits, 1 foreign post or copy, 1 restart | sequence numbers free, one batch in flight, sound states, "current" implies agreement with the verifier, recorded verdicts are true |
| `hosted_rollback_race` | 2 threads, 3 commits, 1 copy | **violation**: the unlocked rollback deletes a fresh batch |
| `hosted_genesis_drift` | registration before the first acceptance | **violation**: the operator's first batch is rejected |
| `runtime` | the default layer and another one, 3 batches, 3 calls of init, 1 restart, an older database with any of its rows marked verified, or none | the log whole, no batch missing, "current" fits the verifier, sync puts the number back |
| `runtime_reset` | the same without a restart | **violation**: after a reset of the default layer the next batch is not number 1 |
| `framing` | 3-bit bytes, 2-byte words of 5 data bits, payloads up to 20 bytes, over 40 000 foreign words, two JSON texts of one action | round trip, one field-safe framing per payload, every byte of a decoded payload accounted for |

`CHECK_DEADLOCK FALSE` everywhere: bounded runs end when their bounds are used up, and
the real system may idle.

**Bounds.** Each is a constant with a guard where the event happens: `MaxNonce`,
`MaxSubmissions`, `MaxBatches`, `MaxPosts`, `MaxQueued`, `MaxCommits`, `MaxForeign`,
`MaxInits`, `MaxCrashes`. Five ledger actions are enough to register, mint, deposit,
freeze and try to move; half units are enough to tell `int()` from the identity and from
rounding up. Three submissions and three batches let a killed batch be
repeated over an old queue. Two posts and an envelope make two threads race for the same
sequence number and for its successor. Two bundles over two layers, with a plain payload
beside them, make one child of a bundle go ahead of the other, a bundle be rejected for
one child after the other's number was taken, and two threads commit the children of one
bundle in turn. Three commits are the shortest history with an accepted batch, a rejected
execution request and a batch committed during its rollback. Three calls of init are two
layers and a reset; three batches are a batch before the reset, one after it and one on
the other layer. In `framing` 5 bytes are 3 whole chunks, so every remainder of bytes by
chunks occurs, and there are actions, texts and children one above each limit. Two
threads are enough for every race of the hosted API that was found; threads are
interchangeable (`MCSymmetry`, in the invariant run only).

**What is claimed only up to a point.** `CurrentIsInStep` is claimed until the verifier
rejects a payload, because a rollback breaks it: by the race of `hosted_rollback_race`,
and by a restart between deleting the batch and the sync. The operator then reports
"current" one sequence number ahead of what the verifier waits for. Up to that rejection
it holds in every state, also in the middle of a sync or after a restart there.
`VerdictIsTrue` says that the verifier has stood on the batch's state at the batch's
number *or a later one*: `_checkpoint_matches` compares states, so a batch of somebody
else at that number does not stop it as long as the chain comes back to the state.
`EvidenceKept` is about what ingestion accepted or rejected: the accept endpoints commit
the client's event key unchecked, and a row may name an event nobody ever posted.
`NextBatchFits` and
`NothingMissing` are claimed for an `Orderly` layer: initialised, no handler under way,
no restart so far, and no row in the mirror that is not in the scoped table.
`NextBatchFits` also leaves out layers whose migrated rows are marked verified beyond the
verifier's checkpoint (`orphaned`, until a reset or a sync): their status is "current"
although the verifier waits for an earlier number.
`LogIsWhole` leaves out layers that were reset while an unlocked sync held a batch of
theirs (`raced`): that sync then writes an old number into the new log. Each
of these exceptions is a hazard with its line in `PROJECT.json`.

## Fairness

`PollSpec` of `VerifierIndex` and of `BundleIndex` state fairness, nothing else does. Weak
fairness of `Step`: an operation that has started goes on, which a thread does unless the
process stops (`VerifierIndex`: all threads; `BundleIndex`: only the poll loop's). Strong
fairness of the loop's start: `_verifier_poll_loop` asks for `STATE_LOCK` again every
interval for as long as the process runs, and holders release it; the attempt is enabled
again and again and is taken again and again. In `VerifierIndex` it is stated for any
holder of the lock (`Poll`): if others who ask for it keep getting it for a sync of the
same source, their sync does the loop's work. In `BundleIndex` it is stated for each
cursor, since every pass of the loop goes through all layers. Posts, requests and
restarts have no fairness.

`PollerCatchesUp` needs five things, all in the model: no sync loses the insert of an
event to another thread (`Overtaken`), nobody equivocates (one payload per sequence
re-executes), outputs carry heights that grow in posting order, the chain is posted in
sequence order, and the next payload listed is not one that raises (`Blocked`). Without
the chain being posted in order, `index_deferred` shows what happens. The first condition
leaves out the race of an unlocked sync (`/verifier/sync`, the wait of a submission) with
the poll loop, and nothing else that an unlocked thread does: the loop loses the insert of
event 1, takes it for a duplicate, and either a restart comes before the other thread's
verdict on it, or the loop defers event 2 because that verdict is not there yet; its
cursor passes both, and the chain stays where it is. `InterruptedIsCompleted` says that a
bundle left with some children committed while a cursor has not passed it is completed,
unless a raising payload was posted.

## Findings

Each is a violation run; `PROJECT.json` quotes the line it disagrees with.

1. `index_deferred` — the cursor passes a deferred event.
2. `hosted_rollback_race` — the rollback runs after `STATE_LOCK` was released.
3. `hosted_genesis_drift` — the verifier's genesis state follows the registry until the
   first batch is accepted.
4. `runtime_reset` — a reset of the default layer leaves `operator_batches`, which still
   counts in the next sequence number, while the verifier starts again at 1.

Things the models show and no run is spent on: `append_pending` has no lock, so of two
commands at the same time one may lose its action (`CliPipeline` with two `Procs`); the
cursor passes a chain posted in order after a lost insert (`Overtaken`); a transfer,
deposit or swap-in of a fraction destroys a unit (`rounded`); the accept endpoints keep
any event key; after a migration the status may be "current" ahead of the verifier
(`orphaned`); a verdict is recorded on the row that has the sequence number when the wait
is over (`RecordVerification` of `HostedOperator`); the wait for a batch that already has
a successor ends as a timeout (`CheckpointMatches`); nonces given to queued actions do not
follow when a sync or an execution request moves the state, so the next batch rejects and
clears them; a bundle with two consecutive children of one layer is deferred for ever
(`Examine`); of two versions of one `sl_id` only one can accept a given sequence
(`SequenceFree` of `BundleIndex`).

## Proofs

The constants are unrestricted apart from the named assumptions: any numbers of layers,
accounts, payloads, threads, posts and restarts.

Induction over data. The library's induction theorems take an operator and cannot be
used, so `NatInduct` of `TransitionProofs` states induction over an initial segment of
the naturals for a *set* of numbers, proved from the well-foundedness of `<`. With it,
what the recursive functions `ProcessBatch` and `VerifyBatch` compute is proved for
queues of every length, and so is what a sum over a finite function is: `TotalOf` shows
that the fold behind `SumFunction` gives the same total in whatever order it takes the
elements, and `SumChanges` that changing a value changes the sum by as much.

`TransitionProofs`, from `ConstantsAssumption`: whatever request is accepted, the effect
is a ledger state again, touches only its own asset, and leaves frozen balances alone
except for mints and burns (`AcceptedIsLocal`, with the action types as its cases).
`VerifiedIsPath`: `verify_batch` accepts exactly the payloads whose actions F accepts
one after the other and whose last state is the claimed one. `ProcessedVerifies`: what
`process_batch` makes of any queue is accepted by `verify_batch`. `NoReplay`: a payload
with actions applies at one nonce only, and never again after that.

`LedgerProofs`, from `LedgerAssumption` as well: `LedgerTypeCorrect`,
`UnregisteredAssetsEmpty`, `FundsAccountedFor`, `FrozenAccountsInert`, `PayloadsAccount`.
`TypeOK` is inductive. `FundsAccountedFor` says what accounts and escrows hold: the
supply, less one unit for each accepted transfer or deposit of a fraction.
`PayloadsAccount` says the same of whatever payload a verifier accepts: it creates no
funds, and loses none if its amounts are whole. These two and `FrozenAccountsInert`
assume `FiniteLedger`: the code's accounts and pools are the finitely many keys of
dictionaries. Every effect is a chain of at most two movements (`HoldsMore`), each of
which adds to one sum. Frozen accounts need the accounting too: a burn of a fraction
changes the balance and the supply by the same only because the supply is not negative
(`int()` rounds toward zero).

`CliProofs` assumes `OneAtATime`: there is one process at a time, as when one person works
at the command line. Without it the queue loses actions and gives out nonces twice
(`LoadQueue`, `SaveQueue`). Kills are not restricted. `CliTypeCorrect`, `NoActionTwice`,
`PrintedIsChain`, `RejectionTakesTheRest`, `LogIsLinked` and `LogIsPrefix`. What makes the
checked properties inductive is `QueueSound`: the queue is numbered on from the operator's
state, *or* nothing in it applies any more. The second case is what a kill between the new
state and the clearing of the queue leaves, and it stays true while further actions are
appended, because their nonces count the dead entries as well. `BatchSound` ties a running
batch to `process_batch` of the queue it read and to the files it has written so far.

`HostedProofs`, from the assumptions of the model alone: `HostedTypeCorrect`,
`CommitsAreNew`, `OneUnverified`, `CurrentStandsOnVerified`, `RecordedIsTrue`. Its
invariant says what a handler may rely on between two of its transactions
(`LocalSound`): a batch about to be committed is held under the lock, at most one thread
has that, and its number is beyond all rows, since the checkpoint check in front of it
found no gap and every row verified. `CounterInStep` is the reason why "current" means
agreement: as long as nothing was rejected, the stored next number either follows a
batch on record or is not ahead of the verifier's next one.

`VerifierIndexProofs`, from `IndexAssumption`: `IndexTypeCorrect`,
`AcceptedRowsAreLinked`, `CheckpointIsTheHead`, `RejectionsAreDeserved`,
`VerdictsHaveEvidence` and the refinement `IndexImplementsChain`. The inductive invariant
`IInv` adds to the checked properties what a thread remembers: `SeenIsHead` says that the
checkpoint a thread loaded was the head of *some* prefix of the accepted rows and that
the payload it is about to commit is the next one after that prefix. If another thread
was faster, the unique index on accepted sequences fails the insert; if not, the loaded
checkpoint is still the head. `RowsMatchEvents` ties the log rows of ingestion to stored
events.

`BundleIndexProofs`, from `BundleAssumption`: `BundleTypeCorrect`, `LayersStayLinked`,
`BundleVerdictsHaveEvidence`, `BundleRejectionsDeserved`, `HalfCommittedBundlesComplete`
and the refinement `BundleIndexImplementsChains`. A child is examined long before it is
committed, with its siblings' commits in between. What `LocalSound` keeps of the
examination is that the child extends some prefix of its layer's chain (`Extends`) or
that its number is given out (`Settled`); both survive every commit, because chains only
grow. A bundle is committed only after all its children were one or the other
(`AcceptedAreFine`) and rejected only for a child that was neither
(`RejectedAreRejectable`), which gives the two properties about verdicts.

`RuntimeProofs`, from `RuntimeAssumption`: `RuntimeTypeCorrect`, `LogStaysWhole`,
`NoBatchMissing`, `CurrentBatchFits`, `SyncPutsNumberBack`. `ReaderSound` says what an
unlocked sync may hold: the next number, a number already in the log, or one from before a
reset. `SyncSound` ties a sync between its two transactions to the checkpoint it read.
`Complete` says that nothing is missing between the checkpoint and the last batch of an
undisturbed layer, and `VerifiedLower` that no batch above the checkpoint is marked
verified, layers a migration left `orphaned` excepted; the two together make the status
"current" fit. Numbers come from a maximum over three tables; `NextIsLast` says that it is
the counter or the successor of a row.

`FramingProofs`, from `FramingAssumption`, which the code's widths satisfy: `TypeCorrect`,
`RoundTripHolds`, `OneFramingHolds`, `NoByteUnreadHolds`, for every width and length. That
the state invariant is inductive is easy; the work is in what the loops compute. A
sequence of bytes or of chunks is read as one number (`HasValue`). At every byte of the
framing loop the finished chunks followed by the bits of the buffer have the number of the
bytes so far (`PutByteKeepsNumber`), and the final shift multiplies it by a power of two
(`FlushedChunks`). The loop that takes chunks apart keeps the number too
(`TakeChunkTakesNumber`). As a number has one sequence of digits of a given length
(`DigitsAreUnique`), equal numbers mean equal bytes, which gives the round trip; and since
the padding must be clear, equal bytes mean equal chunks, which gives the one framing
among field-safe words. For the payload format, `TakePartTookParts` says that the bytes up
to the decoder's offset are the encoding of the parts it has, and `PrefixedIsTaken` the
converse.

Model-checked only: liveness (fairness and ENABLED are beyond the prover), with
`PollerCatchesUp` and `InterruptedIsCompleted`, and the violations. Every invariant and
every action property of a passing run is a theorem.

## Not modelled, and why

* A file torn in the middle of a write, and what JSON text looks like.
* Undecodable payloads and payloads of unregistered layers that are no bundles: stored and
  ignored.
* Execution requests over several layers: `HostedOperator` has one layer.
* The owner-filtered UTXO listing: its limit of 50 outputs per query and outputs that
  disappear when spent; owner-specific cursors are further members of `Sources`.
* Wallet and account registry: upserts of single rows under `STATE_LOCK`.
* Signatures, encryption, HTTP, formatting.

## Plan

1. `ExecutionGroups`: execution requests over several layers, preflight of all, then
   commit and post one after the other.
2. Liveness of `VerifierIndex` without heights, for the payloads for which it holds.
