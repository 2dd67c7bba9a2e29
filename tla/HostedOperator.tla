--------------------------- MODULE HostedOperator ---------------------------
(***************************************************************************)
(* The operator of one semantic layer in the hosted API (api.py over       *)
(* storage.py), with the verifier it is checked against and the base layer *)
(* it posts to.  Handlers queue actions, cut batches, execute marketplace  *)
(* requests, post batches, wait for the verifier and repair the operator   *)
(* from the verifier's checkpoint.                                         *)
(*                                                                         *)
(* Handlers run in threads.  A handler is one step per database            *)
(* transaction that writes; what it reads before its first write is part   *)
(* of that step or, when a guard must still hold at the write, a step of   *)
(* its own.  A thread with "locked" set holds STATE_LOCK.  Waiting for the *)
(* verifier, recording its verdict and the rollback run without it.        *)
(*                                                                         *)
(* The verifier is the one-payload-at-a-time verifier of VerifiedChain     *)
(* (VerifierIndex shows that the engine implements it), with its genesis   *)
(* state and its envelope endpoint.  A state stands for its hash.  The     *)
(* execution context of a marketplace request lists the same movements as  *)
(* the action's own amm_context.  One layer; no reset.                     *)
(***************************************************************************)
EXTENDS Transition, FiniteSets

CONSTANTS
    Threads,
    Operations,         \* the optional entry points in use
    Requests,           \* actions queued by the issuer and by wallets
    ExecutionRequests,  \* pool actions a marketplace asks to execute
    ForeignRequests,    \* what somebody else may batch and post
    InitialAssets,      \* assets in the registry at /operator/init
    MaxQueued, MaxCommits, MaxForeign, MaxCrashes     \* bounds

ASSUME HostedAssumption ==
    /\ Requests \cup ExecutionRequests \cup ForeignRequests \subseteq Request
    /\ InitialAssets \subseteq Assets
    /\ Pools # {} /\ Assets # {}
    /\ {MaxQueued, MaxCommits, MaxForeign, MaxCrashes} \subseteq Nat

VARIABLES
    registry,       \* table semantic_layers: the layer's declared assets
    state,          \* table sl_states, scope operator
    nextSequence,   \* table sl_runtime_configs, column next_sequence
    pending,        \* table sl_pending_actions
    batches,        \* table sl_operator_batches: sequence -> batch, and
                    \* whether its last verification result says verified
    posted,         \* payloads on the base layer, with their actions
    accepted,       \* verification_log, accepted rows
    rejected,       \* verification_log: payloads with a rejected row
    thread,         \* the handler each thread is in, and its locals
    queued, commits, foreign, crashes       \* how often bounded events happened

operator == <<state, nextSequence, pending, batches>>
verifier == <<accepted, rejected>>
counters == <<queued, commits, foreign, crashes>>
vars == <<registry, operator, posted, verifier, thread, counters>>

-----------------------------------------------------------------------------
\* Batches and the checkpoint.

NewBatch(sequence, s, actions) ==
    LET result == ProcessBatch(s, actions, None)
    IN  [sequence |-> sequence, prev |-> s, new |-> result.state,
         actions |-> result.applied]

\* load_checkpoint; without a row the plugin's genesis state is the previous
\* state, built from the assets the registry declares now.
Checkpoint ==
    IF accepted = <<>>
    THEN [sequence |-> 0, state |-> Genesis(registry)]
    ELSE [sequence |-> Len(accepted), state |-> accepted[Len(accepted)].new]

\* next_batch_sequence: the stored counter, or the number after the last batch
\* if that is higher.
NextBatchSequence ==
    Max({nextSequence} \cup {n + 1 : n \in DOMAIN batches})

\* _operator_checkpoint_status, in the three ways it can say "not current".
OperatorBehind == accepted # <<>> /\ Len(accepted) >= NextBatchSequence

\* (Mutant of OperatorConflict: the two states are not compared.)
ConflictIgnored == FALSE

OperatorConflict ==
    /\ accepted # <<>>
    /\ Len(accepted) = NextBatchSequence - 1
    /\ Checkpoint.state # state

\* (Mutant of CheckpointGap: unverified batches do not block.)
GapIgnored == FALSE

CheckpointGap ==
    \E n \in DOMAIN batches : n > Len(accepted) /\ ~batches[n].verified

Current == ~OperatorBehind /\ ~OperatorConflict /\ ~CheckpointGap

-----------------------------------------------------------------------------
\* Threads.

NoBatch == NewBatch(0, Genesis({}), <<>>)

Idle ==
    [pc |-> "idle", locked |-> FALSE, executing |-> FALSE, asset |-> DefaultAsset,
     batch |-> NoBatch, verdict |-> FALSE, seen |-> 0]

At(t, pc) == thread[t].pc = pc

\* (Mutant of LockFree: the handlers take no lock.)
Unlocked == TRUE

LockFree == \A t \in Threads : ~thread[t].locked

Goto(t, local) == thread' = [thread EXCEPT ![t] = local]

Done(t) == Goto(t, Idle)

Init ==
    /\ registry = InitialAssets
    /\ state = Genesis(InitialAssets)
    /\ nextSequence = 1
    /\ pending = <<>>
    /\ batches = <<>>
    /\ posted = {}
    /\ accepted = <<>>
    /\ rejected = {}
    /\ thread = [t \in Threads |-> Idle]
    /\ queued = 0 /\ commits = 0 /\ foreign = 0 /\ crashes = 0

-----------------------------------------------------------------------------
\* Queueing.

NextNonce == state.nonce + Len(pending) + 1

\* /actions/*: _next_nonce and _queue_action.
Queue(r) ==
    /\ LockFree
    /\ queued < MaxQueued
    /\ Current
    /\ pending' = Append(pending, [nonce |-> NextNonce, request |-> r])
    /\ queued' = queued + 1
    /\ UNCHANGED <<registry, state, nextSequence, batches, posted, verifier, thread,
                   commits, foreign, crashes>>

\* POST /semantic-layers/{sl_id}/assets, first transaction: the registry.
RegisterAsset(t, x) ==
    /\ "register" \in Operations
    /\ At(t, "idle") /\ LockFree
    /\ queued < MaxQueued
    /\ x \notin registry
    /\ x \in state.assets \/ Current
    /\ registry' = registry \cup {x}
    /\ queued' = queued + 1
    /\ Goto(t, [Idle EXCEPT !.pc = "queue_registration", !.locked = TRUE, !.asset = x])
    /\ UNCHANGED <<operator, posted, verifier, commits, foreign, crashes>>

Registration(x) ==
    [type |-> "register_asset", sender |-> Issuer, asset |-> x, amount |-> 0,
     from |-> Issuer, to |-> Issuer, pool |-> CHOOSE p \in Pools : TRUE,
     bundle |-> None, leg |-> None, amm |-> None]

\* Second transaction: the register_asset action, unless the state has the asset
\* or the operator is no longer current.
QueueRegistration(t) ==
    /\ At(t, "queue_registration")
    /\ LET x == thread[t].asset
       IN  pending' = IF x \in state.assets \/ ~Current THEN pending
                      ELSE Append(pending, [nonce |-> NextNonce,
                                            request |-> Registration(x)])
    /\ Done(t)
    /\ UNCHANGED <<registry, state, nextSequence, batches, posted, verifier, counters>>

-----------------------------------------------------------------------------
\* Batches and execution requests.

\* /operator/batch up to the commit.
CutBatch(t) ==
    /\ At(t, "idle") /\ LockFree
    /\ commits < MaxCommits
    /\ Current
    /\ pending # <<>>
    /\ Goto(t, [Idle EXCEPT !.pc = "commit", !.locked = TRUE,
                            !.batch = NewBatch(NextBatchSequence, state, pending)])
    /\ commits' = commits + 1
    /\ UNCHANGED <<registry, operator, posted, verifier, queued, foreign, crashes>>

\* /operator/execution-request up to the commit: an action F rejects ends it.
Execute(t, r) ==
    /\ "execute" \in Operations
    /\ At(t, "idle") /\ LockFree
    /\ commits < MaxCommits
    /\ Current
    /\ LET action == [nonce |-> state.nonce + 1, request |-> r]
       IN  /\ Applies(state, action, None)
           /\ Goto(t, [Idle EXCEPT !.pc = "commit", !.locked = TRUE, !.executing = TRUE,
                           !.batch = NewBatch(NextBatchSequence, state, <<action>>)])
    /\ commits' = commits + 1
    /\ UNCHANGED <<registry, operator, posted, verifier, queued, foreign, crashes>>

\* commit_operator_batch: one transaction, which the unique sequence number would
\* make fail (NumbersFree: it never does).  An execution request leaves the queue
\* alone and may go on to post.
Commit(t) ==
    /\ At(t, "commit")
    /\ LET local == thread[t]
           b == local.batch
       IN  /\ b.sequence \notin DOMAIN batches
           /\ state' = b.new
           /\ nextSequence' = b.sequence + 1
           /\ pending' = IF local.executing THEN pending ELSE <<>>
           /\ batches' = [n \in DOMAIN batches \cup {b.sequence} |->
                             IF n = b.sequence THEN [batch |-> b, verified |-> FALSE]
                             ELSE batches[n]]
           /\ \/ Done(t)
              \/ local.executing /\ Goto(t, [local EXCEPT !.pc = "post"])
    /\ UNCHANGED <<registry, posted, verifier, counters>>

-----------------------------------------------------------------------------
\* Posting and waiting for the verifier.

\* /devnet/submit-latest-batch for any batch on record; one already submitted
\* needs force=true, which the caller may pass.
Submit(t, n) ==
    /\ At(t, "idle") /\ LockFree
    /\ Goto(t, [Idle EXCEPT !.pc = "post", !.locked = TRUE, !.batch = batches[n].batch])
    /\ UNCHANGED <<registry, operator, posted, verifier, counters>>

\* The submitter call: it works, or fails with the payload posted or not.
Post(t) ==
    /\ At(t, "post")
    /\ \/ /\ posted' = posted \cup {thread[t].batch}
          /\ \/ Goto(t, [thread[t] EXCEPT !.pc = "record_submission"])
             \/ Done(t)
       \/ UNCHANGED posted /\ Done(t)
    /\ UNCHANGED <<registry, operator, verifier, counters>>

\* record_devnet_submission, then the lock is released; the caller may or may not
\* have asked to wait.
RecordSubmission(t) ==
    /\ At(t, "record_submission")
    /\ LET n == thread[t].batch.sequence
       IN  \/ Done(t)
           \/ /\ n \in DOMAIN batches
              /\ Goto(t, [thread[t] EXCEPT !.pc = "wait", !.locked = FALSE,
                                           !.batch = batches[n].batch])
    /\ UNCHANGED <<registry, operator, posted, verifier, counters>>

\* (Mutant of CheckpointMatches: the state hashes are not compared.)
CheckpointReached(b) ==
    /\ accepted # <<>>
    /\ Checkpoint.sequence >= b.sequence

\* _checkpoint_matches, on the checkpoint as it is now.
CheckpointMatches(b) ==
    /\ accepted # <<>>
    /\ Checkpoint.sequence >= b.sequence
    /\ Checkpoint.state = b.new

\* _sync_verifier_from_base_layer_api decides: verified, or timeout.
Wait(t) ==
    /\ At(t, "wait")
    /\ Goto(t, [thread[t] EXCEPT !.pc = "record",
                                 !.verdict = CheckpointMatches(thread[t].batch)])
    /\ UNCHANGED <<registry, operator, posted, verifier, counters>>

\* /verifier/sync and the poll loop: _record_verification_for_checkpoint_batch
\* looks for the batch the checkpoint belongs to ...
Index(t) ==
    /\ "index" \in Operations
    /\ At(t, "idle")
    /\ Checkpoint.sequence \in DOMAIN batches
    /\ accepted # <<>>
    /\ LET b == batches[Checkpoint.sequence].batch
       IN  /\ b.new = Checkpoint.state
           /\ Goto(t, [Idle EXCEPT !.pc = "record", !.batch = b, !.verdict = TRUE])
    /\ UNCHANGED <<registry, operator, posted, verifier, counters>>

\* ... and record_batch_verification writes the result into the row that has this
\* sequence number now.  A failed execution request goes on to the rollback.
RecordVerification(t) ==
    /\ At(t, "record")
    /\ LET local == thread[t]
           n == local.batch.sequence
       IN  \/ n \notin DOMAIN batches /\ UNCHANGED batches /\ Done(t)
           \/ /\ n \in DOMAIN batches
              /\ batches' = [batches EXCEPT ![n].verified = local.verdict]
              /\ IF local.executing /\ ~local.verdict
                 THEN Goto(t, [local EXCEPT !.pc = "rollback",
                                            !.batch = batches[n].batch])
                 ELSE Done(t)
    /\ UNCHANGED <<registry, state, nextSequence, pending, posted, verifier, counters>>

-----------------------------------------------------------------------------
\* Rollback and sync from the verifier.

Header(b) == <<b.sequence, b.prev, b.new>>

\* _verification_log_entry_for_batch finds the batch's last log row by sequence
\* number and state hashes; once a number is accepted no later row has it.
Rejected(b) ==
    /\ \E r \in rejected : Header(r) = Header(b)
    /\ \A a \in Range(accepted) : Header(a) # Header(b)

Rollback(t) ==
    /\ At(t, "rollback")
    /\ IF Rejected(thread[t].batch)
       THEN Goto(t, [thread[t] EXCEPT !.pc = "delete_batch"])
       ELSE Done(t)
    /\ UNCHANGED <<registry, operator, posted, verifier, counters>>

Without(S) == [n \in DOMAIN batches \ S |-> batches[n]]

DeleteBatch(t) ==
    /\ At(t, "delete_batch")
    /\ batches' = Without({thread[t].batch.sequence})
    /\ Goto(t, [thread[t] EXCEPT !.pc = "sync"])
    /\ UNCHANGED <<registry, state, nextSequence, pending, posted, verifier, counters>>

\* /operator/sync-from-verifier.
Sync(t) ==
    /\ "sync" \in Operations
    /\ At(t, "idle") /\ LockFree
    /\ Goto(t, [Idle EXCEPT !.pc = "sync", !.locked = TRUE])
    /\ UNCHANGED <<registry, operator, posted, verifier, counters>>

\* _sync_operator_to_verifier_checkpoint: load the checkpoint; without one
\* nothing happens ...
SyncRead(t) ==
    /\ At(t, "sync")
    /\ IF accepted = <<>> THEN Done(t)
       ELSE Goto(t, [thread[t] EXCEPT !.pc = "sync_write", !.seen = Checkpoint.sequence])
    /\ UNCHANGED <<registry, operator, posted, verifier, counters>>

\* ... write its state and the next sequence number ...
SyncWrite(t) ==
    /\ At(t, "sync_write")
    /\ state' = accepted[thread[t].seen].new
    /\ nextSequence' = thread[t].seen + 1
    /\ Goto(t, [thread[t] EXCEPT !.pc = "sync_delete"])
    /\ UNCHANGED <<registry, pending, batches, posted, verifier, counters>>

\* ... and delete the batches after it.
SyncDelete(t) ==
    /\ At(t, "sync_delete")
    /\ batches' = Without({n \in DOMAIN batches : n > thread[t].seen})
    /\ Done(t)
    /\ UNCHANGED <<registry, state, nextSequence, pending, posted, verifier, counters>>

-----------------------------------------------------------------------------
\* The verifier and other posters.

Accept(b) == accepted' = Append(accepted, b) /\ UNCHANGED rejected

\* ingest_event, by any thread at any time.
Ingest(b) ==
    /\ b.sequence = Len(accepted) + 1
    /\ IF b.prev = Checkpoint.state /\ VerifyBatch(Checkpoint.state, b.actions, b.new, None)
       THEN Accept(b)
       ELSE rejected' = rejected \cup {b} /\ UNCHANGED accepted
    /\ UNCHANGED <<registry, operator, posted, thread, counters>>

\* One envelope of /verifier/accept-latest-batch: re-executed from the batch's
\* own previous state, which is compared with the checkpoint if there is one.
AcceptBatch ==
    /\ "accept" \in Operations
    /\ LockFree
    /\ Len(accepted) + 1 \in DOMAIN batches
    /\ LET b == batches[Len(accepted) + 1].batch
       IN  /\ VerifyBatch(b.prev, b.actions, b.new, None)
           /\ accepted # <<>> => b.prev = Checkpoint.state
           /\ Accept(b)
    /\ UNCHANGED <<registry, operator, posted, thread, counters>>

\* Somebody else posts a valid successor of the verified state.
Foreign(r) ==
    /\ foreign < MaxForeign
    /\ LET action == [nonce |-> Checkpoint.state.nonce + 1, request |-> r]
       IN  /\ Applies(Checkpoint.state, action, None)
           /\ posted' = posted \cup {NewBatch(Checkpoint.sequence + 1, Checkpoint.state, <<action>>)}
    /\ foreign' = foreign + 1
    /\ UNCHANGED <<registry, operator, verifier, thread, queued, commits, crashes>>

\* Somebody else posts a batch again, without its AMM contexts.
ForeignCopy(b) ==
    /\ "copy" \in Operations
    /\ foreign < MaxForeign
    /\ posted' = posted \cup {[b EXCEPT !.actions =
                      [i \in DOMAIN @ |-> [@[i] EXCEPT !.request.amm = None]]]}
    /\ posted' # posted
    /\ foreign' = foreign + 1
    /\ UNCHANGED <<registry, operator, verifier, thread, queued, commits, crashes>>

\* The process stops; the database and the base layer stay.
Crash ==
    /\ crashes < MaxCrashes
    /\ crashes' = crashes + 1
    /\ thread' = [t \in Threads |-> Idle]
    /\ UNCHANGED <<registry, operator, posted, verifier, queued, commits, foreign>>

Handler(t) ==
    \/ \E x \in Assets : RegisterAsset(t, x)
    \/ QueueRegistration(t)
    \/ CutBatch(t)
    \/ \E r \in ExecutionRequests : Execute(t, r)
    \/ Commit(t)
    \/ \E n \in DOMAIN batches : Submit(t, n)
    \/ Post(t)
    \/ RecordSubmission(t)
    \/ Wait(t)
    \/ Index(t)
    \/ RecordVerification(t)
    \/ Rollback(t)
    \/ DeleteBatch(t)
    \/ Sync(t)
    \/ SyncRead(t)
    \/ SyncWrite(t)
    \/ SyncDelete(t)

Next ==
    \/ \E r \in Requests : Queue(r)
    \/ \E t \in Threads : Handler(t)
    \/ \E b \in posted : Ingest(b)
    \/ AcceptBatch
    \/ \E r \in ForeignRequests : Foreign(r)
    \/ \E b \in posted : ForeignCopy(b)
    \/ Crash

Spec == Init /\ [][Next]_vars

-----------------------------------------------------------------------------
\* Properties.

\* The operator's tables hold what the code puts there; in particular no handler
\* commits a state that overdraws an account or a pool.
TypeOK ==
    /\ registry \subseteq Assets
    /\ state \in LedgerState
    /\ nextSequence \in Nat \ {0}
    /\ pending \in Seq(Action)
    /\ DOMAIN batches \subseteq Nat \ {0}
    /\ \A n \in DOMAIN batches : batches[n].batch.sequence = n

\* The checkpoint check in front of every handler keeps the operator from building
\* on a batch nobody verified: at most one batch beyond the verified state is
\* waiting for its verdict.
OneInFlight ==
    Cardinality({n \in DOMAIN batches : n > Len(accepted) /\ ~batches[n].verified}) <= 1

\* The unique constraint on (layer, sequence) in sl_operator_batches never refuses
\* a commit: a batch that is about to be committed has a number no row uses,
\* through syncs and rollbacks that give numbers back and crashes between their
\* transactions.
NumbersFree ==
    \A t \in Threads : At(t, "commit") => thread[t].batch.sequence \notin DOMAIN batches

\* As long as the verifier has rejected nothing: whenever _operator_checkpoint_status
\* says "current" -- the condition of every handler that queues, batches or executes --
\* the operator stands on the verified state and its next batch is the one the verifier
\* waits for.  (The status compares sequence numbers and looks for unverified batches;
\* that this implies agreement, also half-way through a sync or after a restart there,
\* is not obvious.  A rollback, which takes a rejection, breaks it: RollbackRestores.)
CurrentIsInStep ==
    rejected = {} /\ Current =>
        /\ NextBatchSequence = Len(accepted) + 1
        /\ accepted # <<>> => state = Checkpoint.state

\* A thread about to record "verified" does so for a batch whose number the verifier
\* has accepted and whose state it has stood on, whoever was waiting meanwhile.  (It
\* need not have stood on it at that number: _checkpoint_matches compares the state
\* with the checkpoint only, and batches of somebody else that lead to the same state
\* in more steps satisfy it.  Which row gets the verdict is another matter:
\* RecordVerification finds it by the sequence number.)
VerdictIsTrue ==
    \A t \in Threads : At(t, "record") /\ thread[t].verdict =>
        LET b == thread[t].batch
        IN  \E n \in b.sequence..Len(accepted) : accepted[n].new = b.new

\* After a rollback the operator is where the verifier's checkpoint is and gives
\* out the next sequence number again (tests/test_api.py, the rollback test).
RollbackRestores ==
    [][\A t \in Threads :
          At(t, "sync_delete") /\ thread[t].executing /\ ~At(t, "sync_delete")' /\ ~Crash =>
              /\ state' = accepted[thread[t].seen].new
              /\ NextBatchSequence' = thread[t].seen + 1]_vars

\* A registered asset reaches the verifier as a register_asset input (API.md), so
\* registering one does not make the verifier reject the operator's own batches.
OwnBatchesPass == \A n \in DOMAIN batches : batches[n].batch \notin rejected

=============================================================================
