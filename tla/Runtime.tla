------------------------------ MODULE Runtime ------------------------------
(***************************************************************************)
(* A layer's runtime in the hosted API: the operator's tables (storage.py: *)
(* configuration, state and batches) and the verifier's (log, checkpoint), *)
(* by default in one SQLite file but never in one transaction, through     *)
(* initialisation, reset, sync, the migration of an older database and     *)
(* restarts.                                                               *)
(*                                                                         *)
(* The default layer's batches are written twice: to sl_operator_batches   *)
(* and to operator_batches, the table of an older version, its mirror.     *)
(*                                                                         *)
(* Handlers hold STATE_LOCK, so one runs at a time, one step to a          *)
(* transaction; "reader" is a /verifier/sync, which runs without the lock. *)
(*                                                                         *)
(* Abstractions.  A batch has a number of its own, and a state is the      *)
(* number of the batch that led to it, 0 for genesis: a layer is always    *)
(* initialised with the same issuer and assets.  Queued actions, rejected  *)
(* payloads and rollbacks are in HostedOperator.                           *)
(***************************************************************************)
EXTENDS Integers, FiniteSets, FiniteSetsExt

CONSTANTS
    Layers,
    Default,        \* the layer with the mirror
    None,
    MaxBatches,     \* bound: batches cut, and rows in an older database
    MaxInits,       \* bound: calls of /operator/init
    MaxCrashes      \* bound: restarts of the API process

ASSUME RuntimeAssumption ==
    /\ Default \in Layers
    /\ {MaxBatches, MaxInits, MaxCrashes} \subseteq Nat

VARIABLES
    runtime,        \* tables sl_runtime_configs and sl_states, scope operator
    batches,        \* table sl_operator_batches: sequence -> batch, and whether
                    \* its last verification result says verified
    mirror,         \* table operator_batches: sequences
    log,            \* verification_log: the accepted sequences of each layer
    checkpoint,     \* table state_checkpoints; sequence 0 without a row
    posted,         \* batches on the base layer
    handler,        \* the handler under way, between two transactions
    reader,         \* the batch an unlocked sync has verified and not yet written
    raced,          \* history: layers reset while the reader had one of theirs
    orphaned,       \* history: layers migrated with batches marked verified that
                    \* the verifier's tables did not have
    cut, inits, crashes         \* how often bounded events happened

operator == <<runtime, batches, mirror>>
verifier == <<log, checkpoint>>
history == <<raced, orphaned>>
counters == <<cut, inits, crashes>>
vars == <<operator, verifier, posted, handler, reader, history, counters>>

Idle == [pc |-> "idle", layer |-> Default, sequence |-> 0]

Goto(pc, l) == handler' = [Idle EXCEPT !.pc = pc, !.layer = l]

Free == handler = Idle

Genesis == [sequence |-> 0, state |-> 0]

\* A new database; or an older one with the default layer's batches, the first v
\* of them marked verified, while the verifier's tables reach to number k: they
\* may be as old as the batches, newer, or empty.  A handler that migrates has v
\* in "sequence".
Init ==
    /\ runtime = [l \in Layers |-> None]
    /\ batches = [l \in Layers |-> <<>>]
    /\ \E n \in 0..MaxBatches : \E v, k \in 0..n :
          /\ mirror = 1..n
          /\ cut = n
          /\ handler = IF n = 0 THEN Idle
                       ELSE [Idle EXCEPT !.pc = "migrate", !.sequence = v]
          /\ log = [l \in Layers |-> IF l = Default THEN 1..k ELSE {}]
          /\ checkpoint = [l \in Layers |->
                IF l = Default THEN [sequence |-> k, state |-> k] ELSE Genesis]
    /\ posted = {}
    /\ reader = None
    /\ raced = {} /\ orphaned = {}
    /\ inits = 0 /\ crashes = 0

\* (Mutant of Migrate: what an older version cut counts as verified.)
MigrateAsVerified ==
    /\ handler.pc = "migrate"
    /\ runtime' = [runtime EXCEPT ![Default] = [next |-> cut + 1, state |-> cut]]
    /\ batches' = [batches EXCEPT ![Default] =
          [n \in mirror |-> [layer |-> Default, sequence |-> n, prev |-> n - 1,
                             new |-> n, verified |-> TRUE]]]
    /\ orphaned' = IF handler.sequence > checkpoint[Default].sequence
                   THEN {Default} ELSE {}
    /\ handler' = Idle
    /\ UNCHANGED <<mirror, verifier, posted, reader, raced, counters>>

\* _migrate_legacy_runtime, on the first connection to an older database.  The
\* records are copied as they are, verification marks included.
Migrate ==
    /\ handler.pc = "migrate"
    /\ runtime' = [runtime EXCEPT ![Default] = [next |-> cut + 1, state |-> cut]]
    /\ batches' = [batches EXCEPT ![Default] =
          [n \in mirror |-> [layer |-> Default, sequence |-> n, prev |-> n - 1,
                             new |-> n, verified |-> n <= handler.sequence]]]
    /\ orphaned' = IF handler.sequence > checkpoint[Default].sequence
                   THEN {Default} ELSE {}
    /\ handler' = Idle
    /\ UNCHANGED <<mirror, verifier, posted, reader, raced, counters>>

-----------------------------------------------------------------------------
\* Initialisation and reset.

\* /operator/init: a layer that is initialised needs reset_existing=true, and
\* then the verifier forgets it first.
StartInit(l) ==
    /\ Free
    /\ inits < MaxInits
    /\ inits' = inits + 1
    /\ Goto(IF runtime[l] = None THEN "initialize" ELSE "reset_layer", l)
    /\ UNCHANGED <<operator, verifier, posted, reader, history, cut, crashes>>

\* (Mutant of ResetLayer: the accepted rows stay.)
ResetCheckpointOnly ==
    /\ handler.pc = "reset_layer"
    /\ LET l == handler.layer
       IN  /\ checkpoint' = [checkpoint EXCEPT ![l] = Genesis]
           /\ raced' = IF reader # None /\ reader.layer = l
                       THEN raced \cup {l} ELSE raced \ {l}
           /\ Goto("initialize", l)
    /\ UNCHANGED <<operator, log, posted, reader, orphaned, counters>>

\* VerifierStore.reset_layer: base events and cursors stay.
ResetLayer ==
    /\ handler.pc = "reset_layer"
    /\ LET l == handler.layer
       IN  /\ log' = [log EXCEPT ![l] = {}]
           /\ checkpoint' = [checkpoint EXCEPT ![l] = Genesis]
           /\ raced' = IF reader # None /\ reader.layer = l
                       THEN raced \cup {l} ELSE raced \ {l}
           /\ Goto("initialize", l)
    /\ UNCHANGED <<operator, posted, reader, orphaned, counters>>

\* (Mutant of Initialize: the counter starts at 0.)
InitializeAtZero ==
    /\ handler.pc = "initialize"
    /\ runtime' = [runtime EXCEPT ![handler.layer] = [next |-> 0, state |-> 0]]
    /\ batches' = [batches EXCEPT ![handler.layer] = <<>>]
    /\ orphaned' = orphaned \ {handler.layer}
    /\ handler' = Idle
    /\ UNCHANGED <<mirror, verifier, posted, reader, raced, counters>>

\* SQLiteStorage.initialize: the scoped tables are cleared, the mirror is not.
Initialize ==
    /\ handler.pc = "initialize"
    /\ runtime' = [runtime EXCEPT ![handler.layer] = [next |-> 1, state |-> 0]]
    /\ batches' = [batches EXCEPT ![handler.layer] = <<>>]
    /\ orphaned' = orphaned \ {handler.layer}
    /\ handler' = Idle
    /\ UNCHANGED <<mirror, verifier, posted, reader, raced, counters>>

-----------------------------------------------------------------------------
\* Batches.

Mirrored(l) == IF l = Default THEN mirror ELSE {}

\* (Mutant of NextBatchSequence: the rows of all layers are counted.)
NextOfAllLayers(l) ==
    Max({runtime[l].next} \cup
        {n + 1 : n \in UNION {DOMAIN batches[k] : k \in Layers} \cup Mirrored(l)})

\* next_batch_sequence.
NextBatchSequence(l) ==
    Max({runtime[l].next} \cup {n + 1 : n \in DOMAIN batches[l] \cup Mirrored(l)})

\* _operator_checkpoint_status (see HostedOperator).
Current(l) ==
    LET seen == checkpoint[l].sequence
    IN  /\ seen > 0 => seen < NextBatchSequence(l)
        /\ seen > 0 /\ seen = NextBatchSequence(l) - 1 => checkpoint[l].state = runtime[l].state
        /\ \A n \in DOMAIN batches[l] : n > seen => batches[l][n].verified

\* /operator/batch or an execution request: one locked handler from the check to
\* commit_operator_batch, whose only write this is.
CutBatch(l) ==
    /\ Free
    /\ cut < MaxBatches
    /\ runtime[l] # None
    /\ Current(l)
    /\ LET n == NextBatchSequence(l)
           b == [layer |-> l, sequence |-> n, prev |-> runtime[l].state,
                 new |-> cut + 1, verified |-> FALSE]
       IN  /\ runtime' = [runtime EXCEPT ![l] = [next |-> n + 1, state |-> cut + 1]]
           /\ batches' = [batches EXCEPT ![l] =
                 [m \in DOMAIN @ \cup {n} |-> IF m = n THEN b ELSE @[m]]]
           /\ mirror' = mirror \cup (IF l = Default THEN {n} ELSE {})
    /\ cut' = cut + 1
    /\ UNCHANGED <<verifier, posted, handler, reader, history, inits, crashes>>

\* A batch on record is posted, by a submission that may not get to record it.
Post(l, n) ==
    /\ Free
    /\ posted' = posted \cup {[batches[l][n] EXCEPT !.verified = FALSE]}
    /\ UNCHANGED <<operator, verifier, handler, reader, history, counters>>

\* _record_verification_for_checkpoint_batch.
RecordVerification(l, n) ==
    /\ checkpoint[l].sequence = n
    /\ checkpoint[l].state = batches[l][n].new
    /\ batches' = [batches EXCEPT ![l][n].verified = TRUE]
    /\ UNCHANGED <<runtime, mirror, verifier, posted, handler, reader, history, counters>>

-----------------------------------------------------------------------------
\* /operator/sync-from-verifier, in its two transactions.

Sync(l) ==
    /\ Free
    /\ runtime[l] # None
    /\ checkpoint[l].sequence > 0
    /\ runtime' = [runtime EXCEPT ![l] = [next |-> checkpoint[l].sequence + 1,
                                          state |-> checkpoint[l].state]]
    /\ handler' = [Idle EXCEPT !.pc = "sync_delete", !.layer = l,
                               !.sequence = checkpoint[l].sequence]
    /\ UNCHANGED <<batches, mirror, verifier, posted, reader, history, counters>>

\* (Mutant of SyncDelete: the mirror keeps the later batches.)
SyncDeleteScoped ==
    /\ handler.pc = "sync_delete"
    /\ LET l == handler.layer
           kept == {n \in DOMAIN batches[l] : n <= handler.sequence}
       IN  batches' = [batches EXCEPT ![l] = [n \in kept |-> @[n]]]
    /\ handler' = Idle
    /\ UNCHANGED <<runtime, mirror, verifier, posted, reader, history, counters>>

\* delete_operator_batches_after: both tables.
SyncDelete ==
    /\ handler.pc = "sync_delete"
    /\ LET l == handler.layer
           kept == {n \in DOMAIN batches[l] : n <= handler.sequence}
       IN  /\ batches' = [batches EXCEPT ![l] = [n \in kept |-> @[n]]]
           /\ mirror' = IF l = Default THEN {n \in mirror : n <= handler.sequence}
                        ELSE mirror
           /\ orphaned' = orphaned \ {l}
    /\ handler' = Idle
    /\ UNCHANGED <<runtime, verifier, posted, reader, raced, counters>>

-----------------------------------------------------------------------------
\* The verifier.

Follows(b) ==
    /\ b.sequence = checkpoint[b.layer].sequence + 1
    /\ b.prev = checkpoint[b.layer].state

\* commit_verification: the unique index on accepted sequences, the log row and
\* the checkpoint, in one transaction.
Record(b) ==
    IF b.sequence \in log[b.layer] THEN UNCHANGED verifier
    ELSE /\ log' = [log EXCEPT ![b.layer] = @ \cup {b.sequence}]
         /\ checkpoint' = [checkpoint EXCEPT ![b.layer] =
                              [sequence |-> b.sequence, state |-> b.new]]

\* One envelope of /verifier/accept-latest-batch, under the lock: without a
\* checkpoint only the number has to be right.
AcceptBatch(l) ==
    /\ Free
    /\ LET n == checkpoint[l].sequence + 1
       IN  /\ n \in DOMAIN batches[l]
           /\ n > 1 => Follows(batches[l][n])
           /\ Record(batches[l][n])
    /\ UNCHANGED <<operator, posted, handler, reader, history, counters>>

\* ingest_event on a batch that verifies, without the lock: the checkpoint is
\* loaded ...
Read(b) ==
    /\ reader = None
    /\ runtime[b.layer] # None
    /\ Follows(b)
    /\ reader' = b
    /\ UNCHANGED <<operator, verifier, posted, handler, history, counters>>

\* ... and the verdict committed, whatever happened in between.
Write ==
    /\ reader # None
    /\ Record(reader)
    /\ reader' = None
    /\ UNCHANGED <<operator, posted, handler, history, counters>>

\* The process stops; the tables and the base layer stay.
Crash ==
    /\ crashes < MaxCrashes
    /\ handler.pc # "migrate"
    /\ crashes' = crashes + 1
    /\ handler' = Idle
    /\ reader' = None
    /\ UNCHANGED <<operator, verifier, posted, history, cut, inits>>

Next ==
    \/ Migrate
    \/ \E l \in Layers :
          \/ StartInit(l)
          \/ CutBatch(l)
          \/ Sync(l)
          \/ AcceptBatch(l)
          \/ \E n \in DOMAIN batches[l] : Post(l, n) \/ RecordVerification(l, n)
    \/ ResetLayer
    \/ Initialize
    \/ SyncDelete
    \/ \E b \in posted : Read(b)
    \/ Write
    \/ Crash

Spec == Init /\ [][Next]_vars

-----------------------------------------------------------------------------
\* Properties.

Batch == [layer : Layers, sequence : Nat \ {0}, prev : Nat, new : Nat \ {0},
          verified : BOOLEAN]

\* The tables hold what the code puts there.
TypeOK ==
    /\ runtime \in [Layers -> [next : Nat \ {0}, state : Nat] \cup {None}]
    /\ \A l \in Layers :
          /\ DOMAIN batches[l] \subseteq Nat \ {0}
          /\ \A n \in DOMAIN batches[l] :
                batches[l][n] \in Batch /\ batches[l][n].sequence = n
    /\ mirror \subseteq Nat \ {0}
    /\ log \in [Layers -> SUBSET (Nat \ {0})]
    /\ checkpoint \in [Layers -> [sequence : Nat, state : Nat]]
    /\ posted \subseteq Batch
    /\ handler.layer \in Layers
    /\ reader \in Batch \cup {None}
    /\ raced \subseteq Layers /\ orphaned \subseteq Layers

\* The verifier's log has every number up to the checkpoint and no other, through
\* resets, restarts and an unlocked sync -- unless a layer was reset while that
\* sync was between its read and its write of it.
LogIsWhole ==
    \A l \in Layers \ raced : log[l] = 1..checkpoint[l].sequence

\* Nothing went wrong with a layer's reset: no restart half-way and no mirror that
\* outlived it.
Orderly(l) ==
    /\ runtime[l] # None
    /\ Free
    /\ crashes = 0
    /\ Mirrored(l) \subseteq DOMAIN batches[l]

\* When the status says "current", the next batch is the one the verifier waits
\* for -- except after a migration of marks the verifier does not back, until a
\* reset or a sync: there the status is current far ahead of the verifier.
NextBatchFits ==
    \A l \in Layers \ orphaned :
        Orderly(l) /\ Current(l) => NextBatchSequence(l) = checkpoint[l].sequence + 1

\* accept-latest-batch never misses a batch on its way to the last one.
NothingMissing ==
    \A l \in Layers :
        Orderly(l) => \A n \in checkpoint[l].sequence + 1..NextBatchSequence(l) - 1 :
                          n \in DOMAIN batches[l]

\* A sync ends with every table agreeing on the number after the checkpoint it read.
SyncRestoresNumber ==
    [][\A l \in Layers :
          SyncDelete /\ handler.layer = l =>
              NextBatchSequence(l)' = handler.sequence + 1]_vars

\* /operator/init "initializes batch sequence 1" (API.md).
InitStartsAtOne ==
    [][\A l \in Layers :
          Initialize /\ handler.layer = l => NextBatchSequence(l)' = 1]_vars

=============================================================================
