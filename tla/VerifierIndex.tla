--------------------------- MODULE VerifierIndex ---------------------------
(***************************************************************************)
(* The verifier of one semantic layer in the hosted API (verifier_engine/  *)
(* over its SQLite store): threads that ingest base-layer events or accept *)
(* envelopes.  Every store call is a transaction of its own, so threads    *)
(* interleave between any two calls; the threads in Locked hold STATE_LOCK *)
(* for the whole operation (the poll loop, /verifier/index, notify,        *)
(* ingest-event, the accept endpoints), the others do not (/verifier/sync  *)
(* and the verification phase of a submission).                            *)
(*                                                                         *)
(* Abstractions.  A state stands for its hash.  Whether a payload's        *)
(* actions re-execute is its "ok" field.  Bundles, payloads of other       *)
(* layers and undecodable payloads are left out.                           *)
(***************************************************************************)
EXTENDS Integers, Sequences, FiniteSets

CONSTANTS
    States,         \* the semantic layer's states
    Payloads,       \* the transition payloads that may be posted: "ok" says
                    \* whether the actions re-execute from "prev" to "new"
    Raising,        \* payloads whose re-execution ends in an exception other
                    \* than TransitionError (an amount that is not a number)
    Genesis,        \* the genesis state of the layer's plugin configuration
    Envelopes,      \* payloads offered to the accept endpoints with their
                    \* previous state
    EventKeys,      \* event keys a client sends with an envelope: 0 for none, an
                    \* event posted by then, or any other number
    Threads,
    Locked,         \* threads that run under STATE_LOCK
    Sources,        \* names cursors are kept under
    ReportsHeight,  \* whether the base layer's outputs carry a height
    MaxPosts,       \* bound: payloads posted to the base layer
    MaxCrashes      \* bound: restarts of the API process

ASSUME IndexAssumption ==
    /\ Payloads \subseteq [sequence : Nat \ {0}, prev : States, new : States,
                           ok : BOOLEAN]
    /\ Raising \subseteq {p \in Payloads : ~p.ok}
    /\ Genesis \in States
    /\ Envelopes \subseteq Payloads
    /\ EventKeys \subseteq Nat
    /\ Locked \subseteq Threads
    /\ ReportsHeight \in BOOLEAN

VARIABLES
    posted,         \* base layer: data outputs in posting order; an event is
                    \* an index of this sequence
    stored,         \* table base_events: the events kept
    accepted,       \* verification_log, accepted rows in insertion order
    rejected,       \* verification_log: events with a rejected row
    checkpoint,     \* table state_checkpoints; sequence 0 when there is no row
    cursors,        \* table sync_cursors: the last event seen, 0 for none
    thread,         \* the operation each thread is in, and its locals
    crashes

store == <<stored, accepted, rejected, checkpoint, cursors>>
vars == <<posted, store, thread, crashes>>

Events == DOMAIN posted

NoCheckpoint == [sequence |-> 0, state |-> Genesis]

NoPayload == [sequence |-> 0, prev |-> Genesis, new |-> Genesis, ok |-> FALSE]

\* "source" is empty and "last" 0 for an operation without a cursor.
Idle ==
    [pc |-> "idle", source |-> "", retry |-> FALSE, todo |-> {}, last |-> 0,
     event |-> 0, exists |-> FALSE, seen |-> NoCheckpoint, envelope |-> NoPayload]

Init ==
    /\ posted = <<>>
    /\ stored = {}
    /\ accepted = <<>>
    /\ rejected = {}
    /\ checkpoint = NoCheckpoint
    /\ cursors = [s \in Sources |-> 0]
    /\ thread = [t \in Threads |-> Idle]
    /\ crashes = 0

-----------------------------------------------------------------------------
\* The base layer.

\* Anyone may post any payload, again or out of sequence.
Post(p) ==
    /\ Len(posted) < MaxPosts
    /\ posted' = Append(posted,
          [payload |-> p, height |-> IF ReportsHeight THEN Len(posted) + 1 ELSE 0])
    /\ UNCHANGED <<store, thread, crashes>>

\* The order of _sorted_utxos and of event cursors: height, then the sequence
\* number in the payload, then the output's own id.
Before(e, f) ==
    LET a == posted[e]
        b == posted[f]
    IN  \/ a.height < b.height
        \/ /\ a.height = b.height
           /\ \/ a.payload.sequence < b.payload.sequence
              \/ a.payload.sequence = b.payload.sequence /\ e < f

\* events_after: the outputs the base layer lists now, less those at or before
\* the cursor.
EventsAfter(cursor) == {e \in Events : cursor = 0 \/ Before(cursor, e)}

IsFirst(e, S) == e \in S /\ \A f \in S \ {e} : Before(e, f)

-----------------------------------------------------------------------------
\* Operations start.

At(t, pc) == thread[t].pc = pc

MayStart(t) ==
    /\ At(t, "idle")
    /\ t \in Locked => \A u \in Locked : At(u, "idle")

\* sync_from_source: load the cursor.
StartSync(t, s, retry) ==
    /\ MayStart(t)
    /\ thread' = [thread EXCEPT ![t] =
          [Idle EXCEPT !.pc = "fetch", !.source = s, !.retry = retry,
                       !.last = cursors[s]]]
    /\ UNCHANGED <<posted, store, crashes>>

\* (Mutant of Fetch: the cursor is saved before the events are processed.)
FetchAndSaveCursor(t) ==
    /\ At(t, "fetch")
    /\ LET todo == EventsAfter(thread[t].last)
       IN  /\ thread' = [thread EXCEPT ![t].pc = "next", ![t].todo = todo]
           /\ \/ todo = {} /\ UNCHANGED cursors
              \/ \E e \in todo :
                    /\ \A f \in todo \ {e} : Before(f, e)
                    /\ cursors' = [cursors EXCEPT ![thread[t].source] = e]
    /\ UNCHANGED <<posted, stored, accepted, rejected, checkpoint, crashes>>

\* The source lists its outputs once, when the loop asks for the first event.
Fetch(t) ==
    /\ At(t, "fetch")
    /\ thread' = [thread EXCEPT ![t].pc = "next",
                                ![t].todo = EventsAfter(thread[t].last)]
    /\ UNCHANGED <<posted, store, crashes>>

\* ingest_event on one supplied event: no cursor is involved.
StartIngest(t, e, retry) ==
    /\ MayStart(t)
    /\ thread' = [thread EXCEPT ![t] =
          [Idle EXCEPT !.pc = "next", !.todo = {e}, !.retry = retry]]
    /\ UNCHANGED <<posted, store, crashes>>

-----------------------------------------------------------------------------
\* ingest_event, one store call at a time.

\* The thread is done with its current event.
Advance(local) ==
    [local EXCEPT !.pc = "next", !.todo = @ \ {local.event}, !.last = local.event,
                  !.event = 0, !.exists = FALSE, !.seen = NoCheckpoint]

\* _existing_event_is_terminal.
Terminal(e, retry) ==
    \/ \E i \in DOMAIN accepted : accepted[i].event = e
    \/ e \in rejected /\ ~retry

\* has_base_event and the duplicate check, on the next event in order.
Inspect(t) ==
    /\ At(t, "next")
    /\ \E e \in thread[t].todo :
          /\ IsFirst(e, thread[t].todo)
          /\ LET taken == [thread[t] EXCEPT !.pc = "checkpoint", !.event = e,
                                            !.exists = e \in stored]
             IN  thread' = [thread EXCEPT ![t] =
                     IF e \in stored /\ Terminal(e, thread[t].retry)
                     THEN Advance(taken) ELSE taken]
    /\ UNCHANGED <<posted, store, crashes>>

\* (Mutant of LoadCheckpoint: an event ahead of the checkpoint is not deferred.)
LoadCheckpointEager(t) ==
    /\ At(t, "checkpoint")
    /\ LET local == thread[t]
       IN  thread' = [thread EXCEPT ![t] =
                         IF posted[local.event].payload.sequence > checkpoint.sequence
                         THEN [local EXCEPT !.pc = "append", !.seen = checkpoint]
                         ELSE Advance(local)]
    /\ UNCHANGED <<posted, store, crashes>>

\* load_checkpoint: an event ahead of it is deferred and one behind it ignored,
\* neither being stored; both count as seen by the sync loop.
LoadCheckpoint(t) ==
    /\ At(t, "checkpoint")
    /\ LET local == thread[t]
           expected == checkpoint.sequence + 1
       IN  thread' = [thread EXCEPT ![t] =
                         IF posted[local.event].payload.sequence = expected
                         THEN [local EXCEPT !.pc = "append", !.seen = checkpoint]
                         ELSE Advance(local)]
    /\ UNCHANGED <<posted, store, crashes>>

\* (Mutant of AppendEvent: the event is not kept.)
AppendNothing(t) ==
    /\ At(t, "append")
    /\ thread' = [thread EXCEPT ![t].pc = "commit"]
    /\ UNCHANGED <<posted, store, crashes>>

\* append_base_event, unless the event was there already.  Losing the insert to
\* another thread makes the event a duplicate, except on a retry.
AppendEvent(t) ==
    /\ At(t, "append")
    /\ LET local == thread[t]
           lost == ~local.exists /\ local.event \in stored
       IN  thread' = [thread EXCEPT ![t] =
                         IF lost /\ ~local.retry THEN Advance(local)
                         ELSE [local EXCEPT !.pc = "commit"]]
    /\ stored' = stored \cup {thread[t].event}
    /\ UNCHANGED <<posted, accepted, rejected, checkpoint, cursors, crashes>>

\* (Mutant of Verifies: the actions are not re-executed.)
VerifiesLinkOnly(p, seen) == p.prev = seen.state

\* verify_transition against the state loaded before: the claimed previous
\* state is that state and the actions re-execute to the claimed new one.
Verifies(p, seen) == p.prev = seen.state /\ p.ok

\* verify_batch catches TransitionError only, and runs only on a matching
\* previous state.
Raises(p, seen) == p.prev = seen.state /\ p \in Raising

\* (Mutant of SequenceFree: no unique index.)
SequenceAlwaysFree(p) == TRUE

\* The unique index on accepted (sl_id, sequence).
SequenceFree(p) ==
    \A i \in DOMAIN accepted : accepted[i].payload.sequence # p.sequence

\* (Mutants of RecordAccepted: the checkpoint is left behind; the payload is
\* saved where its new state belongs.)
RecordLogOnly(by, e, p) ==
    /\ accepted' = Append(accepted, [by |-> by, event |-> e, payload |-> p])
    /\ UNCHANGED checkpoint

RecordPayloadAsState(by, e, p) ==
    /\ accepted' = Append(accepted, [by |-> by, event |-> e, payload |-> p])
    /\ checkpoint' = [sequence |-> p.sequence, state |-> p]

\* commit_verification of a valid payload: one transaction inserts the log row
\* and overwrites the checkpoint.  The row's "by", the operation that wrote it,
\* is auxiliary: the table has no such column.
RecordAccepted(by, e, p) ==
    /\ accepted' = Append(accepted, [by |-> by, event |-> e, payload |-> p])
    /\ checkpoint' = [sequence |-> p.sequence, state |-> p.new]

Commit(t) ==
    /\ At(t, "commit")
    /\ LET local == thread[t]
           p == posted[local.event].payload
       IN  \/ /\ Verifies(p, local.seen)
              /\ SequenceFree(p)
              /\ RecordAccepted("ingest", local.event, p)
              /\ thread' = [thread EXCEPT ![t] = Advance(local)]
              /\ UNCHANGED rejected
           \/ \* IntegrityError, or whatever F raised, ends the whole
              \* operation: no verdict, and no cursor is saved.
              /\ \/ Verifies(p, local.seen) /\ ~SequenceFree(p)
                 \/ Raises(p, local.seen)
              /\ thread' = [thread EXCEPT ![t] = Idle]
              /\ UNCHANGED <<accepted, checkpoint, rejected>>
           \/ /\ ~Verifies(p, local.seen)
              /\ ~Raises(p, local.seen)
              /\ rejected' = rejected \cup {local.event}
              /\ thread' = [thread EXCEPT ![t] = Advance(local)]
              /\ UNCHANGED <<accepted, checkpoint>>
    /\ UNCHANGED <<posted, stored, cursors, crashes>>

\* The loop is over: save_cursor, if a cursor is known.
Finish(t) ==
    /\ At(t, "next")
    /\ thread[t].todo = {}
    /\ LET local == thread[t]
       IN  cursors' = IF local.source = "" \/ local.last = 0 THEN cursors
                      ELSE [cursors EXCEPT ![local.source] = local.last]
    /\ thread' = [thread EXCEPT ![t] = Idle]
    /\ UNCHANGED <<posted, stored, accepted, rejected, checkpoint, crashes>>

-----------------------------------------------------------------------------
\* accept_envelope: the envelope's own previous state is re-executed first and
\* compared with the checkpoint only when there is one.  Whatever fails, nothing
\* is written.

StartEnvelope(t, p) ==
    /\ MayStart(t)
    /\ p.ok
    /\ p.sequence = checkpoint.sequence + 1
    /\ checkpoint.sequence # 0 => checkpoint.state = p.prev
    /\ thread' = [thread EXCEPT ![t] =
          [Idle EXCEPT !.pc = "commit_envelope", !.envelope = p, !.seen = checkpoint]]
    /\ UNCHANGED <<posted, store, crashes>>

\* The row names whatever event key the client sent along: none, or that of an
\* event never stored, not yet posted, or accepted before.
CommitEnvelope(t) ==
    /\ At(t, "commit_envelope")
    /\ LET p == thread[t].envelope
       IN  IF SequenceFree(p)
           THEN \E e \in EventKeys : RecordAccepted("accept", e, p)
           ELSE UNCHANGED <<accepted, checkpoint>>
    /\ thread' = [thread EXCEPT ![t] = Idle]
    /\ UNCHANGED <<posted, stored, rejected, cursors, crashes>>

\* The process stops; the database stays.
Crash ==
    /\ crashes < MaxCrashes
    /\ crashes' = crashes + 1
    /\ thread' = [t \in Threads |-> Idle]
    /\ UNCHANGED <<posted, store>>

Step(t) ==
    \/ Fetch(t)
    \/ Inspect(t)
    \/ LoadCheckpoint(t)
    \/ AppendEvent(t)
    \/ Commit(t)
    \/ Finish(t)
    \/ CommitEnvelope(t)

Start(t) ==
    \/ \E s \in Sources, retry \in BOOLEAN : StartSync(t, s, retry)
    \/ \E e \in Events, retry \in BOOLEAN : StartIngest(t, e, retry)
    \/ \E p \in Envelopes : StartEnvelope(t, p)

Next ==
    \/ \E p \in Payloads : Post(p)
    \/ \E t \in Threads : Start(t) \/ Step(t)
    \/ Crash

Spec == Init /\ [][Next]_vars

\* The poll loop keeps asking for STATE_LOCK and gets it again and again, unless
\* others who hold it do its work; an operation that has started goes on unless the
\* process stops.  Nothing makes a request come.
Poll == \E t \in Locked, s \in Sources : StartSync(t, s, FALSE)

PollSpec ==
    /\ Spec
    /\ \A t \in Threads : WF_vars(Step(t))
    /\ SF_vars(Poll)

-----------------------------------------------------------------------------
\* Properties.

Row == [by : {"ingest", "accept"}, event : Nat, payload : Payloads]

Checkpoint == [sequence : Nat, state : States]

Local ==
    [pc : {"idle", "fetch", "next", "checkpoint", "append", "commit",
           "commit_envelope"},
     source : Sources \cup {""}, retry : BOOLEAN, todo : SUBSET Events,
     last : Events \cup {0}, event : Events \cup {0}, exists : BOOLEAN,
     seen : Checkpoint, envelope : Payloads \cup {NoPayload}]

\* The tables hold what the code puts there.
TypeOK ==
    /\ posted \in Seq([payload : Payloads, height : Nat])
    /\ stored \subseteq Events /\ rejected \subseteq Events
    /\ accepted \in Seq(Row)
    /\ checkpoint \in Checkpoint
    /\ cursors \in [Sources -> Events \cup {0}]
    /\ thread \in [Threads -> Local]

\* The checkpoint the first n accepted payloads lead to.
HeadAt(n) ==
    IF n = 0 THEN NoCheckpoint
    ELSE [sequence |-> n, state |-> accepted[n].payload.new]

\* Whatever the interleaving of ingesting threads, the accepted rows are one
\* linked chain numbered from 1 and every one of them re-executes; the first,
\* if it was read from the base layer, starts in the genesis state.
Linked ==
    \A i \in DOMAIN accepted :
        LET row == accepted[i]
        IN  /\ row.payload.sequence = i
            /\ row.payload.ok
            /\ i > 1 \/ row.by = "ingest" => row.payload.prev = HeadAt(i - 1).state

\* The checkpoint clients read is the end of that chain: a slow thread never
\* overwrites it with an older state.
CheckpointIsHead == checkpoint = HeadAt(Len(accepted))

\* A rejection is final for an event, so it must be deserved: no event is
\* rejected whose payload was a valid successor of the accepted chain.
RejectedAreInvalid ==
    \A e \in rejected :
        LET p == posted[e].payload
        IN  /\ p.sequence <= Len(accepted) + 1
            /\ ~Verifies(p, HeadAt(p.sequence - 1))

\* The row of a payload that ingestion accepted names a stored event with that
\* payload.
RowsMatchEvents ==
    \A i \in DOMAIN accepted :
        LET row == accepted[i]
        IN  row.by = "ingest" =>
                row.event \in stored /\ row.payload = posted[row.event].payload

\* Every verdict ingestion gave has the event it is about kept beside it, also
\* after a crash between the two transactions.  A row the accept endpoints wrote
\* promises nothing of the kind: its event key is the client's.
EvidenceKept == rejected \subseteq stored /\ RowsMatchEvents

\* The engine with its concurrent threads, crashes and retries implements the
\* one-payload-at-a-time verifier.
Chain == INSTANCE VerifiedChain
            WITH chain <- [i \in DOMAIN accepted |-> accepted[i].payload]

ImplementsVerifiedChain == Chain!Spec

\* Events f[1], ..., f[n] carry the first n payloads of a chain from genesis and
\* were posted in that order.
PostedInOrder(n) ==
    \E f \in [1..n -> Events] :
        \A i \in 1..n :
            LET p == posted[f[i]].payload
            IN  /\ p.sequence = i /\ p.ok
                /\ p.prev = IF i = 1 THEN Genesis ELSE posted[f[i - 1]].payload.new
                /\ i > 1 => f[i - 1] < f[i]

PostedInAnyOrder(n) ==
    \A i \in 1..n : \E e \in Events :
        posted[e].payload.sequence = i /\ posted[e].payload.ok

\* A payload on which F raises is the next for the checkpoint and was posted
\* before every valid one: each pass of the poll loop ends at it.
Blocked ==
    \E e \in Events :
        /\ posted[e].payload.sequence = checkpoint.sequence + 1
        /\ Raises(posted[e].payload, checkpoint)
        /\ \A f \in 1..e - 1 :
              ~ /\ posted[f].payload.sequence = checkpoint.sequence + 1
                /\ Verifies(posted[f].payload, checkpoint)

\* A sync is about to lose the insert of an event to another thread, whose verdict
\* is not there yet: it takes the event for a duplicate, may defer the next one for
\* want of that verdict, and saves its cursor behind both.
Overtaken ==
    \E t \in Threads :
        /\ At(t, "append")
        /\ thread[t].source # "" /\ ~thread[t].retry
        /\ ~thread[t].exists /\ thread[t].event \in stored

\* If nobody equivocates (at most one payload per sequence re-executes), a chain
\* posted in order is accepted in the end, whatever invalid, duplicate or early
\* payloads are posted between, whatever other threads ingest beside the poll loop,
\* with the lock or without, and however often the process restarts -- unless a
\* payload that makes F raise stands in the way or a sync loses an insert, after
\* which the chain may be left where it is for good.
PollerCatchesUp ==
    []~Overtaken =>
        \A n \in 1..MaxPosts : PostedInOrder(n) ~> Len(accepted) >= n \/ Blocked

\* The engine reports an event ahead of the checkpoint as deferred, "waiting for
\* sequence n": once that sequence has been posted too, the event is accepted.
DeferredIsRetried ==
    \A n \in 1..MaxPosts : PostedInAnyOrder(n) ~> Len(accepted) >= n

=============================================================================
