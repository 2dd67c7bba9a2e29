---------------------------- MODULE BundleIndex ----------------------------
(***************************************************************************)
(* Ingestion of bundles (engine.py, _ingest_bundle): one base-layer event  *)
(* carries payloads of several semantic layers.  The engine looks at the   *)
(* children one after the other, each against its own layer's checkpoint,  *)
(* and commits those it staged in one transaction per child, so a restart, *)
(* an exception or another thread may come between two children.           *)
(*                                                                         *)
(* Abstractions, beyond those of VerifierIndex.  Children of layers that   *)
(* are not registered are dropped.  Whether a child re-executes may depend *)
(* on its siblings (the bundle is its context), which never change: "ok"   *)
(* says it for the child in its bundle.  Outputs carry heights, so events  *)
(* are listed in posting order and a cursor is the number of an event.     *)
(***************************************************************************)
EXTENDS Integers, Sequences, FiniteSets

CONSTANTS
    Layers,         \* the registered semantic layers: an sl_id and a version
    SlOf,           \* the sl_id of each
    States,
    Genesis,        \* the genesis state of each layer
    Children,       \* child payloads
    Raising,        \* children on which F raises something unexpected
    Bundles,        \* what may be posted; undecodable bundles have no children
    Plain,          \* payloads other operations accept, from an event of their
                    \* own or from an envelope (VerifierIndex)
    EventKeys,      \* event keys those rows name: 0 for none or a plain event,
                    \* else a bundle's, which a client sent with an envelope
    Threads,
    Locked,         \* threads that run under STATE_LOCK
    Sources,        \* names cursors are kept under, one per polled layer; each
                    \* source lists the events of all layers
    MaxPosts,       \* bound: bundles posted
    MaxCrashes      \* bound: restarts of the API process

ASSUME BundleAssumption ==
    /\ DOMAIN SlOf = Layers
    /\ Genesis \in [Layers -> States]
    /\ Children \subseteq [layer : Layers, sequence : Nat \ {0}, prev : States,
                           new : States, ok : BOOLEAN]
    /\ Raising \subseteq {c \in Children : ~c.ok}
    /\ Bundles \subseteq [decodable : BOOLEAN, children : Seq(Children)]
    /\ \A b \in Bundles : ~b.decodable => b.children = <<>>
    /\ Plain \subseteq Children
    /\ EventKeys \subseteq Nat
    /\ Locked \subseteq Threads

VARIABLES
    posted,         \* base layer: the bundles in posting order; an event is an
                    \* index of this sequence
    stored,         \* table base_events
    accepted,       \* verification_log: each layer's accepted rows, in order
    rejected,       \* verification_log: events with a rejected row
    checkpoint,     \* table state_checkpoints; sequence 0 without a row
    cursors,        \* table sync_cursors: the last event seen, 0 for none
    thread,
    crashes

tables == <<stored, accepted, rejected, checkpoint, cursors>>
vars == <<posted, tables, thread, crashes>>

Events == DOMAIN posted

ChildrenOf(e) == posted[e].children

\* The engine works from "event" to "last"; "staged" are the children of the
\* current one that verified, "rejecting" says that one did not; "source" is
\* empty for an operation without a cursor.
Idle ==
    [pc |-> "idle", source |-> "", retry |-> FALSE, event |-> 0, last |-> 0,
     child |-> 1, staged |-> <<>>, rejecting |-> FALSE]

Init ==
    /\ posted = <<>>
    /\ stored = {}
    /\ accepted = [l \in Layers |-> <<>>]
    /\ rejected = {}
    /\ checkpoint = [l \in Layers |-> [sequence |-> 0, state |-> Genesis[l]]]
    /\ cursors = [s \in Sources |-> 0]
    /\ thread = [t \in Threads |-> Idle]
    /\ crashes = 0

At(t, pc) == thread[t].pc = pc

-----------------------------------------------------------------------------
\* The log.

\* (Mutant of SequenceFree: no unique index.)
SequenceAlwaysFree(c) == TRUE

\* The unique index on accepted (sl_id, sequence).
SequenceFree(c) ==
    \A l \in Layers :
        SlOf[l] = SlOf[c.layer] =>
            \A i \in DOMAIN accepted[l] : accepted[l][i].payload.sequence # c.sequence

\* commit_verification of one valid child.  The row's "by", the operation that
\* wrote it, is auxiliary: the table has no such column.
RecordAccepted(by, e, c) ==
    /\ accepted' = [accepted EXCEPT ![c.layer] =
                       Append(@, [by |-> by, event |-> e, payload |-> c])]
    /\ checkpoint' = [checkpoint EXCEPT ![c.layer] =
                         [sequence |-> c.sequence, state |-> c.new]]

\* has_accepted_verification: any accepted row that names the event.
HasAccepted(e) ==
    \E l \in Layers : \E i \in DOMAIN accepted[l] : accepted[l][i].event = e

-----------------------------------------------------------------------------
\* The surroundings.

Post(b) ==
    /\ Len(posted) < MaxPosts
    /\ posted' = Append(posted, b)
    /\ UNCHANGED <<tables, thread, crashes>>

\* Another operation extends a layer's chain, as VerifiedChain describes it.  The
\* event key of an envelope is the client's: any bundle's, stored or not.
AcceptPlain(p) ==
    /\ p.ok
    /\ p.sequence = checkpoint[p.layer].sequence + 1
    /\ p.sequence > 1 => p.prev = checkpoint[p.layer].state
    /\ SequenceFree(p)
    /\ \E e \in EventKeys : RecordAccepted("plain", e, p)
    /\ UNCHANGED <<posted, stored, rejected, cursors, thread, crashes>>

\* The process stops; the database stays.
Crash ==
    /\ crashes < MaxCrashes
    /\ crashes' = crashes + 1
    /\ thread' = [t \in Threads |-> Idle]
    /\ UNCHANGED <<posted, tables>>

-----------------------------------------------------------------------------
\* Operations start and end.

MayStart(t) ==
    /\ At(t, "idle")
    /\ t \in Locked => \A u \in Locked : At(u, "idle")

\* sync_from_source: the events listed after the cursor, one by one.  The poll
\* loop does not retry rejected events, a waiting submission does.
StartSync(t, s, retry) ==
    /\ MayStart(t)
    /\ retry => t \notin Locked
    /\ thread' = [thread EXCEPT ![t] =
          [Idle EXCEPT !.pc = "next", !.source = s, !.retry = retry,
                       !.event = cursors[s] + 1, !.last = Len(posted)]]
    /\ UNCHANGED <<posted, tables, crashes>>

\* ingest_event on one supplied event: notify and ingest-event.
StartIngest(t, e, retry) ==
    /\ t \in Locked
    /\ MayStart(t)
    /\ thread' = [thread EXCEPT ![t] =
          [Idle EXCEPT !.pc = "next", !.retry = retry, !.event = e, !.last = e]]
    /\ UNCHANGED <<posted, tables, crashes>>

\* (Mutant of Finish: the cursor is one ahead.)
FinishAhead(t) ==
    /\ At(t, "next")
    /\ thread[t].event > thread[t].last
    /\ cursors' = [s \in Sources |->
                      IF s = thread[t].source THEN thread[t].last + 1 ELSE cursors[s]]
    /\ thread' = [thread EXCEPT ![t] = Idle]
    /\ UNCHANGED <<posted, stored, accepted, rejected, checkpoint, crashes>>

\* save_cursor, if there is one.
Finish(t) ==
    /\ At(t, "next")
    /\ thread[t].event > thread[t].last
    /\ cursors' = [s \in Sources |->
                      IF s = thread[t].source THEN thread[t].last ELSE cursors[s]]
    /\ thread' = [thread EXCEPT ![t] = Idle]
    /\ UNCHANGED <<posted, stored, accepted, rejected, checkpoint, crashes>>

-----------------------------------------------------------------------------
\* _ingest_bundle, one store call at a time.

\* On to the next event.
Done(local) ==
    [Idle EXCEPT !.pc = "next", !.source = local.source, !.retry = local.retry,
                 !.event = local.event + 1, !.last = local.last]

\* (Mutant of Duplicate: a bundle with an accepted child is one, as a single
\* payload would be.)
DuplicateOnceAccepted(local) ==
    /\ local.event \in stored
    /\ HasAccepted(local.event) \/ (local.event \in rejected /\ ~local.retry)

\* Already rejected, with no child accepted: a duplicate unless on a retry.
Duplicate(local) ==
    /\ local.event \in stored \cap rejected
    /\ ~HasAccepted(local.event)
    /\ ~local.retry

\* has_base_event, the duplicate check and the decoding of the bundle.  (That the
\* event was there only spares append_base_event an insert without effect.)
Inspect(t) ==
    /\ At(t, "next")
    /\ thread[t].event <= thread[t].last
    /\ LET local == thread[t]
           bundle == posted[local.event]
       IN  thread' = [thread EXCEPT ![t] =
               IF Duplicate(local) THEN Done(local)
               ELSE IF bundle.children = <<>>
               THEN [local EXCEPT !.pc = "append", !.rejecting = ~bundle.decodable]
               ELSE [local EXCEPT !.pc = "checkpoint"]]
    /\ UNCHANGED <<posted, tables, crashes>>

\* (Mutant of Verifies: the actions are not re-executed.)
VerifiesLinkOnly(c, seen) == c.prev = seen.state

\* verify_transition against the state just loaded.
Verifies(c, seen) == c.prev = seen.state /\ c.ok

Raises(c, seen) == c.prev = seen.state /\ c \in Raising

\* After the last child: a bundle all of whose children are behind is left
\* alone, otherwise the event is stored and the staged children committed.
NextChild(local) ==
    IF local.child < Len(ChildrenOf(local.event))
    THEN [local EXCEPT !.child = @ + 1]
    ELSE IF local.staged = <<>> THEN Done(local)
    ELSE [local EXCEPT !.pc = "append"]

\* (Mutant of Examine: a child ahead of its layer is passed over like one that
\* is behind it.)
ExamineWithoutDeferring(t) ==
    /\ At(t, "checkpoint")
    /\ LET local == thread[t]
           c == ChildrenOf(local.event)[local.child]
           seen == checkpoint[c.layer]
       IN  thread' = [thread EXCEPT ![t] =
               IF c.sequence # seen.sequence + 1 THEN NextChild(local)
               ELSE IF Verifies(c, seen)
               THEN NextChild([local EXCEPT !.staged = Append(@, local.child)])
               ELSE IF Raises(c, seen) THEN Idle
               ELSE [local EXCEPT !.pc = "append", !.rejecting = TRUE]]
    /\ UNCHANGED <<posted, tables, crashes>>

\* (Mutant of Examine: a child behind its layer counts as invalid.)
ExamineRejectingBehind(t) ==
    /\ At(t, "checkpoint")
    /\ LET local == thread[t]
           c == ChildrenOf(local.event)[local.child]
           seen == checkpoint[c.layer]
       IN  thread' = [thread EXCEPT ![t] =
               IF c.sequence > seen.sequence + 1 THEN Done(local)
               ELSE IF Verifies(c, seen)
               THEN NextChild([local EXCEPT !.staged = Append(@, local.child)])
               ELSE IF Raises(c, seen) THEN Idle
               ELSE [local EXCEPT !.pc = "append", !.rejecting = TRUE]]
    /\ UNCHANGED <<posted, tables, crashes>>

\* load_checkpoint for the next child and its verification.  A child ahead of
\* its layer defers the whole bundle, one behind is skipped, an invalid one
\* rejects the bundle, whatever children come after it.
Examine(t) ==
    /\ At(t, "checkpoint")
    /\ LET local == thread[t]
           c == ChildrenOf(local.event)[local.child]
           seen == checkpoint[c.layer]
       IN  thread' = [thread EXCEPT ![t] =
               IF c.sequence > seen.sequence + 1 THEN Done(local)
               ELSE IF c.sequence <= seen.sequence THEN NextChild(local)
               ELSE IF Verifies(c, seen)
               THEN NextChild([local EXCEPT !.staged = Append(@, local.child)])
               ELSE IF Raises(c, seen) THEN Idle
               ELSE [local EXCEPT !.pc = "append", !.rejecting = TRUE]]
    /\ UNCHANGED <<posted, tables, crashes>>

\* (Mutant of AppendEvent: only rejected and ignored bundles are kept.)
AppendUnaccepted(t) ==
    /\ At(t, "append")
    /\ LET local == thread[t]
       IN  /\ thread' = [thread EXCEPT ![t] =
                 IF local.rejecting \/ local.staged # <<>>
                 THEN [local EXCEPT !.pc = "commit"] ELSE Done(local)]
           /\ stored' = IF local.staged = <<>> THEN stored \cup {local.event} ELSE stored
    /\ UNCHANGED <<posted, accepted, rejected, checkpoint, cursors, crashes>>

\* append_base_event.
AppendEvent(t) ==
    /\ At(t, "append")
    /\ LET local == thread[t]
       IN  /\ thread' = [thread EXCEPT ![t] =
                 IF local.rejecting \/ local.staged # <<>>
                 THEN [local EXCEPT !.pc = "commit"] ELSE Done(local)]
           /\ stored' = stored \cup {local.event}
    /\ UNCHANGED <<posted, accepted, rejected, checkpoint, cursors, crashes>>

\* One rejected row stands for the whole bundle; no child is committed.
CommitRejection(t) ==
    /\ At(t, "commit")
    /\ thread[t].rejecting
    /\ rejected' = rejected \cup {thread[t].event}
    /\ thread' = [thread EXCEPT ![t] = Done(thread[t])]
    /\ UNCHANGED <<posted, stored, accepted, checkpoint, cursors, crashes>>

\* The first of the staged children.  If its number was taken meanwhile, an
\* IntegrityError ends the operation.
CommitChild(t) ==
    /\ At(t, "commit")
    /\ ~thread[t].rejecting
    /\ LET local == thread[t]
           c == ChildrenOf(local.event)[Head(local.staged)]
           rest == Tail(local.staged)
       IN  \/ /\ SequenceFree(c)
              /\ RecordAccepted("bundle", local.event, c)
              /\ thread' = [thread EXCEPT ![t] =
                    IF rest = <<>> THEN Done(local) ELSE [local EXCEPT !.staged = rest]]
           \/ /\ ~SequenceFree(c)
              /\ thread' = [thread EXCEPT ![t] = Idle]
              /\ UNCHANGED <<accepted, checkpoint>>
    /\ UNCHANGED <<posted, stored, rejected, cursors, crashes>>

Step(t) ==
    \/ Inspect(t)
    \/ Examine(t)
    \/ AppendEvent(t)
    \/ CommitRejection(t)
    \/ CommitChild(t)
    \/ Finish(t)

Start(t) ==
    \/ \E s \in Sources, retry \in BOOLEAN : StartSync(t, s, retry)
    \/ \E e \in Events, retry \in BOOLEAN : StartIngest(t, e, retry)

Next ==
    \/ \E b \in Bundles : Post(b)
    \/ \E p \in Plain : AcceptPlain(p)
    \/ \E t \in Threads : Start(t) \/ Step(t)
    \/ Crash

Spec == Init /\ [][Next]_vars

\* As in VerifierIndex: the poll loop comes back, and what it has started goes
\* on.  The threads without the lock may stop anywhere.
PollSpec ==
    /\ Spec
    /\ \A t \in Locked : WF_vars(Step(t))
    /\ \A t \in Locked, s \in Sources : SF_vars(StartSync(t, s, FALSE))

-----------------------------------------------------------------------------
\* Properties.

Row == [by : {"bundle", "plain"}, event : Nat, payload : Children]

Checkpoint == [sequence : Nat, state : States]

Local ==
    [pc : {"idle", "next", "checkpoint", "append", "commit"},
     source : Sources \cup {""}, retry : BOOLEAN, event : Nat, last : Nat,
     child : Nat \ {0}, staged : Seq(Nat \ {0}), rejecting : BOOLEAN]

\* The tables hold what the code puts there.
TypeOK ==
    /\ posted \in Seq(Bundles)
    /\ stored \subseteq Events /\ rejected \subseteq Events
    /\ accepted \in [Layers -> Seq(Row)]
    /\ checkpoint \in [Layers -> Checkpoint]
    /\ cursors \in [Sources -> 0..Len(posted)]
    /\ thread \in [Threads -> Local]

\* The checkpoint the first n accepted payloads of a layer lead to.
HeadAt(l, n) ==
    [sequence |-> n,
     state |-> IF n = 0 THEN Genesis[l] ELSE accepted[l][n].payload.new]

\* Whatever comes between the children of a bundle, each layer's accepted rows
\* are one linked chain numbered from 1, all of which re-executes, and the
\* layer's checkpoint is its end.
Linked ==
    \A l \in Layers :
        /\ checkpoint[l] = HeadAt(l, Len(accepted[l]))
        /\ \A i \in DOMAIN accepted[l] :
              LET row == accepted[l][i]
              IN  /\ row.payload.layer = l
                  /\ row.payload.sequence = i
                  /\ row.payload.ok
                  /\ i > 1 \/ row.by = "bundle" =>
                        row.payload.prev = HeadAt(l, i - 1).state

IsChild(c, e) == \E i \in DOMAIN ChildrenOf(e) : c = ChildrenOf(e)[i]

\* The row of an accepted child names a stored bundle with that child.
RowsMatchBundles ==
    \A l \in Layers : \A i \in DOMAIN accepted[l] :
        LET row == accepted[l][i]
        IN  row.by = "bundle" =>
                row.event \in stored /\ IsChild(row.payload, row.event)

\* Every verdict on a bundle or a child of one has the bundle beside it.
EvidenceKept == rejected \subseteq stored /\ RowsMatchBundles

\* A child of the bundle was accepted (a row may name the bundle without).
ChildAccepted(e) ==
    \E l \in Layers : \E i \in DOMAIN accepted[l] :
        accepted[l][i].by = "bundle" /\ accepted[l][i].event = e

\* The child is one its layer never takes at its number.
Bad(c) ==
    /\ c.sequence <= Len(accepted[c.layer]) + 1
    /\ ~Verifies(c, HeadAt(c.layer, c.sequence - 1))

\* A bundle is rejected for a bad child only.  If another child of it was
\* accepted all the same -- on a retry, or by a thread that saw a layer later --
\* then the bad child's number has gone to another payload.
RejectionsAreDeserved ==
    \A e \in rejected :
        \/ ~posted[e].decodable
        \/ \E i \in DOMAIN ChildrenOf(e) :
              LET c == ChildrenOf(e)[i]
              IN  Bad(c) /\ (ChildAccepted(e) => c.sequence <= Len(accepted[c.layer]))

\* The child's number has been given out on its layer.
Settled(c) == c.sequence <= Len(accepted[c.layer])

\* Children are committed one by one, but a bundle is never stuck half way: as
\* long as another child's number is not given out, that child is the next one
\* of its layer and verifies.
HalfCommittedCanBeCompleted ==
    \A e \in Events :
        ChildAccepted(e) =>
            \A i \in DOMAIN ChildrenOf(e) :
                LET c == ChildrenOf(e)[i]
                    n == Len(accepted[c.layer])
                IN  Settled(c) \/ (c.sequence = n + 1 /\ Verifies(c, HeadAt(c.layer, n)))

\* Bundles, threads, retries and restarts notwithstanding, each layer has the
\* one-payload-at-a-time verifier.
Chains == INSTANCE VerifiedChains
             WITH Payloads <- Children,
                  chains <- [l \in Layers |->
                      [i \in DOMAIN accepted[l] |-> accepted[l][i].payload]]

ImplementsVerifiedChains == Chains!Spec

\* A bundle left half committed by a restart, while some cursor had not passed
\* it, is completed by later passes, unless a payload that makes F raise stops
\* every one of them.
Interrupted(e) ==
    /\ e \in Events
    /\ ChildAccepted(e)
    /\ \E s \in Sources : cursors[s] < e
    /\ \A t \in Threads : At(t, "idle")

Completed(e) ==
    e \in Events /\ \A i \in DOMAIN ChildrenOf(e) : Settled(ChildrenOf(e)[i])

RaisingPosted ==
    \E e \in Events : \E i \in DOMAIN ChildrenOf(e) : ChildrenOf(e)[i] \in Raising

InterruptedIsCompleted ==
    \A e \in 1..MaxPosts : Interrupted(e) ~> Completed(e) \/ RaisingPosted

=============================================================================
