------------------------ MODULE VerifierIndexProofs ------------------------
(***************************************************************************)
(* Theorems about VerifierIndex, for every number of threads, sources,     *)
(* posts and restarts.                                                     *)
(*                                                                         *)
(* The argument.  Linked is not inductive by itself: what a thread commits *)
(* depends on the checkpoint it loaded some steps ago.  SeenIsHead says    *)
(* that this was the head of a prefix of the chain that is still there.    *)
(* The payload then carries the number after that prefix, so the unique    *)
(* index lets the commit through only if the prefix is the whole chain --  *)
(* and in that case the payload extends it.                                *)
(***************************************************************************)
EXTENDS VerifierIndex, SequenceTheorems, TLAPS

\* c is the head of a prefix of the accepted chain.
IsHead(c) == c.sequence \in 0..Len(accepted) /\ c = HeadAt(c.sequence)

\* What the locals of a thread say about the tables.
LocalSound(local) ==
    /\ local.pc \in {"checkpoint", "append", "commit"} => local.event \in Events
    /\ local.pc \in {"append", "commit"} =>
          /\ IsHead(local.seen)
          /\ posted[local.event].payload.sequence = local.seen.sequence + 1
    /\ local.pc \in {"checkpoint", "append"} /\ local.exists =>
          local.event \in stored
    /\ local.pc = "commit" => local.event \in stored
    /\ local.pc = "commit_envelope" =>
          /\ IsHead(local.seen)
          /\ local.envelope \in Payloads /\ local.envelope.ok
          /\ local.envelope.sequence = local.seen.sequence + 1
          /\ local.seen.sequence # 0 => local.envelope.prev = local.seen.state

SeenIsHead == \A t \in Threads : LocalSound(thread[t])

IInv ==
    /\ TypeOK
    /\ Linked
    /\ CheckpointIsHead
    /\ RejectedAreInvalid
    /\ rejected \subseteq stored
    /\ RowsMatchEvents
    /\ SeenIsHead

-----------------------------------------------------------------------------
\* Types.

LEMMA IdleType == Idle \in Local
  BY IndexAssumption DEF Idle, Local, NoCheckpoint, Checkpoint, NoPayload

LEMMA AdvanceType ==
    ASSUME NEW l \in Local
    PROVE  Advance(l) \in Local /\ Advance(l).pc = "next"
  BY IndexAssumption DEF Advance, Local, NoCheckpoint, Checkpoint

\* Payloads of posted events are payloads, and their sequence numbers are
\* positive.
LEMMA PostedType ==
    ASSUME TypeOK, NEW e \in Events
    PROVE  /\ posted[e] \in [payload : Payloads, height : Nat]
           /\ posted[e].payload \in Payloads
           /\ posted[e].payload.sequence \in Nat \ {0}
           /\ posted[e].payload.new \in States
           /\ posted[e].payload.prev \in States
<1>1. posted[e] \in [payload : Payloads, height : Nat]
  <2>1. posted \in Seq([payload : Payloads, height : Nat])
    BY DEF TypeOK
  <2>2. e \in 1..Len(posted)
    BY <2>1 DEF Events
  <2> QED
    BY <2>1, <2>2, ElementOfSeq
<1> QED
  BY <1>1, IndexAssumption

LEMMA CheckpointIsAHead ==
    ASSUME IInv
    PROVE  IsHead(checkpoint) /\ checkpoint.sequence = Len(accepted)
<1>1. accepted \in Seq(Row) /\ checkpoint = HeadAt(Len(accepted))
  BY DEF IInv, TypeOK, CheckpointIsHead
<1>2. checkpoint.sequence = Len(accepted)
  BY <1>1 DEF HeadAt, NoCheckpoint
<1> QED
  BY <1>1, <1>2 DEF IsHead

LEMMA IdleSound ==
    ASSUME NEW l, l.pc \in {"idle", "fetch", "next"}
    PROVE  LocalSound(l)
  BY DEF LocalSound

-----------------------------------------------------------------------------
\* A step of one thread that writes no table but cursors.
LEMMA ThreadStep ==
    ASSUME IInv, NEW t \in Threads, NEW l \in Local, LocalSound(l),
           thread' = [thread EXCEPT ![t] = l],
           UNCHANGED <<posted, stored, accepted, rejected, checkpoint>>,
           cursors' \in [Sources -> Events \cup {0}]
    PROVE  IInv'
<1>1. Events' = Events /\ Local' = Local
  BY DEF Events, Local
<1>2. TypeOK'
  BY <1>1 DEF IInv, TypeOK, Row
<1>3. \A n : HeadAt(n)' = HeadAt(n)
  BY DEF HeadAt
<1>4. Linked' /\ CheckpointIsHead' /\ RejectedAreInvalid' /\ RowsMatchEvents'
  BY <1>3 DEF IInv, Linked, CheckpointIsHead, RejectedAreInvalid,
              RowsMatchEvents, Verifies
<1>5. \A k : LocalSound(k)' <=> LocalSound(k)
  BY <1>1, <1>3 DEF LocalSound, IsHead
<1>6. SeenIsHead'
  BY <1>5 DEF IInv, SeenIsHead, TypeOK
<1> QED
  BY <1>2, <1>4, <1>6 DEF IInv

-----------------------------------------------------------------------------
\* The actions that only move a thread on.

LEMMA StartSyncStep ==
    ASSUME IInv, NEW t \in Threads, NEW s \in Sources, NEW retry \in BOOLEAN,
           StartSync(t, s, retry)
    PROVE  IInv'
<1> DEFINE l == [Idle EXCEPT !.pc = "fetch", !.source = s, !.retry = retry,
                             !.last = cursors[s]]
<1>1. cursors[s] \in Events \cup {0} /\ cursors \in [Sources -> Events \cup {0}]
  BY DEF IInv, TypeOK
<1>2. l \in Local /\ l.pc = "fetch"
  BY <1>1, IdleType DEF Local
<1>3. /\ thread' = [thread EXCEPT ![t] = l]
      /\ UNCHANGED <<posted, stored, accepted, rejected, checkpoint>>
      /\ cursors' = cursors
  BY DEF StartSync, store
<1> HIDE DEF l
<1>4. LocalSound(l)
  BY <1>2, IdleSound
<1> QED
  BY <1>1, <1>2, <1>3, <1>4, ThreadStep

LEMMA FetchStep ==
    ASSUME IInv, NEW t \in Threads, Fetch(t)
    PROVE  IInv'
<1> DEFINE l == [thread[t] EXCEPT !.pc = "next", !.todo = EventsAfter(thread[t].last)]
<1>1. thread[t] \in Local /\ cursors \in [Sources -> Events \cup {0}]
  BY DEF IInv, TypeOK
<1>2. EventsAfter(thread[t].last) \in SUBSET Events
  BY DEF EventsAfter
<1>3. l \in Local /\ l.pc = "next"
  BY <1>1, <1>2 DEF Local
<1>4. thread \in [Threads -> Local]
  BY DEF IInv, TypeOK
<1>5. /\ thread' = [thread EXCEPT ![t] = l]
      /\ UNCHANGED <<posted, stored, accepted, rejected, checkpoint>>
      /\ cursors' = cursors
  BY <1>4 DEF Fetch, store
<1> HIDE DEF l
<1>6. LocalSound(l)
  BY <1>3, IdleSound
<1> QED
  BY <1>1, <1>3, <1>5, <1>6, ThreadStep

LEMMA StartIngestStep ==
    ASSUME IInv, NEW t \in Threads, NEW e \in Events, NEW retry \in BOOLEAN,
           StartIngest(t, e, retry)
    PROVE  IInv'
<1> DEFINE l == [Idle EXCEPT !.pc = "next", !.todo = {e}, !.retry = retry]
<1>1. cursors \in [Sources -> Events \cup {0}]
  BY DEF IInv, TypeOK
<1>2. l \in Local /\ l.pc = "next"
  BY IdleType DEF Local
<1>3. /\ thread' = [thread EXCEPT ![t] = l]
      /\ UNCHANGED <<posted, stored, accepted, rejected, checkpoint>>
      /\ cursors' = cursors
  BY DEF StartIngest, store
<1> HIDE DEF l
<1>4. LocalSound(l)
  BY <1>2, IdleSound
<1> QED
  BY <1>1, <1>2, <1>3, <1>4, ThreadStep

LEMMA InspectStep ==
    ASSUME IInv, NEW t \in Threads, Inspect(t)
    PROVE  IInv'
<1>1. PICK e \in thread[t].todo :
          LET taken == [thread[t] EXCEPT !.pc = "checkpoint", !.event = e,
                                         !.exists = e \in stored]
          IN  thread' = [thread EXCEPT ![t] =
                  IF e \in stored /\ Terminal(e, thread[t].retry)
                  THEN Advance(taken) ELSE taken]
  BY DEF Inspect
<1> DEFINE taken == [thread[t] EXCEPT !.pc = "checkpoint", !.event = e,
                                      !.exists = e \in stored]
<1>2. thread[t] \in Local /\ cursors \in [Sources -> Events \cup {0}]
  BY DEF IInv, TypeOK
<1>3. e \in Events
  BY <1>2 DEF Local
<1>4. taken \in Local
  <2> DEFINE b == e \in stored
  <2>1. b \in BOOLEAN
    OBVIOUS
  <2>2. [thread[t] EXCEPT !.pc = "checkpoint", !.event = e, !.exists = b] \in Local
    <3> HIDE DEF b
    <3> QED
      BY <1>2, <1>3, <2>1 DEF Local
  <2> QED
    BY <2>2
<1>5. /\ taken.pc = "checkpoint" /\ taken.event = e
      /\ taken.exists => e \in stored
  BY <1>2 DEF Local
<1>6. UNCHANGED <<posted, stored, accepted, rejected, checkpoint>> /\ cursors' = cursors
  BY DEF Inspect, store
<1>7. \/ thread' = [thread EXCEPT ![t] = Advance(taken)]
      \/ thread' = [thread EXCEPT ![t] = taken]
  BY <1>1
<1> HIDE DEF taken
<1>8. LocalSound(taken)
  BY <1>3, <1>5 DEF LocalSound
<1>9. Advance(taken) \in Local /\ LocalSound(Advance(taken))
  BY <1>4, AdvanceType, IdleSound
<1> QED
  BY <1>2, <1>4, <1>6, <1>7, <1>8, <1>9, ThreadStep

LEMMA LoadCheckpointStep ==
    ASSUME IInv, NEW t \in Threads, LoadCheckpoint(t)
    PROVE  IInv'
<1> DEFINE local == thread[t]
           l == [local EXCEPT !.pc = "append", !.seen = checkpoint]
<1>1. /\ local \in Local /\ LocalSound(local) /\ local.pc = "checkpoint"
      /\ cursors \in [Sources -> Events \cup {0}]
      /\ checkpoint \in Checkpoint
  BY DEF IInv, TypeOK, SeenIsHead, LoadCheckpoint, At
<1>2. l \in Local
  BY <1>1 DEF Local
<1>3. /\ l.pc = "append" /\ l.seen = checkpoint /\ l.event = local.event
      /\ l.exists = local.exists
  BY <1>1 DEF Local
<1>4. IsHead(checkpoint)
  BY CheckpointIsAHead
<1>5. UNCHANGED <<posted, stored, accepted, rejected, checkpoint>> /\ cursors' = cursors
  BY DEF LoadCheckpoint, store
<1>6. \/ thread' = [thread EXCEPT ![t] = Advance(local)]
      \/ /\ posted[local.event].payload.sequence = checkpoint.sequence + 1
         /\ thread' = [thread EXCEPT ![t] = l]
  BY DEF LoadCheckpoint
<1> HIDE DEF l
<1>7. posted[local.event].payload.sequence = checkpoint.sequence + 1 =>
          LocalSound(l)
  BY <1>1, <1>3, <1>4 DEF LocalSound
<1>8. Advance(local) \in Local /\ LocalSound(Advance(local))
  BY <1>1, AdvanceType, IdleSound
<1> HIDE DEF local
<1> QED
  BY <1>1, <1>2, <1>5, <1>6, <1>7, <1>8, ThreadStep

LEMMA StartEnvelopeStep ==
    ASSUME IInv, NEW t \in Threads, NEW p \in Envelopes, StartEnvelope(t, p)
    PROVE  IInv'
<1> DEFINE l == [Idle EXCEPT !.pc = "commit_envelope", !.envelope = p,
                             !.seen = checkpoint]
<1>1. /\ cursors \in [Sources -> Events \cup {0}] /\ checkpoint \in Checkpoint
      /\ p \in Payloads
  BY IndexAssumption DEF IInv, TypeOK
<1>2. l \in Local
  BY <1>1, IdleType DEF Local
<1>3. l.pc = "commit_envelope" /\ l.envelope = p /\ l.seen = checkpoint
  BY DEF Idle
<1>4. IsHead(checkpoint)
  BY CheckpointIsAHead
<1>5. /\ thread' = [thread EXCEPT ![t] = l]
      /\ UNCHANGED <<posted, stored, accepted, rejected, checkpoint>>
      /\ cursors' = cursors
      /\ p.ok /\ p.sequence = checkpoint.sequence + 1
      /\ checkpoint.sequence # 0 => p.prev = checkpoint.state
  BY DEF StartEnvelope, store
<1> HIDE DEF l
<1>6. LocalSound(l)
  BY <1>1, <1>3, <1>4, <1>5 DEF LocalSound
<1> QED
  BY <1>1, <1>2, <1>5, <1>6, ThreadStep

LEMMA FinishStep ==
    ASSUME IInv, NEW t \in Threads, Finish(t)
    PROVE  IInv'
<1> DEFINE local == thread[t]
<1>1. /\ local \in Local /\ cursors \in [Sources -> Events \cup {0}]
  BY DEF IInv, TypeOK
<1>2. cursors' \in [Sources -> Events \cup {0}]
  <2>1. cursors' = IF local.source = "" \/ local.last = 0 THEN cursors
                   ELSE [cursors EXCEPT ![local.source] = local.last]
    BY DEF Finish
  <2>2. local.last \in Events \cup {0}
    BY <1>1 DEF Local
  <2> HIDE DEF local
  <2> QED
    BY <1>1, <2>1, <2>2
<1>3. /\ thread' = [thread EXCEPT ![t] = Idle]
      /\ UNCHANGED <<posted, stored, accepted, rejected, checkpoint>>
  BY DEF Finish
<1>4. Idle \in Local /\ LocalSound(Idle)
  <2>1. Idle.pc = "idle"
    BY DEF Idle
  <2> QED
    BY <2>1, IdleType, IdleSound
<1> QED
  BY <1>2, <1>3, <1>4, ThreadStep

-----------------------------------------------------------------------------
\* The actions that write the tables.

LEMMA AppendEventStep ==
    ASSUME IInv, NEW t \in Threads, AppendEvent(t)
    PROVE  IInv'
<1>0. PICK local : local = thread[t]
  OBVIOUS
<1> DEFINE l == [local EXCEPT !.pc = "commit"]
<1>1. /\ local \in Local /\ LocalSound(local) /\ local.pc = "append"
      /\ thread \in [Threads -> Local]
  BY <1>0 DEF IInv, TypeOK, SeenIsHead, AppendEvent, At
<1>2. local.event \in Events
  BY <1>1 DEF LocalSound
<1>3. stored' = stored \cup {local.event}
  BY <1>0 DEF AppendEvent
<1>4. UNCHANGED <<posted, accepted, rejected, checkpoint, cursors>>
  BY DEF AppendEvent
<1>5. \/ thread' = [thread EXCEPT ![t] = Advance(local)]
      \/ thread' = [thread EXCEPT ![t] = l]
  BY <1>0, <1>1 DEF AppendEvent
<1>6. l \in Local /\ l.pc = "commit" /\ l.event = local.event /\ l.seen = local.seen
  BY <1>1 DEF Local
<1> HIDE DEF l
<1>7. Events' = Events /\ Local' = Local /\ \A n : HeadAt(n)' = HeadAt(n)
  BY <1>4 DEF Events, Local, HeadAt
<1>8. \A k : LocalSound(k) => LocalSound(k)'
  BY <1>3, <1>4, <1>7 DEF LocalSound, IsHead
<1>9. LocalSound(l)'
  <2>1. \A m : m = l => LocalSound(m)'
    BY <1>1, <1>3, <1>4, <1>6, <1>7 DEF LocalSound, IsHead
  <2> QED
    BY <2>1 DEF l
<1>10. Advance(local) \in Local /\ LocalSound(Advance(local))'
  <2>1. Advance(local) \in Local /\ LocalSound(Advance(local))
    BY <1>1, AdvanceType, IdleSound
  <2> QED
    BY <2>1, <1>8
<1>11. TypeOK'
  <2>1. (stored \subseteq Events)'
    BY <1>2, <1>3, <1>7 DEF IInv, TypeOK
  <2>2. (thread \in [Threads -> Local])'
    BY <1>1, <1>5, <1>6, <1>7, <1>10
  <2> QED
    BY <2>1, <2>2, <1>4, <1>7 DEF IInv, TypeOK, Row
<1>12. SeenIsHead'
  BY <1>1, <1>5, <1>8, <1>9, <1>10 DEF IInv, SeenIsHead
<1>13. Linked' /\ CheckpointIsHead' /\ RejectedAreInvalid'
  BY <1>4, <1>7 DEF IInv, Linked, CheckpointIsHead, RejectedAreInvalid, Verifies
<1>14. RowsMatchEvents' /\ (rejected \subseteq stored)'
  BY <1>3, <1>4 DEF IInv, RowsMatchEvents
<1> QED
  BY <1>11, <1>12, <1>13, <1>14 DEF IInv

\* The sequence of accepted payloads, as the abstract verifier sees it.
LEMMA PayloadsOfAppended ==
    ASSUME NEW s \in Seq(Row), NEW r \in Row,
           NEW f, f = [i \in DOMAIN s |-> s[i].payload],
           NEW g, g = [i \in DOMAIN Append(s, r) |-> Append(s, r)[i].payload]
    PROVE  f \in Seq(Payloads) /\ Len(f) = Len(s) /\ g = Append(f, r.payload)
<1>1. /\ DOMAIN s = 1..Len(s) /\ Len(s) \in Nat
      /\ \A i \in 1..Len(s) : s[i] \in Row /\ s[i].payload \in Payloads
  <2>1. \A i \in 1..Len(s) : s[i] \in Row
    BY ElementOfSeq
  <2> QED
    BY <2>1 DEF Row
<1>2. f \in [1..Len(s) -> Payloads]
  BY <1>1
<1>3. f \in Seq(Payloads) /\ Len(f) = Len(s)
  BY <1>1, <1>2, LenProperties
<1>4. r.payload \in Payloads
  BY DEF Row
<1>5. /\ DOMAIN Append(s, r) = 1..Len(s) + 1
      /\ \A i \in 1..Len(s) : Append(s, r)[i] = s[i]
      /\ Append(s, r)[Len(s) + 1] = r
  BY AppendProperties
<1>6. /\ DOMAIN Append(f, r.payload) = 1..Len(s) + 1
      /\ \A i \in 1..Len(s) : Append(f, r.payload)[i] = f[i]
      /\ Append(f, r.payload)[Len(s) + 1] = r.payload
  BY <1>3, <1>4, AppendProperties
<1>7. \A i \in 1..Len(s) + 1 : g[i] = Append(f, r.payload)[i]
  BY <1>1, <1>5, <1>6
<1>8. Append(f, r.payload) \in Seq(Payloads) /\ Len(Append(f, r.payload)) = Len(s) + 1
  BY <1>3, <1>4, AppendProperties
<1>9. Append(f, r.payload) = [i \in 1..Len(s) + 1 |-> Append(f, r.payload)[i]]
  BY <1>8
<1>10. g = [i \in 1..Len(s) + 1 |-> g[i]]
  BY <1>5
<1>11. g = Append(f, r.payload)
  BY <1>7, <1>9, <1>10
<1> QED
  BY <1>3, <1>11

\* Recording an accepted payload.  The premises are those both kinds of commit
\* have: the payload follows the head the thread saw, and its number is free.
LEMMA RecordStep ==
    ASSUME IInv, NEW t \in Threads, NEW by \in {"ingest", "accept"}, NEW e \in Nat,
           NEW p \in Payloads, NEW c,
           IsHead(c), p.ok, p.sequence = c.sequence + 1, SequenceFree(p),
           c.sequence # 0 \/ by = "ingest" => p.prev = c.state,
           by = "ingest" => e \in stored /\ p = posted[e].payload,
           NEW l \in Local, l.pc \in {"idle", "next"},
           RecordAccepted(by, e, p), thread' = [thread EXCEPT ![t] = l],
           UNCHANGED <<posted, stored, rejected, cursors>>
    PROVE  IInv' /\ Chain!Next
<1>0. PICK n : n = Len(accepted)
  OBVIOUS
<1> DEFINE row == [by |-> by, event |-> e, payload |-> p]
<1>1. /\ accepted \in Seq(Row) /\ n \in Nat /\ DOMAIN accepted = 1..n
      /\ row \in Row /\ row.by = by /\ row.event = e /\ row.payload = p
      /\ p \in [sequence : Nat \ {0}, prev : States, new : States, ok : BOOLEAN]
  BY <1>0, IndexAssumption DEF IInv, TypeOK, Row
<1>2. c.sequence = n
  <2>1. c.sequence \in 0..n
    BY <1>0 DEF IsHead
  <2>2. \A i \in 1..n : accepted[i].payload.sequence = i
    BY <1>1 DEF IInv, Linked
  <2>3. \A i \in 1..n : accepted[i].payload.sequence # p.sequence
    BY <1>1 DEF SequenceFree
  <2>4. p.sequence \notin 1..n
    BY <2>2, <2>3
  <2> QED
    BY <1>1, <2>1, <2>4
<1>3. /\ accepted' = Append(accepted, row)
      /\ checkpoint' = [sequence |-> p.sequence, state |-> p.new]
  BY DEF RecordAccepted
<1>4. /\ accepted' \in Seq(Row) /\ Len(accepted') = n + 1
      /\ DOMAIN accepted' = 1..n + 1
      /\ \A i \in 1..n : accepted'[i] = accepted[i]
      /\ accepted'[n + 1] = row
  BY <1>1, <1>3, AppendProperties
<1> HIDE DEF row
<1>5. \A m \in 0..n : HeadAt(m)' = HeadAt(m)
  BY <1>1, <1>4 DEF HeadAt
<1>6. c = HeadAt(n) /\ HeadAt(n + 1)' = checkpoint'
  <2>1. c = HeadAt(n)
    BY <1>2 DEF IsHead
  <2>2. accepted'[n + 1].payload = p /\ p.sequence = n + 1 /\ n + 1 # 0
    BY <1>1, <1>2, <1>4
  <2>3. HeadAt(n + 1)' = [sequence |-> n + 1, state |-> accepted'[n + 1].payload.new]
    BY <2>2 DEF HeadAt
  <2> QED
    BY <1>3, <2>1, <2>2, <2>3
<1>7. Events' = Events /\ Local' = Local /\ Row' = Row
  BY DEF Events, Local, Row
<1>8. \A k : LocalSound(k) => LocalSound(k)'
  <2>1. \A k : IsHead(k) => IsHead(k)'
    BY <1>0, <1>1, <1>4, <1>5 DEF IsHead
  <2> QED
    BY <2>1, <1>7 DEF LocalSound
<1>9. TypeOK'
  <2>1. checkpoint' \in Checkpoint
    BY <1>1, <1>3 DEF Checkpoint
  <2>2. (thread \in [Threads -> Local])'
    BY <1>7 DEF IInv, TypeOK
  <2> QED
    BY <1>4, <1>7, <2>1, <2>2 DEF IInv, TypeOK
<1>10. Linked'
  <2>1. SUFFICES ASSUME NEW i \in 1..n + 1
                 PROVE  /\ accepted'[i].payload.sequence = i
                        /\ accepted'[i].payload.ok
                        /\ i > 1 \/ accepted'[i].by = "ingest" =>
                              accepted'[i].payload.prev = HeadAt(i - 1)'.state
    BY <1>4 DEF Linked
  <2>2. CASE i \in 1..n
    <3>1. i - 1 \in 0..n
      BY <1>1, <2>2
    <3>2. accepted'[i] = accepted[i] /\ HeadAt(i - 1)' = HeadAt(i - 1)
      BY <1>4, <1>5, <2>2, <3>1
    <3>3. /\ accepted[i].payload.sequence = i /\ accepted[i].payload.ok
          /\ i > 1 \/ accepted[i].by = "ingest" =>
                accepted[i].payload.prev = HeadAt(i - 1).state
      BY <1>1, <2>2 DEF IInv, Linked
    <3> QED
      BY ONLY <3>2, <3>3
  <2>3. CASE i = n + 1
    <3>1. HeadAt(i - 1)' = c
      BY <1>1, <1>5, <1>6, <2>3
    <3>2. accepted'[i].payload = p /\ accepted'[i].by = by
      BY <1>1, <1>4, <2>3
    <3>3. i > 1 <=> c.sequence # 0
      BY <1>1, <1>2, <2>3
    <3> QED
      BY <1>2, <2>3, <3>1, <3>2, <3>3
  <2> QED
    BY <1>1, <2>2, <2>3
<1>11. CheckpointIsHead'
  <2>1. \A m : m = n + 1 => HeadAt(m)' = HeadAt(n + 1)'
    OBVIOUS
  <2> QED
    BY <1>4, <1>6, <2>1 DEF CheckpointIsHead, HeadAt
<1>12. RejectedAreInvalid'
  <2>1. SUFFICES ASSUME NEW f \in rejected, NEW q, q = posted[f].payload
                 PROVE  /\ q.sequence <= n + 2
                        /\ ~Verifies(q, HeadAt(q.sequence - 1)')
    BY <1>1, <1>4 DEF RejectedAreInvalid
  <2>2. q.sequence \in Nat \ {0}
    BY <2>1, PostedType DEF IInv, TypeOK
  <2>3. q.sequence <= n + 1 /\ ~Verifies(q, HeadAt(q.sequence - 1))
    BY <1>0, <2>1 DEF IInv, RejectedAreInvalid
  <2>4. q.sequence - 1 \in 0..n
    BY <1>1, <2>2, <2>3
  <2> QED
    BY <1>1, <1>5, <2>2, <2>3, <2>4
<1>13. RowsMatchEvents'
  BY <1>1, <1>4 DEF IInv, RowsMatchEvents
<1>14. SeenIsHead'
  <2>1. LocalSound(l)'
    BY <1>8, IdleSound
  <2> QED
    BY <1>8, <2>1 DEF IInv, TypeOK, SeenIsHead
<1>15. (rejected \subseteq stored)'
  BY DEF IInv
<1>16. Chain!Next
  <2>1. PICK f : f = [i \in DOMAIN accepted |-> accepted[i].payload]
    OBVIOUS
  <2>2. PICK g : g = [i \in DOMAIN accepted' |-> accepted'[i].payload]
    OBVIOUS
  <2>3. f \in Seq(Payloads) /\ Len(f) = n /\ g = Append(f, p)
    <3>1. g = [i \in DOMAIN Append(accepted, row) |-> Append(accepted, row)[i].payload]
      BY <1>3, <2>2
    <3> QED
      BY <1>0, <1>1, <2>1, <3>1, PayloadsOfAppended
  <2>4. f # <<>> => p.prev = f[Len(f)].new
    <3>1. CASE n = 0
      BY <2>3, <3>1
    <3>2. CASE n # 0
      <4>1. f[n] = accepted[n].payload
        BY <1>1, <2>1, <3>2
      <4>2. c.state = accepted[n].payload.new
        BY <1>6, <3>2 DEF HeadAt
      <4> QED
        BY <1>2, <2>3, <3>2, <4>1, <4>2
    <3> QED
      BY <3>1, <3>2
  <2> QED
    BY <1>2, <2>1, <2>2, <2>3, <2>4 DEF Chain!Next, Chain!Accept
<1> QED
  BY <1>0, <1>2, <1>9, <1>10, <1>11, <1>12, <1>13, <1>14, <1>15, <1>16 DEF IInv

LEMMA CommitStep ==
    ASSUME IInv, NEW t \in Threads, Commit(t)
    PROVE  IInv' /\ (Chain!Next \/ UNCHANGED accepted)
<1>0. PICK local, p : local = thread[t] /\ p = posted[local.event].payload
  OBVIOUS
<1>1. /\ local \in Local /\ LocalSound(local) /\ local.pc = "commit"
      /\ thread \in [Threads -> Local] /\ cursors \in [Sources -> Events \cup {0}]
  BY <1>0 DEF IInv, TypeOK, SeenIsHead, Commit, At
<1>2. /\ local.event \in Events /\ local.event \in stored /\ IsHead(local.seen)
      /\ p.sequence = local.seen.sequence + 1
  BY <1>0, <1>1 DEF LocalSound
<1>3. local.event \in Nat \ {0} /\ p \in Payloads /\ p.sequence \in Nat \ {0}
  <2>1. Events = 1..Len(posted) /\ Len(posted) \in Nat
    BY DEF IInv, TypeOK, Events
  <2> QED
    BY <1>0, <1>2, <2>1, PostedType DEF IInv
<1>4. Advance(local) \in Local /\ Advance(local).pc \in {"idle", "next"}
  BY <1>1, AdvanceType
<1>5. LocalSound(Advance(local)) /\ Idle \in Local /\ LocalSound(Idle)
  <2>1. Idle.pc = "idle"
    BY DEF Idle
  <2> QED
    BY <2>1, <1>4, IdleType, IdleSound
<1>6. CASE /\ Verifies(p, local.seen) /\ SequenceFree(p)
           /\ RecordAccepted("ingest", local.event, p)
           /\ thread' = [thread EXCEPT ![t] = Advance(local)]
           /\ UNCHANGED rejected
  <2>1. p.ok /\ p.prev = local.seen.state
    BY <1>6 DEF Verifies
  <2>2. UNCHANGED <<posted, stored, rejected, cursors>>
    BY <1>6 DEF Commit
  <2> QED
    BY <1>0, <1>2, <1>3, <1>4, <1>6, <2>1, <2>2, RecordStep
<1>7. CASE /\ thread' = [thread EXCEPT ![t] = Idle]
           /\ UNCHANGED <<accepted, checkpoint, rejected>>
  <2>1. /\ UNCHANGED <<posted, stored, accepted, rejected, checkpoint>>
        /\ cursors' = cursors
    BY <1>7 DEF Commit
  <2> QED
    BY <1>1, <1>5, <1>7, <2>1, ThreadStep
<1>8. CASE /\ ~Verifies(p, local.seen)
           /\ rejected' = rejected \cup {local.event}
           /\ thread' = [thread EXCEPT ![t] = Advance(local)]
           /\ UNCHANGED <<accepted, checkpoint>>
  <2>1. UNCHANGED <<posted, stored, accepted, checkpoint, cursors>>
    BY <1>8 DEF Commit
  <2>2. /\ Events' = Events /\ Local' = Local /\ Row' = Row
        /\ \A n : HeadAt(n)' = HeadAt(n)
    BY <2>1 DEF Events, Local, Row, HeadAt
  <2>3. \A k : LocalSound(k)' <=> LocalSound(k)
    BY <2>1, <2>2 DEF LocalSound, IsHead
  <2>4. TypeOK'
    <3>1. (thread \in [Threads -> Local])'
      BY <1>1, <1>4, <1>8, <2>2
    <3> QED
      BY <1>2, <1>8, <2>1, <2>2, <3>1 DEF IInv, TypeOK
  <2>5. Linked' /\ CheckpointIsHead' /\ RowsMatchEvents' /\ (rejected \subseteq stored)'
    BY <1>2, <1>8, <2>1, <2>2
    DEF IInv, Linked, CheckpointIsHead, RowsMatchEvents
  <2>6. RejectedAreInvalid'
    <3>1. /\ p.sequence <= Len(accepted) + 1
          /\ ~Verifies(p, HeadAt(p.sequence - 1))
      <4>1. /\ local.seen.sequence \in 0..Len(accepted)
            /\ local.seen = HeadAt(local.seen.sequence)
            /\ Len(accepted) \in Nat
        BY <1>2 DEF IsHead, IInv, TypeOK
      <4>2. p.sequence - 1 = local.seen.sequence
        BY <1>2, <4>1
      <4> QED
        BY <1>2, <1>8, <4>1, <4>2
    <3>2. SUFFICES ASSUME NEW e \in rejected \cup {local.event}
                   PROVE  /\ posted[e].payload.sequence <= Len(accepted) + 1
                          /\ ~Verifies(posted[e].payload,
                                       HeadAt(posted[e].payload.sequence - 1))
      BY <1>8, <2>1, <2>2 DEF RejectedAreInvalid, Verifies
    <3> QED
      BY <1>0, <3>1, <3>2 DEF IInv, RejectedAreInvalid
  <2>7. SeenIsHead'
    BY <1>1, <1>5, <1>8, <2>3 DEF IInv, SeenIsHead
  <2> QED
    BY <2>1, <2>4, <2>5, <2>6, <2>7 DEF IInv
<1> QED
  BY <1>0, <1>6, <1>7, <1>8 DEF Commit

LEMMA CommitEnvelopeStep ==
    ASSUME IInv, NEW t \in Threads, CommitEnvelope(t)
    PROVE  IInv' /\ (Chain!Next \/ UNCHANGED accepted)
<1>0. PICK local, p : local = thread[t] /\ p = local.envelope
  OBVIOUS
<1>1. /\ local \in Local /\ LocalSound(local) /\ local.pc = "commit_envelope"
      /\ thread \in [Threads -> Local] /\ cursors \in [Sources -> Events \cup {0}]
  BY <1>0 DEF IInv, TypeOK, SeenIsHead, CommitEnvelope, At
<1>2. /\ IsHead(local.seen) /\ p \in Payloads /\ p.ok
      /\ p.sequence = local.seen.sequence + 1
      /\ local.seen.sequence # 0 => p.prev = local.seen.state
  BY <1>0, <1>1 DEF LocalSound
<1>3. Idle \in Local /\ Idle.pc \in {"idle", "next"} /\ LocalSound(Idle)
  <2>1. Idle.pc = "idle"
    BY DEF Idle
  <2> QED
    BY <2>1, IdleType, IdleSound
<1>4. /\ thread' = [thread EXCEPT ![t] = Idle]
      /\ UNCHANGED <<posted, stored, rejected, cursors>>
  BY DEF CommitEnvelope
<1>5. CASE SequenceFree(p) /\ \E e \in EventKeys : RecordAccepted("accept", e, p)
  <2>1. PICK e \in Nat : RecordAccepted("accept", e, p)
    BY <1>5, IndexAssumption
  <2> QED
    BY <1>2, <1>3, <1>4, <1>5, <2>1, RecordStep
<1>6. CASE UNCHANGED <<accepted, checkpoint>>
  BY <1>1, <1>3, <1>4, <1>6, ThreadStep
<1> QED
  BY <1>0, <1>5, <1>6 DEF CommitEnvelope

LEMMA PostStep ==
    ASSUME IInv, NEW q \in Payloads, Post(q)
    PROVE  IInv'
<1>0. PICK n : n = Len(posted)
  OBVIOUS
<1> DEFINE out == [payload |-> q, height |-> IF ReportsHeight THEN n + 1 ELSE 0]
           Out == [payload : Payloads, height : Nat]
<1>1. posted \in Seq(Out) /\ n \in Nat /\ Events = 1..n
  BY <1>0 DEF IInv, TypeOK, Events
<1>2. out \in Out
  BY <1>1, IndexAssumption
<1>3. posted' = Append(posted, out)
  BY <1>0 DEF Post
<1> HIDE DEF out, Out
<1>4. /\ posted' \in Seq(Out) /\ Events' = 1..n + 1
      /\ \A e \in Events : posted'[e] = posted[e]
  BY <1>0, <1>1, <1>2, <1>3, AppendProperties DEF Events
<1>5. UNCHANGED <<store, thread, crashes>>
  BY DEF Post
<1>6. UNCHANGED <<stored, accepted, rejected, checkpoint, cursors, thread>>
  BY <1>5 DEF store
<1>7. Events \subseteq Events'
  BY <1>1, <1>4
<1>8. Local \subseteq Local'
  BY <1>7 DEF Local
<1>9. TypeOK'
  <2>1. (cursors \in [Sources -> Events \cup {0}])'
    BY <1>6, <1>7 DEF IInv, TypeOK
  <2>2. (thread \in [Threads -> Local])'
    BY <1>6, <1>8 DEF IInv, TypeOK
  <2> QED
    BY <1>4, <1>6, <1>7, <2>1, <2>2 DEF IInv, TypeOK, Row, Out
<1>10. \A m : HeadAt(m)' = HeadAt(m)
  BY <1>6 DEF HeadAt
<1>11. Linked' /\ CheckpointIsHead' /\ (rejected \subseteq stored)'
  BY <1>6, <1>10 DEF IInv, Linked, CheckpointIsHead
<1>12. RejectedAreInvalid'
  BY <1>4, <1>6, <1>10 DEF IInv, TypeOK, RejectedAreInvalid, Verifies
<1>13. RowsMatchEvents'
  BY <1>4, <1>6 DEF IInv, TypeOK, RowsMatchEvents
<1>14. SeenIsHead'
  <2>1. \A k : IsHead(k)' <=> IsHead(k)
    BY <1>6, <1>10 DEF IsHead
  <2>2. \A k : LocalSound(k) => LocalSound(k)'
    BY <1>4, <1>6, <1>7, <2>1 DEF LocalSound
  <2> QED
    BY <1>6, <2>2 DEF IInv, SeenIsHead
<1> QED
  BY <1>9, <1>11, <1>12, <1>13, <1>14 DEF IInv

LEMMA CrashStep ==
    ASSUME IInv, Crash
    PROVE  IInv'
<1>1. UNCHANGED <<posted, stored, accepted, rejected, checkpoint, cursors>>
  BY DEF Crash, store
<1>2. /\ Events' = Events /\ Local' = Local
      /\ \A n : HeadAt(n)' = HeadAt(n)
  BY <1>1 DEF Events, Local, HeadAt
<1>3. thread' = [t \in Threads |-> Idle] /\ Idle \in Local'
  BY <1>2, IdleType DEF Crash
<1>4. TypeOK'
  <2>1. (thread \in [Threads -> Local])'
    BY <1>3
  <2> QED
    BY <1>1, <1>2, <2>1 DEF IInv, TypeOK, Row
<1>5. Linked' /\ CheckpointIsHead' /\ RejectedAreInvalid' /\ RowsMatchEvents'
  BY <1>1, <1>2 DEF IInv, Linked, CheckpointIsHead, RejectedAreInvalid,
                    RowsMatchEvents, Verifies
<1>6. SeenIsHead'
  <2>1. Idle.pc = "idle"
    BY DEF Idle
  <2> QED
    BY <1>3, <2>1 DEF SeenIsHead, LocalSound
<1> QED
  BY <1>1, <1>4, <1>5, <1>6 DEF IInv

LEMMA InitIInv == Init => IInv
<1> SUFFICES ASSUME Init PROVE IInv
  OBVIOUS
<1>1. Len(accepted) = 0 /\ DOMAIN accepted = {} /\ accepted \in Seq(Row)
  BY DEF Init
<1>2. NoCheckpoint \in Checkpoint
  BY IndexAssumption DEF NoCheckpoint, Checkpoint
<1>3. TypeOK
  BY <1>1, <1>2, IdleType DEF Init, TypeOK
<1>4. CheckpointIsHead
  BY <1>1 DEF Init, CheckpointIsHead, HeadAt
<1>5. SeenIsHead
  <2>1. Idle.pc = "idle"
    BY DEF Idle
  <2> QED
    BY <2>1 DEF Init, SeenIsHead, LocalSound
<1> QED
  BY <1>1, <1>3, <1>4, <1>5
  DEF Init, IInv, Linked, RejectedAreInvalid, RowsMatchEvents

LEMMA NextIInv == IInv /\ [Next]_vars => IInv'
<1> SUFFICES ASSUME IInv, [Next]_vars PROVE IInv'
  OBVIOUS
<1>1. CASE \E q \in Payloads : Post(q)
  BY <1>1, PostStep
<1>2. CASE \E t \in Threads : Start(t)
  BY <1>2, StartSyncStep, StartIngestStep, StartEnvelopeStep DEF Start
<1>3. CASE \E t \in Threads : Step(t)
  BY <1>3, FetchStep, InspectStep, LoadCheckpointStep, AppendEventStep,
     CommitStep, FinishStep, CommitEnvelopeStep DEF Step
<1>4. CASE Crash
  BY <1>4, CrashStep
<1>5. CASE UNCHANGED vars
  <2>1. UNCHANGED <<posted, stored, accepted, rejected, checkpoint, cursors, thread>>
    BY <1>5 DEF vars, store
  <2>2. /\ Events' = Events /\ Local' = Local
        /\ \A n : HeadAt(n)' = HeadAt(n)
    BY <2>1 DEF Events, Local, HeadAt
  <2>3. TypeOK'
    BY <2>1, <2>2 DEF IInv, TypeOK, Row
  <2>4. \A k : LocalSound(k)' <=> LocalSound(k)
    BY <2>1, <2>2 DEF LocalSound, IsHead
  <2>5. Linked' /\ CheckpointIsHead' /\ RejectedAreInvalid' /\ RowsMatchEvents'
    BY <2>1, <2>2 DEF IInv, Linked, CheckpointIsHead, RejectedAreInvalid,
                      RowsMatchEvents, Verifies
  <2> QED
    BY <2>1, <2>3, <2>4, <2>5 DEF IInv, SeenIsHead
<1> QED
  BY <1>1, <1>2, <1>3, <1>4, <1>5 DEF Next

LEMMA SpecIInv == Spec => []IInv
  BY InitIInv, NextIInv, PTL DEF Spec

-----------------------------------------------------------------------------
\* The tables of the verifier (TypeOK of VerifierIndex) hold what the code puts
\* there, in every reachable state.
THEOREM IndexTypeCorrect == Spec => []TypeOK
<1>1. IInv => TypeOK
  BY DEF IInv
<1> QED
  BY <1>1, SpecIInv, PTL

\* However many threads ingest and accept at once, locked or not, and wherever
\* the process stops, the accepted rows of the verification log are one linked
\* chain numbered from 1.
THEOREM AcceptedRowsAreLinked == Spec => []Linked
<1>1. IInv => Linked
  BY DEF IInv
<1> QED
  BY <1>1, SpecIInv, PTL

\* The checkpoint row is the end of that chain: no commit of a thread that read
\* an older checkpoint ever overwrites it.
THEOREM CheckpointIsTheHead == Spec => []CheckpointIsHead
<1>1. IInv => CheckpointIsHead
  BY DEF IInv
<1> QED
  BY <1>1, SpecIInv, PTL

\* No event is given the final verdict "rejected" that a valid successor of the
\* accepted chain carried.
THEOREM RejectionsAreDeserved == Spec => []RejectedAreInvalid
<1>1. IInv => RejectedAreInvalid
  BY DEF IInv
<1> QED
  BY <1>1, SpecIInv, PTL

\* Every verdict that ingestion gave has its event kept beside it.
THEOREM VerdictsHaveEvidence == Spec => []EvidenceKept
<1>1. IInv => EvidenceKept
  BY DEF IInv, EvidenceKept
<1> QED
  BY <1>1, SpecIInv, PTL

\* The verifier with its threads, crashes and retries implements the abstract
\* verifier that accepts one payload at a time: every step either accepts the
\* next payload of the chain or leaves the chain alone.
THEOREM IndexImplementsChain == Spec => ImplementsVerifiedChain
<1>1. Init => Chain!Init
  BY DEF Init, Chain!Init
<1>2. IInv /\ [Next]_vars => [Chain!Next]_[i \in DOMAIN accepted |-> accepted[i].payload]
  <2> SUFFICES ASSUME IInv, [Next]_vars
               PROVE  Chain!Next \/ UNCHANGED accepted
    OBVIOUS
  <2>1. CASE \E t \in Threads : Commit(t) \/ CommitEnvelope(t)
    BY <2>1, CommitStep, CommitEnvelopeStep
  <2>2. CASE \E q \in Payloads : Post(q)
    BY <2>2 DEF Post, store
  <2>3. CASE \E t \in Threads : Start(t)
    BY <2>3 DEF Start, StartSync, StartIngest, StartEnvelope, store
  <2>4. CASE \E t \in Threads : \/ Fetch(t) \/ Inspect(t) \/ LoadCheckpoint(t)
                                \/ AppendEvent(t) \/ Finish(t)
    BY <2>4 DEF Fetch, Inspect, LoadCheckpoint, AppendEvent, Finish, store
  <2>5. CASE Crash \/ UNCHANGED vars
    BY <2>5 DEF Crash, vars, store
  <2> QED
    BY <2>1, <2>2, <2>3, <2>4, <2>5 DEF Next, Step
<1> QED
  BY <1>1, <1>2, SpecIInv, PTL DEF Spec, ImplementsVerifiedChain, Chain!Spec

=============================================================================
