------------------------- MODULE BundleIndexProofs -------------------------
(***************************************************************************)
(* Theorems about BundleIndex, for every number of layers, threads,        *)
(* bundles and restarts.                                                   *)
(*                                                                         *)
(* The argument.  A child is examined against a checkpoint that may be out *)
(* of date when the child is committed, some transactions of other threads *)
(* and of its own siblings later.  What stays true of it is that it        *)
(* extends a prefix of its layer's chain (Extends), or that its number is  *)
(* given out (Settled): both outlive whatever is accepted in between,      *)
(* because accepted rows only grow.  The unique index turns the first into *)
(* "extends the whole chain" at the commit.  A bundle is committed only    *)
(* after all its children were found to be one or the other, and rejected  *)
(* only for a child that is neither; so the two verdicts never disagree.   *)
(***************************************************************************)
EXTENDS BundleIndex, SequenceTheorems, TLAPS

\* c is valid after a prefix of its layer's chain.
Extends(c) ==
    /\ c.sequence <= Len(accepted[c.layer]) + 1
    /\ Verifies(c, HeadAt(c.layer, c.sequence - 1))

Fine(c) == Settled(c) \/ Extends(c)

AllFine(e) == \A i \in DOMAIN ChildrenOf(e) : Fine(ChildrenOf(e)[i])

\* A reason to reject the bundle.
Rejectable(e) ==
    ~posted[e].decodable \/ \E i \in DOMAIN ChildrenOf(e) : Bad(ChildrenOf(e)[i])

\* No child has been looked at.
Fresh(local) == local.child = 1 /\ local.staged = <<>> /\ ~local.rejecting

\* What the locals of a thread say about the tables.
LocalSound(local) ==
    /\ local.last \in 0..Len(posted)
    /\ local.pc = "next" => local.event # 0 /\ Fresh(local)
    /\ local.pc \in {"checkpoint", "append", "commit"} =>
          /\ local.event \in Events
          /\ \A k \in DOMAIN local.staged :
                /\ local.staged[k] \in DOMAIN ChildrenOf(local.event)
                /\ Extends(ChildrenOf(local.event)[local.staged[k]])
    /\ local.pc = "checkpoint" =>
          /\ local.child \in DOMAIN ChildrenOf(local.event)
          /\ ~local.rejecting
          /\ \A i \in 1..local.child - 1 : Fine(ChildrenOf(local.event)[i])
    /\ local.pc \in {"append", "commit"} =>
          IF local.rejecting THEN Rejectable(local.event)
          ELSE local.staged # <<>> => AllFine(local.event)
    /\ local.pc = "commit" =>
          local.event \in stored /\ (local.rejecting \/ local.staged # <<>>)

ThreadsSound == \A t \in Threads : LocalSound(thread[t])

AcceptedAreFine == \A e \in Events : ChildAccepted(e) => AllFine(e)

RejectedAreRejectable == \A e \in rejected : Rejectable(e)

IInv ==
    /\ TypeOK
    /\ Linked
    /\ RowsMatchBundles
    /\ rejected \subseteq stored
    /\ AcceptedAreFine
    /\ RejectedAreRejectable
    /\ ThreadsSound

-----------------------------------------------------------------------------
\* Types.

LEMMA PostedType ==
    ASSUME TypeOK, NEW e \in Events
    PROVE  /\ posted[e] \in [decodable : BOOLEAN, children : Seq(Children)]
           /\ ChildrenOf(e) \in Seq(Children)
           /\ DOMAIN ChildrenOf(e) = 1..Len(ChildrenOf(e))
           /\ Len(ChildrenOf(e)) \in Nat
           /\ \A i \in DOMAIN ChildrenOf(e) : ChildrenOf(e)[i] \in Children
<1>1. posted \in Seq(Bundles) /\ e \in 1..Len(posted)
  BY DEF TypeOK, Events
<1>2. posted[e] \in Bundles
  BY <1>1, ElementOfSeq
<1>3. posted[e] \in [decodable : BOOLEAN, children : Seq(Children)]
  BY <1>2, BundleAssumption
<1>4. ChildrenOf(e) \in Seq(Children)
  BY <1>3 DEF ChildrenOf
<1>5. \A i \in 1..Len(ChildrenOf(e)) : ChildrenOf(e)[i] \in Children
  BY <1>4, ElementOfSeq
<1> QED
  BY <1>3, <1>4, <1>5

LEMMA ChildType ==
    ASSUME NEW c \in Children
    PROVE  /\ c.layer \in Layers /\ c.sequence \in Nat \ {0}
           /\ c.prev \in States /\ c.new \in States /\ c.ok \in BOOLEAN
  BY BundleAssumption

LEMMA IdleType == Idle \in Local /\ Idle.pc = "idle" /\ Fresh(Idle) /\ Idle.last = 0
  BY DEF Idle, Local, Fresh

LEMMA DoneType ==
    ASSUME NEW l \in Local
    PROVE  /\ Done(l) \in Local /\ Done(l).pc = "next" /\ Fresh(Done(l))
           /\ Done(l).event = l.event + 1 /\ Done(l).last = l.last
           /\ l.event \in Nat
<1>1. l.event \in Nat
  BY DEF Local
<1>2. l.source \in Sources \cup {""}
  BY DEF Local
<1>3. l.retry \in BOOLEAN
  BY DEF Local
<1>4. l.last \in Nat
  BY DEF Local
<1>5. l.event + 1 \in Nat
  BY <1>1
<1>6. Idle \in Local /\ Done(l).pc = "next" /\ Fresh(Done(l))
  BY IdleType DEF Done, Idle, Fresh
<1>7. Done(l).event = l.event + 1 /\ Done(l).last = l.last
  BY <1>5 DEF Done, Idle
<1>8. Done(l) \in Local
  BY <1>2, <1>3, <1>4, <1>5, IdleType DEF Done, Local
<1> QED
  BY <1>1, <1>6, <1>7, <1>8

\* A thread between two events knows nothing but where it stops.
LEMMA RestSound ==
    ASSUME NEW l, l.pc \in {"idle", "next"}, l.last \in 0..Len(posted),
           l.pc = "next" => l.event # 0 /\ Fresh(l)
    PROVE  LocalSound(l)
  BY DEF LocalSound

LEMMA DoneSound ==
    ASSUME NEW l \in Local, LocalSound(l)
    PROVE  Done(l) \in Local /\ LocalSound(Done(l))
<1>1. l.last \in 0..Len(posted)
  BY DEF LocalSound
<1>2. Done(l).event # 0
  BY DoneType
<1> QED
  BY <1>1, <1>2, DoneType, RestSound, SMTT(20)

LEMMA IdleSound ==
    ASSUME TypeOK
    PROVE  Idle \in Local /\ LocalSound(Idle)
<1>1. 0 \in 0..Len(posted)
  BY DEF TypeOK
<1> QED
  BY <1>1, IdleType, RestSound

-----------------------------------------------------------------------------
\* What outlives a step.

\* Tables that are only appended to.
Grows ==
    /\ \A l \in Layers :
          /\ Len(accepted[l]) <= Len(accepted'[l])
          /\ \A i \in 1..Len(accepted[l]) : accepted'[l][i] = accepted[l][i]
    /\ Len(posted) <= Len(posted')
    /\ \A e \in Events : posted'[e] = posted[e]
    /\ stored \subseteq stored'

LEMMA HeadsStay ==
    ASSUME TypeOK, TypeOK', Grows, NEW l \in Layers, NEW n \in 0..Len(accepted[l])
    PROVE  HeadAt(l, n)' = HeadAt(l, n)
<1>1. Len(accepted[l]) \in Nat
  BY DEF TypeOK
<1> QED
  BY <1>1 DEF HeadAt, Grows

LEMMA ChildrenStay ==
    ASSUME TypeOK, TypeOK', Grows, NEW c \in Children
    PROVE  /\ Settled(c) => Settled(c)'
           /\ Extends(c) => Extends(c)'
           /\ Fine(c) => Fine(c)'
           /\ Bad(c) => Bad(c)'
<1>1. c.layer \in Layers /\ c.sequence \in Nat \ {0}
  BY ChildType
<1>2. /\ Len(accepted[c.layer]) \in Nat /\ Len(accepted'[c.layer]) \in Nat
      /\ Len(accepted[c.layer]) <= Len(accepted'[c.layer])
  BY <1>1 DEF TypeOK, Grows
<1>3. ASSUME c.sequence <= Len(accepted[c.layer]) + 1
      PROVE  HeadAt(c.layer, c.sequence - 1)' = HeadAt(c.layer, c.sequence - 1)
  <2>1. c.sequence - 1 \in 0..Len(accepted[c.layer])
    BY <1>1, <1>2, <1>3
  <2> QED
    BY <1>1, <2>1, HeadsStay
<1>4. Settled(c) => Settled(c)'
  BY <1>1, <1>2 DEF Settled
<1>5. Extends(c) => Extends(c)'
  BY <1>1, <1>2, <1>3 DEF Extends, Verifies
<1>6. Bad(c) => Bad(c)'
  BY <1>1, <1>2, <1>3 DEF Bad, Verifies
<1> QED
  BY <1>4, <1>5, <1>6 DEF Fine

LEMMA EventsStay ==
    ASSUME TypeOK, TypeOK', Grows, NEW e \in Events
    PROVE  /\ e \in Events' /\ ChildrenOf(e)' = ChildrenOf(e)
           /\ AllFine(e) => AllFine(e)'
           /\ Rejectable(e) => Rejectable(e)'
<1>1. Events = 1..Len(posted) /\ Events' = 1..Len(posted') /\ Len(posted) \in Nat
      /\ Len(posted') \in Nat
  BY DEF TypeOK, Events
<1>2. e \in Events'
  BY <1>1 DEF Grows
<1>3. ChildrenOf(e)' = ChildrenOf(e) /\ posted'[e] = posted[e]
  BY DEF ChildrenOf, Grows
<1>4. DOMAIN ChildrenOf(e)' = DOMAIN ChildrenOf(e)
      /\ \A i \in DOMAIN ChildrenOf(e) :
            /\ ChildrenOf(e)[i] \in Children
            /\ ChildrenOf(e)'[i] = ChildrenOf(e)[i]
  BY <1>3, PostedType
<1>5. \A i \in DOMAIN ChildrenOf(e) :
          /\ Fine(ChildrenOf(e)[i]) => Fine(ChildrenOf(e)[i])'
          /\ Bad(ChildrenOf(e)[i]) => Bad(ChildrenOf(e)[i])'
  <2> SUFFICES ASSUME NEW i \in DOMAIN ChildrenOf(e)
               PROVE  /\ Fine(ChildrenOf(e)[i]) => Fine(ChildrenOf(e)[i])'
                      /\ Bad(ChildrenOf(e)[i]) => Bad(ChildrenOf(e)[i])'
    OBVIOUS
  <2>1. PICK c \in Children : c = ChildrenOf(e)[i] /\ c = ChildrenOf(e)'[i]
    BY <1>4
  <2>2. (Fine(c) => Fine(c)') /\ (Bad(c) => Bad(c)')
    BY ChildrenStay
  <2>3. Fine(ChildrenOf(e)[i]) = Fine(c) /\ Bad(ChildrenOf(e)[i]) = Bad(c)
    BY <2>1
  <2>4. Fine(ChildrenOf(e)[i])' = Fine(c)' /\ Bad(ChildrenOf(e)[i])' = Bad(c)'
    BY <2>1 DEF Fine, Bad, Settled, Extends
  <2> QED
    BY <2>2, <2>3, <2>4
<1>6. AllFine(e) => AllFine(e)'
  BY <1>4, <1>5 DEF AllFine
<1>7. Rejectable(e) => Rejectable(e)'
  BY <1>3, <1>4, <1>5 DEF Rejectable
<1> QED
  BY <1>2, <1>3, <1>6, <1>7

LEMMA LocalsStay ==
    ASSUME TypeOK, TypeOK', Grows, NEW l \in Local, LocalSound(l)
    PROVE  LocalSound(l)'
<1>1. l.last \in 0..Len(posted')
  <2>1. Len(posted) \in Nat /\ Len(posted') \in Nat /\ Len(posted) <= Len(posted')
    BY DEF TypeOK, Grows
  <2> QED
    BY <2>1 DEF LocalSound
<1>2. l.pc = "next" => l.event # 0 /\ Fresh(l)
  BY DEF LocalSound
<1>3. CASE l.pc \in {"checkpoint", "append", "commit"}
  <2>1. l.event \in Events
    BY <1>3 DEF LocalSound
  <2>2. /\ l.event \in Events' /\ ChildrenOf(l.event)' = ChildrenOf(l.event)
        /\ AllFine(l.event) => AllFine(l.event)'
        /\ Rejectable(l.event) => Rejectable(l.event)'
    BY <2>1, EventsStay
  <2>3. DOMAIN ChildrenOf(l.event) = 1..Len(ChildrenOf(l.event))
        /\ Len(ChildrenOf(l.event)) \in Nat
        /\ \A i \in DOMAIN ChildrenOf(l.event) : ChildrenOf(l.event)[i] \in Children
    BY <2>1, PostedType
  <2>4. \A k \in DOMAIN l.staged :
            /\ l.staged[k] \in DOMAIN ChildrenOf(l.event)
            /\ Extends(ChildrenOf(l.event)[l.staged[k]])'
    BY <1>3, <2>2, <2>3, ChildrenStay DEF LocalSound
  <2>5. l.pc = "checkpoint" =>
            \A i \in 1..l.child - 1 : Fine(ChildrenOf(l.event)[i])'
    <3> SUFFICES ASSUME l.pc = "checkpoint", NEW i \in 1..l.child - 1
                 PROVE  Fine(ChildrenOf(l.event)[i])'
      OBVIOUS
    <3>1. l.child \in DOMAIN ChildrenOf(l.event) /\ Fine(ChildrenOf(l.event)[i])
      BY DEF LocalSound
    <3>2. i \in DOMAIN ChildrenOf(l.event)
      BY <2>3, <3>1
    <3> QED
      BY <2>2, <2>3, <3>1, <3>2, ChildrenStay
  <2>6. l.pc = "commit" => l.event \in stored'
    BY DEF LocalSound, Grows
  <2> QED
    BY <1>1, <1>3, <2>2, <2>4, <2>5, <2>6 DEF LocalSound
<1>4. CASE l.pc \in {"idle", "next"}
  BY <1>1, <1>2, <1>4 DEF LocalSound
<1> QED
  BY <1>3, <1>4 DEF Local

-----------------------------------------------------------------------------

LEMMA ChildrenSame ==
    ASSUME UNCHANGED <<posted, accepted>>
    PROVE  /\ Events' = Events
           /\ \A l, n : HeadAt(l, n)' = HeadAt(l, n)
           /\ \A e : ChildAccepted(e)' <=> ChildAccepted(e)
           /\ \A c, e : IsChild(c, e)' <=> IsChild(c, e)
           /\ \A e : AllFine(e)' <=> AllFine(e)
           /\ \A e : Rejectable(e)' <=> Rejectable(e)
<1>1. \A l, n : HeadAt(l, n)' = HeadAt(l, n)
  BY DEF HeadAt
<1>2. \A c : (Fine(c)' <=> Fine(c)) /\ (Bad(c)' <=> Bad(c))
  BY <1>1 DEF Fine, Bad, Settled, Extends, Verifies
<1>3. \A e : ChildrenOf(e)' = ChildrenOf(e)
  BY DEF ChildrenOf
<1>4. \A e : AllFine(e)' <=> AllFine(e)
  BY <1>2, <1>3 DEF AllFine
<1>5. \A e : Rejectable(e)' <=> Rejectable(e)
  BY <1>2, <1>3 DEF Rejectable
<1>6. \A c, e : IsChild(c, e)' <=> IsChild(c, e)
  BY <1>3 DEF IsChild
<1>7. \A e : ChildAccepted(e)' <=> ChildAccepted(e)
  BY DEF ChildAccepted
<1> QED
  BY <1>1, <1>4, <1>5, <1>6, <1>7 DEF Events

LEMMA LocalsSame ==
    ASSUME UNCHANGED <<posted, accepted, stored>>, NEW l, LocalSound(l)
    PROVE  LocalSound(l)'
<1>1. \A c : Extends(c)' <=> Extends(c)
  BY ChildrenSame DEF Extends, Verifies
<1>2. \A c : Fine(c)' <=> Fine(c)
  BY <1>1 DEF Fine, Settled
<1>3. \A e : ChildrenOf(e)' = ChildrenOf(e)
  BY DEF ChildrenOf
<1> QED
  BY <1>1, <1>2, <1>3, ChildrenSame DEF LocalSound

\* A step of one thread that writes no table but stored, cursors and rejected.
LEMMA ThreadStep ==
    ASSUME IInv, NEW t \in Threads, NEW l \in Local, LocalSound(l)',
           thread' = [thread EXCEPT ![t] = l],
           UNCHANGED <<posted, accepted, checkpoint>>,
           stored \subseteq stored', (stored \subseteq Events)',
           rejected' \subseteq stored', \A e \in rejected' : Rejectable(e),
           cursors' \in [Sources -> 0..Len(posted)]
    PROVE  IInv'
<1>1. /\ Events' = Events /\ Local' = Local /\ Row' = Row
      /\ \A k, n : HeadAt(k, n)' = HeadAt(k, n)
      /\ \A e : ChildAccepted(e)' <=> ChildAccepted(e)
      /\ \A e : AllFine(e)' <=> AllFine(e)
      /\ \A e : Rejectable(e)' <=> Rejectable(e)
  BY ChildrenSame DEF Local, Row
<1>2. TypeOK'
  <2>1. thread' \in [Threads -> Local]
    BY DEF IInv, TypeOK
  <2>2. rejected' \subseteq Events'
    OBVIOUS
  <2> QED
    BY <1>1, <2>1, <2>2 DEF IInv, TypeOK
<1>3. Linked' /\ RowsMatchBundles' /\ AcceptedAreFine' /\ RejectedAreRejectable'
  <2>1. Linked'
    BY <1>1 DEF IInv, Linked
  <2>2. RowsMatchBundles'
    BY ChildrenSame DEF IInv, RowsMatchBundles
  <2>3. AcceptedAreFine'
    BY <1>1 DEF IInv, AcceptedAreFine
  <2>4. RejectedAreRejectable'
    BY <1>1 DEF IInv, RejectedAreRejectable
  <2> QED
    BY <2>1, <2>2, <2>3, <2>4
<1>4. Grows
  BY DEF Grows, IInv, TypeOK
<1>5. ThreadsSound'
  <2>1. thread \in [Threads -> Local] /\ TypeOK
    BY DEF IInv, TypeOK
  <2>2. \A k \in Local : LocalSound(k) => LocalSound(k)'
    BY <1>2, <1>4, <2>1, LocalsStay
  <2>3. \A u \in Threads : thread[u] \in Local /\ LocalSound(thread[u])
    BY <2>1 DEF IInv, ThreadsSound
  <2>4. \A u \in Threads : thread'[u] = IF u = t THEN l ELSE thread[u]
    BY <2>1
  <2> QED
    BY <2>2, <2>3, <2>4 DEF ThreadsSound
<1> QED
  BY <1>2, <1>3, <1>5 DEF IInv

\* The same, when no table changes.
LEMMA MoveStep ==
    ASSUME IInv, NEW t \in Threads, NEW l \in Local, LocalSound(l),
           thread' = [thread EXCEPT ![t] = l],
           UNCHANGED <<posted, stored, accepted, rejected, checkpoint>>,
           cursors' \in [Sources -> 0..Len(posted)]
    PROVE  IInv'
<1>1. stored' \subseteq Events'
  BY ChildrenSame DEF IInv, TypeOK
<1>2. rejected' \subseteq stored' /\ \A e \in rejected' : Rejectable(e)
  BY DEF IInv, RejectedAreRejectable
<1>3. LocalSound(l)'
  BY ChildrenSame, LocalsSame
<1> QED
  BY <1>1, <1>2, <1>3, ThreadStep

-----------------------------------------------------------------------------
\* The actions that only move a thread on.

LEMMA StartSyncStep ==
    ASSUME IInv, NEW t \in Threads, NEW s \in Sources, NEW retry \in BOOLEAN,
           StartSync(t, s, retry)
    PROVE  IInv'
<1> DEFINE l == [Idle EXCEPT !.pc = "next", !.source = s, !.retry = retry,
                             !.event = cursors[s] + 1, !.last = Len(posted)]
<1>1. /\ cursors[s] \in 0..Len(posted) /\ Len(posted) \in Nat
      /\ cursors \in [Sources -> 0..Len(posted)]
  BY DEF IInv, TypeOK
<1>2. /\ l.pc = "next" /\ l.last = Len(posted) /\ l.event = cursors[s] + 1
      /\ Fresh(l)
  BY <1>1, IdleType DEF Local, Fresh
<1>3. cursors[s] + 1 \in Nat
  BY <1>1
<1>6. l \in Local
  BY <1>1, <1>3, IdleType DEF Local
<1>7. l.event # 0 /\ l.last \in 0..Len(posted)
  BY <1>1, <1>2
<1>4. /\ thread' = [thread EXCEPT ![t] = l]
      /\ UNCHANGED <<posted, stored, accepted, rejected, checkpoint>>
      /\ cursors' = cursors
  BY DEF StartSync, tables
<1> HIDE DEF l
<1>5. LocalSound(l)
  BY <1>2, <1>7, RestSound
<1> QED
  BY <1>1, <1>4, <1>5, <1>6, MoveStep

LEMMA StartIngestStep ==
    ASSUME IInv, NEW t \in Threads, NEW e \in Events, NEW retry \in BOOLEAN,
           StartIngest(t, e, retry)
    PROVE  IInv'
<1> DEFINE l == [Idle EXCEPT !.pc = "next", !.retry = retry, !.event = e, !.last = e]
<1>1. /\ e \in Nat \ {0} /\ e \in 0..Len(posted)
      /\ cursors \in [Sources -> 0..Len(posted)]
  BY DEF IInv, TypeOK, Events
<1>2. l \in Local /\ l.pc = "next" /\ l.last = e /\ l.event = e /\ Fresh(l)
  BY <1>1, IdleType DEF Local, Fresh
<1>3. /\ thread' = [thread EXCEPT ![t] = l]
      /\ UNCHANGED <<posted, stored, accepted, rejected, checkpoint>>
      /\ cursors' = cursors
  BY DEF StartIngest, tables
<1> HIDE DEF l
<1>4. LocalSound(l)
  BY <1>1, <1>2, RestSound
<1> QED
  BY <1>1, <1>2, <1>3, <1>4, MoveStep

LEMMA FinishStep ==
    ASSUME IInv, NEW t \in Threads, Finish(t)
    PROVE  IInv'
<1>1. cursors' \in [Sources -> 0..Len(posted)]
  <2>1. thread[t].last \in 0..Len(posted) /\ cursors \in [Sources -> 0..Len(posted)]
    BY DEF IInv, TypeOK, ThreadsSound, LocalSound
  <2> QED
    BY <2>1 DEF Finish
<1>2. /\ thread' = [thread EXCEPT ![t] = Idle]
      /\ UNCHANGED <<posted, stored, accepted, rejected, checkpoint>>
  BY DEF Finish
<1> QED
  BY <1>1, <1>2, IdleSound, MoveStep DEF IInv

LEMMA InspectStep ==
    ASSUME IInv, NEW t \in Threads, Inspect(t)
    PROVE  IInv'
<1>0. PICK local : local = thread[t]
  OBVIOUS
<1> DEFINE bundle == posted[local.event]
           a == [local EXCEPT !.pc = "append", !.rejecting = ~bundle.decodable]
           c == [local EXCEPT !.pc = "checkpoint"]
<1>1. /\ local \in Local /\ LocalSound(local) /\ local.pc = "next"
      /\ cursors \in [Sources -> 0..Len(posted)] /\ Len(posted) \in Nat
      /\ local.event <= local.last
  BY <1>0 DEF IInv, TypeOK, ThreadsSound, Inspect, At
<1>2. local.last \in 0..Len(posted) /\ local.event \in Nat \ {0}
  BY <1>1 DEF LocalSound, Local
<1>3. local.event \in Events
  BY <1>1, <1>2 DEF IInv, TypeOK, Events
<1>4. /\ bundle \in [decodable : BOOLEAN, children : Seq(Children)]
      /\ ChildrenOf(local.event) = bundle.children
      /\ DOMAIN bundle.children = 1..Len(bundle.children)
      /\ Len(bundle.children) \in Nat
  BY <1>3, PostedType DEF IInv, ChildrenOf
<1>5. \/ thread' = [thread EXCEPT ![t] = Done(local)]
      \/ bundle.children = <<>> /\ thread' = [thread EXCEPT ![t] = a]
      \/ bundle.children # <<>> /\ thread' = [thread EXCEPT ![t] = c]
  BY <1>0 DEF Inspect
<1>6. /\ UNCHANGED <<posted, stored, accepted, rejected, checkpoint>>
      /\ cursors' = cursors
  BY DEF Inspect, tables
<1>7. Fresh(local) /\ local.rejecting \in BOOLEAN
  BY <1>1 DEF LocalSound, Local
<1>8. bundle.children = <<>> => a \in Local /\ LocalSound(a)
  <2> SUFFICES ASSUME bundle.children = <<>> PROVE a \in Local /\ LocalSound(a)
    OBVIOUS
  <2>1. PICK b \in BOOLEAN : b = ~bundle.decodable
    OBVIOUS
  <2>2. /\ a \in Local /\ a.pc = "append" /\ a.rejecting = b /\ a.event = local.event
        /\ a.staged = <<>> /\ a.last = local.last
    BY <1>1, <1>7, <2>1 DEF Local, Fresh
  <2> HIDE DEF a
  <2>3. b => Rejectable(local.event)
    BY <2>1 DEF Rejectable
  <2> QED
    BY <1>2, <1>3, <2>2, <2>3 DEF LocalSound
<1>9. bundle.children # <<>> => c \in Local /\ LocalSound(c)
  <2> SUFFICES ASSUME bundle.children # <<>> PROVE c \in Local /\ LocalSound(c)
    OBVIOUS
  <2>1. /\ c \in Local /\ c.pc = "checkpoint" /\ c.event = local.event /\ c.child = 1
        /\ c.staged = <<>> /\ ~c.rejecting /\ c.last = local.last
    BY <1>1, <1>7 DEF Local, Fresh
  <2>2. 1 \in DOMAIN ChildrenOf(local.event)
    BY <1>4, EmptySeq
  <2> HIDE DEF c
  <2> QED
    BY <1>2, <1>3, <2>1, <2>2 DEF LocalSound
<1>10. Done(local) \in Local /\ LocalSound(Done(local))
  BY <1>1, DoneSound
<1> HIDE DEF a, c, bundle
<1> QED
  BY <1>1, <1>5, <1>6, <1>8, <1>9, <1>10, MoveStep

-----------------------------------------------------------------------------
\* The examination of a child.

\* With the child found fine, the thread goes on.
LEMMA NextChildSound ==
    ASSUME TypeOK, NEW l \in Local, LocalSound(l), l.pc = "checkpoint",
           Fine(ChildrenOf(l.event)[l.child])
    PROVE  NextChild(l) \in Local /\ LocalSound(NextChild(l))
<1>1. /\ l.event \in Events /\ l.child \in DOMAIN ChildrenOf(l.event) /\ ~l.rejecting
      /\ l.last \in 0..Len(posted)
      /\ \A i \in 1..l.child - 1 : Fine(ChildrenOf(l.event)[i])
      /\ \A k \in DOMAIN l.staged :
            /\ l.staged[k] \in DOMAIN ChildrenOf(l.event)
            /\ Extends(ChildrenOf(l.event)[l.staged[k]])
  BY DEF LocalSound
<1>2. /\ DOMAIN ChildrenOf(l.event) = 1..Len(ChildrenOf(l.event))
      /\ Len(ChildrenOf(l.event)) \in Nat
  BY <1>1, PostedType
<1>3. l.child \in Nat \ {0}
  BY DEF Local
<1> DEFINE a == [l EXCEPT !.child = l.child + 1]
           b == [l EXCEPT !.pc = "append"]
<1>4. CASE l.child < Len(ChildrenOf(l.event))
  <2>1. l.child + 1 \in Nat \ {0}
    BY <1>3
  <2>2. /\ a \in Local /\ a.pc = "checkpoint" /\ a.event = l.event
        /\ a.child = l.child + 1 /\ a.staged = l.staged /\ a.rejecting = l.rejecting
        /\ a.last = l.last
    BY <2>1 DEF Local
  <2>3. NextChild(l) = a
    BY <1>4 DEF NextChild
  <2> HIDE DEF a
  <2>4. a.child \in DOMAIN ChildrenOf(l.event)
    BY <1>2, <1>3, <1>4, <2>2
  <2>5. \A i \in 1..a.child - 1 : Fine(ChildrenOf(l.event)[i])
    <3>1. \A i \in 1..a.child - 1 : i \in 1..l.child - 1 \/ i = l.child
      BY <1>3, <2>2
    <3> QED
      BY <1>1, <3>1
  <2>6. LocalSound(a)
    BY <1>1, <2>2, <2>4, <2>5 DEF LocalSound
  <2> QED
    BY <2>2, <2>3, <2>6
<1>5. CASE ~(l.child < Len(ChildrenOf(l.event))) /\ l.staged = <<>>
  <2>1. NextChild(l) = Done(l)
    BY <1>5 DEF NextChild
  <2> QED
    BY <2>1, DoneSound
<1>6. CASE ~(l.child < Len(ChildrenOf(l.event))) /\ l.staged # <<>>
  <2>1. /\ b \in Local /\ b.pc = "append" /\ b.event = l.event
        /\ b.staged = l.staged /\ b.rejecting = l.rejecting /\ b.last = l.last
    BY DEF Local
  <2>2. NextChild(l) = b
    BY <1>6 DEF NextChild
  <2> HIDE DEF b
  <2>3. AllFine(l.event)
    <3>1. \A i \in DOMAIN ChildrenOf(l.event) : i \in 1..l.child - 1 \/ i = l.child
      BY <1>1, <1>2, <1>3, <1>6
    <3> QED
      BY <1>1, <3>1 DEF AllFine
  <2>4. LocalSound(b)
    BY <1>1, <2>1, <2>3 DEF LocalSound
  <2> QED
    BY <2>1, <2>2, <2>4
<1> QED
  BY <1>4, <1>5, <1>6

\* The checkpoint a child is examined against is the end of its layer's chain.
LEMMA CheckpointIsAHead ==
    ASSUME IInv, NEW l \in Layers
    PROVE  /\ checkpoint[l].sequence = Len(accepted[l]) /\ Len(accepted[l]) \in Nat
           /\ checkpoint[l] = HeadAt(l, Len(accepted[l]))
  BY DEF IInv, TypeOK, Linked, HeadAt

LEMMA ExamineStep ==
    ASSUME IInv, NEW t \in Threads, Examine(t)
    PROVE  IInv'
<1>0. PICK local : local = thread[t]
  OBVIOUS
<1>1. /\ local \in Local /\ LocalSound(local) /\ local.pc = "checkpoint" /\ TypeOK
      /\ cursors \in [Sources -> 0..Len(posted)]
  BY <1>0 DEF IInv, TypeOK, ThreadsSound, Examine, At
<1>2. local.event \in Events /\ local.child \in DOMAIN ChildrenOf(local.event)
      /\ ~local.rejecting
  BY <1>1 DEF LocalSound
<1>3. PICK c \in Children : c = ChildrenOf(local.event)[local.child]
  BY <1>1, <1>2, PostedType
<1>4. PICK n \in Nat : n = Len(accepted[c.layer])
  BY ChildType, CheckpointIsAHead
<1>5. PICK seen : seen = checkpoint[c.layer]
  OBVIOUS
<1>6. seen.sequence = n /\ seen = HeadAt(c.layer, n) /\ c.sequence \in Nat \ {0}
  BY <1>4, <1>5, ChildType, CheckpointIsAHead
<1> DEFINE m == [local EXCEPT !.staged = Append(local.staged, local.child)]
           r == [local EXCEPT !.pc = "append", !.rejecting = TRUE]
<1>7. /\ UNCHANGED <<posted, stored, accepted, rejected, checkpoint>>
      /\ cursors' = cursors
  BY DEF Examine, tables
<1>8. \/ thread' = [thread EXCEPT ![t] = Done(local)]
      \/ c.sequence <= n /\ thread' = [thread EXCEPT ![t] = NextChild(local)]
      \/ /\ c.sequence = n + 1 /\ Verifies(c, seen)
         /\ thread' = [thread EXCEPT ![t] = NextChild(m)]
      \/ thread' = [thread EXCEPT ![t] = Idle]
      \/ /\ c.sequence = n + 1 /\ ~Verifies(c, seen)
         /\ thread' = [thread EXCEPT ![t] = r]
  <2>1. PICK d, k, km : d = Done(local) /\ k = NextChild(local) /\ km = NextChild(m)
    OBVIOUS
  <2>2. thread' = [thread EXCEPT ![t] =
            IF c.sequence > seen.sequence + 1 THEN d
            ELSE IF c.sequence <= seen.sequence THEN k
            ELSE IF Verifies(c, seen) THEN km
            ELSE IF Raises(c, seen) THEN Idle
            ELSE r]
    <3>1. thread' = [thread EXCEPT ![t] =
              IF c.sequence > seen.sequence + 1 THEN Done(local)
              ELSE IF c.sequence <= seen.sequence THEN NextChild(local)
              ELSE IF Verifies(c, seen)
              THEN NextChild([local EXCEPT !.staged = Append(local.staged, local.child)])
              ELSE IF Raises(c, seen) THEN Idle
              ELSE [local EXCEPT !.pc = "append", !.rejecting = TRUE]]
      <4>1. [local EXCEPT !.staged = Append(@, local.child)]
                = [local EXCEPT !.staged = Append(local.staged, local.child)]
        BY Zenon
      <4> QED
        BY <1>0, <1>3, <1>5, <4>1 DEF Examine
    <3> QED
      BY <2>1, <3>1
  <2> HIDE DEF m, r
  <2>3. c.sequence > n + 1 \/ c.sequence <= n \/ c.sequence = n + 1
    BY <1>4, <1>6
  <2> QED
    BY <1>6, <2>1, <2>2, <2>3
<1>9. CASE thread' = [thread EXCEPT ![t] = Done(local)]
  BY <1>1, <1>7, <1>9, DoneSound, MoveStep
<1>10. CASE thread' = [thread EXCEPT ![t] = Idle]
  BY <1>1, <1>7, <1>10, IdleSound, MoveStep
<1>11. CASE c.sequence <= n /\ thread' = [thread EXCEPT ![t] = NextChild(local)]
  <2>1. Fine(c)
    BY <1>4, <1>11 DEF Fine, Settled
  <2>2. NextChild(local) \in Local /\ LocalSound(NextChild(local))
    BY <1>1, <1>3, <2>1, NextChildSound
  <2> QED
    BY <1>1, <1>7, <1>11, <2>2, MoveStep
<1>12. CASE /\ c.sequence = n + 1 /\ Verifies(c, seen)
            /\ thread' = [thread EXCEPT ![t] = NextChild(m)]
  <2>1. Extends(c)
    BY <1>4, <1>6, <1>12 DEF Extends
  <2>2. local.staged \in Seq(Nat \ {0}) /\ local.child \in Nat \ {0}
    BY <1>1 DEF Local
  <2>3. PICK s : s = Append(local.staged, local.child)
    OBVIOUS
  <2>4. /\ s \in Seq(Nat \ {0})
        /\ \A k \in DOMAIN s : \/ k \in DOMAIN local.staged /\ s[k] = local.staged[k]
                               \/ s[k] = local.child
    BY <2>2, <2>3, AppendProperties
  <2>5. /\ m \in Local /\ m.pc = "checkpoint" /\ m.event = local.event /\ m.staged = s
        /\ m.child = local.child /\ m.rejecting = local.rejecting /\ m.last = local.last
    BY <1>1, <2>3, <2>4 DEF Local
  <2> HIDE DEF m
  <2>6. \A k \in DOMAIN s :
            /\ s[k] \in DOMAIN ChildrenOf(local.event)
            /\ Extends(ChildrenOf(local.event)[s[k]])
    BY <1>1, <1>2, <1>3, <2>1, <2>4 DEF LocalSound
  <2>7. LocalSound(m)
    BY <1>1, <1>2, <2>5, <2>6 DEF LocalSound
  <2>8. NextChild(m) \in Local /\ LocalSound(NextChild(m))
    BY <1>1, <1>3, <2>1, <2>5, <2>7, NextChildSound DEF Fine
  <2> QED
    BY <1>1, <1>7, <1>12, <2>8, MoveStep
<1>13. CASE /\ c.sequence = n + 1 /\ ~Verifies(c, seen)
            /\ thread' = [thread EXCEPT ![t] = r]
  <2>1. Bad(c)
    BY <1>4, <1>6, <1>13 DEF Bad
  <2>2. /\ r \in Local /\ r.pc = "append" /\ r.event = local.event /\ r.rejecting
        /\ r.staged = local.staged /\ r.last = local.last
    BY <1>1 DEF Local
  <2> HIDE DEF r
  <2>3. Rejectable(local.event)
    BY <1>2, <1>3, <2>1 DEF Rejectable
  <2>4. LocalSound(r)
    BY <1>1, <2>2, <2>3 DEF LocalSound
  <2> QED
    BY <1>1, <1>7, <1>13, <2>2, <2>4, MoveStep
<1> QED
  BY <1>8, <1>9, <1>10, <1>11, <1>12, <1>13

-----------------------------------------------------------------------------
\* The actions that write the tables.

LEMMA AppendEventStep ==
    ASSUME IInv, NEW t \in Threads, AppendEvent(t)
    PROVE  IInv'
<1>0. PICK local : local = thread[t]
  OBVIOUS
<1> DEFINE a == [local EXCEPT !.pc = "commit"]
<1>1. /\ local \in Local /\ LocalSound(local) /\ local.pc = "append" /\ TypeOK
      /\ cursors \in [Sources -> 0..Len(posted)]
  BY <1>0 DEF IInv, TypeOK, ThreadsSound, AppendEvent, At
<1>2. local.event \in Events
  BY <1>1 DEF LocalSound
<1>3. stored' = stored \cup {local.event} /\ UNCHANGED <<posted, accepted, rejected, checkpoint, cursors>>
  BY <1>0 DEF AppendEvent
<1>4. \/ thread' = [thread EXCEPT ![t] = Done(local)]
      \/ /\ local.rejecting \/ local.staged # <<>>
         /\ thread' = [thread EXCEPT ![t] = a]
  BY <1>0 DEF AppendEvent
<1>5. stored \subseteq stored' /\ (stored \subseteq Events)' /\ rejected' \subseteq stored'
      /\ \A e \in rejected' : Rejectable(e)
  BY <1>1, <1>2, <1>3, ChildrenSame DEF IInv, TypeOK, RejectedAreRejectable
<1>6. CASE thread' = [thread EXCEPT ![t] = Done(local)]
  <2>1. Done(local) \in Local /\ Done(local).pc = "next" /\ Fresh(Done(local))
        /\ Done(local).event # 0 /\ Done(local).last \in 0..Len(posted)
    BY <1>1, DoneType DEF LocalSound
  <2>2. PICK d : d = Done(local)
    OBVIOUS
  <2>3. LocalSound(d)'
    BY <1>3, <2>1, <2>2 DEF LocalSound
  <2> QED
    BY <1>1, <1>3, <1>5, <1>6, <2>1, <2>2, <2>3, ThreadStep
<1>7. CASE /\ local.rejecting \/ local.staged # <<>>
           /\ thread' = [thread EXCEPT ![t] = a]
  <2>1. /\ a \in Local /\ a.pc = "commit" /\ a.event = local.event
        /\ a.staged = local.staged /\ a.rejecting = local.rejecting /\ a.last = local.last
    BY <1>1 DEF Local
  <2>2. PICK d : d = a
    OBVIOUS
  <2> HIDE DEF a
  <2>3. \A c : Extends(c)' <=> Extends(c)
    BY <1>3, ChildrenSame DEF Extends, Verifies
  <2>4. ChildrenOf(d.event)' = ChildrenOf(d.event)
    BY <1>3 DEF ChildrenOf
  <2>5. LocalSound(d)'
    BY <1>1, <1>2, <1>3, <1>7, <2>1, <2>2, <2>3, <2>4, ChildrenSame DEF LocalSound
  <2> QED
    BY <1>1, <1>3, <1>5, <1>7, <2>1, <2>2, <2>5, ThreadStep
<1> QED
  BY <1>4, <1>6, <1>7

LEMMA CommitRejectionStep ==
    ASSUME IInv, NEW t \in Threads, CommitRejection(t)
    PROVE  IInv'
<1>0. PICK local : local = thread[t]
  OBVIOUS
<1>1. /\ local \in Local /\ LocalSound(local) /\ local.pc = "commit" /\ local.rejecting
      /\ cursors \in [Sources -> 0..Len(posted)]
  BY <1>0 DEF IInv, TypeOK, ThreadsSound, CommitRejection, At
<1>2. local.event \in stored /\ Rejectable(local.event)
  BY <1>1 DEF LocalSound
<1>3. /\ rejected' = rejected \cup {local.event}
      /\ thread' = [thread EXCEPT ![t] = Done(local)]
      /\ UNCHANGED <<posted, stored, accepted, checkpoint, cursors>>
  BY <1>0 DEF CommitRejection
<1>4. Done(local) \in Local /\ LocalSound(Done(local))
  BY <1>1, DoneSound
<1>5. LocalSound(Done(local))'
  BY <1>0, <1>3, <1>4, LocalsSame
<1>6. stored \subseteq stored' /\ (stored \subseteq Events)' /\ rejected' \subseteq stored'
      /\ \A e \in rejected' : Rejectable(e)
  BY <1>2, <1>3, ChildrenSame DEF IInv, TypeOK, RejectedAreRejectable
<1> QED
  BY <1>1, <1>3, <1>4, <1>5, <1>6, ThreadStep

\* The accepted payloads of a layer, as the abstract verifier sees them.
LEMMA PayloadsOfAppended ==
    ASSUME NEW s \in Seq(Row), NEW r \in Row,
           NEW f, f = [i \in DOMAIN s |-> s[i].payload],
           NEW g, g = [i \in DOMAIN Append(s, r) |-> Append(s, r)[i].payload]
    PROVE  f \in Seq(Children) /\ Len(f) = Len(s) /\ g = Append(f, r.payload)
<1>1. /\ DOMAIN s = 1..Len(s) /\ Len(s) \in Nat
      /\ \A i \in 1..Len(s) : s[i].payload \in Children
  <2>1. \A i \in 1..Len(s) : s[i] \in Row
    BY ElementOfSeq
  <2> QED
    BY <2>1 DEF Row
<1>2. f \in [1..Len(s) -> Children]
  BY <1>1
<1>3. f \in Seq(Children) /\ Len(f) = Len(s)
  BY <1>1, <1>2, LenProperties
<1>4. r.payload \in Children
  BY DEF Row
<1>5. /\ DOMAIN Append(s, r) = 1..Len(s) + 1
      /\ \A i \in 1..Len(s) : Append(s, r)[i] = s[i]
      /\ Append(s, r)[Len(s) + 1] = r
  BY AppendProperties
<1>6. /\ DOMAIN Append(f, r.payload) = 1..Len(s) + 1
      /\ \A i \in 1..Len(s) : Append(f, r.payload)[i] = f[i]
      /\ Append(f, r.payload)[Len(s) + 1] = r.payload
  BY <1>3, <1>4, AppendProperties
<1>7. \A i \in 1..Len(s) + 1 : g[i] = Append(f, r.payload)[i]
  BY <1>1, <1>5, <1>6
<1>8. Append(f, r.payload) = [i \in 1..Len(s) + 1 |-> Append(f, r.payload)[i]]
  <2>1. Append(f, r.payload) \in Seq(Children) /\ Len(Append(f, r.payload)) = Len(s) + 1
    BY <1>3, <1>4, AppendProperties
  <2> QED
    BY <2>1
<1>9. g = [i \in 1..Len(s) + 1 |-> g[i]]
  BY <1>5
<1> QED
  BY <1>3, <1>7, <1>8, <1>9

\* A payload is recorded, with the lock or without: it extends a prefix of its
\* layer's chain, its number is free, and so it extends the whole of it.
LEMMA RecordStep ==
    ASSUME IInv, NEW by \in {"bundle", "plain"}, NEW e \in Nat, NEW c \in Children,
           c.ok, SequenceFree(c),
           c.sequence <= Len(accepted[c.layer]) + 1,
           c.sequence > 1 \/ by = "bundle" =>
               c.prev = HeadAt(c.layer, c.sequence - 1).state,
           RecordAccepted(by, e, c),
           by = "bundle" => e \in stored /\ IsChild(c, e) /\ AllFine(e),
           UNCHANGED <<posted, stored, rejected, cursors>>,
           NEW f \in [Threads -> Local], thread' = f,
           \A u \in Threads : LocalSound(f[u])
    PROVE  IInv' /\ Chains!Next
<1>0. PICK l \in Layers : l = c.layer
  BY ChildType
<1>1. PICK n \in Nat : n = Len(accepted[l])
  BY CheckpointIsAHead
<1>2. PICK row : row = [by |-> by, event |-> e, payload |-> c]
  OBVIOUS
<1>3. /\ row \in Row /\ row.by = by /\ row.event = e /\ row.payload = c
      /\ c.sequence \in Nat \ {0} /\ c.new \in States
  BY <1>2, ChildType DEF Row
<1>4. /\ accepted \in [Layers -> Seq(Row)] /\ checkpoint \in [Layers -> Checkpoint]
      /\ TypeOK
  BY DEF IInv, TypeOK
<1>5. \A k \in Layers : DOMAIN accepted[k] = 1..Len(accepted[k]) /\ Len(accepted[k]) \in Nat
  BY <1>4
<1>6. c.sequence = n + 1
  <2>1. \A i \in 1..n : i # c.sequence
    <3>1. \A i \in 1..n : accepted[l][i].payload.sequence = i
      BY <1>1, <1>5 DEF IInv, Linked
    <3>2. \A i \in 1..n : accepted[l][i].payload.sequence # c.sequence
      BY <1>0, <1>1, <1>5 DEF SequenceFree
    <3> QED
      BY <3>1, <3>2
  <2> QED
    BY <1>0, <1>1, <1>3, <2>1
<1>7. /\ accepted' = [accepted EXCEPT ![l] = Append(accepted[l], row)]
      /\ checkpoint' = [checkpoint EXCEPT ![l] = [sequence |-> n + 1, state |-> c.new]]
  BY <1>0, <1>2, <1>6 DEF RecordAccepted
<1>8. /\ Append(accepted[l], row) \in Seq(Row)
      /\ Len(Append(accepted[l], row)) = n + 1
      /\ \A i \in 1..n : Append(accepted[l], row)[i] = accepted[l][i]
      /\ Append(accepted[l], row)[n + 1] = row
  BY <1>1, <1>3, <1>4, AppendProperties
<1>9. /\ accepted' \in [Layers -> Seq(Row)]
      /\ \A k \in Layers : k # l => accepted'[k] = accepted[k]
      /\ accepted'[l] \in Seq(Row) /\ Len(accepted'[l]) = n + 1
      /\ DOMAIN accepted'[l] = 1..n + 1
      /\ \A i \in 1..n : accepted'[l][i] = accepted[l][i]
      /\ accepted'[l][n + 1] = row
  BY <1>4, <1>7, <1>8
<1>10. Events' = Events /\ Local' = Local /\ Row' = Row
  BY DEF Events, Local, Row
<1>11. TypeOK'
  <2>1. checkpoint' \in [Layers -> Checkpoint]
    BY <1>3, <1>4, <1>7 DEF Checkpoint
  <2> QED
    BY <1>4, <1>9, <1>10, <2>1 DEF TypeOK, Checkpoint
<1>12. Grows
  <2>1. Len(posted) \in Nat
    BY <1>4 DEF TypeOK
  <2>2. \A k \in Layers : /\ Len(accepted[k]) <= Len(accepted'[k])
                          /\ \A i \in 1..Len(accepted[k]) : accepted'[k][i] = accepted[k][i]
    <3> SUFFICES ASSUME NEW k \in Layers
                 PROVE  /\ Len(accepted[k]) <= Len(accepted'[k])
                        /\ \A i \in 1..Len(accepted[k]) : accepted'[k][i] = accepted[k][i]
      OBVIOUS
    <3>1. CASE k = l
      BY <1>1, <1>9, <3>1
    <3>2. CASE k # l
      BY <1>5, <1>9, <3>2
    <3> QED
      BY <3>1, <3>2
  <2> QED
    BY <2>1, <2>2 DEF Grows
<1>13. \A k \in Layers : \A m \in 0..Len(accepted[k]) : HeadAt(k, m)' = HeadAt(k, m)
  BY <1>4, <1>11, <1>12, HeadsStay
<1>14. \A k \in Layers : \A i \in DOMAIN accepted'[k] :
           \/ /\ i \in DOMAIN accepted[k] /\ i \in 1..Len(accepted[k])
              /\ accepted'[k][i] = accepted[k][i]
           \/ k = l /\ i = n + 1 /\ accepted'[k][i] = row
  <2> SUFFICES ASSUME NEW k \in Layers, NEW i \in DOMAIN accepted'[k]
               PROVE  \/ /\ i \in DOMAIN accepted[k] /\ i \in 1..Len(accepted[k])
                         /\ accepted'[k][i] = accepted[k][i]
                      \/ k = l /\ i = n + 1 /\ accepted'[k][i] = row
    OBVIOUS
  <2>1. CASE k # l
    BY <1>5, <1>9, <2>1
  <2>2. CASE k = l
    BY <1>1, <1>5, <1>9, <2>2
  <2> QED
    BY <2>1, <2>2
<1>15. Linked'
  <2>1. ASSUME NEW k \in Layers
        PROVE  (checkpoint[k] = HeadAt(k, Len(accepted[k])))'
    <3>1. CASE k # l
      <4>1. PICK m \in Nat : m = Len(accepted[k]) /\ m = Len(accepted'[k])
        BY <1>5, <1>9, <3>1
      <4>2. checkpoint'[k] = HeadAt(k, m)
        BY <1>4, <1>7, <3>1, <4>1, CheckpointIsAHead
      <4>3. m \in 0..Len(accepted[k])
        BY <4>1
      <4>4. PICK h : h = HeadAt(k, m) /\ h = HeadAt(k, m)'
        BY <1>13, <4>3
      <4> QED
        BY <4>1, <4>2, <4>4 DEF HeadAt
    <3>2. CASE k = l
      <4>1. checkpoint'[k] = [sequence |-> n + 1, state |-> c.new]
        BY <1>4, <1>7, <3>2
      <4> QED
        BY <1>3, <1>9, <3>2, <4>1 DEF HeadAt
    <3> QED
      BY <3>1, <3>2
  <2>2. ASSUME NEW k \in Layers, NEW i \in DOMAIN accepted'[k], NEW r, r = accepted'[k][i]
        PROVE  /\ r.payload.layer = k /\ r.payload.sequence = i /\ r.payload.ok
               /\ i > 1 \/ r.by = "bundle" => r.payload.prev = HeadAt(k, i - 1)'.state
    <3>1. CASE i \in DOMAIN accepted[k] /\ i \in 1..Len(accepted[k]) /\ r = accepted[k][i]
      <4>1. i - 1 \in 0..Len(accepted[k])
        BY <1>5, <3>1
      <4>2. PICK h : h = HeadAt(k, i - 1) /\ h = HeadAt(k, i - 1)'
        BY <1>13, <4>1
      <4>3. /\ r.payload.layer = k /\ r.payload.sequence = i /\ r.payload.ok
            /\ i > 1 \/ r.by = "bundle" => r.payload.prev = HeadAt(k, i - 1).state
        BY <3>1 DEF IInv, Linked
      <4> QED
        BY <4>2, <4>3
    <3>2. CASE k = l /\ i = n + 1 /\ r = row
      <4>1. i - 1 = n /\ n \in 0..Len(accepted[l])
        BY <1>1, <3>2
      <4>2. PICK h : h = HeadAt(l, n) /\ h = HeadAt(l, n)'
        BY <1>13, <4>1
      <4>3. c.sequence - 1 = n
        BY <1>6
      <4>4. i > 1 \/ r.by = "bundle" => r.payload.prev = h.state
        BY <1>0, <1>3, <1>6, <3>2, <4>2, <4>3
      <4> QED
        BY <1>0, <1>3, <1>6, <3>2, <4>1, <4>2, <4>4
    <3> QED
      BY <1>14, <2>2, <3>1, <3>2
  <2>3. \A k \in Layers :
            /\ (checkpoint[k] = HeadAt(k, Len(accepted[k])))'
            /\ \A i \in DOMAIN accepted'[k] :
                  /\ accepted'[k][i].payload.layer = k
                  /\ accepted'[k][i].payload.sequence = i
                  /\ accepted'[k][i].payload.ok
                  /\ i > 1 \/ accepted'[k][i].by = "bundle" =>
                        accepted'[k][i].payload.prev = HeadAt(k, i - 1)'.state
    BY <2>1, <2>2
  <2> QED
    BY <2>3 DEF Linked
<1>16. RowsMatchBundles'
  <2>1. \A d, k : IsChild(d, k)' <=> IsChild(d, k)
    BY DEF IsChild, ChildrenOf
  <2> QED
    BY <1>3, <1>14, <2>1 DEF IInv, RowsMatchBundles
<1>17. AcceptedAreFine'
  <2> SUFFICES ASSUME NEW d \in Events', ChildAccepted(d)' PROVE AllFine(d)'
    BY DEF AcceptedAreFine
  <2>1. d \in Events /\ d # 0
    BY <1>4, <1>10 DEF TypeOK, Events
  <2>2. ChildAccepted(d) \/ (d = e /\ by = "bundle")
    BY <1>3, <1>14 DEF ChildAccepted
  <2>3. AllFine(d)
    BY <2>1, <2>2 DEF IInv, AcceptedAreFine
  <2> QED
    BY <1>4, <1>11, <1>12, <2>1, <2>3, EventsStay
<1>18. RejectedAreRejectable'
  <2>1. \A d \in rejected : d \in Events /\ Rejectable(d)
    BY <1>4 DEF IInv, TypeOK, RejectedAreRejectable
  <2> QED
    BY <1>4, <1>11, <1>12, <2>1, EventsStay DEF RejectedAreRejectable
<1>19. ThreadsSound'
  <2>1. \A k \in Local : LocalSound(k) => LocalSound(k)'
    BY <1>4, <1>11, <1>12, LocalsStay
  <2>2. ASSUME NEW u \in Threads PROVE LocalSound(f[u])'
    <3>1. PICK k \in Local : k = f[u]
      OBVIOUS
    <3>2. LocalSound(k)
      BY <3>1
    <3>3. LocalSound(k)'
      BY <2>1, <3>2
    <3> QED
      BY <3>1, <3>3
  <2> QED
    BY <2>2 DEF ThreadsSound
<1>20. Chains!Next
  <2>1. PICK F : F = [k \in Layers |-> [i \in DOMAIN accepted[k] |-> accepted[k][i].payload]]
    OBVIOUS
  <2>2. PICK G : G = [k \in Layers |->
                         [i \in DOMAIN accepted'[k] |-> accepted'[k][i].payload]]
    OBVIOUS
  <2>3. F[l] \in Seq(Children) /\ Len(F[l]) = n /\ G[l] = Append(F[l], c)
    <3>1. PICK fl, gl : fl = F[l] /\ gl = G[l]
      OBVIOUS
    <3>2. PICK a : a = accepted[l] /\ a \in Seq(Row) /\ accepted'[l] = Append(a, row)
      BY <1>4, <1>7
    <3>3. /\ fl = [i \in DOMAIN a |-> a[i].payload]
          /\ gl = [i \in DOMAIN Append(a, row) |-> Append(a, row)[i].payload]
      BY <2>1, <2>2, <3>1, <3>2
    <3>4. fl \in Seq(Children) /\ Len(fl) = Len(a) /\ gl = Append(fl, row.payload)
      <4>1. a \in Seq(Row) /\ row \in Row
        BY <1>3, <3>2
      <4>2. fl = [i \in DOMAIN a |-> a[i].payload]
        BY <3>3
      <4>3. gl = [i \in DOMAIN Append(a, row) |-> Append(a, row)[i].payload]
        BY <3>3
      <4> QED
        BY <4>1, <4>2, <4>3, PayloadsOfAppended
    <3> QED
      BY <1>1, <1>3, <3>1, <3>2, <3>4
  <2>4. G = [F EXCEPT ![l] = Append(F[l], c)]
    <3>1. \A k \in Layers : k # l => G[k] = F[k]
      BY <1>9, <2>1, <2>2
    <3> QED
      BY <2>1, <2>2, <2>3, <3>1
  <2>5. F[l] # <<>> => c.prev = F[l][Len(F[l])].new
    <3>1. CASE n = 0
      BY <2>3, <3>1
    <3>2. CASE n # 0
      <4>1. F[l][n] = accepted[l][n].payload
        BY <1>1, <1>5, <2>1, <3>2
      <4>2. HeadAt(l, n).state = accepted[l][n].payload.new
        BY <3>2 DEF HeadAt
      <4>3. c.prev = HeadAt(l, n).state
        BY <1>0, <1>6, <3>2
      <4> QED
        BY <2>3, <4>1, <4>2, <4>3
    <3> QED
      BY <3>1, <3>2
  <2> QED
    BY <1>0, <1>6, <2>1, <2>2, <2>3, <2>4, <2>5 DEF Chains!Next, Chains!Accept
<1>21. (rejected \subseteq stored)'
  BY DEF IInv
<1> QED
  BY <1>11, <1>15, <1>16, <1>17, <1>18, <1>19, <1>20, <1>21 DEF IInv

LEMMA CommitChildStep ==
    ASSUME IInv, NEW t \in Threads, CommitChild(t)
    PROVE  IInv' /\ (Chains!Next \/ UNCHANGED accepted)
<1>0. PICK local : local = thread[t]
  OBVIOUS
<1>1. /\ local \in Local /\ LocalSound(local) /\ local.pc = "commit" /\ ~local.rejecting
      /\ TypeOK /\ thread \in [Threads -> Local]
      /\ cursors \in [Sources -> 0..Len(posted)]
  BY <1>0 DEF IInv, TypeOK, ThreadsSound, CommitChild, At
<1>2. /\ local.event \in Events /\ local.event \in stored /\ local.staged # <<>>
      /\ AllFine(local.event)
  BY <1>1 DEF LocalSound
<1>3. PICK s \in Seq(Nat \ {0}) : s = local.staged
  BY <1>1 DEF Local
<1>4. /\ 1 \in DOMAIN s /\ Head(s) = s[1] /\ Tail(s) \in Seq(Nat \ {0})
      /\ \A k \in DOMAIN Tail(s) : k + 1 \in DOMAIN s /\ Tail(s)[k] = s[k + 1]
  BY <1>2, <1>3, HeadTailProperties
<1>5. PICK c \in Children : c = ChildrenOf(local.event)[Head(s)] /\ Extends(c)
  BY <1>1, <1>2, <1>3, <1>4, PostedType DEF LocalSound
<1>6. local.event \in Nat \ {0}
  BY <1>1, <1>2 DEF TypeOK, Events
<1>7. UNCHANGED <<posted, stored, rejected, cursors>>
  BY DEF CommitChild
<1> DEFINE m == [local EXCEPT !.staged = Tail(s)]
<1>8. CASE /\ SequenceFree(c) /\ RecordAccepted("bundle", local.event, c)
           /\ thread' = [thread EXCEPT ![t] = IF Tail(s) = <<>> THEN Done(local) ELSE m]
  <2>1. Tail(s) # <<>> => m \in Local /\ LocalSound(m)
    <3>1. /\ m \in Local /\ m.pc = "commit" /\ m.event = local.event /\ m.staged = Tail(s)
          /\ m.rejecting = local.rejecting /\ m.last = local.last
      BY <1>1, <1>4 DEF Local
    <3> HIDE DEF m
    <3>2. \A k \in DOMAIN Tail(s) :
              /\ Tail(s)[k] \in DOMAIN ChildrenOf(local.event)
              /\ Extends(ChildrenOf(local.event)[Tail(s)[k]])
      BY <1>1, <1>3, <1>4 DEF LocalSound
    <3> QED
      BY <1>1, <1>2, <3>1, <3>2 DEF LocalSound
  <2>2. Done(local) \in Local /\ LocalSound(Done(local))
    BY <1>1, DoneSound
  <2> HIDE DEF m
  <2>3. PICK d \in Local : d = (IF Tail(s) = <<>> THEN Done(local) ELSE m) /\ LocalSound(d)
    BY <2>1, <2>2
  <2>4. PICK f : f = [thread EXCEPT ![t] = d]
    OBVIOUS
  <2>5. f \in [Threads -> Local] /\ thread' = f
    BY <1>1, <1>8, <2>3, <2>4
  <2>6. \A u \in Threads : LocalSound(f[u])
    <3>1. \A u \in Threads : f[u] = IF u = t THEN d ELSE thread[u]
      BY <1>1, <2>4
    <3> QED
      BY <2>3, <3>1 DEF IInv, ThreadsSound
  <2>7. c.ok /\ c.sequence <= Len(accepted[c.layer]) + 1
        /\ c.prev = HeadAt(c.layer, c.sequence - 1).state
    BY <1>5 DEF Extends, Verifies
  <2>8. IsChild(c, local.event)
    <3>1. Head(s) \in DOMAIN ChildrenOf(local.event)
      BY <1>1, <1>3, <1>4 DEF LocalSound
    <3> QED
      BY <1>5, <3>1 DEF IsChild
  <2> QED
    BY <1>2, <1>6, <1>7, <1>8, <2>5, <2>6, <2>7, <2>8, RecordStep
<1>9. CASE thread' = [thread EXCEPT ![t] = Idle] /\ UNCHANGED <<accepted, checkpoint>>
  BY <1>1, <1>7, <1>9, IdleSound, MoveStep
<1> QED
  BY <1>0, <1>3, <1>5, <1>8, <1>9 DEF CommitChild

LEMMA AcceptPlainStep ==
    ASSUME IInv, NEW p \in Plain, AcceptPlain(p)
    PROVE  IInv' /\ Chains!Next
<1>1. p \in Children /\ p.layer \in Layers /\ p.sequence \in Nat \ {0}
  BY BundleAssumption, ChildType
<1>2. PICK n \in Nat : n = Len(accepted[p.layer])
  BY <1>1, CheckpointIsAHead
<1>3. checkpoint[p.layer].sequence = n /\ checkpoint[p.layer] = HeadAt(p.layer, n)
  BY <1>1, <1>2, CheckpointIsAHead
<1>4. /\ p.ok /\ p.sequence = n + 1 /\ SequenceFree(p)
      /\ \E e \in EventKeys : RecordAccepted("plain", e, p)
      /\ p.sequence > 1 => p.prev = HeadAt(p.layer, n).state
      /\ UNCHANGED <<posted, stored, rejected, cursors, thread>>
  BY <1>3 DEF AcceptPlain
<1>5. p.sequence - 1 = n
  BY <1>4
<1>6. PICK e \in Nat : RecordAccepted("plain", e, p)
  BY <1>4, BundleAssumption
<1>7. thread \in [Threads -> Local] /\ \A u \in Threads : LocalSound(thread[u])
  BY DEF IInv, TypeOK, ThreadsSound
<1>8. PICK f : f = thread
  OBVIOUS
<1>9. f \in [Threads -> Local] /\ thread' = f /\ \A u \in Threads : LocalSound(f[u])
  BY <1>4, <1>7, <1>8
<1> QED
  BY <1>1, <1>2, <1>4, <1>5, <1>9, <1>6, RecordStep

LEMMA PostStep ==
    ASSUME IInv, NEW b \in Bundles, Post(b)
    PROVE  IInv'
<1>1. /\ posted \in Seq(Bundles) /\ TypeOK
      /\ Len(posted) \in Nat /\ Events = 1..Len(posted)
  BY DEF IInv, TypeOK, Events
<1>2. /\ posted' = Append(posted, b)
      /\ UNCHANGED <<stored, accepted, rejected, checkpoint, cursors, thread>>
  BY DEF Post, tables
<1>3. /\ posted' \in Seq(Bundles) /\ Len(posted') = Len(posted) + 1
      /\ Events' = 1..Len(posted) + 1
      /\ \A e \in Events : posted'[e] = posted[e]
  BY <1>1, <1>2, AppendProperties DEF Events
<1>4. Events \subseteq Events' /\ Local' = Local /\ Row' = Row
  BY <1>1, <1>3 DEF Local, Row
<1>5. TypeOK'
  <2>1. cursors' \in [Sources -> 0..Len(posted')]
    BY <1>1, <1>2, <1>3 DEF TypeOK
  <2> QED
    BY <1>1, <1>2, <1>3, <1>4, <2>1 DEF TypeOK
<1>6. Grows
  <2>1. \A l \in Layers : Len(accepted[l]) \in Nat
    BY <1>1 DEF TypeOK
  <2> QED
    BY <1>1, <1>2, <1>3, <2>1 DEF Grows
<1>7. \A l, n : HeadAt(l, n)' = HeadAt(l, n)
  BY <1>2 DEF HeadAt
<1>8. Linked' /\ RowsMatchBundles' /\ (rejected \subseteq stored)'
  <2>1. Linked' /\ (rejected \subseteq stored)'
    BY <1>2, <1>7 DEF IInv, Linked
  <2>2. \A e \in stored : \A c : IsChild(c, e)' <=> IsChild(c, e)
    BY <1>1, <1>3 DEF IsChild, ChildrenOf, TypeOK
  <2> QED
    BY <1>2, <2>1, <2>2 DEF IInv, RowsMatchBundles
<1>9. AcceptedAreFine'
  <2> SUFFICES ASSUME NEW e \in Events', ChildAccepted(e)' PROVE AllFine(e)'
    BY DEF AcceptedAreFine
  <2>1. ChildAccepted(e)
    BY <1>2 DEF ChildAccepted
  <2>2. e \in Events
    <3>1. e \in stored
      BY <2>1 DEF IInv, RowsMatchBundles, ChildAccepted
    <3> QED
      BY <1>1, <3>1 DEF TypeOK
  <2> QED
    BY <1>1, <1>5, <1>6, <2>1, <2>2, EventsStay DEF IInv, AcceptedAreFine
<1>10. RejectedAreRejectable'
  <2>1. \A e \in rejected : e \in Events /\ Rejectable(e)
    BY <1>1 DEF IInv, TypeOK, RejectedAreRejectable
  <2> QED
    BY <1>1, <1>2, <1>5, <1>6, <2>1, EventsStay DEF RejectedAreRejectable
<1>11. ThreadsSound'
  <2>1. \A k \in Local : LocalSound(k) => LocalSound(k)'
    BY <1>1, <1>5, <1>6, LocalsStay
  <2>2. \A u \in Threads : thread[u] \in Local /\ LocalSound(thread[u])
    BY <1>1 DEF IInv, TypeOK, ThreadsSound
  <2> QED
    BY <1>2, <2>1, <2>2 DEF ThreadsSound
<1> QED
  BY <1>5, <1>8, <1>9, <1>10, <1>11 DEF IInv

\* A step that changes nothing but where the threads stand.
LEMMA RestStep ==
    ASSUME IInv, UNCHANGED <<posted, stored, accepted, rejected, checkpoint, cursors>>,
           NEW f \in [Threads -> Local], thread' = f,
           \A u \in Threads : LocalSound(f[u])
    PROVE  IInv'
<1>1. /\ Events' = Events /\ Local' = Local /\ Row' = Row
      /\ \A l, n : HeadAt(l, n)' = HeadAt(l, n)
      /\ \A e : ChildAccepted(e)' <=> ChildAccepted(e)
      /\ \A e : AllFine(e)' <=> AllFine(e)
      /\ \A e : Rejectable(e)' <=> Rejectable(e)
  BY ChildrenSame DEF Local, Row
<1>2. TypeOK'
  BY <1>1 DEF IInv, TypeOK
<1>3. Linked' /\ RowsMatchBundles' /\ (rejected \subseteq stored)'
  BY <1>1, ChildrenSame DEF IInv, Linked, RowsMatchBundles
<1>4. AcceptedAreFine' /\ RejectedAreRejectable'
  BY <1>1 DEF IInv, AcceptedAreFine, RejectedAreRejectable
<1>5. \A u \in Threads : LocalSound(f[u])'
  BY LocalsSame
<1>6. ThreadsSound'
  BY <1>5 DEF ThreadsSound
<1> QED
  BY <1>2, <1>3, <1>4, <1>6 DEF IInv

LEMMA CrashStep ==
    ASSUME IInv, Crash
    PROVE  IInv'
<1>1. UNCHANGED <<posted, stored, accepted, rejected, checkpoint, cursors>>
  BY DEF Crash, tables
<1>2. Idle \in Local /\ LocalSound(Idle)
  BY IdleSound DEF IInv
<1>3. PICK f : f = [t \in Threads |-> Idle]
  OBVIOUS
<1>4. f \in [Threads -> Local] /\ thread' = f /\ \A u \in Threads : LocalSound(f[u])
  BY <1>2, <1>3 DEF Crash
<1> QED
  BY <1>1, <1>4, RestStep

LEMMA StutterStep ==
    ASSUME IInv, UNCHANGED vars
    PROVE  IInv'
<1>1. UNCHANGED <<posted, stored, accepted, rejected, checkpoint, cursors, thread>>
  BY DEF vars, tables
<1>2. PICK f : f = thread
  OBVIOUS
<1>3. f \in [Threads -> Local] /\ thread' = f /\ \A u \in Threads : LocalSound(f[u])
  BY <1>1, <1>2 DEF IInv, TypeOK, ThreadsSound
<1> QED
  BY <1>1, <1>3, RestStep

LEMMA InitIInv == Init => IInv
<1> SUFFICES ASSUME Init PROVE IInv
  OBVIOUS
<1>1. /\ posted = <<>> /\ stored = {} /\ rejected = {} /\ Len(posted) = 0
      /\ \A l \in Layers : accepted[l] = <<>> /\ Len(accepted[l]) = 0
      /\ \A l \in Layers : DOMAIN accepted[l] = {}
      /\ accepted \in [Layers -> Seq(Row)]
  BY DEF Init
<1>2. checkpoint \in [Layers -> Checkpoint]
  BY BundleAssumption DEF Init, Checkpoint
<1>3. TypeOK
  <2>1. cursors \in [Sources -> 0..Len(posted)]
    BY <1>1 DEF Init
  <2>2. thread \in [Threads -> Local]
    BY IdleType DEF Init
  <2>3. posted \in Seq(Bundles)
    BY <1>1
  <2> QED
    BY <1>1, <1>2, <2>1, <2>2, <2>3 DEF TypeOK
<1>4. Linked
  BY <1>1 DEF Init, Linked, HeadAt
<1>5. ThreadsSound
  BY <1>3, IdleSound DEF Init, ThreadsSound
<1>6. RowsMatchBundles /\ AcceptedAreFine /\ RejectedAreRejectable /\ rejected \subseteq stored
  BY <1>1 DEF RowsMatchBundles, AcceptedAreFine, ChildAccepted, RejectedAreRejectable
<1> QED
  BY <1>3, <1>4, <1>5, <1>6 DEF IInv

LEMMA NextIInv == IInv /\ [Next]_vars => IInv'
<1> SUFFICES ASSUME IInv, [Next]_vars PROVE IInv'
  OBVIOUS
<1>1. CASE \E b \in Bundles : Post(b)
  BY <1>1, PostStep
<1>2. CASE \E p \in Plain : AcceptPlain(p)
  BY <1>2, AcceptPlainStep
<1>3. CASE \E t \in Threads : Start(t)
  BY <1>3, StartSyncStep, StartIngestStep DEF Start
<1>4. CASE \E t \in Threads : Step(t)
  BY <1>4, InspectStep, ExamineStep, AppendEventStep, CommitRejectionStep,
     CommitChildStep, FinishStep DEF Step
<1>5. CASE Crash
  BY <1>5, CrashStep
<1>6. CASE UNCHANGED vars
  BY <1>6, StutterStep
<1> QED
  BY <1>1, <1>2, <1>3, <1>4, <1>5, <1>6 DEF Next

LEMMA SpecIInv == Spec => []IInv
  BY InitIInv, NextIInv, PTL DEF Spec

-----------------------------------------------------------------------------
\* The verifier's tables hold what the code puts there (TypeOK of BundleIndex).
THEOREM BundleTypeCorrect == Spec => []TypeOK
<1>1. IInv => TypeOK
  BY DEF IInv
<1> QED
  BY <1>1, SpecIInv, PTL

\* Linked: however bundles, single payloads, threads and restarts interleave
\* with the one transaction per child of _ingest_bundle, every layer's accepted
\* rows are one linked chain that ends in the layer's checkpoint.
THEOREM LayersStayLinked == Spec => []Linked
<1>1. IInv => Linked
  BY DEF IInv
<1> QED
  BY <1>1, SpecIInv, PTL

\* EvidenceKept: append_base_event comes before any commit of a bundle, so no
\* verdict on it is ever without its event.
THEOREM BundleVerdictsHaveEvidence == Spec => []EvidenceKept
<1>1. IInv => EvidenceKept
  BY DEF IInv, EvidenceKept
<1> QED
  BY <1>1, SpecIInv, PTL

\* RejectionsAreDeserved: whatever was accepted while _ingest_bundle looked at
\* the children, a rejected bundle has one that its layer never takes.
THEOREM BundleRejectionsDeserved == Spec => []RejectionsAreDeserved
<1>1. IInv => RejectionsAreDeserved
  <2> SUFFICES ASSUME IInv, NEW e \in rejected, posted[e].decodable
               PROVE  \E i \in DOMAIN ChildrenOf(e) :
                          LET c == ChildrenOf(e)[i]
                          IN  Bad(c) /\ (ChildAccepted(e) =>
                                             c.sequence <= Len(accepted[c.layer]))
    BY DEF RejectionsAreDeserved
  <2>1. e \in Events /\ Rejectable(e)
    BY DEF IInv, TypeOK, RejectedAreRejectable
  <2>2. PICK i \in DOMAIN ChildrenOf(e) : Bad(ChildrenOf(e)[i])
    BY <2>1 DEF Rejectable
  <2>3. ChildAccepted(e) => Fine(ChildrenOf(e)[i])
    BY <2>1, <2>2 DEF IInv, AcceptedAreFine, AllFine
  <2> QED
    BY <2>2, <2>3 DEF Bad, Fine, Settled, Extends
<1> QED
  BY <1>1, SpecIInv, PTL

\* HalfCommittedCanBeCompleted: when _ingest_bundle is stopped between two
\* children, each remaining one is the valid next payload of its layer, or
\* another payload has its number.
THEOREM HalfCommittedBundlesComplete == Spec => []HalfCommittedCanBeCompleted
<1>1. IInv => HalfCommittedCanBeCompleted
  <2> SUFFICES ASSUME IInv, NEW e \in Events, ChildAccepted(e),
                      NEW i \in DOMAIN ChildrenOf(e), NEW c, c = ChildrenOf(e)[i],
                      NEW n, n = Len(accepted[c.layer]), ~Settled(c)
               PROVE  c.sequence = n + 1 /\ Verifies(c, HeadAt(c.layer, n))
    BY DEF HalfCommittedCanBeCompleted
  <2>1. Extends(c)
    BY DEF IInv, AcceptedAreFine, AllFine, Fine
  <2>2. c \in Children
    BY PostedType DEF IInv
  <2>3. c.sequence \in Nat /\ n \in Nat
    BY <2>2, ChildType, CheckpointIsAHead
  <2>4. c.sequence = n + 1 /\ c.sequence - 1 = n
    BY <2>1, <2>3 DEF Extends, Settled
  <2> QED
    BY <2>1, <2>4 DEF Extends
<1> QED
  BY <1>1, SpecIInv, PTL

\* ImplementsVerifiedChains: ingestion of bundles implements the verifier that
\* extends one layer's chain at a time; a bundle's children are not atomic, but
\* nobody who looks at the chains can tell.
THEOREM BundleIndexImplementsChains == Spec => ImplementsVerifiedChains
<1>1. Init => Chains!Init
  <2> SUFFICES ASSUME Init
               PROVE  [l \in Layers |-> [i \in DOMAIN accepted[l] |-> accepted[l][i].payload]]
                          = [l \in Layers |-> <<>>]
    BY DEF Chains!Init
  <2>1. \A l \in Layers : accepted[l] = <<>>
    BY DEF Init
  <2> QED
    BY <2>1
<1>2. IInv /\ [Next]_vars =>
          [Chains!Next]_[l \in Layers |-> [i \in DOMAIN accepted[l] |-> accepted[l][i].payload]]
  <2> SUFFICES ASSUME IInv, [Next]_vars
               PROVE  Chains!Next \/ UNCHANGED accepted
    OBVIOUS
  <2>1. CASE \E t \in Threads : CommitChild(t)
    BY <2>1, CommitChildStep
  <2>2. CASE \E p \in Plain : AcceptPlain(p)
    BY <2>2, AcceptPlainStep
  <2>3. CASE \E b \in Bundles : Post(b)
    BY <2>3 DEF Post, tables
  <2>4. CASE \E t \in Threads : Start(t)
    BY <2>4 DEF Start, StartSync, StartIngest, tables
  <2>5. CASE \E t \in Threads : \/ Inspect(t) \/ Examine(t) \/ AppendEvent(t)
                                \/ CommitRejection(t) \/ Finish(t)
    BY <2>5 DEF Inspect, Examine, AppendEvent, CommitRejection, Finish, tables
  <2>6. CASE Crash \/ UNCHANGED vars
    BY <2>6 DEF Crash, vars, tables
  <2> QED
    BY <2>1, <2>2, <2>3, <2>4, <2>5, <2>6 DEF Next, Step
<1> QED
  BY <1>1, <1>2, SpecIInv, PTL DEF Spec, ImplementsVerifiedChains, Chains!Spec

=============================================================================
