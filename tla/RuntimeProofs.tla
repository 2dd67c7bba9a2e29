--------------------------- MODULE RuntimeProofs ---------------------------
(***************************************************************************)
(* Theorems about Runtime, for any layers and any numbers of batches,      *)
(* resets and restarts.                                                    *)
(*                                                                         *)
(* The argument.  The verifier's checkpoint only falls in a reset.  What   *)
(* the unlocked reader carries is therefore the next number, or one that   *)
(* somebody else has written by now, or was read before a reset            *)
(* (ReaderSound).  The operator's side is read off the checkpoint while    *)
(* one handler has the lock (SyncSound); between handlers, and as long as  *)
(* nothing was torn by a restart, the batches after the checkpoint are all *)
(* there (Complete), and none of them is marked verified (VerifiedLower), *)
(* unless a migration brought the marks along (orphaned).                  *)
(***************************************************************************)
EXTENDS Runtime, WellFoundedInduction, TLAPS

Busy(l) == handler.pc # "idle" /\ handler.layer = l

HandlerSound ==
    /\ handler \in [pc : {"idle", "migrate", "reset_layer", "initialize", "sync_delete"},
                    layer : Layers, sequence : Nat]
    /\ handler.pc = "idle" => handler = Idle
    /\ handler.pc = "migrate" =>
          handler.layer = Default /\ mirror = 1..cut /\ orphaned = {}

\* The tables are finite, and there is one for each layer.
Bounded ==
    /\ cut \in Nat /\ crashes \in Nat
    /\ DOMAIN batches = Layers
    /\ \E k \in Nat : \A n \in mirror : n <= k
    /\ \A l \in Layers : \E k \in Nat : \A n \in DOMAIN batches[l] : n <= k

BatchesKnowLayer ==
    \A l \in Layers : \A n \in DOMAIN batches[l] : batches[l][n].layer = l

SyncSound ==
    handler.pc = "sync_delete" =>
        /\ runtime[handler.layer].next = handler.sequence + 1
        /\ handler.sequence <= checkpoint[handler.layer].sequence

\* The number the reader carries is ahead of the checkpoint or taken; and it is
\* not further ahead than the next one, unless a reset came in between.
ReaderSound ==
    reader # None =>
        LET l == reader.layer
        IN  /\ reader.sequence > checkpoint[l].sequence \/ reader.sequence \in log[l]
            /\ l \in raced \/ reader.sequence <= checkpoint[l].sequence + 1

\* Nothing between the checkpoint and the end of the layer's batches is missing.
CompleteAt(l) ==
    \A n \in Nat \ {0} :
        /\ n > checkpoint[l].sequence
        /\ n < runtime[l].next \/ \E m \in DOMAIN batches[l] : n <= m
        => n \in DOMAIN batches[l]

Complete ==
    \A l \in Layers :
        /\ crashes = 0 /\ runtime[l] # None /\ ~Busy(l)
        /\ Mirrored(l) \subseteq DOMAIN batches[l]
        => CompleteAt(l)

VerifiedLower ==
    \A l \in Layers :
        crashes = 0 /\ l \notin orphaned /\ ~(handler.pc = "initialize" /\ handler.layer = l) =>
            \A n \in DOMAIN batches[l] :
                batches[l][n].verified => n <= checkpoint[l].sequence

IInv ==
    /\ TypeOK
    /\ HandlerSound
    /\ Bounded
    /\ BatchesKnowLayer
    /\ LogIsWhole
    /\ SyncSound
    /\ ReaderSound
    /\ Complete
    /\ VerifiedLower

-----------------------------------------------------------------------------
\* Numbers.

\* A bounded set of numbers with a member has a greatest one.
LEMMA MaxOfBounded ==
    ASSUME NEW S \in SUBSET Nat, NEW s \in S, NEW k \in Nat, \A n \in S : n <= k
    PROVE  Max(S) \in S /\ \A n \in S : n <= Max(S)
<1> DEFINE T == {u \in Nat : \A n \in S : n <= u}
           less == {p \in Nat \X Nat : p[1] < p[2]}
<1>1. PICK u \in T : \A v \in T : ~ (<<v, u>> \in less)
  <2>1. IsWellFoundedOn(less, Nat)
    BY NatLessThanWellFounded, Zenon DEF OpToRel
  <2>2. T \subseteq Nat /\ T # {}
    OBVIOUS
  <2> HIDE DEF T, less
  <2> QED
    BY <2>1, <2>2, WFMin
<1>2. u \in S
  <2> SUFFICES ASSUME u \notin S PROVE FALSE
    OBVIOUS
  <2>1. u \in Nat /\ \A n \in S : n \in Nat /\ n <= u /\ n # u
    OBVIOUS
  <2>2. u - 1 \in T
    BY <2>1
  <2>3. <<u - 1, u>> \in less
    BY <2>1, <2>2
  <2> QED
    BY <1>1, <2>2, <2>3
<1>3. \E x \in S : \A y \in S : x >= y
  BY <1>1, <1>2
<1>4. PICK x : x = Max(S)
  OBVIOUS
<1>5. x \in S /\ \A y \in S : x >= y
  BY <1>3, <1>4 DEF Max
<1> QED
  BY <1>4, <1>5

\* The number after those of D, and at least next.
LEMMA MaxAfter ==
    ASSUME NEW next \in Nat \ {0}, NEW D \in SUBSET (Nat \ {0}),
           NEW k \in Nat, \A n \in D : n <= k,
           NEW S, \A x : x \in S <=> x = next \/ \E n \in D : x = n + 1,
           NEW N, N = Max(S)
    PROVE  /\ N \in Nat \ {0} /\ next <= N
           /\ \A n \in D : n < N
           /\ N = next \/ N - 1 \in D
<1>1. S \in SUBSET Nat /\ next \in S
  OBVIOUS
<1>2. next + k + 1 \in Nat /\ \A n \in S : n <= next + k + 1
  OBVIOUS
<1>3. \A n \in D : n + 1 \in S
  OBVIOUS
<1>4. \A n \in S : n = next \/ \E d \in D : n = d + 1
  OBVIOUS
<1>6. N \in S /\ \A n \in S : n <= N
  BY <1>1, <1>2, MaxOfBounded
<1>7. N \in Nat \ {0} /\ next <= N
  BY <1>1, <1>4, <1>6
<1>8. \A n \in D : n < N
  BY <1>3, <1>6, <1>7
<1>9. N = next \/ N - 1 \in D
  BY <1>4, <1>6
<1> QED
  BY <1>7, <1>8, <1>9

LEMMA NextIsLast ==
    ASSUME TypeOK, Bounded, NEW l \in Layers, runtime[l] # None,
           NEW N, N = NextBatchSequence(l)
    PROVE  /\ N \in Nat \ {0} /\ runtime[l].next <= N
           /\ \A n \in DOMAIN batches[l] \cup Mirrored(l) : n < N
           /\ N = runtime[l].next \/ N - 1 \in DOMAIN batches[l] \cup Mirrored(l)
<1>1. PICK D : D = DOMAIN batches[l] \cup Mirrored(l)
  OBVIOUS
<1>2. runtime[l].next \in Nat \ {0} /\ D \in SUBSET (Nat \ {0})
  BY <1>1 DEF TypeOK, Mirrored
<1>3. PICK i \in Nat : \A n \in DOMAIN batches[l] : n <= i
  BY DEF Bounded
<1>4. PICK j \in Nat : \A n \in Mirrored(l) : n <= j
  BY DEF Bounded, Mirrored
<1>5. i + j \in Nat /\ \A n \in D : n <= i + j
  BY <1>1, <1>2, <1>3, <1>4
<1>6. PICK S : S = {runtime[l].next} \cup {n + 1 : n \in D}
  OBVIOUS
<1>7. \A x : x \in S <=> x = runtime[l].next \/ \E n \in D : x = n + 1
  BY <1>6
<1>8. N = Max(S)
  BY <1>1, <1>6 DEF NextBatchSequence
<1>9. /\ N \in Nat \ {0} /\ runtime[l].next <= N
      /\ \A n \in D : n < N
      /\ N = runtime[l].next \/ N - 1 \in D
  <2>1. PICK next \in Nat \ {0}, k \in Nat : next = runtime[l].next /\ k = i + j
    BY <1>2, <1>5
  <2>2. \A n \in D : n <= k
    BY <1>5, <2>1
  <2>3. \A x : x \in S <=> x = next \/ \E n \in D : x = n + 1
    BY <1>7, <2>1
  <2> QED
    BY ONLY <1>2, <1>8, <2>1, <2>2, <2>3, MaxAfter
<1> QED
  BY <1>1, <1>9

-----------------------------------------------------------------------------
\* Steps that leave the tables alone.

LEMMA IdleSound == Idle \in [pc : {"idle"}, layer : {Default}, sequence : {0}]
  BY DEF Idle

LEMMA TablesStay ==
    ASSUME IInv, UNCHANGED <<runtime, batches, mirror, log, checkpoint, raced, orphaned, cut>>,
           crashes' \in Nat, posted' \subseteq Batch, reader' \in Batch \cup {None}, handler'.layer \in Layers
    PROVE  TypeOK' /\ Bounded' /\ BatchesKnowLayer' /\ LogIsWhole'
<1>1. TypeOK'
  BY DEF IInv, TypeOK, Batch
<1>2. Bounded' /\ BatchesKnowLayer' /\ LogIsWhole'
  BY DEF IInv, Bounded, BatchesKnowLayer, LogIsWhole
<1> QED
  BY <1>1, <1>2

LEMMA StartInitStep ==
    ASSUME IInv, NEW l \in Layers, StartInit(l)
    PROVE  IInv'
<1>1. PICK pc \in {"initialize", "reset_layer"} :
          handler' = [Idle EXCEPT !.pc = pc, !.layer = l]
  BY DEF StartInit, Goto
<1>2. /\ handler'.pc = pc /\ handler'.layer = l /\ handler' # Idle
      /\ handler' \in [pc : {"idle", "migrate", "reset_layer", "initialize", "sync_delete"},
                       layer : Layers, sequence : Nat]
  BY <1>1 DEF Idle
<1>3. /\ UNCHANGED <<runtime, batches, mirror, log, checkpoint, posted, reader, raced, orphaned, cut,
                     crashes>>
      /\ handler = Idle /\ handler.pc = "idle"
  BY DEF StartInit, Free, operator, verifier, Idle, history
<1>4. TypeOK' /\ Bounded' /\ BatchesKnowLayer' /\ LogIsWhole'
  BY <1>2, <1>3, TablesStay DEF IInv, TypeOK, Bounded
<1>5. HandlerSound' /\ SyncSound' /\ ReaderSound'
  BY <1>2, <1>3 DEF IInv, HandlerSound, SyncSound, ReaderSound
<1>6. \A k \in Layers : ~Busy(k)' => ~Busy(k)
  BY <1>3 DEF Busy
<1>7. Complete'
  BY <1>3, <1>6 DEF IInv, Complete, CompleteAt, Mirrored
<1>8. VerifiedLower'
  BY <1>3 DEF IInv, VerifiedLower
<1> QED
  BY <1>4, <1>5, <1>7, <1>8 DEF IInv

\* A batch with its verification mark set or cleared.
LEMMA MarkedType ==
    ASSUME NEW b \in Batch, NEW v \in BOOLEAN, NEW c, c = [b EXCEPT !.verified = v]
    PROVE  c \in Batch /\ c.sequence = b.sequence /\ c.layer = b.layer
  BY DEF Batch

LEMMA PostStep ==
    ASSUME IInv, NEW l \in Layers, NEW n \in DOMAIN batches[l], Post(l, n)
    PROVE  IInv'
<1>1. UNCHANGED <<runtime, batches, mirror, log, checkpoint, handler, reader, raced, orphaned, cut,
                  crashes>>
  BY DEF Post, operator, verifier, counters, history
<1>2. [batches[l][n] EXCEPT !.verified = FALSE] \in Batch
  BY MarkedType DEF IInv, TypeOK
<1>3. posted' \subseteq Batch
  BY <1>2 DEF IInv, TypeOK, Post
<1>4. TypeOK' /\ Bounded' /\ BatchesKnowLayer' /\ LogIsWhole'
  BY <1>1, <1>3, TablesStay DEF IInv, TypeOK, Bounded
<1>5. HandlerSound' /\ SyncSound' /\ ReaderSound'
  BY <1>1 DEF IInv, HandlerSound, SyncSound, ReaderSound
<1>6. Complete' /\ VerifiedLower'
  BY <1>1 DEF IInv, Complete, CompleteAt, Mirrored, VerifiedLower, Busy
<1> QED
  BY <1>4, <1>5, <1>6 DEF IInv

LEMMA ReadStep ==
    ASSUME IInv, NEW b \in posted, Read(b)
    PROVE  IInv'
<1>1. /\ UNCHANGED <<runtime, batches, mirror, log, checkpoint, posted, handler, raced, orphaned, cut,
                     crashes>>
      /\ reader' = b
  BY DEF Read, operator, verifier, counters, history
<1>2. b \in Batch /\ b.layer \in Layers /\ b.sequence \in Nat \ {0}
      /\ checkpoint[b.layer].sequence \in Nat
      /\ b.sequence = checkpoint[b.layer].sequence + 1
  BY DEF IInv, TypeOK, Batch, Read, Follows
<1>3. TypeOK' /\ Bounded' /\ BatchesKnowLayer' /\ LogIsWhole'
  BY <1>1, <1>2, TablesStay DEF IInv, TypeOK, Bounded
<1>4. ReaderSound'
  BY <1>1, <1>2 DEF ReaderSound
<1>5. HandlerSound' /\ SyncSound' /\ Complete' /\ VerifiedLower'
  BY <1>1
  DEF IInv, HandlerSound, SyncSound, Complete, CompleteAt, Mirrored, VerifiedLower, Busy
<1> QED
  BY <1>3, <1>4, <1>5 DEF IInv

LEMMA CrashStep ==
    ASSUME IInv, Crash
    PROVE  IInv'
<1>1. /\ UNCHANGED <<runtime, batches, mirror, log, checkpoint, posted, raced, orphaned, cut>>
      /\ handler' = Idle /\ reader' = None
  BY DEF Crash, operator, verifier, history
<1>2. handler'.layer = Default /\ handler'.pc = "idle" /\ Default \in Layers
      /\ handler' \in [pc : {"idle", "migrate", "reset_layer", "initialize", "sync_delete"},
                       layer : Layers, sequence : Nat]
  BY <1>1, RuntimeAssumption DEF Idle
<1>5. crashes' \in Nat /\ crashes' # 0
  BY DEF Crash, IInv, Bounded
<1>3. TypeOK' /\ Bounded' /\ BatchesKnowLayer' /\ LogIsWhole'
  BY <1>1, <1>2, <1>5, TablesStay DEF IInv, TypeOK
<1>4. HandlerSound' /\ SyncSound' /\ ReaderSound'
  BY <1>1, <1>2 DEF HandlerSound, SyncSound, ReaderSound
<1>6. Complete' /\ VerifiedLower'
  BY <1>5 DEF Complete, VerifiedLower
<1> QED
  BY <1>3, <1>4, <1>6 DEF IInv

LEMMA StutterStep ==
    ASSUME IInv, UNCHANGED vars
    PROVE  IInv'
<1>1. UNCHANGED <<runtime, batches, mirror, log, checkpoint, posted, handler, reader, raced, orphaned,
                  cut, crashes>>
  BY DEF vars, operator, verifier, counters, history
<1>2. TypeOK' /\ Bounded' /\ BatchesKnowLayer' /\ LogIsWhole'
  BY <1>1, TablesStay DEF IInv, TypeOK, Bounded
<1>3. HandlerSound' /\ SyncSound' /\ ReaderSound' /\ Complete' /\ VerifiedLower'
  BY <1>1 DEF IInv, HandlerSound, SyncSound, ReaderSound, Complete, CompleteAt, Mirrored,
              VerifiedLower, Busy
<1> QED
  BY <1>2, <1>3 DEF IInv

-----------------------------------------------------------------------------
\* The verifier's steps.

\* A verdict is committed; the checkpoint does not fall.
LEMMA RecordStep ==
    ASSUME IInv, NEW b \in Batch, Record(b),
           b.sequence > checkpoint[b.layer].sequence \/ b.sequence \in log[b.layer],
           b.layer \in raced \/ b.sequence <= checkpoint[b.layer].sequence + 1,
           UNCHANGED <<runtime, batches, mirror, posted, handler, raced, orphaned, cut, crashes>>,
           \/ reader' = None
           \/ reader' = reader /\ b.sequence = checkpoint[b.layer].sequence + 1
    PROVE  IInv'
<1>0. PICK l \in Layers : l = b.layer
  BY DEF Batch
<1>1. /\ b.sequence \in Nat \ {0} /\ b.new \in Nat
      /\ \A k \in Layers : checkpoint[k].sequence \in Nat
      /\ checkpoint \in [Layers -> [sequence : Nat, state : Nat]]
      /\ log \in [Layers -> SUBSET (Nat \ {0})]
      /\ reader \in Batch \cup {None}
  BY DEF Batch, IInv, TypeOK
<1>2. /\ checkpoint' \in [Layers -> [sequence : Nat, state : Nat]]
      /\ log' \in [Layers -> SUBSET (Nat \ {0})]
  BY <1>0, <1>1 DEF Record, verifier
<1>3. \/ checkpoint' = checkpoint /\ log' = log
      \/ /\ b.sequence \notin log[l]
         /\ checkpoint'[l].sequence = b.sequence /\ log'[l] = log[l] \cup {b.sequence}
         /\ b.sequence > checkpoint[l].sequence
         /\ \A k \in Layers : k # l => checkpoint'[k] = checkpoint[k] /\ log'[k] = log[k]
  BY <1>0, <1>1 DEF Record, verifier
<1>4. \A k \in Layers : /\ checkpoint'[k].sequence \in Nat
                        /\ checkpoint[k].sequence <= checkpoint'[k].sequence
  BY <1>1, <1>2, <1>3
<1>5. TypeOK'
  BY <1>1, <1>2 DEF IInv, TypeOK, Batch
<1>6. HandlerSound' /\ Bounded' /\ BatchesKnowLayer'
  BY DEF IInv, HandlerSound, Bounded, BatchesKnowLayer
<1>7. LogIsWhole'
  <2> SUFFICES ASSUME NEW k \in Layers \ raced PROVE log'[k] = 1..checkpoint'[k].sequence
    BY DEF LogIsWhole
  <2>1. log[k] = 1..checkpoint[k].sequence
    BY DEF IInv, LogIsWhole
  <2>2. CASE checkpoint'[k] = checkpoint[k] /\ log'[k] = log[k]
    BY <2>1, <2>2
  <2>3. CASE /\ k = l /\ b.sequence > checkpoint[l].sequence
             /\ checkpoint'[l].sequence = b.sequence /\ log'[l] = log[l] \cup {b.sequence}
    <3>1. b.sequence = checkpoint[l].sequence + 1
      BY <1>0, <1>1, <2>3
    <3> QED
      BY <1>1, <2>1, <2>3, <3>1
  <2> QED
    BY <1>3, <2>2, <2>3
<1>8. SyncSound'
  <2> SUFFICES ASSUME handler.pc = "sync_delete"
               PROVE  /\ runtime[handler.layer].next = handler.sequence + 1
                      /\ handler.sequence <= checkpoint'[handler.layer].sequence
    BY DEF SyncSound
  <2>1. handler.layer \in Layers /\ handler.sequence \in Nat
    BY DEF IInv, HandlerSound
  <2> QED
    BY <1>1, <1>4, <2>1 DEF IInv, SyncSound
<1>9. ReaderSound'
  <2>1. CASE reader' = None
    BY <2>1 DEF ReaderSound
  <2>2. CASE reader' = reader /\ reader # None /\ b.sequence = checkpoint[l].sequence + 1
    <3>1. PICK r \in Layers, s \in Nat : r = reader.layer /\ s = reader.sequence
      BY <1>1, <2>2 DEF Batch
    <3>2. /\ s > checkpoint[r].sequence \/ s \in log[r]
          /\ r \in raced \/ s <= checkpoint[r].sequence + 1
      BY <2>2, <3>1 DEF IInv, ReaderSound
    <3>3. s > checkpoint'[r].sequence \/ s \in log'[r]
      <4>1. CASE checkpoint'[r] = checkpoint[r] /\ log'[r] = log[r]
        BY <3>2, <4>1
      <4>2. CASE /\ r = l /\ checkpoint'[l].sequence = b.sequence
                 /\ log'[l] = log[l] \cup {b.sequence}
        <5>1. s > checkpoint[l].sequence => s = b.sequence \/ s > b.sequence
          BY <1>1, <2>2
        <5> QED
          BY <3>2, <4>2, <5>1
      <4> QED
        BY <1>3, <4>1, <4>2
    <3>4. r \in raced \/ s <= checkpoint'[r].sequence + 1
      BY <1>1, <1>4, <3>2
    <3> QED
      BY <2>2, <3>1, <3>3, <3>4 DEF ReaderSound
  <2> QED
    BY <1>0, <2>1, <2>2
<1>10. Complete'
  <2> SUFFICES ASSUME NEW k \in Layers, crashes = 0, runtime[k] # None, ~Busy(k),
                      Mirrored(k) \subseteq DOMAIN batches[k]
               PROVE  CompleteAt(k)'
    BY DEF Complete, Busy, Mirrored
  <2>1. CompleteAt(k)
    BY DEF IInv, Complete
  <2> QED
    BY <1>1, <1>4, <2>1 DEF CompleteAt
<1>11. VerifiedLower'
  <2> SUFFICES ASSUME NEW k \in Layers, crashes = 0, k \notin orphaned,
                      ~(handler.pc = "initialize" /\ handler.layer = k),
                      NEW n \in DOMAIN batches[k], batches[k][n].verified
               PROVE  n <= checkpoint'[k].sequence
    BY DEF VerifiedLower
  <2>1. n \in Nat /\ n <= checkpoint[k].sequence
    BY DEF IInv, TypeOK, VerifiedLower
  <2> QED
    BY <1>1, <1>4, <2>1
<1> QED
  BY <1>5, <1>6, <1>7, <1>8, <1>9, <1>10, <1>11 DEF IInv

LEMMA AcceptBatchStep ==
    ASSUME IInv, NEW l \in Layers, AcceptBatch(l)
    PROVE  IInv'
<1>1. PICK n : n = checkpoint[l].sequence + 1
  OBVIOUS
<1>2. n \in DOMAIN batches[l] /\ Record(batches[l][n])
  BY <1>1 DEF AcceptBatch
<1>3. PICK b \in Batch : b = batches[l][n] /\ b.sequence = n /\ b.layer = l
  BY <1>2 DEF IInv, TypeOK, BatchesKnowLayer
<1>4. checkpoint[l].sequence \in Nat
  BY DEF IInv, TypeOK
<1>5. UNCHANGED <<runtime, batches, mirror, posted, handler, reader, raced, orphaned, cut, crashes>>
  BY DEF AcceptBatch, operator, counters, history
<1>6. /\ b.sequence > checkpoint[b.layer].sequence
      /\ b.sequence <= checkpoint[b.layer].sequence + 1
  BY <1>1, <1>3, <1>4
<1> QED
  BY <1>1, <1>2, <1>3, <1>5, <1>6, RecordStep

LEMMA WriteStep ==
    ASSUME IInv, Write
    PROVE  IInv'
<1>1. reader \in Batch /\ reader # None
  BY DEF IInv, TypeOK, Write
<1>2. PICK b \in Batch : b = reader
  BY <1>1
<1>3. /\ b.sequence > checkpoint[b.layer].sequence \/ b.sequence \in log[b.layer]
      /\ b.layer \in raced \/ b.sequence <= checkpoint[b.layer].sequence + 1
  BY <1>1, <1>2 DEF IInv, ReaderSound
<1>4. /\ UNCHANGED <<runtime, batches, mirror, posted, handler, raced, orphaned, cut, crashes>>
      /\ Record(b) /\ reader' = None
  BY <1>2 DEF Write, operator, counters, history
<1> QED
  BY <1>3, <1>4, RecordStep

-----------------------------------------------------------------------------
\* Initialisation, reset, migration.

\* A migrated batch, marked verified if an older version verified it.
LEMMA MigratedRow ==
    ASSUME NEW n \in Nat \ {0}, NEW v \in Nat,
           NEW b, b = [layer |-> Default, sequence |-> n, prev |-> n - 1, new |-> n,
                       verified |-> n <= v]
    PROVE  /\ b \in Batch /\ b.sequence = n /\ b.layer = Default
           /\ b.verified <=> n <= v
<1>1. n - 1 \in Nat /\ n \in Nat /\ Default \in Layers
  BY RuntimeAssumption
<1>2. PICK w \in BOOLEAN : w <=> n <= v
  OBVIOUS
<1>3. b = [layer |-> Default, sequence |-> n, prev |-> n - 1, new |-> n, verified |-> w]
  BY <1>2
<1> QED
  BY <1>1, <1>2, <1>3 DEF Batch

LEMMA MigrateStep ==
    ASSUME IInv, Migrate
    PROVE  IInv'
<1>1. /\ handler.pc = "migrate" /\ handler.layer = Default /\ mirror = 1..cut
      /\ cut \in Nat /\ Default \in Layers /\ DOMAIN batches = Layers
      /\ orphaned = {} /\ handler.sequence \in Nat
  BY RuntimeAssumption DEF IInv, HandlerSound, Bounded, Migrate
<1>2. PICK old : old = [n \in mirror |-> [layer |-> Default, sequence |-> n, prev |-> n - 1,
                                          new |-> n, verified |-> n <= handler.sequence]]
  OBVIOUS
<1>3. /\ runtime' = [runtime EXCEPT ![Default] = [next |-> cut + 1, state |-> cut]]
      /\ batches' = [batches EXCEPT ![Default] = old]
      /\ orphaned' = (IF handler.sequence > checkpoint[Default].sequence
                      THEN {Default} ELSE {})
      /\ handler' = Idle
      /\ UNCHANGED <<mirror, log, checkpoint, posted, reader, raced, cut, crashes>>
  BY <1>2 DEF Migrate, verifier, counters
<1>4. /\ DOMAIN old = mirror
      /\ \A n \in mirror : /\ old[n] \in Batch /\ old[n].sequence = n
                           /\ old[n].layer = Default
                           /\ old[n].verified => n <= handler.sequence
  <2> SUFFICES ASSUME NEW n \in mirror
               PROVE  /\ old[n] \in Batch /\ old[n].sequence = n
                      /\ old[n].layer = Default
                      /\ old[n].verified => n <= handler.sequence
    BY <1>2
  <2>1. PICK v \in Nat : v = handler.sequence
    BY <1>1
  <2>2. n \in Nat \ {0}
    BY <1>1
  <2>3. old[n] = [layer |-> Default, sequence |-> n, prev |-> n - 1, new |-> n,
                  verified |-> n <= v]
    BY <1>2, <2>1
  <2>4. /\ old[n] \in Batch /\ old[n].sequence = n /\ old[n].layer = Default
        /\ old[n].verified <=> n <= v
    BY <2>2, <2>3, MigratedRow
  <2> QED
    BY <2>1, <2>4
<1>5. /\ DOMAIN batches' = Layers /\ batches'[Default] = old
      /\ \A l \in Layers : l # Default => batches'[l] = batches[l]
  BY <1>1, <1>3
<1>6. /\ runtime' \in [Layers -> [next : Nat \ {0}, state : Nat] \cup {None}]
      /\ runtime'[Default] = [next |-> cut + 1, state |-> cut]
      /\ \A l \in Layers : l # Default => runtime'[l] = runtime[l]
  BY <1>1, <1>3 DEF IInv, TypeOK
<1>7. TypeOK'
  <2>1. \A l \in Layers :
            /\ DOMAIN batches'[l] \subseteq Nat \ {0}
            /\ \A n \in DOMAIN batches'[l] :
                  batches'[l][n] \in Batch /\ batches'[l][n].sequence = n
    <3>1. mirror \subseteq Nat \ {0}
      BY DEF IInv, TypeOK
    <3>2. /\ DOMAIN batches'[Default] \subseteq Nat \ {0}
          /\ \A n \in DOMAIN batches'[Default] :
                batches'[Default][n] \in Batch /\ batches'[Default][n].sequence = n
      BY <1>4, <1>5, <3>1
    <3> QED
      BY <1>5, <3>2 DEF IInv, TypeOK
  <2> QED
    BY <1>1, <1>3, <1>6, <2>1 DEF IInv, TypeOK, Batch, Idle
<1>8. HandlerSound' /\ SyncSound'
  BY <1>1, <1>3, IdleSound DEF HandlerSound, SyncSound
<1>9. Bounded'
  <2>1. \A n \in mirror : n <= cut
    BY <1>1
  <2>2. \A l \in Layers : \E k \in Nat : \A n \in DOMAIN batches'[l] : n <= k
    BY <1>1, <1>4, <1>5, <2>1 DEF IInv, Bounded
  <2> QED
    BY <1>1, <1>3, <1>5, <2>1, <2>2 DEF IInv, Bounded
<1>10. BatchesKnowLayer'
  BY <1>4, <1>5 DEF IInv, BatchesKnowLayer
<1>11. LogIsWhole' /\ ReaderSound'
  BY <1>3 DEF IInv, LogIsWhole, ReaderSound
<1>12. Complete'
  <2> SUFFICES ASSUME NEW l \in Layers, crashes = 0, runtime'[l] # None,
                      Mirrored(l)' \subseteq DOMAIN batches'[l]
               PROVE  CompleteAt(l)'
    BY <1>3 DEF Complete
  <2>1. CASE l = Default
    <3>1. \A m \in DOMAIN batches'[l] : m <= cut
      BY <1>1, <1>4, <1>5, <2>1
    <3>2. \A n \in Nat \ {0} :
              n < cut + 1 \/ (\E m \in DOMAIN batches'[l] : n <= m) => n \in mirror
      BY <1>1, <1>4, <1>5, <2>1, <3>1
    <3> QED
      BY <1>4, <1>5, <1>6, <2>1, <3>2 DEF CompleteAt
  <2>2. CASE l # Default
    <3>1. ~Busy(l)
      BY <1>1, <2>2 DEF Busy
    <3>2. CompleteAt(l)
      BY <1>5, <1>6, <2>2, <3>1 DEF IInv, Complete, Mirrored
    <3> QED
      BY <1>3, <1>5, <1>6, <2>2, <3>2 DEF CompleteAt
  <2> QED
    BY <2>1, <2>2
<1>13. VerifiedLower'
  <2> SUFFICES ASSUME NEW l \in Layers, crashes = 0, l \notin orphaned',
                      NEW n \in DOMAIN batches'[l], batches'[l][n].verified
               PROVE  n <= checkpoint[l].sequence
    BY <1>3 DEF VerifiedLower
  <2>1. CASE l = Default
    <3>1. n \in Nat /\ n <= handler.sequence
      BY <1>1, <1>4, <1>5, <2>1
    <3>2. ~(handler.sequence > checkpoint[Default].sequence)
      BY <1>3, <2>1
    <3>3. checkpoint[Default].sequence \in Nat
      BY <1>1 DEF IInv, TypeOK
    <3> QED
      BY <1>1, <2>1, <3>1, <3>2, <3>3
  <2>2. CASE l # Default
    BY <1>1, <1>5, <2>2 DEF IInv, VerifiedLower
  <2> QED
    BY <2>1, <2>2
<1> QED
  BY <1>7, <1>8, <1>9, <1>10, <1>11, <1>12, <1>13 DEF IInv

LEMMA ResetLayerStep ==
    ASSUME IInv, ResetLayer
    PROVE  IInv'
<1>1. PICK l \in Layers : l = handler.layer
  BY DEF IInv, TypeOK
<1>2. /\ log' = [log EXCEPT ![l] = {}]
      /\ checkpoint' = [checkpoint EXCEPT ![l] = Genesis]
      /\ raced' = IF reader # None /\ reader.layer = l THEN raced \cup {l} ELSE raced \ {l}
      /\ handler' = [Idle EXCEPT !.pc = "initialize", !.layer = l]
      /\ UNCHANGED <<runtime, batches, mirror, posted, reader, orphaned, cut, crashes>>
      /\ handler.pc = "reset_layer"
  BY <1>1 DEF ResetLayer, Goto, operator, counters
<1>3. /\ handler'.pc = "initialize" /\ handler'.layer = l
      /\ handler' \in [pc : {"idle", "migrate", "reset_layer", "initialize", "sync_delete"},
                       layer : Layers, sequence : Nat]
  BY <1>2 DEF Idle
<1>4. /\ log' \in [Layers -> SUBSET (Nat \ {0})] /\ log'[l] = {}
      /\ checkpoint' \in [Layers -> [sequence : Nat, state : Nat]]
      /\ checkpoint'[l].sequence = 0
      /\ \A k \in Layers : k # l => log'[k] = log[k] /\ checkpoint'[k] = checkpoint[k]
  BY <1>2 DEF IInv, TypeOK, Genesis
<1>5. TypeOK'
  BY <1>2, <1>3, <1>4 DEF IInv, TypeOK, Batch
<1>6. HandlerSound' /\ Bounded' /\ BatchesKnowLayer' /\ SyncSound'
  BY <1>2, <1>3 DEF IInv, HandlerSound, Bounded, BatchesKnowLayer, SyncSound
<1>7. LogIsWhole'
  BY <1>2, <1>4 DEF IInv, LogIsWhole
<1>8. ReaderSound'
  <2> SUFFICES ASSUME reader # None
               PROVE  LET r == reader.layer
                      IN  /\ \/ reader.sequence > checkpoint'[r].sequence
                             \/ reader.sequence \in log'[r]
                          /\ r \in raced' \/ reader.sequence <= checkpoint'[r].sequence + 1
    BY <1>2 DEF ReaderSound
  <2>1. reader.layer \in Layers /\ reader.sequence \in Nat \ {0}
    BY DEF IInv, TypeOK, Batch
  <2>2. CASE reader.layer = l
    BY <1>2, <1>4, <2>1, <2>2
  <2>3. CASE reader.layer # l
    BY <1>2, <1>4, <2>1, <2>3 DEF IInv, ReaderSound
  <2> QED
    BY <2>2, <2>3
<1>9. \A k \in Layers : ~Busy(k)' => k # l /\ ~Busy(k)
  BY <1>1, <1>3 DEF Busy
<1>10. Complete'
  BY <1>2, <1>4, <1>9 DEF IInv, Complete, CompleteAt, Mirrored
<1>11. VerifiedLower'
  BY <1>2, <1>3, <1>4 DEF IInv, VerifiedLower
<1> QED
  BY <1>5, <1>6, <1>7, <1>8, <1>10, <1>11 DEF IInv

LEMMA InitializeStep ==
    ASSUME IInv, Initialize
    PROVE  IInv'
<1>1. PICK l \in Layers : l = handler.layer
  BY DEF IInv, TypeOK
<1>2. /\ runtime' = [runtime EXCEPT ![l] = [next |-> 1, state |-> 0]]
      /\ batches' = [batches EXCEPT ![l] = <<>>] /\ orphaned' = orphaned \ {l}
      /\ handler' = Idle /\ handler.pc = "initialize"
      /\ UNCHANGED <<mirror, log, checkpoint, posted, reader, raced, cut, crashes>>
  BY <1>1 DEF Initialize, verifier, counters
<1>3. /\ DOMAIN batches' = Layers /\ DOMAIN batches'[l] = {}
      /\ \A k \in Layers : k # l => batches'[k] = batches[k]
  BY <1>2 DEF IInv, Bounded
<1>4. /\ runtime' \in [Layers -> [next : Nat \ {0}, state : Nat] \cup {None}]
      /\ runtime'[l].next = 1
      /\ \A k \in Layers : k # l => runtime'[k] = runtime[k]
  BY <1>2 DEF IInv, TypeOK
<1>5. TypeOK'
  <2>1. \A k \in Layers :
            /\ DOMAIN batches'[k] \subseteq Nat \ {0}
            /\ \A n \in DOMAIN batches'[k] :
                  batches'[k][n] \in Batch /\ batches'[k][n].sequence = n
    BY <1>3 DEF IInv, TypeOK
  <2> QED
    BY <1>2, <1>4, <2>1, RuntimeAssumption DEF IInv, TypeOK, Batch, Idle
<1>6. HandlerSound' /\ SyncSound'
  BY <1>2, IdleSound, RuntimeAssumption DEF HandlerSound, SyncSound
<1>7. Bounded'
  <2>1. 0 \in Nat /\ \A n \in DOMAIN batches'[l] : n <= 0
    BY <1>3
  <2>2. \A k \in Layers : \E j \in Nat : \A n \in DOMAIN batches'[k] : n <= j
    BY <1>3, <2>1 DEF IInv, Bounded
  <2> QED
    BY <1>2, <1>3, <2>2 DEF IInv, Bounded
<1>8. BatchesKnowLayer'
  BY <1>3 DEF IInv, BatchesKnowLayer
<1>9. LogIsWhole' /\ ReaderSound'
  BY <1>2 DEF IInv, LogIsWhole, ReaderSound
<1>10. \A k \in Layers : k # l => ~Busy(k)
  BY <1>1 DEF Busy
<1>11. CompleteAt(l)'
  BY <1>3, <1>4 DEF CompleteAt
<1>12. Complete'
  <2>1. \A k \in Layers : k # l /\ CompleteAt(k) => CompleteAt(k)'
    BY <1>2, <1>3, <1>4 DEF CompleteAt
  <2> QED
    BY <1>2, <1>3, <1>4, <1>10, <1>11, <2>1 DEF IInv, Complete, Mirrored
<1>13. VerifiedLower'
  BY <1>1, <1>2, <1>3 DEF IInv, VerifiedLower
<1> QED
  BY <1>5, <1>6, <1>7, <1>8, <1>9, <1>12, <1>13 DEF IInv

-----------------------------------------------------------------------------
\* Batches and syncs.

LEMMA CutBatchStep ==
    ASSUME IInv, NEW l \in Layers, CutBatch(l)
    PROVE  IInv'
<1>1. PICK N : N = NextBatchSequence(l)
  OBVIOUS
<1>2. runtime[l] # None /\ handler = Idle /\ handler.pc = "idle"
  BY DEF CutBatch, Free, Idle
<1>3. /\ N \in Nat \ {0}
      /\ runtime[l].next <= N
      /\ \A n \in DOMAIN batches[l] \cup Mirrored(l) : n < N
      /\ N = runtime[l].next \/ N - 1 \in DOMAIN batches[l] \cup Mirrored(l)
  BY <1>1, <1>2, NextIsLast DEF IInv
<1>4. runtime[l].state \in Nat /\ runtime[l].next \in Nat /\ cut \in Nat
  BY <1>2 DEF IInv, TypeOK, Bounded
<1>5. PICK b : b = [layer |-> l, sequence |-> N, prev |-> runtime[l].state,
                    new |-> cut + 1, verified |-> FALSE]
  OBVIOUS
<1>6. b \in Batch /\ b.sequence = N /\ b.layer = l /\ ~b.verified
  BY <1>3, <1>4, <1>5 DEF Batch
<1>7. PICK table : table = [m \in DOMAIN batches[l] \cup {N} |->
                                IF m = N THEN b ELSE batches[l][m]]
  OBVIOUS
<1>8. /\ runtime' = [runtime EXCEPT ![l] = [next |-> N + 1, state |-> cut + 1]]
      /\ batches' = [batches EXCEPT ![l] = table]
      /\ mirror' = mirror \cup (IF l = Default THEN {N} ELSE {})
      /\ cut' = cut + 1
      /\ UNCHANGED <<log, checkpoint, posted, handler, reader, raced, orphaned, crashes>>
  BY <1>1, <1>5, <1>7 DEF CutBatch, verifier, history
<1>9. /\ DOMAIN table = DOMAIN batches[l] \cup {N} /\ table[N] = b
      /\ \A m \in DOMAIN batches[l] : m # N => table[m] = batches[l][m]
  BY <1>7
<1>10. /\ DOMAIN batches' = Layers /\ batches'[l] = table
       /\ \A k \in Layers : k # l => batches'[k] = batches[k]
  BY <1>8 DEF IInv, Bounded
<1>11. /\ runtime' \in [Layers -> [next : Nat \ {0}, state : Nat] \cup {None}]
       /\ runtime'[l].next = N + 1
       /\ \A k \in Layers : k # l => runtime'[k] = runtime[k]
  BY <1>3, <1>4, <1>8 DEF IInv, TypeOK
<1>12. TypeOK'
  <2>1. \A k \in Layers :
            /\ DOMAIN batches'[k] \subseteq Nat \ {0}
            /\ \A n \in DOMAIN batches'[k] :
                  batches'[k][n] \in Batch /\ batches'[k][n].sequence = n
    BY <1>3, <1>6, <1>9, <1>10 DEF IInv, TypeOK
  <2> QED
    BY <1>3, <1>8, <1>11, <2>1 DEF IInv, TypeOK, Batch
<1>13. HandlerSound' /\ SyncSound'
  BY <1>2, <1>8, IdleSound DEF IInv, HandlerSound, SyncSound
<1>14. Bounded'
  <2>1. PICK i \in Nat : \A n \in mirror : n <= i
    BY DEF IInv, Bounded
  <2>2. PICK j \in Nat : \A n \in DOMAIN batches[l] : n <= j
    BY DEF IInv, Bounded
  <2>3. i + N \in Nat /\ \A n \in mirror' : n <= i + N
    BY <1>3, <1>8, <2>1 DEF IInv, TypeOK
  <2>4. j + N \in Nat /\ \A n \in DOMAIN batches'[l] : n <= j + N
    BY <1>3, <1>9, <1>10, <2>2 DEF IInv, TypeOK
  <2>5. \A k \in Layers : \E m \in Nat : \A n \in DOMAIN batches'[k] : n <= m
    BY <1>10, <2>4 DEF IInv, Bounded
  <2> QED
    BY <1>4, <1>8, <1>10, <2>3, <2>5 DEF IInv, Bounded
<1>15. BatchesKnowLayer'
  BY <1>6, <1>9, <1>10 DEF IInv, BatchesKnowLayer
<1>16. LogIsWhole' /\ ReaderSound'
  BY <1>8 DEF IInv, LogIsWhole, ReaderSound
<1>17. Complete'
  <2> SUFFICES ASSUME NEW k \in Layers, crashes = 0, runtime'[k] # None,
                      Mirrored(k)' \subseteq DOMAIN batches'[k]
               PROVE  CompleteAt(k)'
    BY <1>8 DEF Complete
  <2>1. ~Busy(k)
    BY <1>2 DEF Busy
  <2>2. CASE k = l
    <3>1. Mirrored(l) \subseteq DOMAIN batches[l]
      <4>1. Mirrored(l) \subseteq DOMAIN batches[l] \cup {N}
        BY <1>8, <1>9, <1>10, <2>2 DEF Mirrored
      <4>2. N \notin Mirrored(l)
        BY <1>3
      <4> QED
        BY <4>1, <4>2
    <3>2. CompleteAt(l)
      BY <1>2, <2>1, <2>2, <3>1 DEF IInv, Complete
    <3>3. DOMAIN batches[l] \subseteq Nat
      BY DEF IInv, TypeOK
    <3>4. ASSUME NEW n \in Nat \ {0}, n > checkpoint[l].sequence, n <= N
          PROVE  n \in DOMAIN batches[l] \cup {N}
      <4>1. CASE n = N
        BY <4>1
      <4>2. CASE n < runtime[l].next
        BY <3>2, <3>4, <4>2 DEF CompleteAt
      <4>3. CASE n # N /\ N - 1 \in DOMAIN batches[l]
        <5>1. n <= N - 1
          BY <1>3, <3>4, <4>3
        <5> QED
          BY <3>2, <3>4, <4>3, <5>1 DEF CompleteAt
      <4> QED
        BY <1>3, <1>4, <3>1, <3>4, <4>1, <4>2, <4>3
    <3>5. \A n \in Nat \ {0} :
              n < N + 1 \/ (\E m \in DOMAIN batches[l] \cup {N} : n <= m) => n <= N
      BY <1>3, <3>3
    <3> QED
      BY <1>8, <1>9, <1>10, <1>11, <2>2, <3>4, <3>5 DEF CompleteAt
  <2>3. CASE k # l
    <3>1. Mirrored(k) \subseteq DOMAIN batches[k] /\ runtime[k] # None
      BY <1>8, <1>10, <1>11, <2>3 DEF Mirrored
    <3>2. CompleteAt(k)
      BY <2>1, <3>1 DEF IInv, Complete
    <3> QED
      BY <1>8, <1>10, <1>11, <2>3, <3>2 DEF CompleteAt
  <2> QED
    BY <2>2, <2>3
<1>18. VerifiedLower'
  <2> SUFFICES ASSUME NEW k \in Layers, crashes = 0, k \notin orphaned,
                      NEW n \in DOMAIN batches'[k], batches'[k][n].verified
               PROVE  n <= checkpoint[k].sequence
    BY <1>8 DEF VerifiedLower
  <2>1. n \in DOMAIN batches[k] /\ batches'[k][n] = batches[k][n]
    BY <1>6, <1>9, <1>10
  <2> QED
    BY <1>2, <2>1 DEF IInv, VerifiedLower
<1> QED
  BY <1>12, <1>13, <1>14, <1>15, <1>16, <1>17, <1>18 DEF IInv

LEMMA RecordVerificationStep ==
    ASSUME IInv, NEW l \in Layers, NEW n \in DOMAIN batches[l], RecordVerification(l, n)
    PROVE  IInv'
<1>1. PICK b \in Batch : b = batches[l][n] /\ b.sequence = n /\ b.layer = l
  BY DEF IInv, TypeOK, BatchesKnowLayer
<1>2. PICK c \in Batch : /\ c = [b EXCEPT !.verified = TRUE]
                         /\ c.sequence = b.sequence /\ c.layer = b.layer
  BY MarkedType
<1>3. PICK table : table = [batches[l] EXCEPT ![n] = c]
  OBVIOUS
<1>4. /\ batches' = [batches EXCEPT ![l] = table]
      /\ UNCHANGED <<runtime, mirror, log, checkpoint, posted, handler, reader, raced, orphaned, cut,
                     crashes>>
      /\ checkpoint[l].sequence = n
  BY <1>1, <1>2, <1>3 DEF RecordVerification, verifier, counters, history
<1>5. /\ DOMAIN table = DOMAIN batches[l] /\ table[n] = c
      /\ \A m \in DOMAIN batches[l] : m # n => table[m] = batches[l][m]
  BY <1>3
<1>6. /\ DOMAIN batches' = Layers /\ batches'[l] = table
      /\ \A k \in Layers : k # l => batches'[k] = batches[k]
      /\ \A k \in Layers : DOMAIN batches'[k] = DOMAIN batches[k]
  BY <1>4, <1>5 DEF IInv, Bounded
<1>7. TypeOK'
  <2>1. \A k \in Layers :
            /\ DOMAIN batches'[k] \subseteq Nat \ {0}
            /\ \A m \in DOMAIN batches'[k] :
                  batches'[k][m] \in Batch /\ batches'[k][m].sequence = m
    <3>1. ASSUME NEW k \in Layers, NEW m \in DOMAIN batches'[k]
          PROVE  batches'[k][m] \in Batch /\ batches'[k][m].sequence = m
      <4>1. CASE k = l /\ m = n
        BY <1>1, <1>2, <1>5, <1>6, <4>1
      <4>2. CASE ~(k = l /\ m = n)
        <5>1. m \in DOMAIN batches[k] /\ batches'[k][m] = batches[k][m]
          BY <1>5, <1>6, <4>2
        <5> QED
          BY <5>1 DEF IInv, TypeOK
      <4> QED
        BY <4>1, <4>2
    <3>2. \A k \in Layers : DOMAIN batches'[k] \subseteq Nat \ {0}
      BY <1>6 DEF IInv, TypeOK
    <3> QED
      BY <3>1, <3>2
  <2> QED
    BY <1>4, <2>1 DEF IInv, TypeOK, Batch
<1>8. HandlerSound' /\ Bounded' /\ LogIsWhole' /\ SyncSound' /\ ReaderSound'
  <2>1. HandlerSound' /\ LogIsWhole'
    BY <1>4 DEF IInv, HandlerSound, LogIsWhole
  <2>2. SyncSound' /\ ReaderSound'
    BY <1>4 DEF IInv, SyncSound, ReaderSound
  <2>3. Bounded'
    BY <1>4, <1>6 DEF IInv, Bounded
  <2> QED
    BY <2>1, <2>2, <2>3
<1>9. BatchesKnowLayer'
  <2> SUFFICES ASSUME NEW k \in Layers, NEW m \in DOMAIN batches'[k]
               PROVE  batches'[k][m].layer = k
    BY DEF BatchesKnowLayer
  <2>1. CASE k = l /\ m = n
    BY <1>1, <1>2, <1>5, <1>6, <2>1
  <2>2. CASE ~(k = l /\ m = n)
    <3>1. m \in DOMAIN batches[k] /\ batches'[k][m] = batches[k][m]
      BY <1>5, <1>6, <2>2
    <3> QED
      BY <3>1 DEF IInv, BatchesKnowLayer
  <2> QED
    BY <2>1, <2>2
<1>10. Complete'
  <2>1. \A k \in Layers : CompleteAt(k) => CompleteAt(k)'
    BY <1>4, <1>6 DEF CompleteAt
  <2>2. \A k \in Layers : Mirrored(k)' = Mirrored(k) /\ (Busy(k)' <=> Busy(k))
    BY <1>4 DEF Mirrored, Busy
  <2> QED
    BY <1>4, <1>6, <2>1, <2>2 DEF IInv, Complete
<1>11. VerifiedLower'
  <2> SUFFICES ASSUME NEW k \in Layers, crashes = 0, k \notin orphaned,
                      ~(handler.pc = "initialize" /\ handler.layer = k),
                      NEW m \in DOMAIN batches'[k], batches'[k][m].verified
               PROVE  m <= checkpoint[k].sequence
    BY <1>4 DEF VerifiedLower
  <2>1. CASE k = l /\ m = n
    <3>1. n \in Nat
      BY DEF IInv, TypeOK
    <3> QED
      BY <1>4, <2>1, <3>1
  <2>2. CASE ~(k = l /\ m = n)
    <3>1. m \in DOMAIN batches[k] /\ batches'[k][m] = batches[k][m]
      BY <1>5, <1>6, <2>2
    <3> QED
      BY <3>1 DEF IInv, VerifiedLower
  <2> QED
    BY <2>1, <2>2
<1> QED
  BY <1>7, <1>8, <1>9, <1>10, <1>11 DEF IInv

LEMMA SyncStep ==
    ASSUME IInv, NEW l \in Layers, Sync(l)
    PROVE  IInv'
<1>1. PICK c \in [sequence : Nat, state : Nat] : c = checkpoint[l]
  BY DEF IInv, TypeOK
<1>2. /\ runtime' = [runtime EXCEPT ![l] = [next |-> c.sequence + 1, state |-> c.state]]
      /\ handler' = [Idle EXCEPT !.pc = "sync_delete", !.layer = l, !.sequence = c.sequence]
      /\ UNCHANGED <<batches, mirror, log, checkpoint, posted, reader, raced, orphaned, cut, crashes>>
      /\ handler = Idle /\ handler.pc = "idle" /\ runtime[l] # None
  BY <1>1 DEF Sync, Free, Idle, verifier, counters, history
<1>3. c.sequence \in Nat /\ c.state \in Nat
  BY <1>1
<1>4. /\ handler'.pc = "sync_delete" /\ handler'.layer = l /\ handler'.sequence = c.sequence
      /\ handler' \in [pc : {"idle", "migrate", "reset_layer", "initialize", "sync_delete"},
                       layer : Layers, sequence : Nat]
  BY <1>2, <1>3 DEF Idle
<1>5. /\ runtime' \in [Layers -> [next : Nat \ {0}, state : Nat] \cup {None}]
      /\ runtime'[l].next = c.sequence + 1
      /\ \A k \in Layers : k # l => runtime'[k] = runtime[k]
  BY <1>2, <1>3 DEF IInv, TypeOK
<1>7. TypeOK'
  BY <1>2, <1>4, <1>5 DEF IInv, TypeOK, Batch
<1>8. HandlerSound' /\ Bounded' /\ BatchesKnowLayer' /\ LogIsWhole' /\ ReaderSound'
  BY <1>2, <1>4 DEF IInv, HandlerSound, Bounded, BatchesKnowLayer, LogIsWhole, ReaderSound
<1>9. SyncSound'
  BY <1>1, <1>2, <1>3, <1>4, <1>5 DEF SyncSound
<1>10. \A k \in Layers : ~Busy(k)' => k # l /\ ~Busy(k)
  BY <1>2, <1>4 DEF Busy
<1>11. Complete'
  BY <1>2, <1>5, <1>10 DEF IInv, Complete, CompleteAt, Mirrored
<1>12. VerifiedLower'
  BY <1>2, <1>4 DEF IInv, VerifiedLower
<1> QED
  BY <1>7, <1>8, <1>9, <1>11, <1>12 DEF IInv

LEMMA SyncDeleteStep ==
    ASSUME IInv, SyncDelete
    PROVE  /\ IInv'
           /\ \A k : handler.layer = k => NextBatchSequence(k)' = handler.sequence + 1
<1>1. PICK l \in Layers, s \in Nat : l = handler.layer /\ s = handler.sequence
  BY DEF IInv, HandlerSound
<1>2. PICK kept : kept = {n \in DOMAIN batches[l] : n <= s}
  OBVIOUS
<1>3. PICK table : table = [n \in kept |-> batches[l][n]]
  OBVIOUS
<1>4. /\ batches' = [batches EXCEPT ![l] = table]
      /\ mirror' = (IF l = Default THEN {n \in mirror : n <= s} ELSE mirror)
      /\ orphaned' = orphaned \ {l}
      /\ handler' = Idle /\ handler.pc = "sync_delete"
      /\ UNCHANGED <<runtime, log, checkpoint, posted, reader, raced, cut, crashes>>
  BY <1>1, <1>2, <1>3 DEF SyncDelete, verifier, counters
<1>5. /\ DOMAIN batches' = Layers /\ batches'[l] = table /\ DOMAIN table = kept
      /\ \A k \in Layers : k # l => batches'[k] = batches[k]
      /\ \A n \in kept : n \in DOMAIN batches[l] /\ table[n] = batches[l][n] /\ n <= s
  BY <1>2, <1>3, <1>4 DEF IInv, Bounded
<1>6. /\ runtime[l].next = s + 1 /\ s <= checkpoint[l].sequence
      /\ checkpoint[l].sequence \in Nat
  BY <1>1, <1>4 DEF IInv, SyncSound, TypeOK
<1>7. TypeOK'
  <2>1. \A k \in Layers :
            /\ DOMAIN batches'[k] \subseteq Nat \ {0}
            /\ \A n \in DOMAIN batches'[k] :
                  batches'[k][n] \in Batch /\ batches'[k][n].sequence = n
    BY <1>5 DEF IInv, TypeOK
  <2> QED
    BY <1>4, <2>1, RuntimeAssumption DEF IInv, TypeOK, Batch, Idle
<1>8. HandlerSound' /\ SyncSound'
  BY <1>4, IdleSound, RuntimeAssumption DEF HandlerSound, SyncSound
<1>9. Bounded'
  <2>1. \A n \in DOMAIN batches'[l] : n <= s
    BY <1>5
  <2>2. \A k \in Layers : \E j \in Nat : \A n \in DOMAIN batches'[k] : n <= j
    BY <1>5, <2>1 DEF IInv, Bounded
  <2>3. \E j \in Nat : \A n \in mirror' : n <= j
    BY <1>4 DEF IInv, Bounded
  <2> QED
    BY <1>4, <1>5, <2>2, <2>3 DEF IInv, Bounded
<1>10. BatchesKnowLayer'
  BY <1>5 DEF IInv, BatchesKnowLayer
<1>11. LogIsWhole' /\ ReaderSound'
  BY <1>4 DEF IInv, LogIsWhole, ReaderSound
<1>12. Complete'
  <2> SUFFICES ASSUME NEW k \in Layers, crashes = 0, runtime[k] # None,
                      Mirrored(k)' \subseteq DOMAIN batches'[k]
               PROVE  CompleteAt(k)'
    BY <1>4 DEF Complete
  <2>1. CASE k = l
    <3>1. \A m \in kept : m \in Nat /\ m <= s
      BY <1>5 DEF IInv, TypeOK
    <3>2. \A n \in Nat : ~(n > checkpoint[l].sequence
                           /\ (n < s + 1 \/ \E m \in kept : n <= m))
      BY <1>6, <3>1
    <3> QED
      BY <1>4, <1>5, <1>6, <2>1, <3>2 DEF CompleteAt
  <2>2. CASE k # l
    <3>1. ~Busy(k)
      BY <1>1, <2>2 DEF Busy
    <3>2. Mirrored(k) \subseteq DOMAIN batches[k]
      BY <1>4, <1>5, <2>2 DEF Mirrored
    <3>3. CompleteAt(k)
      BY <3>1, <3>2 DEF IInv, Complete
    <3> QED
      BY <1>4, <1>5, <2>2, <3>3 DEF CompleteAt
  <2> QED
    BY <2>1, <2>2
<1>13. VerifiedLower'
  <2> SUFFICES ASSUME NEW k \in Layers, crashes = 0, k \notin orphaned',
                      NEW n \in DOMAIN batches'[k], batches'[k][n].verified
               PROVE  n <= checkpoint[k].sequence
    BY <1>4 DEF VerifiedLower
  <2>1. CASE k = l
    <3>1. n \in Nat /\ n <= s
      BY <1>5, <2>1 DEF IInv, TypeOK
    <3> QED
      BY <1>1, <1>6, <2>1, <3>1
  <2>2. CASE k # l
    <3>1. k \notin orphaned
      BY <1>4, <2>2
    <3> QED
      BY <1>1, <1>4, <1>5, <2>2, <3>1 DEF IInv, VerifiedLower
  <2> QED
    BY <2>1, <2>2
<1>14. NextBatchSequence(l)' = s + 1
  <2>1. PICK D : D = DOMAIN batches'[l] \cup Mirrored(l)'
    OBVIOUS
  <2>2. D \in SUBSET (Nat \ {0}) /\ \A n \in D : n <= s
    BY <1>4, <1>5, <1>7, <2>1 DEF TypeOK, Mirrored
  <2>3. PICK N : N = NextBatchSequence(l)'
    OBVIOUS
  <2>4. PICK S : S = {runtime[l].next} \cup {n + 1 : n \in D}
    OBVIOUS
  <2>5. N = Max(S)
    BY <1>4, <2>1, <2>3, <2>4 DEF NextBatchSequence
  <2>6. PICK next \in Nat \ {0} : next = s + 1
    OBVIOUS
  <2>7. \A x : x \in S <=> x = next \/ \E n \in D : x = n + 1
    BY <1>6, <2>4, <2>6
  <2>8. N \in Nat /\ next <= N /\ (N = next \/ N - 1 \in D)
    BY <2>2, <2>5, <2>7, MaxAfter
  <2> QED
    BY <2>2, <2>3, <2>6, <2>8
<1> QED
  BY <1>1, <1>7, <1>8, <1>9, <1>10, <1>11, <1>12, <1>13, <1>14 DEF IInv

-----------------------------------------------------------------------------

LEMMA InitIInv == Init => IInv
<1> SUFFICES ASSUME Init PROVE IInv
  OBVIOUS
<1>1. PICK n \in 0..MaxBatches : \E v, k \in 0..n :
          /\ mirror = 1..n
          /\ cut = n
          /\ handler = IF n = 0 THEN Idle
                       ELSE [Idle EXCEPT !.pc = "migrate", !.sequence = v]
          /\ log = [l \in Layers |-> IF l = Default THEN 1..k ELSE {}]
          /\ checkpoint = [l \in Layers |->
                IF l = Default THEN [sequence |-> k, state |-> k] ELSE Genesis]
  BY DEF Init
<1>2. n \in Nat /\ Default \in Layers
  BY RuntimeAssumption
<1>12. PICK v \in 0..n, k \in 0..n :
          /\ mirror = 1..n
          /\ cut = n
          /\ handler = IF n = 0 THEN Idle
                       ELSE [Idle EXCEPT !.pc = "migrate", !.sequence = v]
          /\ log = [l \in Layers |-> IF l = Default THEN 1..k ELSE {}]
          /\ checkpoint = [l \in Layers |->
                IF l = Default THEN [sequence |-> k, state |-> k] ELSE Genesis]
  BY <1>1
<1>13. v \in Nat /\ k \in Nat
  BY <1>2
<1>3. /\ handler \in [pc : {"idle", "migrate", "reset_layer", "initialize", "sync_delete"},
                      layer : Layers, sequence : Nat]
      /\ handler.layer = Default
      /\ handler.pc = "idle" => handler = Idle
      /\ handler.pc = "idle" \/ handler.pc = "migrate"
  BY <1>2, <1>12, <1>13 DEF Idle
<1>14. /\ log \in [Layers -> SUBSET (Nat \ {0})]
       /\ checkpoint \in [Layers -> [sequence : Nat, state : Nat]]
       /\ \A l \in Layers : log[l] = 1..checkpoint[l].sequence
  <2>1. 1..k \in SUBSET (Nat \ {0}) /\ 1..0 = {}
    BY <1>13
  <2>2. Genesis \in [sequence : Nat, state : Nat] /\ Genesis.sequence = 0
    BY DEF Genesis
  <2>3. [sequence |-> k, state |-> k] \in [sequence : Nat, state : Nat]
    BY <1>13
  <2> QED
    BY <1>12, <2>1, <2>2, <2>3
<1>4. /\ runtime = [l \in Layers |-> None] /\ batches = [l \in Layers |-> <<>>]
      /\ posted = {} /\ reader = None /\ raced = {} /\ orphaned = {} /\ crashes = 0
  BY DEF Init
<1>5. \A l \in Layers : DOMAIN batches[l] = {}
  BY <1>4
<1>6. TypeOK
  BY <1>2, <1>3, <1>4, <1>5, <1>12, <1>14 DEF TypeOK
<1>7. HandlerSound
  BY <1>3, <1>4, <1>12 DEF HandlerSound
<1>8. Bounded
  <2>1. \A m \in mirror : m <= n
    BY <1>1, <1>2
  <2>2. \A l \in Layers : \A m \in DOMAIN batches[l] : m <= 0
    BY <1>5
  <2> QED
    BY <1>2, <1>4, <1>12, <2>1, <2>2 DEF Bounded
<1>9. BatchesKnowLayer /\ Complete /\ VerifiedLower
  BY <1>4, <1>5 DEF BatchesKnowLayer, Complete, VerifiedLower
<1>10. LogIsWhole
  BY <1>14 DEF LogIsWhole
<1>11. SyncSound /\ ReaderSound
  BY <1>3, <1>4 DEF SyncSound, ReaderSound
<1> QED
  BY <1>6, <1>7, <1>8, <1>9, <1>10, <1>11 DEF IInv

LEMMA NextIInv == IInv /\ [Next]_vars => IInv'
<1> SUFFICES ASSUME IInv, [Next]_vars PROVE IInv'
  OBVIOUS
<1>1. ASSUME NEW l \in Layers, StartInit(l) \/ CutBatch(l) \/ Sync(l) \/ AcceptBatch(l)
      PROVE  IInv'
  BY <1>1, StartInitStep, CutBatchStep, SyncStep, AcceptBatchStep
<1>2. ASSUME NEW l \in Layers, NEW n \in DOMAIN batches[l],
             Post(l, n) \/ RecordVerification(l, n)
      PROVE  IInv'
  BY <1>2, PostStep, RecordVerificationStep
<1>3. CASE Migrate \/ ResetLayer \/ Initialize \/ SyncDelete
  BY <1>3, MigrateStep, ResetLayerStep, InitializeStep, SyncDeleteStep
<1>4. CASE \E b \in posted : Read(b)
  BY <1>4, ReadStep
<1>5. CASE Write \/ Crash
  BY <1>5, WriteStep, CrashStep
<1>6. CASE UNCHANGED vars
  BY <1>6, StutterStep
<1> QED
  BY <1>1, <1>2, <1>3, <1>4, <1>5, <1>6 DEF Next

LEMMA SpecIInv == Spec => []IInv
  BY InitIInv, NextIInv, PTL DEF Spec

-----------------------------------------------------------------------------
\* The tables of storage.py and of the verifier's store (TypeOK of Runtime) hold
\* what the code puts there.
THEOREM RuntimeTypeCorrect == Spec => []TypeOK
<1>1. IInv => TypeOK
  BY DEF IInv
<1> QED
  BY <1>1, SpecIInv, PTL

\* LogIsWhole: apart from a sync that a reset overtook, reset_layer and
\* commit_verification never leave a hole in the verifier's log.
THEOREM LogStaysWhole == Spec => []LogIsWhole
<1>1. IInv => LogIsWhole
  BY DEF IInv
<1> QED
  BY <1>1, SpecIInv, PTL

\* NothingMissing: between initialisations, resets, syncs and a migration nobody
\* interrupted, accept-latest-batch finds every batch after the checkpoint.
THEOREM NoBatchMissing == Spec => []NothingMissing
<1>1. IInv => NothingMissing
  <2> SUFFICES ASSUME IInv, NEW l \in Layers, Orderly(l),
                      NEW n \in checkpoint[l].sequence + 1..NextBatchSequence(l) - 1
               PROVE  n \in DOMAIN batches[l]
    BY DEF NothingMissing
  <2>1. /\ crashes = 0 /\ runtime[l] # None /\ ~Busy(l)
        /\ Mirrored(l) \subseteq DOMAIN batches[l]
    BY DEF Orderly, Free, Busy, Idle
  <2>2. CompleteAt(l)
    BY <2>1 DEF IInv, Complete
  <2>3. PICK N : N = NextBatchSequence(l)
    OBVIOUS
  <2>4. /\ N \in Nat \ {0}
        /\ N = runtime[l].next \/ N - 1 \in DOMAIN batches[l]
    BY <2>1, <2>3, NextIsLast DEF IInv
  <2>5. checkpoint[l].sequence \in Nat /\ runtime[l].next \in Nat
    BY <2>1 DEF IInv, TypeOK
  <2>6. n \in Nat \ {0} /\ n > checkpoint[l].sequence /\ n < N /\ n <= N - 1
    BY <2>3, <2>4, <2>5
  <2> QED
    BY <2>2, <2>4, <2>6 DEF CompleteAt
<1> QED
  BY <1>1, SpecIInv, PTL

\* NextBatchFits: as long as nothing was interrupted, a layer whose
\* _operator_checkpoint_status is "current" numbers its next batch with what the
\* verifier waits for.
THEOREM CurrentBatchFits == Spec => []NextBatchFits
<1>1. IInv /\ NothingMissing => NextBatchFits
  <2> SUFFICES ASSUME IInv, NothingMissing, NEW l \in Layers \ orphaned, Orderly(l), Current(l)
               PROVE  NextBatchSequence(l) = checkpoint[l].sequence + 1
    BY DEF NextBatchFits
  <2>1. crashes = 0 /\ runtime[l] # None /\ handler.pc = "idle"
    BY DEF Orderly, Free, Idle
  <2>2. PICK N : N = NextBatchSequence(l)
    OBVIOUS
  <2>3. PICK seen \in Nat : seen = checkpoint[l].sequence
    BY DEF IInv, TypeOK
  <2>4. N \in Nat \ {0}
    BY <2>1, <2>2, NextIsLast DEF IInv
  <2>5. seen < N
    BY <2>2, <2>3, <2>4 DEF Current
  <2>6. ASSUME N - 1 > seen PROVE FALSE
    <3>1. N - 1 \in seen + 1..N - 1
      BY <2>3, <2>4, <2>6
    <3>2. N - 1 \in DOMAIN batches[l]
      BY <2>2, <2>3, <3>1 DEF NothingMissing
    <3>3. batches[l][N - 1].verified
      BY <2>3, <2>6, <3>2 DEF Current
    <3>4. N - 1 <= seen
      BY <2>1, <2>3, <3>2, <3>3 DEF IInv, VerifiedLower
    <3> QED
      BY <2>3, <2>4, <2>6, <3>4
  <2> QED
    BY <2>2, <2>3, <2>4, <2>5, <2>6
<1> QED
  BY <1>1, NoBatchMissing, SpecIInv, PTL

\* SyncRestoresNumber: whatever happens between the two transactions of
\* sync_operator_state_from_verifier, the operator ends at the number after the
\* checkpoint it read.
THEOREM SyncPutsNumberBack == Spec => SyncRestoresNumber
<1>1. IInv /\ [Next]_vars =>
          [\A l \in Layers :
              SyncDelete /\ handler.layer = l =>
                  NextBatchSequence(l)' = handler.sequence + 1]_vars
  <2> SUFFICES ASSUME IInv, NEW l \in Layers, SyncDelete, handler.layer = l
               PROVE  NextBatchSequence(l)' = handler.sequence + 1
    OBVIOUS
  <2> QED
    BY SyncDeleteStep
<1> QED
  BY <1>1, SpecIInv, PTL DEF Spec, SyncRestoresNumber

=============================================================================
