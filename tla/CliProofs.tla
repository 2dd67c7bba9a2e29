----------------------------- MODULE CliProofs -----------------------------
(***************************************************************************)
(* Theorems about CliPipeline when commands run one at a time              *)
(* (OneAtATime), for any requests and any number of commands and kills.    *)
(*                                                                         *)
(* The argument.  The queue is either numbered on from the operator's      *)
(* state, or nothing in it applies any more: a kill between SaveState and  *)
(* ClearPending leaves the old queue beside the new state, in which F has  *)
(* used up or just rejected every one of its entries, and what is queued   *)
(* after it is numbered past the next nonce (QueueSound).  A batch under   *)
(* way agrees with the files as far as it has written them (LocalSound).   *)
(* Sequence numbers and ledger nonces of the printed payloads stay behind  *)
(* the operator's (PublishedSound), so a sequence number names one payload *)
(* and the log, which follows the numbers, is a chain (LogSound).          *)
(***************************************************************************)
EXTENDS CliPipeline, TransitionProofs

\* Commands run one after the other: there is one process.
OneAtATime == \A p, q \in Procs : p = q

-----------------------------------------------------------------------------
\* The inductive invariant.

BatchPcs == {"save_state", "clear_pending", "advance", "publish"}

AcceptPcs == {"save_verified", "save_log"}

BatchLocal == [pc : BatchPcs, queue : Seq(Action), envelope : Envelope]

AcceptLocal == [pc : AcceptPcs, envelope : Envelope, log : Seq(Envelope)]

\* The envelope is what process_batch makes of the queue, under a number and a
\* nonce nothing printed has reached; what the batch has written is in the files.
BatchSound(l) ==
    LET e == l.envelope
        result == ProcessBatch(e.prev, l.queue, None)
    IN  /\ e.new = result.state /\ e.actions = result.applied
        /\ \A i \in DOMAIN published :
              /\ published[i].sequence < e.sequence
              /\ published[i].new.nonce <= e.prev.nonce
        /\ l.pc = "save_state" => current = e.prev
        /\ l.pc # "save_state" => current = e.new
        /\ pending = IF l.pc \in {"save_state", "clear_pending"} THEN l.queue ELSE <<>>
        /\ nextSequence = IF l.pc = "publish" THEN e.sequence + 1 ELSE e.sequence

\* The envelope is printed, is the next one and starts where the log ends.
AcceptSound(l) ==
    /\ l.log = log
    /\ l.envelope \in Range(published)
    /\ l.envelope.sequence = Len(log) + 1
    /\ log # <<>> => log[Len(log)].new = l.envelope.prev
    /\ l.pc = "save_log" => verified = l.envelope.new

LocalSound(l) ==
    \/ l.pc = "idle"
    \/ l.pc = "next_nonce" /\ l.request \in Requests /\ l.base = current.nonce
    \/ /\ l.pc = "load_pending"
       /\ l.action \in Action /\ l.action.nonce = current.nonce + Len(pending) + 1
    \/ /\ l.pc = "save_pending"
       /\ LET action == l.queue[Len(pending) + 1]
          IN  /\ action \in Action /\ action.nonce = current.nonce + Len(pending) + 1
              /\ l.queue = Append(pending, action)
    \/ l.pc = "batch_queue" /\ l.prev = current
    \/ l.pc = "batch_run" /\ l.prev = current /\ l.queue = pending
    \/ l \in BatchLocal /\ BatchSound(l)
    \/ l \in AcceptLocal /\ AcceptSound(l)

ProcSound ==
    /\ DOMAIN proc = Procs
    /\ \A p \in Procs : LocalSound(proc[p])

\* Queue q in front of state s.
QueueFits(q, s) ==
    /\ \A i, j \in 1..Len(q) : i < j => q[i].nonce < q[j].nonce
    /\ \A i \in 1..Len(q) : q[i].nonce <= s.nonce + i
    /\ \/ \A i \in 1..Len(q) : q[i].nonce = s.nonce + i
       \/ \A i \in 1..Len(q) : ~Applies(s, q[i], None)

QueueSound == QueueFits(pending, current)

PublishedSound ==
    /\ \A i \in DOMAIN published :
          /\ published[i].sequence < nextSequence
          /\ published[i].new.nonce <= current.nonce
    /\ \A i, j \in DOMAIN published : i < j =>
          /\ published[i].sequence < published[j].sequence
          /\ published[i].new.nonce <= published[j].prev.nonce

\* The state the last printed payload leads to.
PublishedState ==
    IF published = <<>> THEN Genesis({}) ELSE published[Len(published)].new

\* Without a kill a batch is the next link of the chain of printed payloads.
ChainSound ==
    crashes = 0 =>
        /\ PublishedChain
        /\ \A p \in Procs :
              IF proc[p].pc \in BatchPcs
              THEN /\ proc[p].envelope.sequence = Len(published) + 1
                   /\ proc[p].envelope.prev = PublishedState
              ELSE /\ nextSequence = Len(published) + 1
                   /\ current = PublishedState

LogSound == VerifierLinked

Counting == crashes \in Nat

IInv ==
    /\ TypeOK
    /\ ProcSound
    /\ QueueSound
    /\ PublishedSound
    /\ ChainSound
    /\ LogSound
    /\ Counting

-----------------------------------------------------------------------------
\* Queues.

\* One more action, under the nonce next_nonce gives it.
LEMMA QueueGrows ==
    ASSUME NEW q \in Seq(Action), NEW s \in LedgerState, QueueFits(q, s),
           NEW action \in Action, action.nonce = s.nonce + Len(q) + 1
    PROVE  QueueFits(Append(q, action), s)
<1> DEFINE n == Len(q)
           more == Append(q, action)
<1>1. /\ n \in Nat /\ s.nonce \in Nat /\ Len(more) = n + 1
      /\ \A i \in 1..n : more[i] = q[i] /\ q[i].nonce \in Nat
      /\ more[n + 1] = action /\ action.nonce = s.nonce + n + 1
  <2>1. \A i \in 1..n : q[i] \in Action
    OBVIOUS
  <2> QED
    BY <2>1 DEF Action, LedgerState
<1>2. /\ \A i, j \in 1..n : i < j => q[i].nonce < q[j].nonce
      /\ \A i \in 1..n : q[i].nonce <= s.nonce + i
      /\ \/ \A i \in 1..n : q[i].nonce = s.nonce + i
         \/ \A i \in 1..n : ~Applies(s, q[i], None)
  BY DEF QueueFits
<1> HIDE DEF n, more
<1>3. \A i \in 1..n+1 : i \in 1..n \/ i = n + 1
  BY <1>1
<1>4. \A i \in 1..n+1 : more[i].nonce <= s.nonce + i
  BY <1>1, <1>2, <1>3, SMTT(20)
<1>5. \A i, j \in 1..n+1 : i < j => more[i].nonce < more[j].nonce
  <2> TAKE i, j \in 1..n+1
  <2> HAVE i < j
  <2>1. i \in 1..n
    BY <1>1
  <2>2. CASE j \in 1..n
    BY <1>1, <1>2, <2>1, <2>2
  <2>3. CASE j = n + 1
    <3>1. more[i].nonce \in Nat /\ more[i].nonce <= s.nonce + i /\ more[j].nonce = s.nonce + n + 1
      BY <1>1, <1>4, <2>1, <2>3
    <3> QED
      BY ONLY <1>1, <2>1, <3>1
  <2> QED
    BY <1>3, <2>2, <2>3
<1>6. \/ \A i \in 1..n+1 : more[i].nonce = s.nonce + i
      \/ \A i \in 1..n+1 : ~Applies(s, more[i], None)
  <2>1. CASE \A i \in 1..n : q[i].nonce = s.nonce + i
    <3>1. \A i \in 1..n : more[i].nonce = s.nonce + i
      BY <1>1, <2>1
    <3>2. more[n + 1].nonce = s.nonce + (n + 1)
      BY <1>1
    <3> QED
      BY <1>3, <3>1, <3>2
  <2>2. CASE n = 0
    <3>1. 1..n = {}
      BY <2>2
    <3> QED
      BY <2>1, <3>1
  <2>3. CASE n # 0 /\ \A i \in 1..n : ~Applies(s, q[i], None)
    <3>1. action.nonce # s.nonce + 1
      BY <1>1, <2>3
    <3>2. ~Applies(s, action, None)
      BY <3>1 DEF Applies
    <3> QED
      BY <1>1, <1>3, <2>3, <3>2
  <2> QED
    BY <1>2, <2>1, <2>2, <2>3
<1> QED
  BY <1>1, <1>4, <1>5, <1>6 DEF QueueFits, more

\* A batch applies a prefix of the queue, and the queue fits the state it leads to:
\* nothing in it applies to that state.
LEMMA QueueProcessed ==
    ASSUME NEW q \in Seq(Action), NEW s \in LedgerState, QueueFits(q, s),
           NEW result, result = ProcessBatch(s, q, None)
    PROVE  /\ QueueFits(q, result.state)
           /\ IsPrefix(result.applied, q)
<1>1. /\ result.state \in LedgerState /\ result.applied \in Seq(Action)
      /\ result.state.nonce = s.nonce + Len(result.applied)
  BY ProcessBatchType
<1>2. /\ \A i \in 1..Len(q) : ~Applies(result.state, q[i], None)
      /\ Len(result.applied) <= Len(q)
      /\ \A i \in 1..Len(result.applied) : result.applied[i] = q[i]
  <2>1. CASE \A i \in 1..Len(q) : q[i].nonce = s.nonce + i
    BY <2>1, QueueInOrder
  <2>2. CASE \A i \in 1..Len(q) : ~Applies(s, q[i], None)
    <3>1. result = [state |-> s, applied |-> <<>>]
      BY <2>2, NoneApplies
    <3>2. result.state = s /\ Len(result.applied) = 0 /\ 1..0 = {} /\ Len(q) \in Nat
      BY <3>1
    <3> QED
      BY <2>2, <3>2
  <2> QED
    BY <2>1, <2>2 DEF QueueFits
<1>3. \A i \in 1..Len(q) : q[i].nonce <= result.state.nonce + i
  <2> TAKE i \in 1..Len(q)
  <2>1. /\ q[i].nonce <= s.nonce + i /\ s.nonce \in Nat /\ Len(result.applied) \in Nat
        /\ i \in Nat
    BY <1>1 DEF QueueFits, LedgerState
  <2>2. q[i].nonce \in Nat
    <3>1. q[i] \in Action
      OBVIOUS
    <3> QED
      BY <3>1 DEF Action
  <2> QED
    BY ONLY <1>1, <2>1, <2>2
<1>4. QueueFits(q, result.state)
  BY <1>2, <1>3 DEF QueueFits
<1>5. IsPrefix(result.applied, q)
  <2> DEFINE a == result.applied
  <2>1. a \in Seq(Action) /\ Len(a) \in Nat /\ Len(a) <= Len(q)
    BY <1>1, <1>2
  <2>2. /\ SubSeq(a, 1, Len(a)) = [i \in 1..Len(a) |-> a[i]]
        /\ SubSeq(q, 1, Len(a)) = [i \in 1..Len(a) |-> q[i]]
    BY <2>1
  <2>3. SubSeq(a, 1, Len(a)) = SubSeq(q, 1, Len(a))
    BY <1>2, <2>2
  <2> QED
    BY <2>1, <2>3 DEF IsPrefix
<1> QED
  BY <1>4, <1>5

-----------------------------------------------------------------------------
\* Steps that leave the files alone.

LEMMA OneLocal ==
    ASSUME OneAtATime, IInv, NEW p \in Procs, NEW local, Goto(p, local)
    PROVE  /\ DOMAIN proc' = Procs
           /\ \A q \in Procs : proc'[q] = local /\ q = p
  BY DEF OneAtATime, IInv, ProcSound, Goto

LEMMA FilesStay ==
    ASSUME IInv, UNCHANGED <<files, published, verifierFiles>>
    PROVE  TypeOK' /\ QueueSound' /\ PublishedSound' /\ LogSound'
<1>1. UNCHANGED <<current, pending, nextSequence, published, verified, log>>
  BY DEF files, verifierFiles
<1> QED
  BY <1>1 DEF IInv, TypeOK, QueueSound, QueueFits, PublishedSound, LogSound, VerifierLinked

\* Outside a batch's writes ChainSound is about the files alone.
LEMMA ChainStays ==
    ASSUME OneAtATime, IInv, NEW p \in Procs, proc[p].pc \notin BatchPcs,
           NEW local, Goto(p, local), local.pc \notin BatchPcs,
           UNCHANGED <<files, published, crashes>>
    PROVE  ChainSound'
<1>1. \A q \in Procs : proc'[q] = local /\ q = p
  BY OneLocal
<1>2. UNCHANGED <<current, nextSequence, published, crashes>>
  BY DEF files
<1> QED
  BY <1>1, <1>2 DEF IInv, ChainSound, PublishedChain, PublishedState

LEMMA StartSubmitStep ==
    ASSUME OneAtATime, IInv, NEW p \in Procs, NEW r \in Requests, StartSubmit(p, r)
    PROVE  IInv'
<1> DEFINE local == [pc |-> "next_nonce", request |-> r, base |-> current.nonce]
<1>1. /\ Goto(p, local) /\ UNCHANGED <<files, published, verifierFiles, crashes>>
      /\ proc[p].pc = "idle" /\ UNCHANGED current
  BY DEF StartSubmit, At, files
<1>2. DOMAIN proc' = Procs /\ \A q \in Procs : proc'[q] = local
  BY <1>1, OneLocal
<1>3. ProcSound'
  BY <1>1, <1>2 DEF ProcSound, LocalSound
<1>4. ChainSound'
  BY <1>1, ChainStays DEF BatchPcs
<1> QED
  BY <1>1, <1>3, <1>4, FilesStay DEF IInv, Counting

LEMMA ComputeNonceStep ==
    ASSUME OneAtATime, IInv, NEW p \in Procs, ComputeNonce(p)
    PROVE  IInv'
<1> DEFINE action == [nonce |-> proc[p].base + Len(pending) + 1,
                      request |-> proc[p].request]
           local == [pc |-> "load_pending", action |-> action]
<1>1. /\ Goto(p, local) /\ UNCHANGED <<files, published, verifierFiles, crashes>>
      /\ proc[p].pc = "next_nonce" /\ UNCHANGED <<current, pending>>
  BY DEF ComputeNonce, At, files, counters
<1>2. DOMAIN proc' = Procs /\ \A q \in Procs : proc'[q] = local
  BY <1>1, OneLocal
<1>3. proc[p].request \in Request /\ proc[p].base = current.nonce
  BY <1>1, CliAssumption
     DEF IInv, ProcSound, LocalSound, BatchLocal, AcceptLocal, BatchPcs, AcceptPcs
<1>4. action \in Action /\ action.nonce = current.nonce + Len(pending) + 1
  BY <1>3 DEF IInv, TypeOK, LedgerState, Action
<1> HIDE DEF action
<1>5. ProcSound'
  BY <1>1, <1>2, <1>4 DEF ProcSound, LocalSound
<1>6. ChainSound'
  BY <1>1, ChainStays DEF BatchPcs
<1> QED
  BY <1>1, <1>5, <1>6, FilesStay DEF IInv, Counting

LEMMA LoadQueueStep ==
    ASSUME OneAtATime, IInv, NEW p \in Procs, LoadQueue(p)
    PROVE  IInv'
<1> DEFINE queue == Append(pending, proc[p].action)
           local == [pc |-> "save_pending", queue |-> queue]
<1>1. /\ Goto(p, local) /\ UNCHANGED <<files, published, verifierFiles, crashes>>
      /\ proc[p].pc = "load_pending" /\ UNCHANGED <<current, pending>>
  BY DEF LoadQueue, At, files, counters
<1>2. DOMAIN proc' = Procs /\ \A q \in Procs : proc'[q] = local
  BY <1>1, OneLocal
<1>3. /\ proc[p].action \in Action
      /\ proc[p].action.nonce = current.nonce + Len(pending) + 1
  BY <1>1 DEF IInv, ProcSound, LocalSound, BatchLocal, AcceptLocal, BatchPcs, AcceptPcs
<1>4. queue[Len(pending) + 1] = proc[p].action
  BY <1>3 DEF IInv, TypeOK
<1> HIDE DEF queue
<1>5. ProcSound'
  BY <1>1, <1>2, <1>3, <1>4 DEF ProcSound, LocalSound, queue
<1>6. ChainSound'
  BY <1>1, ChainStays DEF BatchPcs
<1> QED
  BY <1>1, <1>5, <1>6, FilesStay DEF IInv, Counting

LEMMA StartBatchStep ==
    ASSUME OneAtATime, IInv, NEW p \in Procs, StartBatch(p)
    PROVE  IInv'
<1> DEFINE local == [pc |-> "batch_queue", prev |-> current]
<1>1. /\ Goto(p, local) /\ UNCHANGED <<files, published, verifierFiles, crashes>>
      /\ proc[p].pc = "idle" /\ UNCHANGED current
  BY DEF StartBatch, At, files
<1>2. DOMAIN proc' = Procs /\ \A q \in Procs : proc'[q] = local
  BY <1>1, OneLocal
<1>3. ProcSound'
  BY <1>1, <1>2 DEF ProcSound, LocalSound
<1>4. ChainSound'
  BY <1>1, ChainStays DEF BatchPcs
<1> QED
  BY <1>1, <1>3, <1>4, FilesStay DEF IInv, Counting

LEMMA BatchQueueStep ==
    ASSUME OneAtATime, IInv, NEW p \in Procs, BatchQueue(p)
    PROVE  IInv'
<1> DEFINE run == [pc |-> "batch_run", prev |-> proc[p].prev, queue |-> pending]
<1>1. /\ Goto(p, Idle) \/ Goto(p, run)
      /\ UNCHANGED <<files, published, verifierFiles, crashes>>
      /\ proc[p].pc = "batch_queue" /\ UNCHANGED <<current, pending>>
  BY DEF BatchQueue, At, files, counters
<1>2. proc[p].prev = current
  BY <1>1 DEF IInv, ProcSound, LocalSound, BatchLocal, AcceptLocal, BatchPcs, AcceptPcs
<1>3. CASE Goto(p, Idle)
  <2>1. DOMAIN proc' = Procs /\ \A q \in Procs : proc'[q] = Idle
    BY <1>3, OneLocal
  <2>2. ProcSound'
    BY <2>1 DEF ProcSound, LocalSound, Idle
  <2>3. ChainSound'
    BY <1>1, <1>3, ChainStays DEF BatchPcs, Idle
  <2> QED
    BY <1>1, <2>2, <2>3, FilesStay DEF IInv, Counting
<1>4. CASE Goto(p, run)
  <2>1. DOMAIN proc' = Procs /\ \A q \in Procs : proc'[q] = run
    BY <1>4, OneLocal
  <2>2. ProcSound'
    BY <1>1, <1>2, <2>1 DEF ProcSound, LocalSound
  <2>3. ChainSound'
    BY <1>1, <1>4, ChainStays DEF BatchPcs
  <2> QED
    BY <1>1, <2>2, <2>3, FilesStay DEF IInv, Counting
<1> QED
  BY <1>1, <1>3, <1>4

-----------------------------------------------------------------------------
\* Steps that write.

LEMMA SaveQueueStep ==
    ASSUME OneAtATime, IInv, NEW p \in Procs, SaveQueue(p)
    PROVE  IInv'
<1>1. /\ Goto(p, Idle) /\ UNCHANGED <<current, nextSequence, published, verified, log, crashes>>
      /\ proc[p].pc = "save_pending" /\ pending' = proc[p].queue
  BY DEF SaveQueue, At, verifierFiles, counters
<1>2. DOMAIN proc' = Procs /\ \A q \in Procs : proc'[q] = Idle /\ q = p
  BY <1>1, OneLocal
<1>3. PICK action \in Action :
          /\ action.nonce = current.nonce + Len(pending) + 1
          /\ pending' = Append(pending, action)
  BY <1>1 DEF IInv, ProcSound, LocalSound, BatchLocal, AcceptLocal, BatchPcs, AcceptPcs
<1>4. pending \in Seq(Action) /\ current \in LedgerState
  BY DEF IInv, TypeOK
<1>5. TypeOK'
  BY <1>1, <1>3 DEF IInv, TypeOK
<1>6. ProcSound'
  BY <1>2 DEF ProcSound, LocalSound, Idle
<1>7. QueueSound'
  <2>1. QueueFits(Append(pending, action), current)
    BY <1>3, <1>4, QueueGrows DEF IInv, QueueSound
  <2> QED
    BY <1>1, <1>3, <2>1 DEF QueueSound, QueueFits
<1>8. PublishedSound' /\ LogSound'
  BY <1>1 DEF IInv, PublishedSound, LogSound, VerifierLinked
<1>9. ChainSound'
  BY <1>1, <1>2 DEF IInv, ChainSound, PublishedChain, PublishedState, BatchPcs, Idle
<1> QED
  BY <1>1, <1>5, <1>6, <1>7, <1>8, <1>9 DEF IInv, Counting

LEMMA BatchRunStep ==
    ASSUME OneAtATime, IInv, NEW p \in Procs, BatchRun(p)
    PROVE  IInv'
<1> DEFINE result == ProcessBatch(current, pending, None)
           envelope == [sequence |-> nextSequence, prev |-> current,
                        new |-> result.state, actions |-> result.applied]
           local == [pc |-> "save_state", queue |-> pending, envelope |-> envelope]
<1>1. proc[p].pc = "batch_run"
  BY DEF BatchRun, At
<1>2. proc[p].prev = current /\ proc[p].queue = pending
  BY <1>1 DEF IInv, ProcSound, LocalSound, BatchLocal, AcceptLocal, BatchPcs, AcceptPcs
<1>3. /\ Goto(p, local) /\ UNCHANGED <<files, published, verifierFiles, crashes>>
      /\ UNCHANGED <<current, pending, nextSequence>>
  BY <1>2 DEF BatchRun, files, counters
<1>4. DOMAIN proc' = Procs /\ \A q \in Procs : proc'[q] = local /\ q = p
  BY <1>3, OneLocal
<1>5. /\ current \in LedgerState /\ pending \in Seq(Action)
      /\ nextSequence \in Nat \ {0} /\ current.nonce \in Nat
  BY DEF IInv, TypeOK, LedgerState
<1>6. PICK r : r = result
  OBVIOUS
<1>7. r.state \in LedgerState /\ r.applied \in Seq(Action)
  BY <1>5, <1>6, ProcessBatchType
<1>8. envelope \in Envelope
  <2> HIDE DEF result
  <2> QED
    BY <1>5, <1>6, <1>7 DEF Envelope
<1>9. /\ envelope.prev = current /\ envelope.sequence = nextSequence
      /\ envelope.new = result.state /\ envelope.actions = result.applied
  OBVIOUS
<1>10. /\ local \in BatchLocal /\ local.pc = "save_state"
       /\ local.queue = pending /\ local.envelope = envelope
  <2> HIDE DEF envelope
  <2> QED
    BY <1>5, <1>8 DEF BatchLocal, BatchPcs
<1>11. PICK l, e : l = local /\ e = envelope
  OBVIOUS
<1> HIDE DEF envelope, local
<1>12. BatchSound(l)'
  <2>1. /\ l.envelope = e /\ l.queue = pending /\ l.pc = "save_state"
        /\ e.prev = current /\ e.sequence = nextSequence
        /\ e.new = result.state /\ e.actions = result.applied
    BY <1>9, <1>10, <1>11
  <2>2. \A i \in DOMAIN published : /\ published[i].sequence < e.sequence
                                    /\ published[i].new.nonce <= e.prev.nonce
    BY <2>1 DEF IInv, PublishedSound
  <2>3. /\ current' = e.prev /\ pending' = l.queue /\ nextSequence' = e.sequence
        /\ published' = published
    BY <1>3, <2>1
  <2> QED
    BY <2>1, <2>2, <2>3 DEF BatchSound
<1>13. ProcSound'
  <2>1. \A q \in Procs : proc'[q] = l
    BY <1>4, <1>11
  <2>2. l \in BatchLocal
    BY <1>10, <1>11
  <2> QED
    BY <1>4, <1>12, <2>1, <2>2 DEF ProcSound, LocalSound, BatchSound
<1>14. ChainSound'
  <2>1. crashes = 0 => /\ nextSequence = Len(published) + 1
                       /\ current = PublishedState /\ PublishedChain
    BY <1>1 DEF IInv, ChainSound, BatchPcs
  <2> QED
    BY <1>3, <1>4, <1>9, <1>10, <2>1 DEF ChainSound, PublishedChain, PublishedState
<1> QED
  BY <1>3, <1>13, <1>14, FilesStay DEF IInv, Counting

LEMMA PrintedAreEnvelopes ==
    ASSUME IInv
    PROVE  /\ DOMAIN published = 1..Len(published)
           /\ \A i \in DOMAIN published : published[i] \in Envelope
           /\ \A e \in Range(published) : e \in Envelope
<1>1. published \in Seq(Envelope)
  BY DEF IInv, TypeOK
<1> QED
  BY <1>1 DEF Range

\* A sequence number names one printed payload.
LEMMA NumbersAreUnique ==
    ASSUME IInv, NEW d \in Range(published), NEW e \in Range(published),
           d.sequence = e.sequence
    PROVE  d = e
<1>1. PICK i \in DOMAIN published, j \in DOMAIN published :
          d = published[i] /\ e = published[j]
  BY DEF Range
<1>2. i \in Nat /\ j \in Nat /\ published[i].sequence \in Nat /\ published[j].sequence \in Nat
  BY PrintedAreEnvelopes DEF Envelope
<1>3. ~(i < j) /\ ~(j < i)
  BY <1>1, <1>2 DEF IInv, PublishedSound
<1> QED
  BY <1>1, <1>2, <1>3

\* A batch command between BatchRun and its last write.
LEMMA BatchUnderWay ==
    ASSUME OneAtATime, IInv, NEW p \in Procs, proc[p].pc \in BatchPcs,
           NEW l, l = proc[p], NEW e, e = l.envelope
    PROVE  /\ l \in BatchLocal /\ BatchSound(l) /\ e \in Envelope
           /\ l.pc = "save_state" => QueueFits(pending, e.new)
           /\ e.prev.nonce \in Nat /\ e.new.nonce \in Nat /\ e.sequence \in Nat
           /\ e.prev.nonce <= e.new.nonce
           /\ \A i \in 1..Len(e.actions) : e.actions[i].nonce = e.prev.nonce + i
           /\ l.pc = "save_state" => IsPrefix(e.actions, l.queue)
<1>1. l \in BatchLocal /\ BatchSound(l)
  BY DEF IInv, ProcSound, LocalSound, BatchPcs, AcceptLocal, AcceptPcs
<1>2. e \in Envelope /\ l.queue \in Seq(Action)
  BY <1>1 DEF BatchLocal
<1>3. e.prev \in LedgerState /\ e.new \in LedgerState /\ e.sequence \in Nat
  BY <1>2 DEF Envelope
<1>4. PICK r : r = ProcessBatch(e.prev, l.queue, None)
  OBVIOUS
<1>5. e.new = r.state /\ e.actions = r.applied
  BY <1>1, <1>4 DEF BatchSound
<1>6. /\ e.new.nonce = e.prev.nonce + Len(e.actions)
      /\ e.actions \in Seq(Action)
      /\ \A i \in 1..Len(e.actions) : e.actions[i].nonce = e.prev.nonce + i
  <2>1. /\ r.state.nonce = e.prev.nonce + Len(r.applied)
        /\ r.applied \in Seq(Action)
        /\ \A i \in 1..Len(r.applied) : r.applied[i].nonce = e.prev.nonce + i
    BY <1>2, <1>3, <1>4, ProcessBatchType, SMTT(20)
  <2> QED
    BY ONLY <1>5, <2>1
<1>7. ASSUME l.pc = "save_state"
      PROVE  QueueFits(pending, e.new) /\ IsPrefix(e.actions, l.queue)
  <2>1. pending = l.queue /\ current = e.prev
    BY <1>1, <1>7 DEF BatchSound
  <2>2. QueueFits(l.queue, e.prev)
    BY <2>1 DEF IInv, QueueSound
  <2> QED
    BY <1>2, <1>3, <1>4, <1>5, <2>1, <2>2, QueueProcessed
<1>8. e.prev.nonce \in Nat /\ e.new.nonce \in Nat /\ Len(e.actions) \in Nat
  BY <1>3, <1>6 DEF LedgerState
<1>9. e.prev.nonce <= e.new.nonce
  BY ONLY <1>6, <1>8
<1> QED
  BY <1>1, <1>2, <1>3, <1>6, <1>7, <1>8, <1>9

LEMMA BatchMoves ==
    ASSUME NEW l \in BatchLocal, NEW pc \in BatchPcs,
           NEW next, next = [l EXCEPT !.pc = pc]
    PROVE  /\ next \in BatchLocal
           /\ next.pc = pc /\ next.queue = l.queue /\ next.envelope = l.envelope
  BY DEF BatchLocal

\* The batch goes on to its next write.
LEMMA BatchGoesOn ==
    ASSUME OneAtATime, IInv, NEW p \in Procs, proc[p].pc \in BatchPcs,
           NEW pc \in BatchPcs, Goto(p, [proc[p] EXCEPT !.pc = pc]),
           UNCHANGED <<published, verified, log, crashes>>
    PROVE  /\ ChainSound' /\ LogSound'
           /\ \E l \in BatchLocal :
                 /\ l.pc = pc /\ l.envelope = proc[p].envelope /\ l.queue = proc[p].queue
                 /\ DOMAIN proc' = Procs
                 /\ \A q \in Procs : proc'[q] = l
<1>1. PICK l : l = [proc[p] EXCEPT !.pc = pc]
  OBVIOUS
<1>2. /\ l \in BatchLocal /\ l.pc = pc
      /\ l.envelope = proc[p].envelope /\ l.queue = proc[p].queue
  BY <1>1, BatchUnderWay, BatchMoves
<1>3. DOMAIN proc' = Procs /\ \A q \in Procs : proc'[q] = l /\ q = p
  BY <1>1, OneLocal
<1>4. ChainSound'
  BY <1>2, <1>3 DEF IInv, ChainSound, PublishedChain, PublishedState
<1>5. LogSound'
  BY DEF IInv, LogSound, VerifierLinked
<1> QED
  BY <1>2, <1>3, <1>4, <1>5

LEMMA SaveStateStep ==
    ASSUME OneAtATime, IInv, NEW p \in Procs, SaveState(p)
    PROVE  IInv'
<1>1. /\ proc[p].pc = "save_state" /\ proc[p].pc \in BatchPcs
      /\ "clear_pending" \in BatchPcs
      /\ Goto(p, [proc[p] EXCEPT !.pc = "clear_pending"])
      /\ UNCHANGED <<pending, nextSequence, published, verified, log, crashes>>
      /\ current' = proc[p].envelope.new
  BY DEF SaveState, At, BatchPcs, verifierFiles, counters
<1>2. PICK e, b : b = proc[p] /\ e = b.envelope
  OBVIOUS
<1>3. /\ BatchSound(b) /\ QueueFits(pending, e.new) /\ e \in Envelope
      /\ e.prev.nonce \in Nat /\ e.new.nonce \in Nat /\ e.prev.nonce <= e.new.nonce
  BY <1>1, <1>2, BatchUnderWay
<1>4. PICK l \in BatchLocal :
          /\ l.pc = "clear_pending" /\ l.envelope = e /\ l.queue = b.queue
          /\ DOMAIN proc' = Procs
          /\ \A q \in Procs : proc'[q] = l
  BY <1>1, <1>2, BatchGoesOn
<1>5. BatchSound(l)'
  BY <1>1, <1>2, <1>3, <1>4 DEF BatchSound
<1>6. ProcSound'
  BY <1>4, <1>5 DEF ProcSound, LocalSound
<1>7. TypeOK'
  BY <1>1, <1>2, <1>3 DEF IInv, TypeOK, Envelope
<1>8. QueueSound'
  BY <1>1, <1>2, <1>3 DEF QueueSound, QueueFits
<1>9. PublishedSound'
  <2>1. \A i \in DOMAIN published : published[i].new.nonce \in Nat
    BY PrintedAreEnvelopes DEF Envelope, LedgerState
  <2>2. \A i \in DOMAIN published : published[i].new.nonce <= e.prev.nonce
    BY <1>2, <1>3 DEF BatchSound
  <2>3. \A i \in DOMAIN published : published[i].new.nonce <= e.new.nonce
    BY <1>3, <2>1, <2>2
  <2> QED
    BY <1>1, <1>2, <2>3 DEF IInv, PublishedSound
<1>10. ChainSound' /\ LogSound'
  BY <1>1, BatchGoesOn
<1> QED
  BY <1>1, <1>6, <1>7, <1>8, <1>9, <1>10 DEF IInv, Counting

LEMMA ClearPendingStep ==
    ASSUME OneAtATime, IInv, NEW p \in Procs, ClearPending(p)
    PROVE  IInv'
<1>1. /\ proc[p].pc = "clear_pending" /\ proc[p].pc \in BatchPcs /\ "advance" \in BatchPcs
      /\ Goto(p, [proc[p] EXCEPT !.pc = "advance"])
      /\ UNCHANGED <<current, nextSequence, published, verified, log, crashes>>
      /\ pending' = <<>>
  BY DEF ClearPending, At, BatchPcs, verifierFiles, counters
<1>2. PICK e, b : b = proc[p] /\ e = b.envelope
  OBVIOUS
<1>3. BatchSound(b)
  BY <1>1, <1>2, BatchUnderWay
<1>4. PICK l \in BatchLocal :
          /\ l.pc = "advance" /\ l.envelope = e /\ l.queue = b.queue
          /\ DOMAIN proc' = Procs
          /\ \A q \in Procs : proc'[q] = l
  BY <1>1, <1>2, BatchGoesOn
<1>5. BatchSound(l)'
  BY <1>1, <1>2, <1>3, <1>4 DEF BatchSound
<1>6. ProcSound'
  BY <1>4, <1>5 DEF ProcSound, LocalSound
<1>7. TypeOK' /\ PublishedSound'
  BY <1>1 DEF IInv, TypeOK, PublishedSound
<1>8. QueueSound'
  <2>1. 1..Len(<<>>) = {}
    OBVIOUS
  <2> QED
    BY <1>1, <2>1 DEF QueueSound, QueueFits
<1>9. ChainSound' /\ LogSound'
  BY <1>1, BatchGoesOn
<1> QED
  BY <1>1, <1>6, <1>7, <1>8, <1>9 DEF IInv, Counting

LEMMA AdvanceSequenceStep ==
    ASSUME OneAtATime, IInv, NEW p \in Procs, AdvanceSequence(p)
    PROVE  IInv'
<1>1. /\ proc[p].pc = "advance" /\ proc[p].pc \in BatchPcs /\ "publish" \in BatchPcs
      /\ Goto(p, [proc[p] EXCEPT !.pc = "publish"])
      /\ UNCHANGED <<current, pending, published, verified, log, crashes>>
      /\ nextSequence' = proc[p].envelope.sequence + 1
  BY DEF AdvanceSequence, At, BatchPcs, verifierFiles, counters
<1>2. PICK e, b : b = proc[p] /\ e = b.envelope
  OBVIOUS
<1>3. BatchSound(b) /\ e.sequence \in Nat
  BY <1>1, <1>2, BatchUnderWay
<1>4. PICK l \in BatchLocal :
          /\ l.pc = "publish" /\ l.envelope = e /\ l.queue = b.queue
          /\ DOMAIN proc' = Procs
          /\ \A q \in Procs : proc'[q] = l
  BY <1>1, <1>2, BatchGoesOn
<1>5. BatchSound(l)'
  BY <1>1, <1>2, <1>3, <1>4 DEF BatchSound
<1>6. ProcSound'
  BY <1>4, <1>5 DEF ProcSound, LocalSound
<1>7. TypeOK'
  BY <1>1, <1>2, <1>3 DEF IInv, TypeOK
<1>8. QueueSound'
  BY <1>1 DEF IInv, QueueSound, QueueFits
<1>9. PublishedSound'
  <2>1. \A i \in DOMAIN published : published[i].sequence \in Nat
    BY PrintedAreEnvelopes DEF Envelope
  <2>2. \A i \in DOMAIN published : published[i].sequence < e.sequence
    BY <1>2, <1>3 DEF BatchSound
  <2>3. \A i \in DOMAIN published : published[i].sequence < e.sequence + 1
    BY <1>3, <2>1, <2>2
  <2> QED
    BY <1>1, <1>2, <2>3 DEF IInv, PublishedSound
<1>10. ChainSound' /\ LogSound'
  BY <1>1, BatchGoesOn
<1> QED
  BY <1>1, <1>6, <1>7, <1>8, <1>9, <1>10 DEF IInv, Counting

\* A printed payload keeps its place.
LEMMA LogKeepsUp ==
    ASSUME LogSound, NEW e, published \in Seq(Envelope), e \in Envelope,
           published' = Append(published, e), UNCHANGED <<verified, log>>
    PROVE  LogSound'
<1>1. Range(published) \subseteq Range(published')
  BY DEF Range
<1> HIDE DEF Range
<1> QED
  BY <1>1 DEF LogSound, VerifierLinked

LEMMA PublishStep ==
    ASSUME OneAtATime, IInv, NEW p \in Procs, Publish(p)
    PROVE  IInv'
<1>1. /\ proc[p].pc = "publish" /\ proc[p].pc \in BatchPcs /\ Goto(p, Idle)
      /\ UNCHANGED <<current, pending, nextSequence, verified, log, crashes>>
      /\ published' = Append(published, proc[p].envelope)
  BY DEF Publish, At, BatchPcs, files, verifierFiles, counters
<1>2. PICK e, b : b = proc[p] /\ e = b.envelope
  OBVIOUS
<1>3. /\ BatchSound(b) /\ e \in Envelope /\ e.sequence \in Nat
      /\ e.prev.nonce \in Nat /\ e.new.nonce \in Nat /\ e.prev.nonce <= e.new.nonce
  BY <1>1, <1>2, BatchUnderWay
<1>4. DOMAIN proc' = Procs /\ \A q \in Procs : proc'[q] = Idle /\ q = p
  BY <1>1, OneLocal
<1>5. PICK n \in Nat : n = Len(published)
  BY DEF IInv, TypeOK
<1>6. /\ published \in Seq(Envelope) /\ published' \in Seq(Envelope)
      /\ DOMAIN published = 1..n /\ DOMAIN published' = 1..n+1 /\ Len(published') = n + 1
      /\ \A i \in 1..n : published'[i] = published[i]
      /\ published'[n + 1] = e
      /\ \A i \in 1..n+1 : i \in 1..n \/ i = n + 1
  BY <1>1, <1>2, <1>3, <1>5 DEF IInv, TypeOK
<1>7. TypeOK'
  BY <1>1, <1>6 DEF IInv, TypeOK
<1>8. ProcSound'
  BY <1>4 DEF ProcSound, LocalSound, Idle
<1>9. QueueSound'
  BY <1>1 DEF IInv, QueueSound, QueueFits
<1>10. LogSound'
  BY <1>1, <1>2, <1>3, <1>6, LogKeepsUp DEF IInv
<1>11. PublishedSound'
  <2>1. /\ \A i \in 1..n : /\ published[i].sequence < e.sequence
                           /\ published[i].new.nonce <= e.prev.nonce
        /\ current = e.new /\ nextSequence = e.sequence + 1
    BY <1>1, <1>2, <1>3, <1>6 DEF BatchSound
  <2>2. \A i \in 1..n+1 : /\ published'[i].sequence < nextSequence'
                          /\ published'[i].new.nonce <= current'.nonce
    <3>1. \A i \in 1..n : /\ published'[i].sequence < nextSequence'
                          /\ published'[i].new.nonce <= current'.nonce
      BY <1>1, <1>6 DEF IInv, PublishedSound
    <3>2. /\ published'[n + 1].sequence < nextSequence'
          /\ published'[n + 1].new.nonce <= current'.nonce
      BY <1>1, <1>3, <1>6, <2>1
    <3> QED
      BY <1>6, <3>1, <3>2
  <2>3. \A i, j \in 1..n : i < j =>
           /\ published'[i].sequence < published'[j].sequence
           /\ published'[i].new.nonce <= published'[j].prev.nonce
    BY <1>6 DEF IInv, PublishedSound
  <2>4. \A i \in 1..n : /\ published'[i].sequence < published'[n + 1].sequence
                        /\ published'[i].new.nonce <= published'[n + 1].prev.nonce
    BY <1>6, <2>1
  <2>5. \A i, j \in 1..n+1 : i < j => i \in 1..n
    BY <1>5
  <2> QED
    BY <1>6, <2>2, <2>3, <2>4, <2>5 DEF PublishedSound
<1>12. ChainSound'
  <2> SUFFICES ASSUME crashes = 0
               PROVE  /\ PublishedChain' /\ nextSequence' = Len(published') + 1
                      /\ current' = PublishedState'
    BY <1>1, <1>4 DEF ChainSound, BatchPcs, Idle
  <2>1. e.sequence = n + 1 /\ e.prev = PublishedState /\ PublishedChain
    BY <1>1, <1>2, <1>5 DEF IInv, ChainSound
  <2>2. current = e.new /\ nextSequence = e.sequence + 1
    BY <1>1, <1>2, <1>3 DEF BatchSound
  <2>3. published' # <<>> /\ PublishedState' = e.new
    BY <1>5, <1>6 DEF PublishedState
  <2>4. \A i \in 1..n : /\ published'[i].sequence = i
                        /\ published'[i].prev =
                              (IF i = 1 THEN Genesis({}) ELSE published'[i - 1].new)
    <3>1. \A i \in 1..n : i = 1 \/ i - 1 \in 1..n
      BY <1>5
    <3> QED
      BY <1>6, <2>1, <3>1 DEF PublishedChain
  <2>5. e.prev = (IF n + 1 = 1 THEN Genesis({}) ELSE published'[(n + 1) - 1].new)
    <3>1. CASE n = 0
      <4>1. published = <<>>
        BY <1>5, <1>6, <3>1
      <4> QED
        BY <2>1, <3>1, <4>1 DEF PublishedState
    <3>2. CASE n # 0
      <4>1. published # <<>> /\ n \in 1..n /\ n + 1 # 1 /\ (n + 1) - 1 = n
        BY <1>5, <3>2
      <4> QED
        BY <1>5, <1>6, <2>1, <4>1 DEF PublishedState
    <3> QED
      BY <3>1, <3>2
  <2>6. PublishedChain'
    BY <1>6, <2>1, <2>4, <2>5 DEF PublishedChain
  <2> QED
    BY <1>1, <1>5, <1>6, <2>1, <2>2, <2>3, <2>6
<1> QED
  BY <1>1, <1>7, <1>8, <1>9, <1>10, <1>11, <1>12 DEF IInv, Counting

-----------------------------------------------------------------------------
\* accept-envelope.

LEMMA AcceptUnderWay ==
    ASSUME OneAtATime, IInv, NEW p \in Procs, proc[p].pc \in AcceptPcs
    PROVE  proc[p] \in AcceptLocal /\ AcceptSound(proc[p])
  BY DEF IInv, ProcSound, LocalSound, BatchPcs, BatchLocal, AcceptPcs

LEMMA StartAcceptStep ==
    ASSUME OneAtATime, IInv, NEW p \in Procs, NEW e \in Range(published), StartAccept(p, e)
    PROVE  IInv'
<1>1. PICK l : l = [pc |-> "save_verified", envelope |-> e, log |-> log]
  OBVIOUS
<1>2. /\ Goto(p, l) /\ UNCHANGED <<files, published, verifierFiles, crashes>>
      /\ proc[p].pc = "idle" /\ UNCHANGED <<verified, log>>
      /\ e.sequence = Len(log) + 1 /\ (log # <<>> => verified = e.prev)
  BY <1>1 DEF StartAccept, At, files, verifierFiles, counters, Acceptable
<1>3. DOMAIN proc' = Procs /\ \A q \in Procs : proc'[q] = l
  BY <1>2, OneLocal
<1>4. log # <<>> => log[Len(log)].new = e.prev
  <2> SUFFICES ASSUME log # <<>> PROVE log[Len(log)].new = e.prev
    OBVIOUS
  <2>1. CASE verified = log[Len(log)].new
    BY <1>2, <2>1
  <2>2. ASSUME NEW d \in Range(published),
               d.sequence = Len(log) + 1, d.prev = log[Len(log)].new
        PROVE  log[Len(log)].new = e.prev
    BY <1>2, <2>2, NumbersAreUnique
  <2> QED
    BY <2>1, <2>2 DEF IInv, LogSound, VerifierLinked
<1>5. l \in AcceptLocal
  BY <1>1, PrintedAreEnvelopes DEF AcceptLocal, AcceptPcs, IInv, TypeOK
<1>6. AcceptSound(l)'
  BY <1>1, <1>2, <1>4 DEF AcceptSound
<1>7. ProcSound'
  BY <1>3, <1>5, <1>6 DEF ProcSound, LocalSound
<1>8. ChainSound'
  BY <1>1, <1>2, ChainStays DEF BatchPcs
<1> QED
  BY <1>2, <1>7, <1>8, FilesStay DEF IInv, Counting

LEMMA SaveVerifiedStep ==
    ASSUME OneAtATime, IInv, NEW p \in Procs, SaveVerified(p)
    PROVE  IInv'
<1>1. PICK b, e, l : b = proc[p] /\ e = b.envelope /\ l = [b EXCEPT !.pc = "save_log"]
  OBVIOUS
<1>2. /\ Goto(p, l) /\ UNCHANGED <<files, published, log, crashes>>
      /\ UNCHANGED <<current, pending, nextSequence>>
      /\ b.pc = "save_verified" /\ b.pc \in AcceptPcs /\ verified' = e.new
  BY <1>1 DEF SaveVerified, At, AcceptPcs, files, counters
<1>3. b \in AcceptLocal /\ AcceptSound(b)
  BY <1>1, <1>2, AcceptUnderWay
<1>4. l \in AcceptLocal /\ l.pc = "save_log" /\ l.envelope = e /\ l.log = b.log
  BY <1>1, <1>3 DEF AcceptLocal, AcceptPcs
<1>5. DOMAIN proc' = Procs /\ \A q \in Procs : proc'[q] = l
  BY <1>2, OneLocal
<1>6. AcceptSound(l)'
  BY <1>1, <1>2, <1>3, <1>4 DEF AcceptSound
<1>7. ProcSound'
  BY <1>4, <1>5, <1>6 DEF ProcSound, LocalSound
<1>8. TypeOK'
  <2>1. e.new \in LedgerState
    BY <1>1, <1>3 DEF AcceptLocal, Envelope
  <2> QED
    BY <1>2, <2>1 DEF IInv, TypeOK
<1>9. QueueSound' /\ PublishedSound'
  BY <1>2 DEF IInv, QueueSound, QueueFits, PublishedSound
<1>10. ChainSound'
  BY <1>1, <1>2, <1>4, ChainStays DEF BatchPcs
<1>11. LogSound'
  <2>1. log = <<>> \/ /\ e \in Range(published) /\ e.sequence = Len(log) + 1
                      /\ e.prev = log[Len(log)].new /\ e.new = verified'
    BY <1>1, <1>2, <1>3 DEF AcceptSound
  <2> QED
    BY <1>2, <2>1 DEF IInv, LogSound, VerifierLinked
<1> QED
  BY <1>2, <1>7, <1>8, <1>9, <1>10, <1>11 DEF IInv, Counting

LEMMA SaveLogStep ==
    ASSUME OneAtATime, IInv, NEW p \in Procs, SaveLog(p)
    PROVE  IInv'
<1>1. PICK b, e : b = proc[p] /\ e = b.envelope
  OBVIOUS
<1>2. /\ Goto(p, Idle) /\ UNCHANGED <<files, published, verified, crashes>>
      /\ UNCHANGED <<current, pending, nextSequence>>
      /\ b.pc = "save_log" /\ b.pc \in AcceptPcs /\ log' = Append(b.log, e)
  BY <1>1 DEF SaveLog, At, AcceptPcs, files, counters
<1>3. b \in AcceptLocal /\ AcceptSound(b)
  BY <1>1, <1>2, AcceptUnderWay
<1>4. /\ log' = Append(log, e) /\ e \in Envelope /\ e \in Range(published)
      /\ e.sequence = Len(log) + 1 /\ verified = e.new
      /\ log # <<>> => log[Len(log)].new = e.prev
  BY <1>1, <1>2, <1>3 DEF AcceptSound, AcceptLocal
<1>5. DOMAIN proc' = Procs /\ \A q \in Procs : proc'[q] = Idle
  BY <1>2, OneLocal
<1>6. ProcSound'
  BY <1>5 DEF ProcSound, LocalSound, Idle
<1>7. PICK n \in Nat : n = Len(log)
  BY DEF IInv, TypeOK
<1>8. /\ log \in Seq(Envelope) /\ log' \in Seq(Envelope) /\ log' # <<>>
      /\ DOMAIN log = 1..n /\ DOMAIN log' = 1..n+1 /\ Len(log') = n + 1
      /\ \A i \in 1..n : log'[i] = log[i]
      /\ log'[n + 1] = e
      /\ \A i \in 1..n+1 : i \in 1..n \/ i = n + 1
  BY <1>4, <1>7 DEF IInv, TypeOK
<1>9. TypeOK'
  BY <1>2, <1>8 DEF IInv, TypeOK
<1>10. QueueSound' /\ PublishedSound'
  BY <1>2 DEF IInv, QueueSound, QueueFits, PublishedSound
<1>11. ChainSound'
  BY <1>1, <1>2, ChainStays DEF BatchPcs, AcceptPcs, Idle
<1>12. LogSound'
  <2>1. \A i \in 1..n+1 : log'[i] \in Range(published') /\ log'[i].sequence = i
    <3>1. \A i \in 1..n : log[i] \in Range(published) /\ log[i].sequence = i
      BY <1>8 DEF IInv, LogSound, VerifierLinked
    <3> QED
      BY <1>2, <1>4, <1>7, <1>8, <3>1
  <2>2. \A i \in 1..(n + 1) - 1 : log'[i].new = log'[i + 1].prev
    <3> TAKE i \in 1..(n + 1) - 1
    <3>1. i \in 1..n
      BY <1>7
    <3>2. CASE i = n
      <4>1. log # <<>> /\ log'[i] = log[n] /\ log'[i + 1] = e
        BY <1>7, <1>8, <3>1, <3>2
      <4> QED
        BY <1>4, <1>7, <4>1
    <3>3. CASE i # n
      <4>1. i \in 1..n-1 /\ i + 1 \in 1..n
        BY <1>7, <3>1, <3>3
      <4> QED
        BY <1>7, <1>8, <3>1, <4>1 DEF IInv, LogSound, VerifierLinked
    <3> QED
      BY <3>2, <3>3
  <2>3. verified' = log'[Len(log')].new
    BY <1>2, <1>4, <1>7, <1>8
  <2> QED
    BY <1>8, <2>1, <2>2, <2>3 DEF LogSound, VerifierLinked
<1> QED
  BY <1>2, <1>6, <1>9, <1>10, <1>11, <1>12 DEF IInv, Counting

LEMMA CrashStep ==
    ASSUME OneAtATime, IInv, NEW p \in Procs, Crash(p)
    PROVE  IInv'
<1>1. /\ Goto(p, Idle) /\ UNCHANGED <<files, published, verifierFiles>>
      /\ crashes' = crashes + 1
  BY DEF Crash
<1>2. DOMAIN proc' = Procs /\ \A q \in Procs : proc'[q] = Idle
  BY <1>1, OneLocal
<1>3. ProcSound'
  BY <1>2 DEF ProcSound, LocalSound, Idle
<1>4. crashes' \in Nat /\ crashes' # 0
  BY <1>1 DEF IInv, Counting
<1>5. ChainSound'
  BY <1>4 DEF ChainSound
<1> QED
  BY <1>1, <1>3, <1>4, <1>5, FilesStay DEF IInv, Counting

-----------------------------------------------------------------------------
\* The invariant.

LEMMA InitSound ==
    ASSUME Init
    PROVE  IInv
<1>1. TypeOK
  BY GenesisType DEF Init, TypeOK
<1>2. 1..0 = {} /\ Len(<<>>) = 0 /\ DOMAIN <<>> = {}
  OBVIOUS
<1>3. ProcSound
  BY DEF Init, ProcSound, LocalSound, Idle
<1>4. QueueSound /\ PublishedSound /\ ChainSound /\ Counting
  BY <1>2 DEF Init, QueueSound, QueueFits, PublishedSound, ChainSound, PublishedChain,
              PublishedState, Counting, Idle, BatchPcs
<1>5. LogSound
  BY <1>2 DEF Init, LogSound, VerifierLinked
<1> QED
  BY <1>1, <1>3, <1>4, <1>5 DEF IInv

LEMMA StepSound ==
    ASSUME OneAtATime, IInv, [Next]_vars
    PROVE  IInv'
<1>1. CASE UNCHANGED vars
  <2>1. UNCHANGED <<files, published, verifierFiles, proc, crashes>>
    BY <1>1 DEF vars, counters
  <2>2. ProcSound' /\ ChainSound'
    BY <2>1 DEF IInv, files, verifierFiles, ProcSound, LocalSound, BatchSound, AcceptSound,
                ChainSound, PublishedChain, PublishedState
  <2> QED
    BY <2>1, <2>2, FilesStay DEF IInv, Counting
<1>2. CASE Next
  BY <1>2, StartSubmitStep, ComputeNonceStep, LoadQueueStep, SaveQueueStep,
     StartBatchStep, BatchQueueStep, BatchRunStep, SaveStateStep, ClearPendingStep,
     AdvanceSequenceStep, PublishStep, StartAcceptStep, SaveVerifiedStep, SaveLogStep,
     CrashStep DEF Next
<1> QED
  BY <1>1, <1>2

\* The files of the command-line deployment hold ledger states, queues, payloads and
\* a log of payloads, whatever is queued and wherever a command is killed.
THEOREM CliTypeCorrect ==
    ASSUME OneAtATime
    PROVE  Spec => []TypeOK
<1>1. IInv => TypeOK
  BY DEF IInv
<1> QED
  BY <1>1, InitSound, StepSound, PTL DEF Spec

\* No action is applied twice: the actions of a batch are numbered on from its state,
\* the printed payloads have increasing numbers and nonces, the queue has no nonce
\* twice, also after any number of kills between the writes of batch.
THEOREM NoActionTwice ==
    ASSUME OneAtATime
    PROVE  Spec => []AppliedOnce
<1>1. IInv => AppliedOnce
  <2> SUFFICES ASSUME IInv PROVE AppliedOnce
    OBVIOUS
  <2>1. ASSUME NEW p \in Procs, At(p, "save_state"), NEW i \in DOMAIN proc[p].envelope.actions
        PROVE  proc[p].envelope.actions[i].nonce = proc[p].envelope.prev.nonce + i
    <3>1. PICK l, e : l = proc[p] /\ e = l.envelope
      OBVIOUS
    <3>2. /\ e \in Envelope
          /\ \A k \in 1..Len(e.actions) : e.actions[k].nonce = e.prev.nonce + k
      BY <2>1, <3>1, BatchUnderWay DEF At, BatchPcs
    <3>3. e.actions \in Seq(Action)
      BY <3>2 DEF Envelope
    <3>4. i \in 1..Len(e.actions)
      BY <3>1, <3>3
    <3> QED
      BY <3>1, <3>2, <3>4
  <2>2. \A i, j \in DOMAIN pending : i < j => pending[i].nonce < pending[j].nonce
    <3>1. DOMAIN pending = 1..Len(pending)
      BY DEF IInv, TypeOK
    <3> QED
      BY <3>1 DEF IInv, QueueSound, QueueFits
  <2>3. \A i, j \in DOMAIN published : i < j =>
           /\ published[i].sequence < published[j].sequence
           /\ published[i].new.nonce <= published[j].prev.nonce
    BY DEF IInv, PublishedSound
  <2> QED
    BY <2>1, <2>2, <2>3 DEF AppliedOnce
<1> QED
  BY <1>1, InitSound, StepSound, PTL DEF Spec

\* Without a kill the printed payloads are numbered 1, 2, 3, ... and each starts from
\* the state the one before it ended in.
THEOREM PrintedIsChain ==
    ASSUME OneAtATime
    PROVE  Spec => []PublishedChain
<1>1. IInv => PublishedChain
  BY DEF IInv, ChainSound, PublishedChain
<1> QED
  BY <1>1, InitSound, StepSound, PTL DEF Spec

\* What a batch applies is a prefix of the queue it read: the first rejected action
\* takes every later one with it.
THEOREM RejectionTakesTheRest ==
    ASSUME OneAtATime
    PROVE  Spec => []AppliesPrefix
<1>1. IInv => AppliesPrefix
  <2> SUFFICES ASSUME IInv, NEW p \in Procs, At(p, "save_state")
               PROVE  IsPrefix(proc[p].envelope.actions, proc[p].queue)
    BY DEF AppliesPrefix
  <2>1. PICK l, e : l = proc[p] /\ e = l.envelope
    OBVIOUS
  <2> QED
    BY <2>1, BatchUnderWay DEF At, BatchPcs
<1> QED
  BY <1>1, InitSound, StepSound, PTL DEF Spec

\* The verified log is a linked run of printed payloads with the verified state at
\* its end or one valid payload further.
THEOREM LogIsLinked ==
    ASSUME OneAtATime
    PROVE  Spec => []VerifierLinked
<1>1. IInv => VerifierLinked
  BY DEF IInv, LogSound
<1> QED
  BY <1>1, InitSound, StepSound, PTL DEF Spec

\* Without a kill the verified log is a prefix of the operator's printed history,
\* whatever order the envelopes are offered in.
THEOREM LogIsPrefix ==
    ASSUME OneAtATime
    PROVE  Spec => []VerifiedIsPrefix
<1>1. IInv => VerifiedIsPrefix
  <2> SUFFICES ASSUME IInv, crashes = 0 PROVE IsPrefix(log, published)
    BY DEF VerifiedIsPrefix
  <2>1. /\ log \in Seq(Envelope) /\ published \in Seq(Envelope)
        /\ Len(log) \in Nat /\ Len(published) \in Nat
        /\ DOMAIN log = 1..Len(log) /\ DOMAIN published = 1..Len(published)
    BY DEF IInv, TypeOK
  <2>2. \A i \in 1..Len(log) : i \in 1..Len(published) /\ log[i] = published[i]
    <3> TAKE i \in 1..Len(log)
    <3>1. log[i] \in Range(published) /\ log[i].sequence = i
      BY <2>1 DEF IInv, LogSound, VerifierLinked
    <3>2. PICK j \in 1..Len(published) : log[i] = published[j]
      BY <2>1, <3>1 DEF Range
    <3>3. published[j].sequence = j
      BY <2>1 DEF IInv, ChainSound, PublishedChain
    <3> QED
      BY <3>1, <3>2, <3>3
  <2>3. Len(log) <= Len(published)
    <3>1. CASE Len(log) = 0
      BY <2>1, <3>1
    <3>2. CASE Len(log) # 0
      <4>1. Len(log) \in 1..Len(log)
        BY <2>1, <3>2
      <4> QED
        BY <2>1, <2>2, <4>1
    <3> QED
      BY <3>1, <3>2
  <2>4. /\ SubSeq(log, 1, Len(log)) = [i \in 1..Len(log) |-> log[i]]
        /\ SubSeq(published, 1, Len(log)) = [i \in 1..Len(log) |-> published[i]]
    BY <2>1, <2>3
  <2> QED
    BY <2>2, <2>3, <2>4 DEF IsPrefix
<1> QED
  BY <1>1, InitSound, StepSound, PTL DEF Spec

=============================================================================
