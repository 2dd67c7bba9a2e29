---------------------------- MODULE CliPipeline ----------------------------
(***************************************************************************)
(* The command-line deployment: wallet.py and issuer.py queue actions,     *)
(* sl_operator.py batches them, verifier.py accepts decoded envelopes.     *)
(* Every command is a process of its own; they share JSON files that are   *)
(* read and rewritten one at a time with no lock, so another command may   *)
(* run between any two file operations and a command may die between any   *)
(* two of them.                                                            *)
(*                                                                         *)
(* One write of one file is atomic here (core._write_json truncates and    *)
(* rewrites in place: a file torn in the middle is not modelled), and the  *)
(* envelope a verifier is given is one the operator printed.               *)
(***************************************************************************)
EXTENDS Transition

CONSTANTS
    Procs,          \* command processes that may run at the same time
    Requests,       \* what issuer and wallets ask for
    MaxSubmissions, \* bound: queue commands started
    MaxBatches,     \* bound: batch commands started
    MaxCrashes      \* bound: commands killed half-way

ASSUME CliAssumption ==
    /\ Requests \subseteq Request
    /\ {MaxSubmissions, MaxBatches, MaxCrashes} \subseteq Nat

VARIABLES
    current,        \* operator_state/current_state.json
    pending,        \* operator_state/pending.json
    nextSequence,   \* operator_state/operator_meta.json
    published,      \* the payloads printed by batch, with their actions
    verified,       \* verifier_state/current_state.json, or None
    log,            \* verifier_state/verified_log.json
    proc,           \* the command each process is running, and its locals
    submissions, batches, crashes   \* how often each bounded event happened

files == <<current, pending, nextSequence>>
verifierFiles == <<verified, log>>
counters == <<submissions, batches, crashes>>
vars == <<files, published, verifierFiles, proc, counters>>

Idle == [pc |-> "idle"]

Goto(p, local) == proc' = [proc EXCEPT ![p] = local]

At(p, pc) == proc[p].pc = pc

\* sl_operator.py init.
Init ==
    /\ current = Genesis({})
    /\ pending = <<>>
    /\ nextSequence = 1
    /\ published = <<>>
    /\ verified = None
    /\ log = <<>>
    /\ proc = [p \in Procs |-> Idle]
    /\ submissions = 0 /\ batches = 0 /\ crashes = 0

-----------------------------------------------------------------------------
\* wallet.py transfer and issuer.py mint, burn, freeze, unfreeze.

\* next_nonce, first read: the operator's state.
StartSubmit(p, r) ==
    /\ At(p, "idle")
    /\ submissions < MaxSubmissions
    /\ Goto(p, [pc |-> "next_nonce", request |-> r, base |-> current.nonce])
    /\ submissions' = submissions + 1
    /\ UNCHANGED <<files, published, verifierFiles, batches, crashes>>

\* (Mutant of ComputeNonce: actions still queued are not counted.)
NonceIgnoringQueue(p) ==
    /\ At(p, "next_nonce")
    /\ Goto(p, [pc |-> "load_pending",
                action |-> [nonce |-> proc[p].base + 1, request |-> proc[p].request]])
    /\ UNCHANGED <<files, published, verifierFiles, counters>>

\* next_nonce, second read: the queue.
ComputeNonce(p) ==
    /\ At(p, "next_nonce")
    /\ Goto(p, [pc |-> "load_pending",
                action |-> [nonce |-> proc[p].base + Len(pending) + 1,
                            request |-> proc[p].request]])
    /\ UNCHANGED <<files, published, verifierFiles, counters>>

\* append_pending: load the queue ...
LoadQueue(p) ==
    /\ At(p, "load_pending")
    /\ Goto(p, [pc |-> "save_pending",
                queue |-> Append(pending, proc[p].action)])
    /\ UNCHANGED <<files, published, verifierFiles, counters>>

\* ... and write it back with the action at its end.
SaveQueue(p) ==
    /\ At(p, "save_pending")
    /\ pending' = proc[p].queue
    /\ Goto(p, Idle)
    /\ UNCHANGED <<current, nextSequence, published, verifierFiles, counters>>

-----------------------------------------------------------------------------
\* sl_operator.py batch.

StartBatch(p) ==
    /\ At(p, "idle")
    /\ batches < MaxBatches
    /\ Goto(p, [pc |-> "batch_queue", prev |-> current])
    /\ batches' = batches + 1
    /\ UNCHANGED <<files, published, verifierFiles, submissions, crashes>>

\* Load the queue; an empty one ends the command.
BatchQueue(p) ==
    /\ At(p, "batch_queue")
    /\ Goto(p, IF pending = <<>> THEN Idle
               ELSE [pc |-> "batch_run", prev |-> proc[p].prev, queue |-> pending])
    /\ UNCHANGED <<files, published, verifierFiles, counters>>

\* Read the sequence number and run process_batch.
BatchRun(p) ==
    /\ At(p, "batch_run")
    /\ LET result == ProcessBatch(proc[p].prev, proc[p].queue, None)
       IN  Goto(p, [pc |-> "save_state", queue |-> proc[p].queue,
                    envelope |-> [sequence |-> nextSequence,
                                  prev |-> proc[p].prev, new |-> result.state,
                                  actions |-> result.applied]])
    /\ UNCHANGED <<files, published, verifierFiles, counters>>

SaveState(p) ==
    /\ At(p, "save_state")
    /\ current' = proc[p].envelope.new
    /\ Goto(p, [proc[p] EXCEPT !.pc = "clear_pending"])
    /\ UNCHANGED <<pending, nextSequence, published, verifierFiles, counters>>

ClearPending(p) ==
    /\ At(p, "clear_pending")
    /\ pending' = <<>>
    /\ Goto(p, [proc[p] EXCEPT !.pc = "advance"])
    /\ UNCHANGED <<current, nextSequence, published, verifierFiles, counters>>

\* (Mutant of AdvanceSequence: the number is written back as it was.)
KeepSequence(p) ==
    /\ At(p, "advance")
    /\ nextSequence' = proc[p].envelope.sequence
    /\ Goto(p, [proc[p] EXCEPT !.pc = "publish"])
    /\ UNCHANGED <<current, pending, published, verifierFiles, counters>>

AdvanceSequence(p) ==
    /\ At(p, "advance")
    /\ nextSequence' = proc[p].envelope.sequence + 1
    /\ Goto(p, [proc[p] EXCEPT !.pc = "publish"])
    /\ UNCHANGED <<current, pending, published, verifierFiles, counters>>

\* Print the canonical payload: the only copy of it there is.
Publish(p) ==
    /\ At(p, "publish")
    /\ published' = Append(published, proc[p].envelope)
    /\ Goto(p, Idle)
    /\ UNCHANGED <<files, verifierFiles, counters>>

-----------------------------------------------------------------------------
\* verifier.py accept-envelope.

\* verify_envelope: the payload is canonical and re-executes from the
\* envelope's own prev_state.
EnvelopeVerifies(e) ==
    e.sequence > 0 /\ VerifyBatch(e.prev, e.actions, e.new, None)

\* (Mutants of Acceptable: a gap is accepted; the link is not checked.)
AcceptableAhead(e) ==
    /\ EnvelopeVerifies(e)
    /\ e.sequence > Len(log)
    /\ log # <<>> => verified = e.prev

AcceptableUnlinked(e) ==
    /\ EnvelopeVerifies(e)
    /\ e.sequence = Len(log) + 1

\* The checks of accept_envelope against the log and the verified state.  With
\* an empty log the previous state is not checked.
Acceptable(e) ==
    /\ EnvelopeVerifies(e)
    /\ e.sequence = Len(log) + 1
    /\ log # <<>> => verified = e.prev

\* Any printed envelope may be presented, in any order and more than once.
StartAccept(p, e) ==
    /\ At(p, "idle")
    /\ Acceptable(e)
    /\ Goto(p, [pc |-> "save_verified", envelope |-> e, log |-> log])
    /\ UNCHANGED <<files, published, verifierFiles, counters>>

SaveVerified(p) ==
    /\ At(p, "save_verified")
    /\ verified' = proc[p].envelope.new
    /\ Goto(p, [proc[p] EXCEPT !.pc = "save_log"])
    /\ UNCHANGED <<files, published, log, counters>>

SaveLog(p) ==
    /\ At(p, "save_log")
    /\ log' = Append(proc[p].log, proc[p].envelope)
    /\ Goto(p, Idle)
    /\ UNCHANGED <<files, published, verified, counters>>

\* The command is killed; what it wrote stays.
Crash(p) ==
    /\ ~At(p, "idle")
    /\ crashes < MaxCrashes
    /\ Goto(p, Idle)
    /\ crashes' = crashes + 1
    /\ UNCHANGED <<files, published, verifierFiles, submissions, batches>>

Next ==
    \E p \in Procs :
        \/ \E r \in Requests : StartSubmit(p, r)
        \/ ComputeNonce(p)
        \/ LoadQueue(p)
        \/ SaveQueue(p)
        \/ StartBatch(p)
        \/ BatchQueue(p)
        \/ BatchRun(p)
        \/ SaveState(p)
        \/ ClearPending(p)
        \/ AdvanceSequence(p)
        \/ Publish(p)
        \/ \E e \in Range(published) : StartAccept(p, e)
        \/ SaveVerified(p)
        \/ SaveLog(p)
        \/ Crash(p)

Spec == Init /\ [][Next]_vars

-----------------------------------------------------------------------------
\* Properties.

Envelope == [sequence : Nat, prev : LedgerState, new : LedgerState,
             actions : Seq(Action)]

\* The files hold what the code puts there.
TypeOK ==
    /\ current \in LedgerState
    /\ pending \in Seq(Action)
    /\ nextSequence \in Nat \ {0}
    /\ published \in Seq(Envelope)
    /\ verified \in LedgerState \cup {None}
    /\ log \in Seq(Envelope)

\* No action is ever applied twice: a batch applies only actions numbered on
\* from the state it starts in, payloads are printed under increasing sequence
\* numbers and increasing ledger nonces, and no queue entry shares its nonce
\* with another one -- also when a batch command dies between its three writes
\* and the next one finds the old queue beside the new state.
AppliedOnce ==
    /\ \A p \in Procs :
          At(p, "save_state") =>
              LET e == proc[p].envelope
              IN  \A i \in DOMAIN e.actions : e.actions[i].nonce = e.prev.nonce + i
    /\ \A i, j \in DOMAIN published : i < j =>
          /\ published[i].sequence < published[j].sequence
          /\ published[i].new.nonce <= published[j].prev.nonce
    /\ \A i, j \in DOMAIN pending : i < j => pending[i].nonce < pending[j].nonce

\* A batch that ran is a chain link: printed payloads are numbered without a
\* gap and each starts from the state the one before ended in, as long as no
\* command was killed.
PublishedChain ==
    crashes = 0 =>
        \A i \in DOMAIN published :
            /\ published[i].sequence = i
            /\ published[i].prev =
                  (IF i = 1 THEN Genesis({}) ELSE published[i - 1].new)

\* A rejected action takes every later one of its batch with it: nonces are
\* given out in queue order, so what a batch applies is a prefix of the queue.
AppliesPrefix ==
    \A p \in Procs :
        At(p, "save_state") =>
            IsPrefix(proc[p].envelope.actions, proc[p].queue)

\* The verified log is a linked run of printed payloads, and the verified state
\* is the last logged one or, while accept-envelope is between its two writes
\* (or died there), the state one further valid payload leads to.
VerifierLinked ==
    /\ \A i \in DOMAIN log : log[i] \in Range(published) /\ log[i].sequence = i
    /\ \A i \in 1..Len(log) - 1 : log[i].new = log[i + 1].prev
    /\ \/ log = <<>>
       \/ verified = log[Len(log)].new
       \/ \E e \in Range(published) :
             /\ e.sequence = Len(log) + 1
             /\ e.prev = log[Len(log)].new
             /\ e.new = verified

\* Commands run one at a time and to their end bring the verifier to exactly
\* the operator's history, in order, whatever order envelopes are offered in.
VerifiedIsPrefix == crashes = 0 => IsPrefix(log, published)

=============================================================================
