------------------------------ MODULE MCIndex ------------------------------
(***************************************************************************)
(* Small instances of VerifierIndex: an honest chain of payloads, and what *)
(* may be posted beside it: a payload that does not re-execute, one that   *)
(* does but starts elsewhere than in genesis, and one on which F raises.   *)
(***************************************************************************)
EXTENDS VerifierIndex

CONSTANTS s0, s1, s2, t1, poller, request

P(n, prev, new, ok) == [sequence |-> n, prev |-> prev, new |-> new, ok |-> ok]

MCStates == {s0, s1, s2, t1}

HonestChain == {P(1, s0, s1, TRUE), P(2, s1, s2, TRUE)}

Elsewhere == P(1, t1, s1, TRUE)

RaisingPayloads == {P(2, s1, t1, FALSE)}

AllPayloads == HonestChain \cup RaisingPayloads \cup {Elsewhere, P(1, s0, t1, FALSE)}

MCEnvelopes == {Elsewhere, P(2, s1, s2, TRUE)}

LivePayloads == HonestChain \cup RaisingPayloads \cup {P(1, s0, t1, FALSE)}

NoEnvelopes == {}

=============================================================================
