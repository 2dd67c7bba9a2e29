--------------------------- MODULE VerifiedChain ---------------------------
(***************************************************************************)
(* What a verifier of one semantic layer promises: it accepts payloads one *)
(* at a time, in sequence order without a gap, each only if re-executing   *)
(* its actions from the state the previous one led to gives the state it   *)
(* claims, and it never takes an acceptance back.                          *)
(***************************************************************************)
EXTENDS Integers, Sequences

CONSTANTS
    Payloads        \* transition payloads: sequence number, previous state,
                    \* new state, and whether the actions really lead there

VARIABLE chain      \* the accepted payloads, oldest first

Init == chain = <<>>

Accept(p) ==
    /\ p.ok
    /\ p.sequence = Len(chain) + 1
    /\ chain # <<>> => p.prev = chain[Len(chain)].new
    /\ chain' = Append(chain, p)

Next == \E p \in Payloads : Accept(p)

Spec == Init /\ [][Next]_chain

=============================================================================
