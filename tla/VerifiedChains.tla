--------------------------- MODULE VerifiedChains ---------------------------
(***************************************************************************)
(* The verifier of VerifiedChain, for several semantic layers at once: a   *)
(* payload extends the chain of its own layer and no other.  Nothing ties  *)
(* the payloads that travelled in one bundle together.                     *)
(***************************************************************************)
EXTENDS Integers, Sequences

CONSTANTS
    Layers,
    Payloads        \* with the layer each belongs to

VARIABLE chains     \* the accepted payloads of each layer, oldest first

Init == chains = [l \in Layers |-> <<>>]

Accept(p) ==
    LET chain == chains[p.layer]
    IN  /\ p.ok
        /\ p.sequence = Len(chain) + 1
        /\ chain # <<>> => p.prev = chain[Len(chain)].new
        /\ chains' = [chains EXCEPT ![p.layer] = Append(@, p)]

Next == \E p \in Payloads : Accept(p)

Spec == Init /\ [][Next]_chains

=============================================================================
