------------------------------ MODULE MCBundle ------------------------------
(***************************************************************************)
(* Small instances of BundleIndex: two layers, x and y, and bundles over   *)
(* both of them, among them one with an invalid child, one with a child    *)
(* ahead of its layer, one whose child raises, and one not decodable.      *)
(***************************************************************************)
EXTENDS BundleIndex

CONSTANTS x, y, x0, x1, y0, y1, y2, poller, request

C(l, n, prev, new, ok) ==
    [layer |-> l, sequence |-> n, prev |-> prev, new |-> new, ok |-> ok]

B(children) == [decodable |-> TRUE, children |-> children]

MCStates == {x0, x1, y0, y1, y2}

MCGenesis == [l \in {x, y} |-> IF l = x THEN x0 ELSE y0]

X1 == C(x, 1, x0, x1, TRUE)
Y1 == C(y, 1, y0, y1, TRUE)
Y2 == C(y, 2, y1, y2, TRUE)
Y1Wrong == C(y, 1, y0, y2, FALSE)
Y1Raising == C(y, 1, y0, y1, FALSE)

MCChildren == {X1, Y1, Y2, Y1Wrong, Y1Raising}

MCRaising == {Y1Raising}

MCBundles ==
    {B(<<X1, Y1>>), B(<<X1, Y1Wrong>>), B(<<X1, Y2>>), B(<<Y1Raising>>),
     [decodable |-> FALSE, children |-> <<>>]}

MCPlain == {Y1}

OwnIds == [l \in {x, y} |-> l]

=============================================================================
