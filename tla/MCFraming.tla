----------------------------- MODULE MCFraming -----------------------------
(***************************************************************************)
(* Small widths for Framing: bytes of 3 bits, words of 2 bytes, 5 bits of  *)
(* a word carry data, so that 5 bytes are 3 chunks and every smaller       *)
(* number of bytes leaves padding.                                         *)
(***************************************************************************)
EXTENDS Framing, TLC

UpTo(n, S) == UNION {[1..k -> S] : k \in 0..n}

\* The last action's text does not fit.
MCTextOf ==
    [a |-> <<1>>, b |-> <<0, 7>>, c |-> <<2, 5, 4>>, d |-> [i \in 1..8 |-> 1]]

\* Others write the action a with a space, or an object that is no action.
MCParsed ==
    [text \in {MCTextOf[action] : action \in DOMAIN MCTextOf} |->
        CHOOSE action \in DOMAIN MCTextOf : MCTextOf[action] = text]
    @@ (<<0, 1>> :> "a") @@ (<<2, 2>> :> "other")

MCAction == DOMAIN MCTextOf

MCTexts == DOMAIN MCParsed

\* Sequence numbers and texts that do not fit are among them.
MCTransitions ==
    [layer : {1}, sequence : {0, 1, 7, 8}, prev : {0, 6}, new : {3},
     actions : UpTo(3, {"a", "b", "c"}) \cup {<<"d">>, [i \in 1..8 |-> "a"]}]

\* Two batches of one byte's length, a child that is too short and one too long.
MCChildren ==
    {<<1, 1, 0, 3, 0>>, <<2, 7, 6, 1, 1, 1, 1>>, <<1>>, [i \in 1..8 |-> 1]}

MCBundles == [id : {0, 5}, children : UpTo(3, MCChildren)]

MCForeignPayloads ==
    UpTo(2, {0, 1, 3}) \cup
    {<<1, s, 0, 3>> \o tail : s \in {0, 2}, tail \in UpTo(6, 0..2)} \cup
    {<<3, 5>> \o tail : tail \in UpTo(7, 0..2)}

\* Of either framing: the first word of the older one is a length up to 8.
MCForeignWords ==
    {<<>>} \cup [1..1 -> 0..63] \cup [1..2 -> 0..63] \cup
    {<<first>> \o rest : first \in {0, 1, 2, 3, 4, 5, 34, 35, 63}, rest \in [1..2 -> 0..63]}

=============================================================================
