------------------------------ MODULE MCHosted ------------------------------
(***************************************************************************)
(* Small instances of HostedOperator: the issuer mints the default asset   *)
(* to alice, alice deposits in a pool through a marketplace request, and a *)
(* second operator may post a burn.                                        *)
(***************************************************************************)
EXTENDS HostedOperator, TLC

CONSTANTS issuer, alice, pay, gold, pool, bundle, leg

Plain(type, from, to) ==
    [type |-> type, sender |-> issuer, asset |-> pay, amount |-> 1,
     from |-> from, to |-> to, pool |-> pool, bundle |-> None, leg |-> None,
     amm |-> None]

MCRequests == {Plain("mint", issuer, alice)}

Deposit ==
    [type |-> "pool_deposit", sender |-> alice, asset |-> pay, amount |-> 1,
     from |-> alice, to |-> alice, pool |-> pool, bundle |-> bundle, leg |-> leg,
     amm |-> [bundle |-> bundle,
              movements |-> {[kind |-> "pool_deposit", leg |-> leg, pool |-> pool,
                              asset |-> pay, address |-> alice, amount |-> 1]}]]

MCExecutionRequests == {Deposit}

MCForeignRequests == {Plain("mint", issuer, issuer)}

\* Threads are interchangeable.
MCSymmetry == Permutations(Threads)

=============================================================================
