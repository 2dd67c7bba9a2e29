------------------------------- MODULE MCCli -------------------------------
(***************************************************************************)
(* A small instance of CliPipeline: the issuer mints one token to alice    *)
(* and alice pays it back, so a transfer is valid or not depending on what *)
(* ran before it.                                                          *)
(***************************************************************************)
EXTENDS CliPipeline

CONSTANTS issuer, alice, pay, pool, leg, bundle

Payment(type, from, to) ==
    [type |-> type, sender |-> from, asset |-> pay, amount |-> 1,
     from |-> from, to |-> to, pool |-> pool, bundle |-> None, leg |-> None,
     amm |-> None]

MCRequests == {Payment("mint", issuer, alice), Payment("transfer", alice, issuer)}

=============================================================================
