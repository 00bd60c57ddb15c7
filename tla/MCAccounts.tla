------------------------------ MODULE MCAccounts ------------------------------
(* Two online accounts, of which any number is listed at the start. *)
EXTENDS Accounts
=============================================================================
