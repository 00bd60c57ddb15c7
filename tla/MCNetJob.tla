------------------------------ MODULE MCNetJob ------------------------------
(* NetJob on three requests, two at a time, one abort and one manual retry.       *)
EXTENDS NetJob
=============================================================================
