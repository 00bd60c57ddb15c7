-------------------------- MODULE MCConcurrentTask --------------------------
(* ConcurrentTask on three tasks, two at a time, two starts and one abort. *)
EXTENDS ConcurrentTask
=============================================================================
