---------------------------- MODULE MCNetRequest ----------------------------
(* NetRequest with bodies of up to two chunks, two starts and two aborts.   *)
EXTENDS NetRequest
=============================================================================
