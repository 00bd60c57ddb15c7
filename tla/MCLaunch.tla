------------------------------- MODULE MCLaunch -------------------------------
(* One instance, launched up to three times, perhaps twice at a time. *)
EXTENDS Launch
=============================================================================
