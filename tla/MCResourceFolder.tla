---------------------------- MODULE MCResourceFolder ----------------------------
(* Two files; the second thing that is written to the folder is no pack. *)
EXTENDS ResourceFolder
=============================================================================
