----------------------------- MODULE MCMetaCache -----------------------------
(* One cached path and two overlapping requests for it.                       *)
EXTENDS MetaCache, TLC
Symmetry == Permutations(Ref) \cup Permutations(Request) \cup Permutations(Version)
\* Objects that nobody holds are all alike.
Reachable ==
  <<[i \in Ref |-> IF Unused(i) THEN FreshlyMade ELSE heap[i]], listed, timer,
    disk, file, remote, req, now, tainted>>
=============================================================================
