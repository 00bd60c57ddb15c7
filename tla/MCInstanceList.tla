----------------------------- MODULE MCInstanceList -----------------------------
(* A primary and a second folder, or one alone; the launcher finds nothing,  *)
(* three instances, or one in each folder.                                   *)
EXTENDS InstanceList

CONSTANTS r1, r2, i1, i2, i3

MCRootLists == {<<r1>>, <<r1, r2>>}
MCInitDisks == {{}, {<<r1, i1>>, <<r1, i2>>, <<r1, i3>>}, {<<r1, i1>>, <<r2, i2>>}}
\* No definition tells one group from another.
Symmetry == Permutations(Group)
=============================================================================
