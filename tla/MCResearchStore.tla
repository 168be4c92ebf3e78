-------------------------- MODULE MCResearchStore --------------------------
(* Instances of ResearchStore for TLC: the API, two workers, and one inode  *)
(* more than they can have in use.  Workers and inodes are interchangeable *)
(* and every property checked under the symmetry is a safety property.     *)
EXTENDS ResearchStore, TLC

CONSTANTS p1, p2, p3, i1, i2, i3

Interchangeable == Permutations(Inodes) \cup Permutations(Procs \ {Api})

=============================================================================
