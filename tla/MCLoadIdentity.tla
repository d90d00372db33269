---------------------------- MODULE MCLoadIdentity ----------------------------
(* Small instances of LoadIdentity. *)
EXTENDS LoadIdentity, TLC

CONSTANTS latest, v9, c1, m1, m2

\* One content under two tags.
PublishedOne == [tag \in Tags |-> c1]

Symmetry == Permutations(Tasks) \cup Permutations(Mutexes)
=============================================================================
