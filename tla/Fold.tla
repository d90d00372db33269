-------------------------------- MODULE Fold --------------------------------
(***************************************************************************)
(* A sequence taken element by element, from left to right: how lines go   *)
(* through a converter, and events through a client.  A recursive function *)
(* rather than an operator, so that it can be reasoned about.              *)
(***************************************************************************)
EXTENDS Naturals, Sequences

CONSTANT Op(_, _)   \* what an element does to a state

Through(s, seq) ==
  LET after[n \in 0 .. Len(seq)] == IF n = 0 THEN s ELSE Op(after[n - 1], seq[n])
  IN after[Len(seq)]
=============================================================================
