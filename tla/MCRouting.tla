------------------------------ MODULE MCRouting ------------------------------
(* Two nodes that list each other, with less, as much and more free memory *)
(* than the model needs, or one of them unknown.                           *)
EXTENDS Routing, TLC

CONSTANTS laptop, mac

MCPeers == (laptop :> <<mac>>) @@ (mac :> <<laptop>>)

Machine(known, room, explicit, stated, window) ==
  [known |-> known, room |-> room, explicit |-> explicit, stated |-> stated, window |-> window]

\* The laptop has a budget of its own making, the mac a stated one.
MCFleets == {
  (laptop :> Machine(known, room[laptop], FALSE, 1, 2)) @@ (mac :> Machine(TRUE, room[mac], TRUE, 1, 2)) :
  known \in BOOLEAN, room \in [Nodes -> 1..3]}
=============================================================================
