-------------------------------- MODULE Slots --------------------------------
(***************************************************************************)
(* What LLMMAN_MAX_LOADED_MODELS promises, without the machinery: a slot   *)
(* is reserved before a model is loaded into it, and a model that has to   *)
(* go gives its slot to the load it makes room for in one step, so nobody  *)
(* else can take it in between.                                            *)
(***************************************************************************)
EXTENDS Integers, FiniteSets

CONSTANTS
  Models,   \* keys a model can be loaded under
  Cap       \* the most slots taken, 0 = unbounded

VARIABLES
  loaded,   \* models that take a slot
  reserved  \* slots held for loads under way

slots == <<loaded, reserved>>

Taken == Cardinality(loaded) + reserved

Init == loaded = {} /\ reserved = 0

Reserve ==
  /\ Cap = 0 \/ Taken < Cap
  /\ reserved' = reserved + 1
  /\ UNCHANGED loaded

Swap(m) ==
  /\ m \in loaded
  /\ loaded' = loaded \ {m}
  /\ reserved' = reserved + 1

Fill(m) ==
  /\ reserved > 0
  /\ loaded' = loaded \cup {m}
  /\ reserved' = reserved - 1

Release ==
  /\ reserved > 0
  /\ reserved' = reserved - 1
  /\ UNCHANGED loaded

Vacate(S) ==
  /\ loaded' = loaded \ S
  /\ UNCHANGED reserved

Next ==
  \/ Reserve \/ Release
  \/ \E m \in Models : Swap(m) \/ Fill(m)
  \/ \E S \in SUBSET Models : Vacate(S)

Spec == Init /\ [][Next]_slots

TypeOK == loaded \subseteq Models /\ reserved \in Nat

\* The cap holds for models and reservations together.
Bounded == Cap # 0 => Taken <= Cap
=============================================================================
