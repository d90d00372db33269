------------------------------- MODULE LockMap -------------------------------
(***************************************************************************)
(* What a registry of keyed locks promises: one lock for each key, held by *)
(* at most one task, whatever comes and goes in the registry.              *)
(***************************************************************************)
CONSTANTS Tasks, Keys, None

VARIABLE owner   \* the task that holds the lock of each key

Init == owner = [k \in Keys |-> None]

Lock(t, k) ==
  /\ owner[k] = None
  /\ owner' = [owner EXCEPT ![k] = t]

Unlock(t, k) ==
  /\ owner[k] = t
  /\ owner' = [owner EXCEPT ![k] = None]

Next == \E t \in Tasks, k \in Keys : Lock(t, k) \/ Unlock(t, k)

Spec == Init /\ [][Next]_owner
=============================================================================
