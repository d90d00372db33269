----------------------------- MODULE MCScheduler -----------------------------
(* Small instances of Scheduler. *)
EXTENDS Scheduler, TLC

CONSTANTS tag, dig, other, third

\* Three models, of which one also has a digest entry, under one load lock.
Names  == {tag, dig, other, third}
Models == {tag, other, third}
LockOfName == [k \in Names |-> IF k = dig THEN tag ELSE k]

\* As many models, each under one name.
LockOfModel == [k \in Refs |-> k]

\* What is asked: the default window, or also another one of the model tag.
Plain == {[ref |-> k, ctx |-> 0] : k \in Refs}
Sized == Plain \cup {[ref |-> tag, ctx |-> 3]}

\* Clients are alike; so are the models other and third where both are there.
Clients == Permutations(Requests)
ClientsAndModels == {p @@ q : p \in Clients, q \in Permutations({other, third})}
=============================================================================
