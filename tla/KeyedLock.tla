------------------------------ MODULE KeyedLock ------------------------------
(***************************************************************************)
(* A registry of keyed locks (MODEL_LOCKS, LOAD_LOCKS in cmd/serve.rs).    *)
(*                                                                         *)
(* keyed_lock finds or makes the mutex of a key and hands out a clone of   *)
(* its Arc; release_keyed_lock, called once the caller's clone is gone,    *)
(* removes the entry when the registry holds the only clone left.  A       *)
(* waiter whose future is dropped gives up its clone and calls nothing.    *)
(* The steps here are those another thread can come between: the registry  *)
(* has a mutex of its own, which each of Clone and Release holds.          *)
(***************************************************************************)
EXTENDS FiniteSets

CONSTANTS Tasks, Keys, Mutexes, None

\* What the theorems ask of the constants of an instance.
KeyedLockAssumption == None \notin Tasks \cup Keys \cup Mutexes

VARIABLES
  registry,  \* the mutex registered under each key, or None
  holder,    \* the task that has each mutex locked, or None
  ticket     \* what each task holds: a stage, a key, a clone of a mutex

lockVars == <<registry, holder, ticket>>

\* out, queued for the mutex, inside, and left it (guard and clone are gone)
\* with release_keyed_lock still to call.
Stages == {"out", "waiting", "holding", "dropped"}

Tickets == [stage : Stages, key : Keys \cup {None}, mutex : Mutexes \cup {None}]

NoTicket == [stage |-> "out", key |-> None, mutex |-> None]

LocksTypeOK ==
  /\ registry \in [Keys -> Mutexes \cup {None}]
  /\ holder \in [Mutexes -> Tasks \cup {None}]
  /\ ticket \in [Tasks -> Tickets]

LocksInit ==
  /\ registry = [k \in Keys |-> None]
  /\ holder = [m \in Mutexes |-> None]
  /\ ticket = [t \in Tasks |-> NoTicket]

\* Arc::strong_count without the registry's own.
Clones(m) == {t \in Tasks : ticket[t].mutex = m}

\* A mutex that no allocation in use is.
Unused(m) == Clones(m) = {} /\ \A k \in Keys : registry[k] # m

\* The mutex of k: the registered one, or a new one.
MutexOf(k, m) == IF registry[k] # None THEN m = registry[k] ELSE Unused(m)

\* keyed_lock: a clone to wait for.
Clone(t, k) ==
  /\ ticket[t].stage = "out"
  /\ \E m \in Mutexes :
       /\ MutexOf(k, m)
       /\ registry' = [registry EXCEPT ![k] = m]
       /\ ticket' = [ticket EXCEPT ![t] =
                       [stage |-> "waiting", key |-> k, mutex |-> m]]
  /\ UNCHANGED holder

Acquire(t) ==
  /\ ticket[t].stage = "waiting"
  /\ holder[ticket[t].mutex] = None
  /\ holder' = [holder EXCEPT ![ticket[t].mutex] = t]
  /\ ticket' = [ticket EXCEPT ![t].stage = "holding"]
  /\ UNCHANGED registry

\* The future of lock_owned is dropped: so is its clone, and that is all.
GiveUp(t) ==
  /\ ticket[t].stage = "waiting"
  /\ ticket' = [ticket EXCEPT ![t] = NoTicket]
  /\ UNCHANGED <<registry, holder>>

\* The guard is dropped, and the clone with it.
Unlock(t) ==
  /\ ticket[t].stage = "holding"
  /\ holder' = [holder EXCEPT ![ticket[t].mutex] = None]
  /\ ticket' = [ticket EXCEPT ![t].stage = "dropped", ![t].mutex = None]
  /\ UNCHANGED registry

MutantRemovable(k) == registry[k] # None => Cardinality(Clones(registry[k])) \in {0, 1}

\* The entry of k goes when only the registry holds its mutex.
Removable(k) == registry[k] # None => Clones(registry[k]) = {}

\* release_keyed_lock
Release(t) ==
  /\ ticket[t].stage = "dropped"
  /\ registry' = [registry EXCEPT ![ticket[t].key] =
                    IF Removable(ticket[t].key) THEN None ELSE @]
  /\ ticket' = [ticket EXCEPT ![t] = NoTicket]
  /\ UNCHANGED holder

Leaving(t) == Unlock(t) \/ Release(t)

LocksNext == \E t \in Tasks :
  \/ \E k \in Keys : Clone(t, k)
  \/ Acquire(t) \/ GiveUp(t) \/ Leaving(t)

LocksSpec == LocksInit /\ [][LocksNext]_lockVars

(***************************************************************************)
(* Properties                                                              *)
(***************************************************************************)

\* Whoever waits for a key, or is inside, has the mutex a newcomer would be
\* given: no entry is removed under a task that goes on using its mutex
\* (serve.rs:746, the count in release_keyed_lock).
OneMutexPerKey == \A t \in Tasks :
  ticket[t].mutex # None => registry[ticket[t].key] = ticket[t].mutex

\* Two tasks are never inside under one key.
HoldersExclude == \A t, u \in Tasks :
  /\ ticket[t].stage = "holding"
  /\ ticket[u].stage = "holding"
  /\ ticket[t].key = ticket[u].key
  => t = u

Inside(k) == {t \in Tasks : ticket[t].stage = "holding" /\ ticket[t].key = k}

MemberOrNone(S) == IF S = {} THEN None ELSE CHOOSE t \in S : TRUE

\* Who is inside under each key.
Owner == [k \in Keys |-> MemberOrNone(Inside(k))]

Abstract == INSTANCE LockMap WITH owner <- Owner

\* The registry is one lock for each key: whatever mutexes come and go in
\* it, a task enters under a key only while nobody else is inside
\* (serve.rs:724, LOAD_LOCKS; serve.rs:705, MODEL_LOCKS).
ImplementsLockMap == Abstract!Spec
=============================================================================
