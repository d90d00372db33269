--------------------------- MODULE KeyedLockProofs ---------------------------
(***************************************************************************)
(* A registry of keyed locks is one lock for each key, for any tasks, keys *)
(* and mutexes.                                                            *)
(***************************************************************************)
EXTENDS KeyedLock, TLAPS

\* Two keys never share a mutex.
KeysApart == \A k, l \in Keys : registry[k] # None /\ registry[k] = registry[l] => k = l

\* Who has a key, and who has a clone.
TicketsFit == \A t \in Tasks :
  /\ ticket[t].stage # "out" => ticket[t].key \in Keys
  /\ ticket[t].stage \in {"waiting", "holding"} <=> ticket[t].mutex # None

\* A mutex is locked by exactly the task that is inside with it.
HoldersFit ==
  /\ \A t \in Tasks : ticket[t].stage = "holding" => holder[ticket[t].mutex] = t
  /\ \A m \in Mutexes : holder[m] # None =>
       ticket[holder[m]].stage = "holding" /\ ticket[holder[m]].mutex = m

\* OneMutexPerKey is not inductive alone: that a new mutex is nobody's
\* needs KeysApart and TicketsFit, and exclusion needs HoldersFit.
LocksInv == LocksTypeOK /\ OneMutexPerKey /\ KeysApart /\ TicketsFit /\ HoldersFit

LEMMA LocksInitInv ==
  ASSUME KeyedLockAssumption, LocksInit
  PROVE  LocksInv
  BY DEF KeyedLockAssumption, LocksInit, LocksInv, LocksTypeOK, OneMutexPerKey, KeysApart,
     TicketsFit, HoldersFit, Tickets, Stages, NoTicket

LEMMA CloneStep ==
  ASSUME KeyedLockAssumption, LocksInv, NEW t \in Tasks, NEW k \in Keys, Clone(t, k)
  PROVE  LocksInv'
  <1> PICK m \in Mutexes :
        /\ MutexOf(k, m)
        /\ registry' = [registry EXCEPT ![k] = m]
        /\ ticket' = [ticket EXCEPT ![t] = [stage |-> "waiting", key |-> k, mutex |-> m]]
        /\ ticket[t].stage = "out"
        /\ holder' = holder
    BY DEF Clone
  <1> USE DEF LocksInv, KeyedLockAssumption
  <1>1. LocksTypeOK'
    BY DEF LocksTypeOK, Tickets, Stages
  <1>2. OneMutexPerKey' /\ KeysApart'
    <2>1. CASE registry[k] # None
      <3>1. registry' = registry
        BY <2>1 DEF MutexOf, LocksTypeOK
      <3>. QED BY <2>1, <3>1 DEF MutexOf, LocksTypeOK, OneMutexPerKey, KeysApart
    <2>2. CASE registry[k] = None
      <3>1. /\ \A u \in Tasks : ticket[u].mutex # m
            /\ \A l \in Keys : registry[l] # m
        BY <2>2 DEF MutexOf, Unused, Clones
      <3>2. \A u \in Tasks : ticket[u].mutex # None => ticket[u].key # k
        BY <2>2 DEF OneMutexPerKey
      <3>3. \A u \in Tasks : u # t => ticket'[u] = ticket[u]
        BY DEF LocksTypeOK
      <3>4. \A l \in Keys : l # k => registry'[l] = registry[l]
        BY DEF LocksTypeOK
      <3>5. registry'[k] = m /\ ticket'[t].mutex = m /\ ticket'[t].key = k
        BY DEF LocksTypeOK
      <3>6. \A u \in Tasks : ticket[u].mutex # None => ticket[u].key \in Keys
        BY DEF TicketsFit, LocksTypeOK
      <3>7. OneMutexPerKey'
        BY <3>2, <3>3, <3>4, <3>5, <3>6 DEF OneMutexPerKey
      <3>8. KeysApart'
        BY <3>1, <3>4, <3>5 DEF KeysApart
      <3>. QED BY <3>7, <3>8
    <2>. QED BY <2>1, <2>2
  <1>3. TicketsFit'
    BY DEF LocksTypeOK, TicketsFit
  <1>4. HoldersFit'
    BY DEF LocksTypeOK, HoldersFit
  <1>. QED BY <1>1, <1>2, <1>3, <1>4

LEMMA AcquireStep ==
  ASSUME KeyedLockAssumption, LocksInv, NEW t \in Tasks, Acquire(t)
  PROVE  LocksInv'
  <1> USE DEF LocksInv, KeyedLockAssumption, Acquire
  <1>1. ticket[t].mutex \in Mutexes
    BY DEF LocksTypeOK, TicketsFit, Tickets
  <1>2. LocksTypeOK'
    BY <1>1 DEF LocksTypeOK, Tickets, Stages
  <1>3. OneMutexPerKey' /\ KeysApart'
    BY DEF OneMutexPerKey, KeysApart, LocksTypeOK
  <1>4. TicketsFit'
    BY DEF LocksTypeOK, TicketsFit
  <1>5. HoldersFit'
    BY <1>1 DEF LocksTypeOK, HoldersFit
  <1>. QED BY <1>2, <1>3, <1>4, <1>5

LEMMA GiveUpStep ==
  ASSUME KeyedLockAssumption, LocksInv, NEW t \in Tasks, GiveUp(t)
  PROVE  LocksInv'
  <1> USE DEF LocksInv, KeyedLockAssumption, GiveUp
  <1>1. LocksTypeOK'
    BY DEF LocksTypeOK, Tickets, Stages, NoTicket
  <1>2. OneMutexPerKey' /\ KeysApart'
    BY DEF OneMutexPerKey, KeysApart, LocksTypeOK, NoTicket
  <1>3. TicketsFit'
    BY DEF LocksTypeOK, TicketsFit, NoTicket
  <1>4. HoldersFit'
    BY DEF LocksTypeOK, HoldersFit, NoTicket
  <1>. QED BY <1>1, <1>2, <1>3, <1>4

LEMMA UnlockStep ==
  ASSUME KeyedLockAssumption, LocksInv, NEW t \in Tasks, Unlock(t)
  PROVE  LocksInv'
  <1> USE DEF LocksInv, KeyedLockAssumption, Unlock
  <1>1. LocksTypeOK'
    BY DEF LocksTypeOK, Tickets, Stages
  <1>2. OneMutexPerKey' /\ KeysApart'
    BY DEF OneMutexPerKey, KeysApart, LocksTypeOK
  <1>3. TicketsFit'
    BY DEF LocksTypeOK, TicketsFit
  <1>4. HoldersFit'
    BY DEF LocksTypeOK, HoldersFit
  <1>. QED BY <1>1, <1>2, <1>3, <1>4

LEMMA ReleaseStep ==
  ASSUME KeyedLockAssumption, LocksInv, NEW t \in Tasks, Release(t)
  PROVE  LocksInv'
  <1> USE DEF LocksInv, KeyedLockAssumption, Release
  <1>1. PICK k \in Keys : k = ticket[t].key
    BY DEF TicketsFit
  <1>2. LocksTypeOK'
    BY <1>1 DEF LocksTypeOK, Tickets, Stages, NoTicket
  <1>3. OneMutexPerKey'
    <2>1. \A u \in Tasks : ticket[u].mutex # None =>
            ticket[u].key \in Keys /\ registry'[ticket[u].key] = registry[ticket[u].key]
      <3> SUFFICES ASSUME NEW u \in Tasks, ticket[u].mutex # None
                   PROVE  /\ ticket[u].key \in Keys
                          /\ registry'[ticket[u].key] = registry[ticket[u].key]
        OBVIOUS
      <3>1. ticket[u].key \in Keys /\ registry[ticket[u].key] = ticket[u].mutex
        BY DEF TicketsFit, OneMutexPerKey
      <3>2. CASE ticket[u].key = k
        BY <1>1, <3>1, <3>2 DEF LocksTypeOK, Removable, Clones
      <3>3. CASE ticket[u].key # k
        BY <1>1, <3>1, <3>3 DEF LocksTypeOK
      <3>. QED BY <3>2, <3>3
    <2>. QED BY <2>1 DEF OneMutexPerKey, LocksTypeOK, NoTicket
  <1>4. KeysApart'
    BY DEF KeysApart, LocksTypeOK
  <1>5. TicketsFit'
    BY DEF LocksTypeOK, TicketsFit, NoTicket
  <1>6. HoldersFit'
    BY DEF LocksTypeOK, HoldersFit, NoTicket
  <1>. QED BY <1>2, <1>3, <1>4, <1>5, <1>6

LEMMA LocksStep ==
  ASSUME KeyedLockAssumption, LocksInv, [LocksNext]_lockVars
  PROVE  LocksInv'
  <1>1. CASE UNCHANGED lockVars
    BY <1>1 DEF lockVars, LocksInv, LocksTypeOK, OneMutexPerKey, KeysApart, TicketsFit, HoldersFit
  <1>2. ASSUME NEW t \in Tasks, NEW k \in Keys, Clone(t, k) PROVE LocksInv'
    BY <1>2, CloneStep
  <1>3. ASSUME NEW t \in Tasks, Acquire(t) PROVE LocksInv'
    BY <1>3, AcquireStep
  <1>4. ASSUME NEW t \in Tasks, GiveUp(t) PROVE LocksInv'
    BY <1>4, GiveUpStep
  <1>5. ASSUME NEW t \in Tasks, Leaving(t) PROVE LocksInv'
    BY <1>5, UnlockStep, ReleaseStep DEF Leaving
  <1>. QED BY <1>1, <1>2, <1>3, <1>4, <1>5 DEF LocksNext

LEMMA LocksAlways == ASSUME KeyedLockAssumption PROVE LocksSpec => []LocksInv
  <1>1. LocksInit => LocksInv
    BY LocksInitInv
  <1>2. LocksInv /\ [LocksNext]_lockVars => LocksInv'
    BY LocksStep
  <1>. QED BY <1>1, <1>2, PTL DEF LocksSpec

\* An entry is never removed while somebody waits for its mutex or is inside.
THEOREM RegistryKeepsMutex == ASSUME KeyedLockAssumption PROVE LocksSpec => []OneMutexPerKey
  <1>1. LocksInv => OneMutexPerKey
    BY DEF LocksInv
  <1>. QED BY <1>1, LocksAlways, PTL

LEMMA Exclusion == LocksInv => HoldersExclude
  BY DEF LocksInv, TicketsFit, OneMutexPerKey, HoldersFit, HoldersExclude

\* Nobody is inside together with another under one key.
THEOREM RegistryExcludes == ASSUME KeyedLockAssumption PROVE LocksSpec => []HoldersExclude
  BY Exclusion, LocksAlways, PTL

-----------------------------------------------------------------------------
(* The refinement: Acquire is Lock, Unlock is Unlock, the rest stutters.   *)

AbstractStep == [Abstract!Next]_Owner

LEMMA Members ==
  /\ MemberOrNone({}) = None
  /\ \A t \in Tasks : MemberOrNone({t}) = t
  <1>1. \A t \in Tasks : MemberOrNone({t}) = t
    <2> TAKE t \in Tasks
    <2>1. (CHOOSE u \in {t} : TRUE) \in {t}
      OBVIOUS
    <2>. QED BY <2>1 DEF MemberOrNone
  <1>. QED BY <1>1 DEF MemberOrNone

LEMMA QuietStep ==
  ASSUME \A k \in Keys : Inside(k)' = Inside(k)
  PROVE  AbstractStep
  <1>1. Owner' = Owner
    BY DEF Owner
  <1>. QED BY <1>1 DEF AbstractStep

LEMMA AcquireIsLock ==
  ASSUME KeyedLockAssumption, LocksInv, NEW t \in Tasks, Acquire(t)
  PROVE  AbstractStep
  <1>1. PICK k \in Keys : k = ticket[t].key
    BY DEF LocksInv, TicketsFit, Acquire
  <1>2. ticket[t].stage = "waiting" /\ registry[k] = ticket[t].mutex /\ ticket[t].mutex # None
    BY <1>1 DEF LocksInv, TicketsFit, OneMutexPerKey, Acquire
  <1>3. Inside(k) = {}
    <2> SUFFICES ASSUME NEW u \in Inside(k) PROVE FALSE
      OBVIOUS
    <2>1. u \in Tasks /\ ticket[u].stage = "holding" /\ ticket[u].key = k
      BY DEF Inside
    <2>2. ticket[u].mutex = registry[k]
      BY <2>1 DEF LocksInv, TicketsFit, OneMutexPerKey
    <2>3. holder[registry[k]] = u
      BY <2>1, <2>2 DEF LocksInv, HoldersFit
    <2>. QED BY <2>1, <2>3, <1>2 DEF Acquire, KeyedLockAssumption
  <1>4. Inside(k)' = {t}
    BY <1>1, <1>2, <1>3 DEF Inside, Acquire, LocksInv, LocksTypeOK
  <1>5. \A l \in Keys : l # k => Inside(l)' = Inside(l)
    BY <1>1 DEF Inside, Acquire, LocksInv, LocksTypeOK
  <1>6. Owner[k] = None /\ Owner' = [Owner EXCEPT ![k] = t]
    BY <1>3, <1>4, <1>5, Members DEF Owner
  <1>7. Abstract!Lock(t, k)
    BY <1>6 DEF Abstract!Lock
  <1>. QED BY <1>7 DEF AbstractStep, Abstract!Next

LEMMA UnlockIsUnlock ==
  ASSUME KeyedLockAssumption, LocksInv, NEW t \in Tasks, Unlock(t)
  PROVE  AbstractStep
  <1>1. PICK k \in Keys : k = ticket[t].key
    BY DEF LocksInv, TicketsFit, Unlock
  <1>2. HoldersExclude
    BY Exclusion
  <1>3. Inside(k) = {t}
    BY <1>1, <1>2 DEF Inside, Unlock, HoldersExclude
  <1>4. Inside(k)' = {}
    BY <1>1, <1>3 DEF Inside, Unlock, LocksInv, LocksTypeOK
  <1>5. \A l \in Keys : l # k => Inside(l)' = Inside(l)
    BY <1>1 DEF Inside, Unlock, LocksInv, LocksTypeOK
  <1>6. Owner[k] = t /\ Owner' = [Owner EXCEPT ![k] = None]
    BY <1>3, <1>4, <1>5, Members DEF Owner
  <1>7. Abstract!Unlock(t, k)
    BY <1>6 DEF Abstract!Unlock
  <1>. QED BY <1>7 DEF AbstractStep, Abstract!Next

LEMMA StepImplements ==
  ASSUME KeyedLockAssumption, LocksInv, [LocksNext]_lockVars
  PROVE  AbstractStep
  <1>1. CASE UNCHANGED lockVars
    BY <1>1, QuietStep DEF lockVars, Inside
  <1>2. ASSUME NEW t \in Tasks,
               \/ \E k \in Keys : Clone(t, k)
               \/ GiveUp(t)
               \/ Release(t)
        PROVE  AbstractStep
    <2>1. \A k \in Keys : Inside(k)' = Inside(k)
      BY <1>2 DEF Inside, Clone, GiveUp, Release, LocksInv, LocksTypeOK, NoTicket
    <2>. QED BY <2>1, QuietStep
  <1>3. ASSUME NEW t \in Tasks, Acquire(t) PROVE AbstractStep
    BY <1>3, AcquireIsLock
  <1>4. ASSUME NEW t \in Tasks, Unlock(t) PROVE AbstractStep
    BY <1>4, UnlockIsUnlock
  <1>. QED BY <1>1, <1>2, <1>3, <1>4 DEF LocksNext, Leaving

\* The registry implements one lock for each key.
THEOREM RegistryImplementsLockMap ==
  ASSUME KeyedLockAssumption PROVE LocksSpec => ImplementsLockMap
  <1>1. LocksInit => Abstract!Init
    <2> SUFFICES ASSUME LocksInit PROVE Abstract!Init
      OBVIOUS
    <2>1. \A k \in Keys : Inside(k) = {}
      BY DEF LocksInit, Inside, NoTicket
    <2>. QED BY <2>1, Members DEF Abstract!Init, Owner
  <1>2. LocksInv /\ [LocksNext]_lockVars => AbstractStep
    BY StepImplements
  <1>. QED BY <1>1, <1>2, LocksAlways, PTL
         DEF LocksSpec, ImplementsLockMap, Abstract!Spec, AbstractStep
=============================================================================
