--------------------------- MODULE SchedulerProofs ---------------------------
(***************************************************************************)
(* Theorems about Scheduler, for every set of requests, references and     *)
(* backends and every limit.                                               *)
(***************************************************************************)
EXTENDS Scheduler, TLAPS, FiniteSetTheorems

\* A request that owns an ActivityGuard knows the key it was taken under.
ClaimsHaveKeys == \A r \in Requests : pc[r] \in Claiming => guardKey[r] \in Refs

TypeInv == TypeOK /\ ClaimsHaveKeys

USE DEF Reserved, Locked, Queued, Claiming, PC

-----------------------------------------------------------------------------
(* What the helpers shared by the actions do to the types. *)

LEMMA LessType == ASSUME NEW n \in Nat PROVE Less(n) \in Nat
  BY DEF Less

LEMMA IdleType == NoAsk \in Asks /\ NoUnload \in [at : {"idle"}, ref : Refs]
  <1>1. (CHOOSE a \in Asks : TRUE) \in Asks
    BY RefsAssumption
  <1>2. \A a \in Asks : a.ref \in Refs
    BY RefsAssumption
  <1>3. (CHOOSE k \in Refs : TRUE) \in Refs
    BY <1>1, <1>2
  <1>. QED BY <1>1, <1>3 DEF NoAsk, NoUnload

LEMMA LeaveType ==
  ASSUME TypeOK, NEW r \in Requests, Leave(r)
  PROVE  /\ loadLock' \in [Locks -> Requests \cup Unloads \cup {None}]
         /\ pendingRequests' \in Int
         /\ want' \in [Requests -> Asks]
  BY IdleType DEF TypeOK, Leave

LEMMA KillType ==
  ASSUME TypeOK, NEW S, Kill(S)
  PROVE  proc' \in [Backends -> {"none", "starting", "ready", "crashed", "stopping"}]
  BY DEF TypeOK, Kill

LEMMA UnregisterType ==
  ASSUME TypeOK, NEW K, Unregister(K)
  PROVE  /\ running' \in [Refs -> Backends \cup {None}]
         /\ inFlight' \in [Backends -> Nat]
         /\ window' \in [Backends -> Nat]
         /\ using' \in [Requests -> Backends \cup {None}]
  BY DEF TypeOK, Unregister

LEMMA AbandonType ==
  ASSUME TypeInv, NEW r \in Requests, Abandon(r), pc[r] \notin Claiming
  PROVE  TypeInv'
  <1>1. /\ loadLock' \in [Locks -> Requests \cup Unloads \cup {None}]
        /\ pendingRequests' \in Int
        /\ want' \in [Requests -> Asks]
    BY LeaveType DEF Abandon, TypeInv
  <1>2. proc' \in [Backends -> {"none", "starting", "ready", "crashed", "stopping"}]
    BY KillType DEF Abandon, TypeInv
  <1>3. tried' \in [Requests -> [evict : BOOLEAN, split : BOOLEAN, shrinks : 0..MaxShrinks]]
    BY LimitsAssumption DEF Abandon, TypeInv, TypeOK, NothingTried
  <1>4. TypeOK'
    BY <1>1, <1>2, <1>3 DEF Abandon, TypeInv, TypeOK, Goto, mgrVars, guards
  <1>5. ClaimsHaveKeys'
    BY DEF Abandon, TypeInv, TypeOK, ClaimsHaveKeys, Goto, guards
  <1>. QED BY <1>4, <1>5 DEF TypeInv

LEMMA ClaimType ==
  ASSUME TypeInv, NEW r \in Requests, NEW k \in Loaded, Claim(r, k)
  PROVE  TypeInv'
  <1>1. /\ loadLock' \in [Locks -> Requests \cup Unloads \cup {None}]
        /\ pendingRequests' \in Int
        /\ want' \in [Requests -> Asks]
    BY LeaveType DEF Claim, TypeInv
  <1>2. k \in Refs /\ running[k] \in Backends
    BY DEF Loaded, TypeInv, TypeOK
  <1>3. /\ inFlight' \in [Backends -> Nat]
        /\ guardKey' \in [Requests -> Refs \cup {None}]
        /\ using' \in [Requests -> Backends \cup {None}]
        /\ pc' \in [Requests -> PC]
    BY <1>2 DEF Claim, TypeInv, TypeOK, Goto
  <1>4. UNCHANGED <<running, pendingLoads, window, proc, holds, mark, tried, unload>>
    BY DEF Claim, loadVars
  <1>5. TypeOK'
    BY <1>1, <1>3, <1>4 DEF TypeInv, TypeOK
  <1>6. ClaimsHaveKeys'
    BY <1>2 DEF Claim, TypeInv, TypeOK, ClaimsHaveKeys, Goto
  <1>. QED BY <1>5, <1>6 DEF TypeInv

LEMMA MissType ==
  ASSUME TypeInv, NEW r \in Requests, NEW dead, NEW next \in PC \ Claiming,
         Miss(r, dead, next)
  PROVE  TypeInv'
  <1>1. TypeOK'
    BY KillType, UnregisterType DEF Miss, TypeInv, TypeOK, Goto, lockVars, loadVars
  <1>2. ClaimsHaveKeys'
    BY DEF Miss, TypeInv, TypeOK, ClaimsHaveKeys, Goto
  <1>. QED BY <1>1, <1>2 DEF TypeInv

LEMMA CheckRunningForType ==
  ASSUME TypeInv, NEW r \in Requests, NEW next \in PC \ Claiming,
         CheckRunningFor(r, next)
  PROVE  TypeInv'
  <1> DEFINE k == want[r].ref
  <1>1. k \in Refs
    BY RefsAssumption DEF TypeInv, TypeOK
  <1>2. CASE running[k] # None /\ Claim(r, k)
    BY <1>1, <1>2, ClaimType DEF Loaded
  <1>3. CASE \E dead : Miss(r, dead, next)
    BY <1>3, MissType
  <1>. QED BY <1>2, <1>3 DEF CheckRunningFor

LEMMA StopForSlotType ==
  ASSUME TypeInv, NEW r \in Requests, NEW k \in Loaded, NEW next \in PC \ Claiming,
         StopForSlot(r, k, next)
  PROVE  TypeInv'
  <1>1. running[k] \in Backends
    BY DEF Loaded, TypeInv, TypeOK
  <1>2. TypeOK'
    BY <1>1, UnregisterType DEF StopForSlot, TypeInv, TypeOK, Goto, lockVars
  <1>3. ClaimsHaveKeys'
    BY DEF StopForSlot, TypeInv, TypeOK, ClaimsHaveKeys, Goto
  <1>. QED BY <1>2, <1>3 DEF TypeInv

-----------------------------------------------------------------------------
(* The type invariant. *)

LEMMA InitType == Init => TypeInv
  <1> SUFFICES ASSUME Init PROVE TypeInv
    OBVIOUS
  <1>1. NothingTried \in [evict : BOOLEAN, split : BOOLEAN, shrinks : 0..MaxShrinks]
    BY LimitsAssumption DEF NothingTried
  <1>. QED BY <1>1, IdleType DEF Init, TypeInv, TypeOK, ClaimsHaveKeys

\* The steps of a request that only move it, take a lock or count.
LEMMA ControlType ==
  ASSUME TypeInv, NEW r \in Requests,
         \/ Arrive(r) \/ TryAdmit(r) \/ AcquireLoadLock(r) \/ ReserveSlot(r)
         \/ Finish(r) \/ ReleaseReservation(r) \/ Disconnect(r)
  PROVE  TypeInv'
  <1> USE DEF TypeInv, TypeOK, ClaimsHaveKeys, Goto, mgrVars, guards, loadVars
  <1>1. CASE Arrive(r)
    BY <1>1 DEF Arrive, lockVars
  <1>2. CASE TryAdmit(r)
    BY <1>2, LeaveType DEF TryAdmit
  <1>3. CASE AcquireLoadLock(r)
    BY <1>3 DEF AcquireLoadLock
  <1>4. CASE ReserveSlot(r)
    BY <1>4 DEF ReserveSlot, lockVars
  <1>5. CASE Finish(r)
    BY <1>5 DEF Finish, lockVars
  <1>6. CASE ReleaseReservation(r)
    BY <1>6, LessType DEF ReleaseReservation, lockVars
  <1>7. CASE Disconnect(r)
    BY <1>7, AbandonType DEF Disconnect
  <1>. QED BY <1>1, <1>2, <1>3, <1>4, <1>5, <1>6, <1>7

\* The steps that look for a loaded model, and those that may fail.
LEMMA LookupType ==
  ASSUME TypeInv, NEW r \in Requests,
         \/ FastPath(r) \/ Recheck(r) \/ Rejoin(r) \/ CheckRunningByDigest(r)
         \/ Pull(r) \/ Plan(r) \/ RejectBusy(r)
  PROVE  TypeInv'
  <1> DEFINE Quiet(next) == /\ Goto(r, next)
                            /\ UNCHANGED <<mgrVars, proc, lockVars, want,
                                           guards, loadVars, unload>>
  <1>1. CASE FastPath(r) \/ Recheck(r) \/ Rejoin(r)
    BY <1>1, CheckRunningForType DEF FastPath, Recheck, Rejoin
  <1>2. CASE CheckRunningByDigest(r)
    <2>1. CASE \E dead : Miss(r, dead, "plan")
      BY <2>1, MissType
    <2>2. CASE \E k \in Loaded : Claim(r, k)
      BY <2>2, ClaimType
    <2>. QED BY <1>2, <2>1, <2>2 DEF CheckRunningByDigest
  <1>3. ASSUME NEW next \in PC \ Claiming, Quiet(next) PROVE TypeInv'
    BY <1>3 DEF TypeInv, TypeOK, ClaimsHaveKeys, Goto, mgrVars, guards,
                loadVars, lockVars
  <1>4. CASE Pull(r)
    BY <1>3, <1>4, AbandonType DEF Pull
  <1>5. CASE Plan(r)
    BY <1>3, <1>5, AbandonType DEF Plan
  <1>6. CASE RejectBusy(r)
    BY <1>6, AbandonType DEF RejectBusy
  <1>. QED BY <1>1, <1>2, <1>4, <1>5, <1>6

\* The steps that make room.
LEMMA RoomType ==
  ASSUME TypeInv, NEW r \in Requests,
         RetireForContext(r) \/ EvictForSlot(r) \/ Stopped(r)
  PROVE  TypeInv'
  <1>1. CASE RetireForContext(r)
    <2> DEFINE b == running[want[r].ref]
    <2>0. want[r].ref \in Refs /\ b \in Backends \cup {None}
      BY RefsAssumption DEF TypeInv, TypeOK
    <2>1. CASE b # None /\ StopForSlot(r, want[r].ref, "stopRetired")
      BY <2>0, <2>1, StopForSlotType DEF Loaded
    <2>2. CASE ~(b # None /\ StopForSlot(r, want[r].ref, "stopRetired"))
      BY <1>1, <2>0, <2>2 DEF RetireForContext, TypeInv, TypeOK, ClaimsHaveKeys,
                              Goto, mgrVars, guards, lockVars
    <2>. QED BY <2>1, <2>2
  <1>2. CASE EvictForSlot(r)
    BY <1>2, StopForSlotType DEF EvictForSlot, Idle
  <1>3. CASE Stopped(r)
    <2>1. proc' \in [Backends -> {"none", "starting", "ready", "crashed", "stopping"}]
      BY <1>3, KillType DEF Stopped, TypeInv
    <2>. QED BY <1>3, <2>1 DEF Stopped, TypeInv, TypeOK, ClaimsHaveKeys,
                               Goto, mgrVars, guards, lockVars
  <1>. QED BY <1>1, <1>2, <1>3

\* The steps that spawn, wait, retry and register.
LEMMA SpawnType ==
  ASSUME TypeInv, NEW r \in Requests,
         Spawn(r) \/ WaitForReady(r) \/ EvictOthers(r) \/ ReduceAndRetry(r)
  PROVE  TypeInv'
  <1> DEFINE Tried == [evict : BOOLEAN, split : BOOLEAN, shrinks : 0..MaxShrinks]
  <1>1. CASE Spawn(r)
    <2>1. CASE Abandon(r)
      BY <1>1, <2>1, AbandonType DEF Spawn
    <2>2. CASE ~Abandon(r)
      <3>1. PICK b \in Backends : /\ proc' = [proc EXCEPT ![b] = "starting"]
                                  /\ holds' = [holds EXCEPT ![r] = {b}]
        BY <1>1, <2>2 DEF Spawn
      <3>2. /\ proc' \in [Backends -> {"none", "starting", "ready", "crashed", "stopping"}]
            /\ holds' \in [Requests -> SUBSET Backends]
        BY <3>1 DEF TypeInv, TypeOK
      <3>3. Goto(r, "wait")
            /\ UNCHANGED <<mgrVars, lockVars, want, guards, mark, tried, unload>>
        BY <1>1, <2>2 DEF Spawn
      <3>. QED BY <3>2, <3>3 DEF TypeInv, TypeOK, ClaimsHaveKeys, Goto, mgrVars,
                                 guards, lockVars
    <2>. QED BY <2>1, <2>2
  <1>2. CASE WaitForReady(r)
    <2>1. CASE Abandon(r)
      BY <1>2, <2>1, AbandonType DEF WaitForReady
    <2>2. CASE ~Abandon(r)
      BY <1>2, <2>2 DEF WaitForReady, TypeInv, TypeOK, ClaimsHaveKeys, Goto,
                        mgrVars, guards, lockVars, loadVars
    <2>. QED BY <2>1, <2>2
  <1>3. CASE EvictOthers(r)
    <2>1. Under({k \in Idle : k # want[r].ref}) \subseteq Backends
      BY DEF Under, Idle, Loaded, TypeInv, TypeOK
    <2>2. tried' \in [Requests -> Tried]
      BY <1>3 DEF EvictOthers, Try, TypeInv, TypeOK
    <2>3. TypeOK'
      BY <1>3, <2>1, <2>2, UnregisterType
         DEF EvictOthers, TypeInv, TypeOK, Goto, lockVars
    <2>4. ClaimsHaveKeys'
      BY <1>3 DEF EvictOthers, TypeInv, TypeOK, ClaimsHaveKeys, Goto
    <2>. QED BY <2>3, <2>4 DEF TypeInv
  <1>4. CASE ReduceAndRetry(r)
    <2>1. CASE Abandon(r)
      BY <1>4, <2>1, AbandonType DEF ReduceAndRetry
    <2>2. CASE ~Abandon(r)
      <3>1. tried' \in [Requests -> Tried]
        <4>1. tried[r] \in Tried
          BY DEF TypeInv, TypeOK
        <4>2. Try(TRUE, tried[r].shrinks) \in Tried
          BY <4>1 DEF Try
        <4>3. tried[r].shrinks < MaxShrinks
                => Try(tried[r].split, tried[r].shrinks + 1) \in Tried
          BY <4>1, LimitsAssumption DEF Try
        <4>4. \E t \in Tried : tried' = [tried EXCEPT ![r] = t]
          <5>1. \/ tried' = [tried EXCEPT ![r] = Try(TRUE, tried[r].shrinks)]
                \/ /\ tried[r].shrinks < MaxShrinks
                   /\ tried' = [tried EXCEPT ![r] = Try(tried[r].split, tried[r].shrinks + 1)]
            BY <1>4, <2>2, Zenon DEF ReduceAndRetry
          <5>. QED BY <4>2, <4>3, <5>1, Zenon
        <4>5. tried \in [Requests -> Tried]
          BY DEF TypeInv, TypeOK
        <4>. HIDE DEF Tried
        <4>. QED BY <4>4, <4>5
      <3>2. proc' \in [Backends -> {"none", "starting", "ready", "crashed", "stopping"}]
        BY <1>4, <2>2, KillType DEF ReduceAndRetry, TypeInv
      <3>3. TypeOK'
        BY <1>4, <2>2, <3>1, <3>2
           DEF ReduceAndRetry, TypeInv, TypeOK, Goto, mgrVars, guards, lockVars
      <3>4. ClaimsHaveKeys'
        BY <1>4, <2>2 DEF ReduceAndRetry, TypeInv, TypeOK, ClaimsHaveKeys, Goto, guards
      <3>. QED BY <3>3, <3>4 DEF TypeInv
    <2>. QED BY <2>1, <2>2
  <1>. QED BY <1>1, <1>2, <1>3, <1>4

LEMMA InsertType ==
  ASSUME TypeInv, NEW r \in Requests, Insert(r)
  PROVE  TypeInv'
  <1>1. want[r].ref \in Refs /\ want[r].ctx \in Nat
    BY RefsAssumption DEF TypeInv, TypeOK
  <1>2. DefaultWindow - tried[r].shrinks \in Nat
    BY LimitsAssumption DEF TypeInv, TypeOK
  <1>3. /\ running' \in [Refs -> Backends \cup {None}]
        /\ window' \in [Backends -> Nat]
        /\ inFlight' \in [Backends -> Nat]
        /\ using' \in [Requests -> Backends \cup {None}]
    <2>1. PICK b \in holds[r] :
            /\ running' = [running EXCEPT ![want[r].ref] = b]
            /\ \E n \in Nat : window' = [window EXCEPT ![b] = n]
      BY <1>1, <1>2 DEF Insert
    <2>2. b \in Backends
      BY DEF TypeInv, TypeOK
    <2>3. inFlight' \in [Backends -> Nat]
      BY DEF Insert, TypeInv, TypeOK
    <2>4. using' \in [Requests -> Backends \cup {None}]
      BY DEF Insert, TypeInv, TypeOK
    <2>5. PICK n \in Nat : window' = [window EXCEPT ![b] = n]
      BY <2>1
    <2>6. window' \in [Backends -> Nat]
      BY <2>5 DEF TypeInv, TypeOK
    <2>7. running' \in [Refs -> Backends \cup {None}]
      BY <2>1, <2>2 DEF TypeInv, TypeOK
    <2>. QED BY <2>3, <2>4, <2>6, <2>7
  <1>4. /\ loadLock' \in [Locks -> Requests \cup Unloads \cup {None}]
        /\ pendingRequests' \in Int
        /\ want' \in [Requests -> Asks]
    BY LeaveType DEF Insert, TypeInv
  <1>5. proc' \in [Backends -> {"none", "starting", "ready", "crashed", "stopping"}]
    BY KillType DEF Insert, TypeInv
  <1>6. tried' \in [Requests -> [evict : BOOLEAN, split : BOOLEAN, shrinks : 0..MaxShrinks]]
    BY LimitsAssumption DEF Insert, TypeInv, TypeOK, NothingTried
  <1>7. TypeOK'
    BY <1>1, <1>3, <1>4, <1>5, <1>6, LessType DEF Insert, TypeInv, TypeOK, Goto
  <1>8. ClaimsHaveKeys'
    BY <1>1 DEF Insert, TypeInv, TypeOK, ClaimsHaveKeys, Goto
  <1>. QED BY <1>7, <1>8 DEF TypeInv

LEMMA ReleaseClaimType ==
  ASSUME TypeInv, NEW r \in Requests, ReleaseClaim(r)
  PROVE  TypeInv'
  <1>1. guardKey[r] \in Refs /\ running[guardKey[r]] \in Backends \cup {None}
    BY DEF ReleaseClaim, TypeInv, TypeOK, ClaimsHaveKeys
  <1>2. inFlight' \in [Backends -> Nat]
    BY <1>1, LessType DEF ReleaseClaim, TypeInv, TypeOK
  <1>3. TypeOK'
    BY <1>2 DEF ReleaseClaim, TypeInv, TypeOK, Goto, lockVars, loadVars
  <1>4. ClaimsHaveKeys'
    BY DEF ReleaseClaim, TypeInv, TypeOK, ClaimsHaveKeys, Goto
  <1>. QED BY <1>3, <1>4 DEF TypeInv

\* The unload endpoint, the reaper and crashes.
LEMMA OthersType ==
  ASSUME TypeInv,
         \/ \E u \in Unloads : UnloadLock(u) \/ Unloading(u)
         \/ ReapIdleModels
         \/ \E b \in Backends : Crash(b)
  PROVE  TypeInv'
  <1> USE DEF TypeInv, TypeOK, ClaimsHaveKeys
  <1>1. ASSUME NEW u \in Unloads, UnloadLock(u) PROVE TypeInv'
    <2>1. PICK k \in Refs :
            /\ loadLock' = [loadLock EXCEPT ![LockOf[k]] = u]
            /\ unload' = [unload EXCEPT ![u] = [at |-> "key", ref |-> k]]
      BY <1>1 DEF UnloadLock
    <2>2. unload' \in [Unloads -> [at : {"idle", "key", "digest"}, ref : Refs]]
      BY <2>1
    <2>3. loadLock' \in [Locks -> Requests \cup Unloads \cup {None}]
      BY <2>1
    <2>. QED BY <1>1, <2>2, <2>3 DEF UnloadLock, mgrVars, guards, loadVars
  <1>2. ASSUME NEW u \in Unloads, UnloadByKey(u) PROVE TypeInv'
    BY <1>2, KillType, UnregisterType, IdleType
       DEF UnloadByKey, Drop, ReleaseUnloadLock, loadVars
  <1>3. ASSUME NEW u \in Unloads, UnloadByDigest(u) PROVE TypeInv'
    BY <1>3, KillType, UnregisterType, IdleType
       DEF UnloadByDigest, Drop, ReleaseUnloadLock, loadVars
  <1>4. CASE ReapIdleModels
    BY <1>4, KillType, UnregisterType DEF ReapIdleModels, Drop, lockVars, loadVars
  <1>5. ASSUME NEW b \in Backends, Crash(b) PROVE TypeInv'
    BY <1>5 DEF Crash, mgrVars, guards, loadVars, lockVars
  <1>. QED BY <1>1, <1>2, <1>3, <1>4, <1>5 DEF Unloading

\* The state has its types, whatever the requests, failures and limits
\* (ModelManager, RunningModel, the guards); and a request that will give
\* a claim back still knows on which key.
THEOREM TypeCorrect == Spec => []TypeInv
  <1>1. Init => TypeInv
    BY InitType
  <1>2. TypeInv /\ [Next]_vars => TypeInv'
    <2> SUFFICES ASSUME TypeInv, [Next]_vars PROVE TypeInv'
      OBVIOUS
    <2>1. CASE UNCHANGED vars
      BY <2>1 DEF vars, TypeInv, TypeOK, ClaimsHaveKeys, mgrVars, lockVars,
                  guards, loadVars
    <2>2. ASSUME NEW r \in Requests,
                 \/ Arrive(r) \/ Load(r) \/ AcquireLoadLock(r) \/ Finish(r)
                 \/ ReleaseClaim(r) \/ ReleaseReservation(r) \/ Disconnect(r)
          PROVE  TypeInv'
      BY <2>2, ControlType, LookupType, RoomType, SpawnType, InsertType,
         ReleaseClaimType DEF Load
    <2>. QED BY <2>1, <2>2, OthersType DEF Next
  <1>. QED BY <1>1, <1>2, PTL DEF Spec

\* The same, without the strengthening (the structures of sched.rs and of
\* ModelManager).
THEOREM TypesHold == Spec => []TypeOK
  <1>1. TypeInv => TypeOK
    BY DEF TypeInv
  <1>. QED BY <1>1, TypeCorrect, PTL

-----------------------------------------------------------------------------
(* Mutual exclusion: a load or an unload past its lock is the lock's owner. *)

LocksOwned ==
  /\ \A r \in Requests : pc[r] \in Locked => loadLock[LockOf[want[r].ref]] = r
  /\ \A u \in Unloads :
       unload[u].at # "idle" => loadLock[LockOf[unload[u].ref]] = u

\* A step of r that keeps every lock, and moves r past no lock it lacks.
LEMMA StayingKeepsLocks ==
  ASSUME TypeInv, LocksOwned, NEW r \in Requests, NEW next \in PC, Goto(r, next),
         UNCHANGED <<loadLock, want, unload>>,
         next \in Locked => pc[r] \in Locked
  PROVE  LocksOwned'
  BY DEF TypeInv, TypeOK, LocksOwned, Goto

\* A step by which r ends its load, and drops the lock with it.
LEMMA LeavingKeepsLocks ==
  ASSUME TypeInv, LocksOwned, NEW r \in Requests, NEW next \in PC \ Locked,
         Goto(r, next), Leave(r), UNCHANGED unload
  PROVE  LocksOwned'
  <1>1. \A l \in Locks : loadLock[l] # r => loadLock'[l] = loadLock[l]
    BY DEF Leave
  <1>2. ASSUME NEW s \in Requests, pc'[s] \in Locked
        PROVE  loadLock'[LockOf[want'[s].ref]] = s
    <2>1. s # r /\ pc[s] \in Locked /\ want'[s] = want[s]
      BY <1>2 DEF Goto, Leave, TypeInv, TypeOK
    <2>2. LockOf[want[s].ref] \in Locks
      BY RefsAssumption DEF TypeInv, TypeOK
    <2>. QED BY <1>1, <2>1, <2>2 DEF LocksOwned
  <1>3. ASSUME NEW u \in Unloads, unload'[u].at # "idle"
        PROVE  loadLock'[LockOf[unload'[u].ref]] = u
    <2>1. u # r /\ LockOf[unload[u].ref] \in Locks
      BY RefsAssumption, ActorsAssumption DEF TypeInv, TypeOK
    <2>. QED BY <1>1, <1>3, <2>1 DEF LocksOwned
  <1>. QED BY <1>2, <1>3 DEF LocksOwned

LEMMA AbandonLocks ==
  ASSUME TypeInv, LocksOwned, NEW r \in Requests, Abandon(r)
  PROVE  LocksOwned'
  BY LeavingKeepsLocks DEF Abandon

LEMMA LookupLocks ==
  ASSUME TypeInv, LocksOwned, NEW r \in Requests, NEW next \in PC,
         next \in Locked => pc[r] \in Locked,
         \/ \E k \in Refs : Claim(r, k)
         \/ \E dead : Miss(r, dead, next)
  PROVE  LocksOwned'
  <1>1. CASE \E k \in Refs : Claim(r, k)
    BY <1>1, LeavingKeepsLocks DEF Claim
  <1>2. CASE \E dead : Miss(r, dead, next)
    BY <1>2, StayingKeepsLocks DEF Miss, lockVars
  <1>. QED BY <1>1, <1>2

LEMMA RequestLocks ==
  ASSUME TypeInv, LocksOwned, NEW r \in Requests,
         \/ Arrive(r) \/ Load(r) \/ AcquireLoadLock(r) \/ Finish(r)
         \/ ReleaseClaim(r) \/ ReleaseReservation(r) \/ Disconnect(r)
  PROVE  LocksOwned'
  <1> USE DEF lockVars
  <1>0. want[r].ref \in Refs
    BY RefsAssumption DEF TypeInv, TypeOK
  <1>1. CASE Arrive(r)
    BY <1>1 DEF Arrive, Goto, TypeInv, TypeOK, LocksOwned
  <1>2. CASE AcquireLoadLock(r)
    <2> DEFINE l == LockOf[want[r].ref]
    <2>1. l \in Locks /\ loadLock[l] = None /\ loadLock' = [loadLock EXCEPT ![l] = r]
      BY <1>0, <1>2, RefsAssumption DEF AcquireLoadLock
    <2>2. None \notin Requests \cup Unloads
      BY ActorsAssumption
    <2>. QED BY <1>2, <2>1, <2>2 DEF AcquireLoadLock, Goto, TypeInv, TypeOK, LocksOwned
  <1>3. CASE FastPath(r)
    BY <1>0, <1>3, LookupLocks DEF FastPath, CheckRunningFor
  <1>4. CASE Recheck(r) \/ Rejoin(r)
    BY <1>0, <1>4, LookupLocks DEF Recheck, Rejoin, CheckRunningFor
  <1>5. CASE CheckRunningByDigest(r)
    BY <1>5, LookupLocks DEF CheckRunningByDigest, Loaded
  <1>6. CASE TryAdmit(r)
    BY <1>6, StayingKeepsLocks, LeavingKeepsLocks DEF TryAdmit
  <1>7. CASE Pull(r) \/ Plan(r) \/ RejectBusy(r) \/ Disconnect(r)
    BY <1>7, AbandonLocks, StayingKeepsLocks DEF Pull, Plan, RejectBusy, Disconnect
  <1>8. CASE RetireForContext(r) \/ EvictForSlot(r)
    <2>1. CASE \E k, next : next \in Locked /\ StopForSlot(r, k, next)
      BY <1>8, <2>1, StayingKeepsLocks DEF StopForSlot, RetireForContext, EvictForSlot
    <2>2. CASE UNCHANGED <<pc, loadLock, want, unload>>
      BY <2>2 DEF LocksOwned
    <2>3. CASE Goto(r, "slot") /\ UNCHANGED <<loadLock, want, unload>>
      BY <1>8, <2>3, StayingKeepsLocks DEF RetireForContext, EvictForSlot
    <2>. QED BY <1>8, <2>1, <2>2, <2>3 DEF RetireForContext, EvictForSlot
  <1>9. CASE ReserveSlot(r) \/ Stopped(r)
    BY <1>9, StayingKeepsLocks DEF ReserveSlot, Stopped
  <1>10. CASE Spawn(r)
    BY <1>10, AbandonLocks, StayingKeepsLocks DEF Spawn
  <1>11. CASE WaitForReady(r)
    BY <1>11, AbandonLocks, StayingKeepsLocks DEF WaitForReady
  <1>12. CASE EvictOthers(r)
    BY <1>12, StayingKeepsLocks DEF EvictOthers
  <1>13. CASE ReduceAndRetry(r)
    BY <1>13, AbandonLocks, StayingKeepsLocks DEF ReduceAndRetry
  <1>14. CASE Insert(r)
    BY <1>14, LeavingKeepsLocks DEF Insert
  <1>15. CASE Finish(r) \/ ReleaseClaim(r) \/ ReleaseReservation(r)
    BY <1>15, StayingKeepsLocks DEF Finish, ReleaseClaim, ReleaseReservation
  <1>. QED BY <1>1, <1>2, <1>3, <1>4, <1>5, <1>6, <1>7, <1>8, <1>9, <1>10,
              <1>11, <1>12, <1>13, <1>14, <1>15 DEF Load

LEMMA UnloadLocks ==
  ASSUME TypeInv, LocksOwned, NEW u \in Unloads, UnloadLock(u) \/ Unloading(u)
  PROVE  LocksOwned'
  <1>1. CASE UnloadLock(u)
    <2>1. PICK k \in Refs :
            /\ loadLock[LockOf[k]] = None
            /\ loadLock' = [loadLock EXCEPT ![LockOf[k]] = u]
            /\ unload' = [unload EXCEPT ![u] = [at |-> "key", ref |-> k]]
      BY <1>1 DEF UnloadLock
    <2>2. LockOf[k] \in Locks /\ None \notin Requests \cup Unloads
      BY RefsAssumption, ActorsAssumption
    <2>3. UNCHANGED <<pc, want>>
      BY <1>1 DEF UnloadLock
    <2>. QED BY <2>1, <2>2, <2>3 DEF TypeInv, TypeOK, LocksOwned
  <1>2. CASE Unloading(u)
    <2>1. \/ /\ UNCHANGED loadLock
             /\ unload' = [unload EXCEPT ![u] = [at |-> "digest", ref |-> unload[u].ref]]
          \/ /\ ReleaseUnloadLock(u)
             /\ unload' = [unload EXCEPT ![u] = NoUnload]
      BY <1>2 DEF Unloading, UnloadByKey, UnloadByDigest
    <2>2. UNCHANGED <<pc, want>> /\ unload[u].at # "idle"
      BY <1>2 DEF Unloading, UnloadByKey, UnloadByDigest
    <2>3. u \notin Requests
      BY ActorsAssumption
    <2>4. \A l \in Locks : loadLock[l] # u => loadLock'[l] = loadLock[l]
      BY <2>1 DEF ReleaseUnloadLock
    <2>5. ASSUME NEW r \in Requests, pc'[r] \in Locked
          PROVE  loadLock'[LockOf[want'[r].ref]] = r
      <3>1. LockOf[want[r].ref] \in Locks
        BY RefsAssumption DEF TypeInv, TypeOK
      <3>. QED BY <2>2, <2>3, <2>4, <2>5, <3>1 DEF LocksOwned
    <2>6. ASSUME NEW v \in Unloads, unload'[v].at # "idle"
          PROVE  loadLock'[LockOf[unload'[v].ref]] = v
      <3>1. LockOf[unload[v].ref] \in Locks
        BY RefsAssumption DEF TypeInv, TypeOK
      <3>2. CASE v = u
        BY <2>1, <2>2, <2>6, <3>2 DEF NoUnload, TypeInv, TypeOK, LocksOwned
      <3>3. CASE v # u
        <4>1. unload'[v] = unload[v]
          BY <2>1, <3>3 DEF TypeInv, TypeOK
        <4>. QED BY <2>4, <2>6, <3>1, <3>3, <4>1 DEF LocksOwned
      <3>. QED BY <3>2, <3>3
    <2>. QED BY <2>5, <2>6 DEF LocksOwned
  <1>. QED BY <1>1, <1>2

\* Whoever is past a load lock owns it (acquire_load_lock, LoadLockGuard).
LEMMA LocksAlwaysOwned == Spec => []LocksOwned
  <1>1. Init => LocksOwned
    BY DEF Init, NoUnload, LocksOwned
  <1>2. TypeInv /\ LocksOwned /\ [Next]_vars => LocksOwned'
    <2> SUFFICES ASSUME TypeInv, LocksOwned, [Next]_vars PROVE LocksOwned'
      OBVIOUS
    <2>1. CASE UNCHANGED <<loadLock, pc, want, unload>>
      BY <2>1 DEF LocksOwned
    <2>2. CASE ReapIdleModels \/ (\E b \in Backends : Crash(b)) \/ UNCHANGED vars
      BY <2>1, <2>2 DEF ReapIdleModels, Crash, vars, lockVars
    <2>. QED BY <2>2, RequestLocks, UnloadLocks DEF Next
  <1>. QED BY <1>1, <1>2, TypeCorrect, PTL DEF Spec

\* No two loads, and no load and unload, are ever past the same load lock,
\* whatever ends them (LoadLockGuard, acquire_load_lock).
THEOREM LoadsExcluded == Spec => []LoadsExclude
  <1>1. LocksOwned => LoadsExclude
    BY ActorsAssumption DEF LocksOwned, LoadsExclude
  <1>. QED BY <1>1, LocksAlwaysOwned, PTL

(***************************************************************************)
(* The counters of the scheduler: pending_loads never falls below the      *)
(* loads that hold a slot, so the scheduler implements Slots and keeps     *)
(* LLMMAN_MAX_LOADED_MODELS; PENDING_REQUESTS counts the admitted.         *)
(***************************************************************************)

SlotsStep == [AbstractSlots!Next]_(AbstractSlots!slots)

LEMMA CountsFinite ==
  ASSUME TypeInv
  PROVE  /\ IsFiniteSet(Reserving) /\ Cardinality(Reserving) \in Nat
         /\ IsFiniteSet(Loaded) /\ Cardinality(Loaded) \in Nat
  <1>1. Reserving \subseteq Requests /\ Loaded \subseteq Refs
    BY DEF Reserving, Loaded
  <1>. QED BY <1>1, RefsAssumption, FS_Subset, FS_CardinalityType

-----------------------------------------------------------------------------
(* Steps by what they do to the slots: nothing, but perhaps models leave... *)

LEMMA QuietStep ==
  ASSUME TypeInv, ReservationsCovered, UNCHANGED pendingLoads,
         Loaded' \subseteq Loaded, Reserving' \subseteq Reserving
  PROVE  ReservationsCovered' /\ SlotsStep
  <1>1. /\ IsFiniteSet(Reserving') /\ Cardinality(Reserving') \in Nat
        /\ Cardinality(Reserving') <= Cardinality(Reserving)
    BY CountsFinite, FS_Subset, FS_CardinalityType
  <1>2. ReservationsCovered'
    BY <1>1, CountsFinite DEF ReservationsCovered, TypeInv, TypeOK
  <1>3. AbstractSlots!Vacate(Loaded \ Loaded') /\ Loaded \ Loaded' \in SUBSET Refs
    BY DEF AbstractSlots!Vacate, Loaded
  <1>. QED BY <1>2, <1>3 DEF SlotsStep, AbstractSlots!Next

(* ... a slot is reserved ... *)
LEMMA TakingStep ==
  ASSUME TypeInv, ReservationsCovered, NEW r \in Requests,
         pendingLoads' = pendingLoads + 1, Reserving' \subseteq Reserving \cup {r}
  PROVE  ReservationsCovered'
  <1>1. /\ IsFiniteSet(Reserving \cup {r})
        /\ Cardinality(Reserving \cup {r}) \in Nat
        /\ Cardinality(Reserving \cup {r}) <= Cardinality(Reserving) + 1
    <2>1. CASE r \in Reserving
      <3>1. Reserving \cup {r} = Reserving
        BY <2>1
      <3>2. \A n \in Nat : n <= n + 1
        OBVIOUS
      <3>. QED BY <3>1, <3>2, CountsFinite
    <2>2. CASE r \notin Reserving
      BY <2>2, CountsFinite, FS_AddElement
    <2>. QED BY <2>1, <2>2
  <1>2. /\ Cardinality(Reserving') \in Nat
        /\ Cardinality(Reserving') <= Cardinality(Reserving \cup {r})
    BY <1>1, FS_Subset, FS_CardinalityType
  <1>. QED BY <1>1, <1>2, CountsFinite DEF ReservationsCovered, TypeInv, TypeOK

(* ... or one is given back. *)
LEMMA GivingStep ==
  ASSUME TypeInv, ReservationsCovered, NEW r \in Reserving,
         pendingLoads' = Less(pendingLoads), Reserving' \subseteq Reserving \ {r}
  PROVE  /\ ReservationsCovered'
         /\ pendingLoads > 0 /\ pendingLoads' = pendingLoads - 1
  <1>1. /\ IsFiniteSet(Reserving \ {r}) /\ Cardinality(Reserving \ {r}) \in Nat
        /\ Cardinality(Reserving \ {r}) = Cardinality(Reserving) - 1
    BY CountsFinite, FS_RemoveElement, FS_CardinalityType
  <1>2. /\ Cardinality(Reserving') \in Nat
        /\ Cardinality(Reserving') <= Cardinality(Reserving \ {r})
    BY <1>1, FS_Subset, FS_CardinalityType
  <1>3. pendingLoads \in Nat /\ pendingLoads >= Cardinality(Reserving)
    BY DEF ReservationsCovered, TypeInv, TypeOK
  <1>. QED BY <1>1, <1>2, <1>3, CountsFinite DEF ReservationsCovered, Less

-----------------------------------------------------------------------------
(* Which steps of the scheduler are of which kind. *)

Slotted == Reserved \cup {"releasing", "stopVictim"}

LEMMA ReservingMoves ==
  ASSUME TypeInv, NEW r \in Requests, NEW next, Goto(r, next)
  PROVE  /\ Reserving' \subseteq Reserving \cup {r}
         /\ (next \in Slotted => pc[r] \in Slotted) => Reserving' \subseteq Reserving
         /\ next \notin Slotted => Reserving' \subseteq Reserving \ {r}
  BY DEF TypeInv, TypeOK, Goto, Reserving, Slotted

LEMMA UnregisterShrinks ==
  ASSUME NEW K, Unregister(K)
  PROVE  Loaded' \subseteq Loaded
  BY DEF Unregister, Loaded

LEMMA AbandonSlots ==
  ASSUME TypeInv, ReservationsCovered, NEW r \in Requests, Abandon(r)
  PROVE  ReservationsCovered' /\ SlotsStep
  <1>1. PICK next : Goto(r, next) /\ (next \in Slotted => pc[r] \in Slotted)
    BY DEF Abandon, Slotted
  <1>2. Loaded' \subseteq Loaded /\ UNCHANGED pendingLoads
    BY DEF Abandon, mgrVars, Loaded
  <1>. QED BY <1>1, <1>2, ReservingMoves, QuietStep

\* A move that leaves the slots alone.
LEMMA MovingSlots ==
  ASSUME TypeInv, ReservationsCovered, NEW r \in Requests, NEW next,
         Goto(r, next), next \in Slotted => pc[r] \in Slotted,
         UNCHANGED pendingLoads,
         UNCHANGED running \/ \E K : Unregister(K)
  PROVE  ReservationsCovered' /\ SlotsStep
  <1>1. Loaded' \subseteq Loaded
    BY UnregisterShrinks DEF Loaded
  <1>. QED BY <1>1, ReservingMoves, QuietStep

LEMMA LookupSlots ==
  ASSUME TypeInv, ReservationsCovered, NEW r \in Requests, NEW next,
         next \notin Slotted,
         \/ \E k \in Refs : Claim(r, k)
         \/ \E dead : Miss(r, dead, next)
  PROVE  ReservationsCovered' /\ SlotsStep
  <1>1. CASE \E k \in Refs : Claim(r, k)
    <2>1. Goto(r, "serving") /\ UNCHANGED <<running, pendingLoads>>
      BY <1>1 DEF Claim
    <2>. QED BY <2>1, MovingSlots DEF Slotted
  <1>2. CASE \E dead : Miss(r, dead, next)
    BY <1>2, MovingSlots DEF Miss
  <1>. QED BY <1>1, <1>2

LEMMA StopForSlotSlots ==
  ASSUME TypeInv, ReservationsCovered, NEW r \in Requests, NEW k \in Loaded,
         NEW next, StopForSlot(r, k, next)
  PROVE  ReservationsCovered' /\ SlotsStep
  <1>1. ReservationsCovered'
    BY ReservingMoves, TakingStep DEF StopForSlot
  <1>2. k \in Refs /\ Loaded' = Loaded \ {k}
    BY DEF StopForSlot, Unregister, Loaded
  <1>3. AbstractSlots!Swap(k)
    BY <1>2 DEF AbstractSlots!Swap, StopForSlot
  <1>. QED BY <1>1, <1>2, <1>3 DEF SlotsStep, AbstractSlots!Next

LEMMA InsertSlots ==
  ASSUME TypeInv, ReservationsCovered, NEW r \in Requests, Insert(r)
  PROVE  ReservationsCovered' /\ SlotsStep
  <1>1. want[r].ref \in Refs
    BY RefsAssumption DEF TypeInv, TypeOK
  <1>2. r \in Reserving
    BY DEF Insert, Reserving
  <1>3. /\ ReservationsCovered'
        /\ pendingLoads > 0 /\ pendingLoads' = pendingLoads - 1
    BY <1>2, ReservingMoves, GivingStep DEF Insert, Slotted
  <1>4. PICK b \in holds[r] : running' = [running EXCEPT ![want[r].ref] = b]
    BY DEF Insert
  <1>5. b # None
    BY ActorsAssumption DEF TypeInv, TypeOK
  <1>6. Loaded' = Loaded \cup {want[r].ref}
    BY <1>1, <1>4, <1>5 DEF Loaded, TypeInv, TypeOK
  <1>7. AbstractSlots!Fill(want[r].ref)
    BY <1>3, <1>6 DEF AbstractSlots!Fill
  <1>. QED BY <1>1, <1>3, <1>7 DEF SlotsStep, AbstractSlots!Next

LEMMA RequestSlots ==
  ASSUME TypeInv, ReservationsCovered, NEW r \in Requests,
         \/ Arrive(r) \/ Load(r) \/ AcquireLoadLock(r) \/ Finish(r)
         \/ ReleaseClaim(r) \/ ReleaseReservation(r) \/ Disconnect(r)
  PROVE  ReservationsCovered' /\ SlotsStep
  <1> USE DEF Slotted, mgrVars
  <1>0. want[r].ref \in Refs
    BY RefsAssumption DEF TypeInv, TypeOK
  <1>1. CASE Arrive(r) \/ AcquireLoadLock(r)
    BY <1>1, MovingSlots DEF Arrive, AcquireLoadLock
  <1>2. CASE FastPath(r) \/ Recheck(r) \/ Rejoin(r)
    BY <1>0, <1>2, LookupSlots DEF FastPath, Recheck, Rejoin, CheckRunningFor
  <1>3. CASE CheckRunningByDigest(r)
    BY <1>3, LookupSlots DEF CheckRunningByDigest, Loaded
  <1>4. CASE TryAdmit(r)
    BY <1>4, MovingSlots DEF TryAdmit
  <1>5. CASE Pull(r) \/ Plan(r) \/ RejectBusy(r) \/ Disconnect(r)
    BY <1>5, AbandonSlots, MovingSlots DEF Pull, Plan, RejectBusy, Disconnect
  <1>6. CASE RetireForContext(r)
    <2>1. CASE running[want[r].ref] # None
               /\ StopForSlot(r, want[r].ref, "stopRetired")
      BY <1>0, <2>1, StopForSlotSlots DEF Loaded
    <2>2. CASE Goto(r, "slot") /\ UNCHANGED <<running, pendingLoads>>
      BY <2>2, MovingSlots
    <2>3. CASE UNCHANGED <<running, pendingLoads, pc>>
      BY <2>3, QuietStep DEF Loaded, Reserving
    <2>. QED BY <1>6, <2>1, <2>2, <2>3 DEF RetireForContext
  <1>7. CASE ReserveSlot(r)
    <2>1. ReservationsCovered'
      BY <1>7, ReservingMoves, TakingStep DEF ReserveSlot
    <2>2. AbstractSlots!Reserve
      <3>1. UNCHANGED Loaded
        BY <1>7 DEF ReserveSlot, Loaded
      <3>2. AbstractSlots!Taken = Committed
        BY DEF Committed, AbstractSlots!Taken, Cardinality, AbstractSlots!Cardinality
      <3>. QED BY <1>7, <3>1, <3>2 DEF ReserveSlot, AbstractSlots!Reserve
    <2>. QED BY <2>1, <2>2 DEF SlotsStep, AbstractSlots!Next
  <1>8. CASE EvictForSlot(r)
    BY <1>8, StopForSlotSlots DEF EvictForSlot, Idle
  <1>9. CASE Stopped(r)
    <2>1. Goto(r, "spawn") /\ pc[r] \in Slotted /\ UNCHANGED <<running, pendingLoads>>
      BY <1>9 DEF Stopped
    <2>. QED BY <2>1, MovingSlots
  <1>10. CASE Spawn(r)
    BY <1>10, AbandonSlots, MovingSlots DEF Spawn
  <1>11. CASE WaitForReady(r)
    BY <1>11, AbandonSlots, MovingSlots DEF WaitForReady
  <1>12. CASE EvictOthers(r)
    BY <1>12, MovingSlots DEF EvictOthers
  <1>13. CASE ReduceAndRetry(r)
    BY <1>13, AbandonSlots, MovingSlots DEF ReduceAndRetry
  <1>14. CASE Insert(r)
    BY <1>14, InsertSlots
  <1>15. CASE Finish(r) \/ ReleaseClaim(r)
    BY <1>15, MovingSlots DEF Finish, ReleaseClaim
  <1>16. CASE ReleaseReservation(r)
    <2>1. r \in Reserving
      BY <1>16 DEF ReleaseReservation, Reserving
    <2>2. /\ ReservationsCovered'
          /\ pendingLoads > 0 /\ pendingLoads' = pendingLoads - 1
      BY <1>16, <2>1, ReservingMoves, GivingStep DEF ReleaseReservation
    <2>3. AbstractSlots!Release
      BY <1>16, <2>2 DEF ReleaseReservation, AbstractSlots!Release, Loaded
    <2>. QED BY <2>2, <2>3 DEF SlotsStep, AbstractSlots!Next
  <1>. QED BY <1>1, <1>2, <1>3, <1>4, <1>5, <1>6, <1>7, <1>8, <1>9, <1>10,
              <1>11, <1>12, <1>13, <1>14, <1>15, <1>16 DEF Load

LEMMA OtherSlots ==
  ASSUME TypeInv, ReservationsCovered,
         \/ \E u \in Unloads : UnloadLock(u) \/ Unloading(u)
         \/ ReapIdleModels
         \/ \E b \in Backends : Crash(b)
         \/ UNCHANGED vars
  PROVE  ReservationsCovered' /\ SlotsStep
  <1>1. UNCHANGED <<pc, pendingLoads>>
    BY DEF UnloadLock, Unloading, UnloadByKey, UnloadByDigest, ReapIdleModels,
           Crash, vars, mgrVars
  <1>2. UNCHANGED running \/ \E K : Unregister(K)
    BY DEF UnloadLock, Unloading, UnloadByKey, UnloadByDigest, ReapIdleModels,
           Crash, Drop, vars, mgrVars
  <1>3. Loaded' \subseteq Loaded
    BY <1>2, UnregisterShrinks DEF Loaded
  <1>. QED BY <1>1, <1>3, QuietStep DEF Reserving

LEMMA SlotsNext ==
  ASSUME TypeInv, ReservationsCovered, [Next]_vars
  PROVE  ReservationsCovered' /\ SlotsStep
  BY RequestSlots, OtherSlots DEF Next

\* No slot is released twice or before its load is over, whichever way the
\* load ends (PendingLoadGuard).
THEOREM ReservationsAlwaysCovered == Spec => []ReservationsCovered
  <1>1. Init => ReservationsCovered
    <2> SUFFICES ASSUME Init PROVE ReservationsCovered
      OBVIOUS
    <2>1. Reserving = {} /\ pendingLoads = 0
      BY DEF Init, Reserving
    <2>. QED BY <2>1, FS_EmptySet DEF ReservationsCovered
  <1>2. TypeInv /\ ReservationsCovered /\ [Next]_vars => ReservationsCovered'
    BY SlotsNext
  <1>. QED BY <1>1, <1>2, TypeCorrect, PTL DEF Spec

\* The scheduler implements Slots: what it does to the loaded models and to
\* pending_loads is at each step what the abstract specification allows.
THEOREM SchedulerImplementsSlots == Spec => ImplementsSlots
  <1>1. Init => AbstractSlots!Init
    BY DEF Init, AbstractSlots!Init, Loaded
  <1>2. TypeInv /\ ReservationsCovered /\ [Next]_vars => SlotsStep
    BY SlotsNext
  <1>. QED BY <1>1, <1>2, TypeCorrect, ReservationsAlwaysCovered, PTL
           DEF Spec, ImplementsSlots, AbstractSlots!Spec, SlotsStep

-----------------------------------------------------------------------------
(* What Slots promises, it promises of the slots of the scheduler.         *)

SlotsInv == AbstractSlots!TypeOK /\ AbstractSlots!Bounded

\* Slots counts as the scheduler does.
LEMMA SameCardinality == \A S : Cardinality(S) = AbstractSlots!Cardinality(S)
  BY DEF Cardinality, AbstractSlots!Cardinality

LEMMA SameTaken == AbstractSlots!Taken = Cardinality(Loaded) + pendingLoads
  BY SameCardinality DEF AbstractSlots!Taken

LEMMA SlotsInvKept ==
  ASSUME SlotsInv, SlotsStep
  PROVE  SlotsInv'
  <1> DEFINE loaded == Loaded
             reserved == pendingLoads
  <1>1. /\ loaded \subseteq Refs /\ reserved \in Nat
        /\ MaxLoaded # 0 => Cardinality(loaded) + reserved <= MaxLoaded
    BY SameTaken DEF SlotsInv, AbstractSlots!TypeOK, AbstractSlots!Bounded
  <1>2. IsFiniteSet(loaded) /\ Cardinality(loaded) \in Nat /\ MaxLoaded \in Nat
    BY <1>1, FS_Subset, FS_CardinalityType, RefsAssumption, LimitsAssumption
  <1>3. AbstractSlots!Taken' = Cardinality(loaded') + reserved'
    BY SameCardinality DEF AbstractSlots!Taken
  <1>4. SUFFICES /\ loaded' \subseteq Refs /\ reserved' \in Nat
                 /\ MaxLoaded # 0 => Cardinality(loaded') + reserved' <= MaxLoaded
    BY <1>3 DEF SlotsInv, AbstractSlots!TypeOK, AbstractSlots!Bounded
  <1>5. CASE AbstractSlots!Reserve \/ AbstractSlots!Release
    BY <1>1, <1>2, <1>5, SameTaken DEF AbstractSlots!Reserve, AbstractSlots!Release
  <1>6. ASSUME NEW m \in Refs, AbstractSlots!Swap(m)
        PROVE  /\ loaded' \subseteq Refs /\ reserved' \in Nat
               /\ MaxLoaded # 0 => Cardinality(loaded') + reserved' <= MaxLoaded
    <2>1. m \in loaded /\ loaded' = loaded \ {m} /\ reserved' = reserved + 1
      BY <1>6 DEF AbstractSlots!Swap
    <2>2. Cardinality(loaded \ {m}) = Cardinality(loaded) - 1
      BY <1>2, <2>1, FS_RemoveElement
    <2> HIDE DEF loaded, reserved
    <2>. QED BY <1>1, <1>2, <2>1, <2>2
  <1>7. ASSUME NEW m \in Refs, AbstractSlots!Fill(m)
        PROVE  /\ loaded' \subseteq Refs /\ reserved' \in Nat
               /\ MaxLoaded # 0 => Cardinality(loaded') + reserved' <= MaxLoaded
    <2>1. loaded' = loaded \cup {m} /\ reserved' = reserved - 1 /\ reserved > 0
      BY <1>7 DEF AbstractSlots!Fill
    <2> HIDE DEF loaded, reserved
    <2>2. Cardinality(loaded \cup {m}) =
            IF m \in loaded THEN Cardinality(loaded) ELSE Cardinality(loaded) + 1
      BY <1>2, FS_AddElement, Zenon
    <2>. QED BY <1>1, <1>2, <2>1, <2>2
  <1>8. ASSUME NEW S, AbstractSlots!Vacate(S)
        PROVE  /\ loaded' \subseteq Refs /\ reserved' \in Nat
               /\ MaxLoaded # 0 => Cardinality(loaded') + reserved' <= MaxLoaded
    <2>1. loaded' = loaded \ S /\ reserved' = reserved
      BY <1>8 DEF AbstractSlots!Vacate
    <2>2. Cardinality(loaded \ S) <= Cardinality(loaded) /\ Cardinality(loaded \ S) \in Nat
      BY <1>2, FS_Subset, FS_CardinalityType
    <2> HIDE DEF loaded, reserved
    <2>. QED BY <1>1, <1>2, <2>1, <2>2
  <1>9. CASE UNCHANGED AbstractSlots!slots
    BY <1>1, <1>9 DEF AbstractSlots!slots
  <1>. QED BY <1>5, <1>6, <1>7, <1>8, <1>9 DEF SlotsStep, AbstractSlots!Next

\* Reserving before loading, and handing over a slot with the model that
\* leaves it, keep models and reservations under the cap together: so
\* promises the abstract specification.
THEOREM SlotsBounded == AbstractSlots!Spec => []AbstractSlots!Bounded
  <1>1. AbstractSlots!Init => SlotsInv
    BY FS_EmptySet, SameTaken, LimitsAssumption
       DEF AbstractSlots!Init, SlotsInv, AbstractSlots!TypeOK, AbstractSlots!Bounded
  <1>2. SlotsInv /\ [AbstractSlots!Next]_(AbstractSlots!slots) => SlotsInv'
    BY SlotsInvKept DEF SlotsStep
  <1>3. SlotsInv => AbstractSlots!Bounded
    BY DEF SlotsInv
  <1>. QED BY <1>1, <1>2, <1>3, PTL DEF AbstractSlots!Spec

\* LLMMAN_MAX_LOADED_MODELS is kept by models and reservations together,
\* because Slots keeps its cap and the scheduler implements Slots.
THEOREM CapacityKept == Spec => []CapacityRespected
  <1>1. AbstractSlots!Bounded => CapacityRespected
    BY SameTaken DEF AbstractSlots!Bounded, CapacityRespected, Committed
  <1>. QED BY <1>1, SlotsBounded, SchedulerImplementsSlots, PTL DEF ImplementsSlots

-----------------------------------------------------------------------------
(* No reservation is lost either, but for a client that leaves while the   *)
(* victim of its load stops: the PendingLoadGuard does not exist there.    *)

\* A move that keeps r's reservation, or its having none.
LEMMA KeepingExact ==
  ASSUME TypeInv, ReservationsExact, NEW r \in Requests, NEW next,
         Goto(r, next), next \in Slotted <=> pc[r] \in Slotted,
         UNCHANGED pendingLoads
  PROVE  ReservationsExact'
  <1>1. Reserving' = Reserving
    BY DEF TypeInv, TypeOK, Goto, Reserving, Slotted
  <1>. QED BY <1>1 DEF ReservationsExact

LEMMA TakingExact ==
  ASSUME TypeInv, ReservationsExact, NEW r \in Requests, NEW next,
         Goto(r, next), next \in Slotted, pc[r] \notin Slotted,
         pendingLoads' = pendingLoads + 1
  PROVE  ReservationsExact'
  <1>1. Reserving' = Reserving \cup {r} /\ r \notin Reserving
    BY DEF TypeInv, TypeOK, Goto, Reserving, Slotted
  <1>2. Cardinality(Reserving') = Cardinality(Reserving) + 1
    BY <1>1, CountsFinite, FS_AddElement
  <1>. QED BY <1>2 DEF ReservationsExact

LEMMA GivingExact ==
  ASSUME TypeInv, ReservationsExact, NEW r \in Requests, NEW next,
         Goto(r, next), next \notin Slotted, pc[r] \in Slotted,
         pendingLoads' = Less(pendingLoads)
  PROVE  ReservationsExact'
  <1>1. Reserving' = Reserving \ {r} /\ r \in Reserving
    BY DEF TypeInv, TypeOK, Goto, Reserving, Slotted
  <1>2. Cardinality(Reserving') = Cardinality(Reserving) - 1
    BY <1>1, CountsFinite, FS_RemoveElement
  <1>3. Cardinality(Reserving) # 0
    BY <1>1, CountsFinite, FS_EmptySet
  <1>. QED BY <1>2, <1>3, CountsFinite DEF ReservationsExact, Less

\* Whatever ends a load early, but while its victim stops.
LEMMA AbandonExact ==
  ASSUME TypeInv, ReservationsExact, NEW r \in Requests, Abandon(r),
         pc[r] \notin {"stopVictim", "releasing"}
  PROVE  ReservationsExact'
  <1>1. PICK next : Goto(r, next) /\ (next \in Slotted <=> pc[r] \in Slotted)
    BY DEF Abandon, Slotted
  <1>2. UNCHANGED pendingLoads
    BY DEF Abandon, mgrVars
  <1>. QED BY <1>1, <1>2, KeepingExact

LEMMA LookupExact ==
  ASSUME TypeInv, ReservationsExact, NEW r \in Requests, NEW next,
         next \notin Slotted, pc[r] \notin Slotted,
         \/ \E k \in Refs : Claim(r, k)
         \/ \E dead : Miss(r, dead, next)
  PROVE  ReservationsExact'
  <1>1. CASE \E k \in Refs : Claim(r, k)
    BY <1>1, KeepingExact DEF Claim, Slotted
  <1>2. CASE \E dead : Miss(r, dead, next)
    BY <1>2, KeepingExact DEF Miss
  <1>. QED BY <1>1, <1>2

LEMMA RequestExact ==
  ASSUME TypeInv, ReservationsExact, NEW r \in Requests,
         \/ Arrive(r) \/ Load(r) \/ AcquireLoadLock(r) \/ Finish(r)
         \/ ReleaseClaim(r) \/ ReleaseReservation(r)
  PROVE  ReservationsExact'
  <1> USE DEF Slotted, mgrVars
  <1>0. want[r].ref \in Refs
    BY RefsAssumption DEF TypeInv, TypeOK
  <1>1. CASE Arrive(r) \/ AcquireLoadLock(r) \/ Finish(r) \/ ReleaseClaim(r)
    BY <1>1, KeepingExact DEF Arrive, AcquireLoadLock, Finish, ReleaseClaim
  <1>2. CASE FastPath(r) \/ Recheck(r) \/ Rejoin(r)
    BY <1>0, <1>2, LookupExact DEF FastPath, Recheck, Rejoin, CheckRunningFor
  <1>3. CASE CheckRunningByDigest(r)
    BY <1>3, LookupExact DEF CheckRunningByDigest, Loaded
  <1>4. CASE TryAdmit(r)
    BY <1>4, KeepingExact DEF TryAdmit
  <1>5. CASE Pull(r) \/ Plan(r) \/ RejectBusy(r)
    BY <1>5, AbandonExact, KeepingExact DEF Pull, Plan, RejectBusy
  <1>6. CASE RetireForContext(r)
    <2>1. CASE StopForSlot(r, want[r].ref, "stopRetired")
      BY <1>6, <2>1, TakingExact DEF RetireForContext, StopForSlot
    <2>2. CASE Goto(r, "slot") /\ UNCHANGED pendingLoads
      BY <1>6, <2>2, KeepingExact DEF RetireForContext
    <2>3. CASE UNCHANGED <<pendingLoads, pc>>
      BY <2>3 DEF ReservationsExact, Reserving
    <2>. QED BY <1>6, <2>1, <2>2, <2>3 DEF RetireForContext
  <1>7. CASE ReserveSlot(r)
    BY <1>7, TakingExact DEF ReserveSlot
  <1>8. CASE EvictForSlot(r)
    BY <1>8, TakingExact DEF EvictForSlot, StopForSlot
  <1>9. CASE Stopped(r) \/ EvictOthers(r)
    BY <1>9, KeepingExact DEF Stopped, EvictOthers
  <1>10. CASE Spawn(r)
    BY <1>10, AbandonExact, KeepingExact DEF Spawn
  <1>11. CASE WaitForReady(r)
    BY <1>11, AbandonExact, KeepingExact DEF WaitForReady
  <1>12. CASE ReduceAndRetry(r)
    BY <1>12, AbandonExact, KeepingExact DEF ReduceAndRetry
  <1>13. CASE Insert(r)
    BY <1>13, GivingExact DEF Insert
  <1>14. CASE ReleaseReservation(r)
    BY <1>14, GivingExact DEF ReleaseReservation
  <1>. QED BY <1>1, <1>2, <1>3, <1>4, <1>5, <1>6, <1>7, <1>8, <1>9, <1>10,
              <1>11, <1>12, <1>13, <1>14 DEF Load

\* While no client disconnects, pending_loads is exactly the number of loads
\* under way: errors, out-of-memory retries, evictions and retirements all
\* give back the slot they took (PendingLoadGuard).
THEOREM NoneLostUncancelled ==
  ASSUME Impatient = {}
  PROVE  Spec => []ReservationsExact
  <1>1. Init => ReservationsExact
    <2> SUFFICES ASSUME Init PROVE ReservationsExact
      OBVIOUS
    <2>1. Reserving = {} /\ pendingLoads = 0
      BY DEF Init, Reserving
    <2>. QED BY <2>1, FS_EmptySet DEF ReservationsExact
  <1>2. TypeInv /\ ReservationsExact /\ [Next]_vars => ReservationsExact'
    <2> SUFFICES ASSUME TypeInv, ReservationsExact, [Next]_vars
                 PROVE  ReservationsExact'
      OBVIOUS
    <2>1. \A r \in Requests : ~Disconnect(r)
      BY DEF Disconnect
    <2>2. CASE \/ \E u \in Unloads : UnloadLock(u) \/ Unloading(u)
               \/ ReapIdleModels
               \/ \E b \in Backends : Crash(b)
               \/ UNCHANGED vars
      <3>1. UNCHANGED <<pc, pendingLoads>>
        BY <2>2 DEF UnloadLock, Unloading, UnloadByKey, UnloadByDigest,
                    ReapIdleModels, Crash, vars, mgrVars
      <3>. QED BY <3>1 DEF ReservationsExact, Reserving
    <2>. QED BY <2>1, <2>2, RequestExact DEF Next
  <1>. QED BY <1>1, <1>2, TypeCorrect, PTL DEF Spec

-----------------------------------------------------------------------------
(* The queue. *)

InQueue == {r \in Requests : pc[r] \in Queued}

LEMMA QueueFinite ==
  ASSUME TypeInv, QueueAccounted
  PROVE  /\ IsFiniteSet(InQueue) /\ Cardinality(InQueue) \in Nat
         /\ pendingRequests = Cardinality(InQueue) /\ QueueCap \in Nat
  <1>1. InQueue \subseteq Requests
    BY DEF InQueue
  <1>2. QueueCap \in Nat
    BY LimitsAssumption DEF QueueCap
  <1>. QED BY <1>1, <1>2, RefsAssumption, FS_Subset, FS_CardinalityType
           DEF QueueAccounted, InQueue

\* A step that keeps r in the queue or out of it.
LEMMA StayingQueue ==
  ASSUME TypeInv, QueueAccounted, NEW r \in Requests, NEW next,
         Goto(r, next), next \in Queued <=> pc[r] \in Queued,
         UNCHANGED pendingRequests
  PROVE  QueueAccounted'
  <1>1. InQueue' = InQueue
    BY DEF InQueue, Goto, TypeInv, TypeOK
  <1>2. QueueCap' = QueueCap
    BY DEF QueueCap
  <1>. QED BY <1>1, <1>2 DEF QueueAccounted, InQueue

\* A step by which r leaves the queue, if it is there (QueueGuard).
LEMMA LeavingQueue ==
  ASSUME TypeInv, QueueAccounted, NEW r \in Requests, NEW next,
         Goto(r, next), next \notin Queued, Leave(r)
  PROVE  QueueAccounted'
  <1>1. InQueue' = InQueue \ {r}
    BY DEF InQueue, Goto, TypeInv, TypeOK
  <1>2. r \in InQueue <=> pc[r] \in Queued
    BY DEF InQueue
  <1>3. Cardinality(InQueue') = IF r \in InQueue THEN Cardinality(InQueue) - 1
                                                 ELSE Cardinality(InQueue)
    BY <1>1, QueueFinite, FS_RemoveElement
  <1>4. pendingRequests' = Cardinality(InQueue') /\ pendingRequests' <= pendingRequests
    BY <1>2, <1>3, QueueFinite DEF Leave
  <1>5. QueueCap' = QueueCap /\ pendingRequests <= QueueCap
    BY DEF QueueCap, QueueAccounted
  <1>. QED BY <1>1, <1>3, <1>4, <1>5, QueueFinite DEF QueueAccounted, InQueue

LEMMA AbandonQueue ==
  ASSUME TypeInv, QueueAccounted, NEW r \in Requests, Abandon(r)
  PROVE  QueueAccounted'
  BY LeavingQueue DEF Abandon

LEMMA LookupQueue ==
  ASSUME TypeInv, QueueAccounted, NEW r \in Requests, NEW next,
         next \in Queued <=> pc[r] \in Queued,
         \/ \E k \in Refs : Claim(r, k)
         \/ \E dead : Miss(r, dead, next)
  PROVE  QueueAccounted'
  BY LeavingQueue, StayingQueue DEF Claim, Miss, lockVars

LEMMA AdmitQueue ==
  ASSUME TypeInv, QueueAccounted, NEW r \in Requests, TryAdmit(r)
  PROVE  QueueAccounted'
  <1>1. CASE Goto(r, "idle") /\ Leave(r)
    BY <1>1, LeavingQueue DEF TryAdmit
  <1>2. CASE /\ pendingRequests < QueueCap
             /\ pendingRequests' = pendingRequests + 1
             /\ Goto(r, "lock")
    <2>1. InQueue' = InQueue \cup {r} /\ r \notin InQueue
      BY <1>2 DEF TryAdmit, InQueue, Goto, TypeInv, TypeOK
    <2>2. Cardinality(InQueue') = Cardinality(InQueue) + 1
      BY <2>1, QueueFinite, FS_AddElement
    <2>3. QueueCap' = QueueCap
      BY DEF QueueCap
    <2>. QED BY <1>2, <2>2, <2>3, QueueFinite DEF QueueAccounted, InQueue
  <1>. QED BY <1>1, <1>2 DEF TryAdmit

LEMMA RequestQueue ==
  ASSUME TypeInv, QueueAccounted, NEW r \in Requests,
         \/ Arrive(r) \/ Load(r) \/ AcquireLoadLock(r) \/ Finish(r)
         \/ ReleaseClaim(r) \/ ReleaseReservation(r) \/ Disconnect(r)
  PROVE  QueueAccounted'
  <1> USE DEF lockVars
  <1>0. want[r].ref \in Refs
    BY RefsAssumption DEF TypeInv, TypeOK
  <1>1. CASE Arrive(r) \/ AcquireLoadLock(r)
    BY <1>1, StayingQueue DEF Arrive, AcquireLoadLock
  <1>2. CASE FastPath(r) \/ Recheck(r) \/ Rejoin(r)
    BY <1>0, <1>2, LookupQueue DEF FastPath, Recheck, Rejoin, CheckRunningFor
  <1>3. CASE CheckRunningByDigest(r)
    BY <1>3, LookupQueue DEF CheckRunningByDigest, Loaded
  <1>4. CASE TryAdmit(r)
    BY <1>4, AdmitQueue
  <1>5. CASE Pull(r) \/ Plan(r) \/ RejectBusy(r) \/ Disconnect(r)
    BY <1>5, AbandonQueue, StayingQueue DEF Pull, Plan, RejectBusy, Disconnect
  <1>6. CASE RetireForContext(r)
    <2>1. CASE UNCHANGED <<pc, pendingRequests>>
      BY <2>1 DEF QueueAccounted, QueueCap
    <2>2. CASE \E next \in Locked : Goto(r, next) /\ UNCHANGED pendingRequests
      BY <1>6, <2>2, StayingQueue DEF RetireForContext
    <2>. QED BY <1>6, <2>1, <2>2 DEF RetireForContext, StopForSlot
  <1>7. CASE ReserveSlot(r) \/ Stopped(r) \/ EvictOthers(r)
    BY <1>7, StayingQueue DEF ReserveSlot, Stopped, EvictOthers
  <1>8. CASE EvictForSlot(r)
    BY <1>8, StayingQueue DEF EvictForSlot, StopForSlot
  <1>9. CASE Spawn(r)
    BY <1>9, AbandonQueue, StayingQueue DEF Spawn
  <1>10. CASE WaitForReady(r)
    BY <1>10, AbandonQueue, StayingQueue DEF WaitForReady
  <1>11. CASE ReduceAndRetry(r)
    BY <1>11, AbandonQueue, StayingQueue DEF ReduceAndRetry
  <1>12. CASE Insert(r)
    BY <1>12, LeavingQueue DEF Insert
  <1>13. CASE Finish(r) \/ ReleaseClaim(r) \/ ReleaseReservation(r)
    BY <1>13, StayingQueue DEF Finish, ReleaseClaim, ReleaseReservation
  <1>. QED BY <1>1, <1>2, <1>3, <1>4, <1>5, <1>6, <1>7, <1>8, <1>9, <1>10,
              <1>11, <1>12, <1>13 DEF Load

\* PENDING_REQUESTS is the number of admitted requests, and at most
\* LLMMAN_MAX_QUEUE, on every path out of a load.
THEOREM QueueAlwaysAccounted == Spec => []QueueAccounted
  <1>1. Init => QueueAccounted
    <2> SUFFICES ASSUME Init PROVE QueueAccounted
      OBVIOUS
    <2>1. {r \in Requests : pc[r] \in Queued} = {} /\ pendingRequests = 0
      BY DEF Init
    <2>. QED BY <2>1, FS_EmptySet, LimitsAssumption DEF QueueAccounted, QueueCap
  <1>2. TypeInv /\ QueueAccounted /\ [Next]_vars => QueueAccounted'
    <2> SUFFICES ASSUME TypeInv, QueueAccounted, [Next]_vars
                 PROVE  QueueAccounted'
      OBVIOUS
    <2>1. CASE \/ \E u \in Unloads : UnloadLock(u) \/ Unloading(u)
               \/ ReapIdleModels
               \/ \E b \in Backends : Crash(b)
               \/ UNCHANGED vars
      <3>1. UNCHANGED <<pc, pendingRequests>>
        BY <2>1 DEF UnloadLock, Unloading, UnloadByKey, UnloadByDigest,
                    ReapIdleModels, Crash, vars, lockVars
      <3>. QED BY <3>1 DEF QueueAccounted, QueueCap
    <2>. QED BY <2>1, RequestQueue DEF Next
  <1>. QED BY <1>1, <1>2, TypeCorrect, PTL DEF Spec

-----------------------------------------------------------------------------
(* What requests share.  Claims: in_flight of a model is never more than   *)
(* the ActivityGuards outstanding on its key, by an argument about         *)
(* ownership: a backend is in the map under one key, or held by one task,  *)
(* so a claim counted on a backend is counted on one key.  Models: one     *)
(* content is loaded once, and never replaced, where nobody asks for a     *)
(* window of its own.  Service: where backends live and nobody unloads, a  *)
(* request keeps the backend it is served by.                              *)

USE DEF Reserved, Locked, Queued, Claiming, PC

\* A backend has one owner: one entry of the map, or one task.
OwnedOnce ==
  /\ \A j, k \in Loaded : running[j] = running[k] => j = k
  /\ \A k \in Loaded, r \in Requests : running[k] \notin holds[r]
  /\ \A r, s \in Requests : r # s => holds[r] \cap holds[s] = {}

\* What is owned has not been forgotten, so Spawn gives its name to nobody.
OwnedAlive ==
  /\ \A k \in Loaded : proc[running[k]] # "none"
  /\ \A r \in Requests : \A b \in holds[r] : proc[b] # "none"

\* A request that is neither served nor about to give its claim back has none.
GuardsOwned == \A r \in Requests : pc[r] \notin Claiming => guardKey[r] = None

Owned == OwnedOnce /\ OwnedAlive
ClaimsInv == Owned /\ GuardsOwned /\ ClaimsNotLeaked

Guards(k) == {r \in Requests : guardKey[r] = k}

LEMMA GuardsFinite ==
  ASSUME NEW k
  PROVE  IsFiniteSet(Guards(k)) /\ Cardinality(Guards(k)) \in Nat
  <1>1. Guards(k) \subseteq Requests
    BY DEF Guards
  <1>. QED BY <1>1, RefsAssumption, FS_Subset, FS_CardinalityType

-----------------------------------------------------------------------------
(* Ownership moves from the map to one task, and dies. *)

\* The entries under K leave the map; r may take what leaves, or what nobody
\* owned.
Leaving(K) == \A k \in Refs : running'[k] = IF k \in K THEN None ELSE running[k]
Taking(r, K) ==
  \A s \in Requests : \A b \in holds'[s] :
    \/ b \in holds[s]
    \/ s = r /\ \E k \in Loaded : k \in K /\ b = running[k]
    \/ s = r /\ b \in Backends /\ proc[b] = "none"

LEMMA Handed ==
  ASSUME TypeInv, Owned, NEW r, NEW K, Leaving(K), Taking(r, K)
  PROVE  OwnedOnce'
  <1> USE DEF Leaving, Taking
  <1>1. Loaded' = Loaded \ K /\ \A k \in Loaded' : running'[k] = running[k]
    BY DEF Loaded
  <1>2. \A j, k \in Loaded' : running'[j] = running'[k] => j = k
    BY <1>1 DEF Owned, OwnedOnce
  <1>3. ASSUME NEW k \in Loaded', NEW s \in Requests, running'[k] \in holds'[s]
        PROVE  FALSE
    BY <1>1, <1>3 DEF Owned, OwnedOnce, OwnedAlive
  <1>4. ASSUME NEW s \in Requests, NEW t \in Requests, s # t,
               NEW b, b \in holds'[s], b \in holds'[t]
        PROVE  FALSE
    BY <1>4 DEF Owned, OwnedOnce, OwnedAlive
  <1>. QED BY <1>2, <1>3, <1>4 DEF OwnedOnce

LEMMA EntriesLeave ==
  ASSUME TypeInv, Owned, NEW K \in SUBSET Refs, Unregister(K), Kill(Under(K)),
         UNCHANGED holds
  PROVE  Owned'
  <1>1. OwnedOnce'
    <2>1. Leaving(K) /\ Taking(None, K)
      BY DEF Leaving, Taking, Unregister
    <2>. QED BY <2>1, Handed
  <1>2. Loaded' = Loaded \ K /\ \A k \in Loaded' : running'[k] = running[k]
    BY DEF Loaded, Unregister
  <1>3. ASSUME NEW b \in Backends, proc'[b] = "none", proc[b] # "none"
        PROVE  b \in Under(K)
    BY <1>3 DEF Kill
  <1>4. ASSUME NEW k \in Loaded' PROVE proc'[running'[k]] # "none"
    <2>1. k \in Loaded /\ k \notin K /\ running'[k] = running[k] /\ running[k] \in Backends
      BY <1>2 DEF Loaded, TypeInv, TypeOK
    <2>2. running[k] \notin Under(K)
      BY <2>1 DEF Under, Owned, OwnedOnce, Loaded
    <2>. QED BY <1>3, <2>1, <2>2 DEF Owned, OwnedAlive
  <1>5. ASSUME NEW r \in Requests, NEW b \in holds'[r] PROVE proc'[b] # "none"
    <2>1. b \in holds[r] /\ b \in Backends /\ b # None
      BY ActorsAssumption DEF TypeInv, TypeOK
    <2>2. b \notin Under(K)
      BY <2>1 DEF Under, Owned, OwnedOnce, Loaded
    <2>. QED BY <1>3, <2>1, <2>2 DEF Owned, OwnedAlive
  <1>. QED BY <1>1, <1>4, <1>5 DEF Owned, OwnedAlive

LEMMA HeldDies ==
  ASSUME TypeInv, Owned, NEW r \in Requests, Kill(holds[r]),
         holds' = [holds EXCEPT ![r] = {}], UNCHANGED running
  PROVE  Owned'
  <1>1. OwnedOnce'
    <2>1. Leaving({})
      BY DEF Leaving
    <2>2. Taking(r, {})
      BY DEF Taking, TypeInv, TypeOK
    <2>. QED BY <2>1, <2>2, Handed
  <1>. QED BY <1>1 DEF Owned, OwnedOnce, OwnedAlive, Kill, Loaded, TypeInv, TypeOK

\* Nothing dies but what nobody owns, and nothing new is owned.
LEMMA OwnersStay ==
  ASSUME TypeInv, Owned, UNCHANGED <<running, holds>>,
         \A b \in Backends : proc[b] # "none" => proc'[b] # "none"
  PROVE  Owned'
  BY DEF Owned, OwnedOnce, OwnedAlive, Loaded, TypeInv, TypeOK

-----------------------------------------------------------------------------
(* Claims, by what a step does to them. *)

LEMMA NoMoreClaims ==
  ASSUME ClaimsNotLeaked, UNCHANGED guardKey,
         \A k \in Loaded' : /\ k \in Loaded
                            /\ inFlight'[running'[k]] <= inFlight[running[k]],
         TypeInv, TypeInv'
  PROVE  ClaimsNotLeaked'
  <1> SUFFICES ASSUME NEW k \in Loaded'
               PROVE  inFlight'[running'[k]] <= Cardinality(Guards(k)')
    BY DEF ClaimsNotLeaked, Guards
  <1>1. Guards(k)' = Guards(k)
    BY DEF Guards
  <1>2. inFlight[running[k]] <= Cardinality(Guards(k))
    BY DEF ClaimsNotLeaked, Guards
  <1>3. inFlight[running[k]] \in Nat /\ inFlight'[running'[k]] \in Nat
    BY DEF TypeInv, TypeOK, Loaded
  <1>. QED BY <1>1, <1>2, <1>3, GuardsFinite

LEMMA EntriesClaims ==
  ASSUME TypeInv, TypeInv', ClaimsNotLeaked, NEW K, Unregister(K), UNCHANGED guardKey
  PROVE  ClaimsNotLeaked'
  <1>1. ASSUME NEW k \in Loaded'
        PROVE  k \in Loaded /\ inFlight'[running'[k]] <= inFlight[running[k]]
    <2>1. k \in Loaded /\ running'[k] = running[k]
      BY DEF Unregister, Loaded
    <2>2. inFlight[running[k]] \in Nat /\ running[k] \in Backends
      BY <2>1 DEF Loaded, TypeInv, TypeOK
    <2>. QED BY <2>1, <2>2 DEF Unregister
  <1>. QED BY <1>1, NoMoreClaims

LEMMA SameClaims ==
  ASSUME TypeInv, TypeInv', ClaimsNotLeaked, UNCHANGED <<running, inFlight, guardKey>>
  PROVE  ClaimsNotLeaked'
  BY DEF ClaimsNotLeaked, Loaded

\* A request moves without a claim, or keeps it.
LEMMA MoveGuards ==
  ASSUME TypeInv, GuardsOwned, NEW r \in Requests, NEW next, Goto(r, next),
         UNCHANGED guardKey, next \in Claiming \/ pc[r] \notin Claiming
  PROVE  GuardsOwned'
  BY DEF GuardsOwned, Goto, TypeInv, TypeOK

LEMMA AbandonClaims ==
  ASSUME TypeInv, TypeInv', ClaimsInv, NEW r \in Requests, Abandon(r),
         pc[r] \notin Claiming
  PROVE  ClaimsInv'
  <1>1. Owned'
    BY HeldDies DEF Abandon, mgrVars, ClaimsInv
  <1>2. GuardsOwned'
    BY MoveGuards DEF Abandon, guards, ClaimsInv
  <1>3. ClaimsNotLeaked'
    BY SameClaims DEF Abandon, mgrVars, guards, ClaimsInv
  <1>. QED BY <1>1, <1>2, <1>3 DEF ClaimsInv

LEMMA ClaimClaims ==
  ASSUME TypeInv, TypeInv', ClaimsInv, NEW r \in Requests, NEW k \in Loaded,
         Claim(r, k), pc[r] \notin Claiming
  PROVE  ClaimsInv'
  <1>0. k \in Refs /\ running[k] \in Backends /\ guardKey[r] = None
    BY DEF Loaded, TypeInv, TypeOK, ClaimsInv, GuardsOwned
  <1>1. Owned'
    BY OwnersStay DEF Claim, loadVars, ClaimsInv
  <1>2. GuardsOwned'
    BY DEF ClaimsInv, GuardsOwned, Claim, Goto, TypeInv, TypeOK
  <1>3. ASSUME NEW j \in Loaded'
        PROVE  inFlight'[running'[j]] <= Cardinality(Guards(j)')
    <2>1. j \in Loaded /\ running'[j] = running[j] /\ running[j] \in Backends /\ j \in Refs
      BY DEF Claim, Loaded, TypeInv, TypeOK
    <2>2. inFlight[running[j]] \in Nat /\ inFlight[running[j]] <= Cardinality(Guards(j))
      BY <2>1 DEF ClaimsInv, ClaimsNotLeaked, Guards, TypeInv, TypeOK
    <2>3. CASE j = k
      <3>1. Guards(j)' = Guards(j) \cup {r} /\ r \notin Guards(j)
        BY <1>0, <2>3, ActorsAssumption DEF Guards, Claim, TypeInv, TypeOK
      <3>2. Cardinality(Guards(j)') = Cardinality(Guards(j)) + 1
        BY <3>1, GuardsFinite, FS_AddElement
      <3>3. inFlight'[running'[j]] = inFlight[running[j]] + 1
        BY <2>1, <2>3 DEF Claim, TypeInv, TypeOK
      <3>. QED BY <2>2, <3>2, <3>3, GuardsFinite
    <2>4. CASE j # k
      <3>1. Guards(j)' = Guards(j)
        BY <1>0, <2>1, <2>4, ActorsAssumption DEF Guards, Claim, TypeInv, TypeOK
      <3>2. running[j] # running[k]
        BY <2>1, <2>4 DEF ClaimsInv, Owned, OwnedOnce
      <3>3. inFlight'[running'[j]] = inFlight[running[j]]
        BY <2>1, <3>2 DEF Claim, TypeInv, TypeOK
      <3>. QED BY <2>2, <3>1, <3>3
    <2>. QED BY <2>3, <2>4
  <1>. QED BY <1>1, <1>2, <1>3 DEF ClaimsInv, ClaimsNotLeaked, Guards

LEMMA MissClaims ==
  ASSUME TypeInv, TypeInv', ClaimsInv, NEW r \in Requests,
         NEW dead \in SUBSET Refs, NEW next, Miss(r, dead, next), pc[r] \notin Claiming
  PROVE  ClaimsInv'
  <1>1. Owned'
    BY EntriesLeave DEF Miss, loadVars, ClaimsInv
  <1>2. GuardsOwned'
    BY MoveGuards DEF Miss, ClaimsInv
  <1>3. ClaimsNotLeaked'
    BY EntriesClaims DEF Miss, ClaimsInv
  <1>. QED BY <1>1, <1>2, <1>3 DEF ClaimsInv

LEMMA CheckRunningForClaims ==
  ASSUME TypeInv, TypeInv', ClaimsInv, NEW r \in Requests, NEW next,
         CheckRunningFor(r, next), pc[r] \notin Claiming
  PROVE  ClaimsInv'
  <1>1. want[r].ref \in Refs
    BY RefsAssumption DEF TypeInv, TypeOK
  <1>2. CASE \E k \in Loaded : Claim(r, k)
    BY <1>2, ClaimClaims
  <1>3. CASE \E dead \in SUBSET Refs : Miss(r, dead, next)
    BY <1>3, MissClaims
  <1>. QED BY <1>1, <1>2, <1>3 DEF CheckRunningFor, Loaded

LEMMA StopForSlotClaims ==
  ASSUME TypeInv, TypeInv', ClaimsInv, NEW r \in Requests, NEW k \in Loaded,
         NEW next, StopForSlot(r, k, next), pc[r] \notin Claiming
  PROVE  ClaimsInv'
  <1>0. k \in Refs /\ running[k] \in Backends
    BY DEF Loaded, TypeInv, TypeOK
  <1>1. OwnedOnce'
    <2>0. /\ holds' = [holds EXCEPT ![r] = {running[k]}]
          /\ holds \in [Requests -> SUBSET Backends]
      BY DEF StopForSlot, TypeInv, TypeOK
    <2>1. ASSUME NEW s \in Requests, NEW b \in holds'[s]
          PROVE  b \in holds[s] \/ (s = r /\ b = running[k])
      BY <2>0, <2>1
    <2>2. Taking(r, {k})
      BY <2>1 DEF Taking
    <2>3. Leaving({k})
      BY DEF Leaving, StopForSlot, Unregister
    <2>. QED BY <2>2, <2>3, Handed DEF ClaimsInv
  <1>2. OwnedAlive'
    <2>1. \A b \in Backends : proc[b] # "none" => proc'[b] # "none"
      BY DEF StopForSlot, TypeInv, TypeOK
    <2>2. \A j \in Loaded' : j \in Loaded /\ running'[j] = running[j]
      BY DEF StopForSlot, Unregister, Loaded
    <2>3. \A s \in Requests : \A b \in holds'[s] : proc[b] # "none" /\ b \in Backends
      BY <1>0 DEF StopForSlot, TypeInv, TypeOK, ClaimsInv, Owned, OwnedAlive
    <2>. QED BY <2>1, <2>2, <2>3 DEF OwnedAlive, ClaimsInv, Owned, TypeInv, TypeOK, Loaded
  <1>3. GuardsOwned'
    BY MoveGuards DEF StopForSlot, ClaimsInv
  <1>4. ClaimsNotLeaked'
    BY EntriesClaims DEF StopForSlot, ClaimsInv
  <1>. QED BY <1>1, <1>2, <1>3, <1>4 DEF ClaimsInv, Owned

-----------------------------------------------------------------------------
(* One lemma for the steps of each part of a request. *)

\* Moves, locks and counters.
LEMMA ControlClaims ==
  ASSUME TypeInv, TypeInv', ClaimsInv, NEW r \in Requests,
         \/ Arrive(r) \/ TryAdmit(r) \/ AcquireLoadLock(r) \/ ReserveSlot(r)
         \/ Finish(r) \/ ReleaseReservation(r) \/ Disconnect(r)
  PROVE  ClaimsInv'
  <1>1. CASE Disconnect(r)
    BY <1>1, AbandonClaims DEF Disconnect
  <1>2. CASE ~Disconnect(r)
    <2>1. UNCHANGED <<running, inFlight, proc, guardKey, holds>>
      BY <1>2 DEF Arrive, TryAdmit, AcquireLoadLock, ReserveSlot, Finish,
                  ReleaseReservation, mgrVars, guards, loadVars
    <2>2. PICK next : Goto(r, next) /\ (next \in Claiming \/ pc[r] \notin Claiming)
      BY <1>2 DEF Arrive, TryAdmit, AcquireLoadLock, ReserveSlot, Finish,
                  ReleaseReservation
    <2>. QED BY <2>1, <2>2, OwnersStay, MoveGuards, SameClaims DEF ClaimsInv
  <1>. QED BY <1>1, <1>2

\* A step that only moves, or fails.
LEMMA QuietClaims ==
  ASSUME TypeInv, TypeInv', ClaimsInv, NEW r \in Requests, NEW next,
         Goto(r, next), pc[r] \notin Claiming,
         UNCHANGED <<running, inFlight, proc, guardKey, holds>>
  PROVE  ClaimsInv'
  BY OwnersStay, MoveGuards, SameClaims DEF ClaimsInv

\* Looking for a loaded model, and what may fail before a load.
LEMMA LookupClaims ==
  ASSUME TypeInv, TypeInv', ClaimsInv, NEW r \in Requests,
         \/ FastPath(r) \/ Recheck(r) \/ Rejoin(r) \/ CheckRunningByDigest(r)
         \/ Pull(r) \/ Plan(r) \/ RejectBusy(r)
  PROVE  ClaimsInv'
  <1>0. pc[r] \notin Claiming
    BY DEF FastPath, Recheck, Rejoin, CheckRunningByDigest, Pull, Plan, RejectBusy
  <1>1. CASE FastPath(r) \/ Recheck(r) \/ Rejoin(r)
    BY <1>0, <1>1, CheckRunningForClaims DEF FastPath, Recheck, Rejoin
  <1>2. CASE CheckRunningByDigest(r)
    <2>1. CASE \E dead \in SUBSET Refs : Miss(r, dead, "plan")
      BY <1>0, <2>1, MissClaims
    <2>2. CASE \E k \in Loaded : Claim(r, k)
      BY <1>0, <2>2, ClaimClaims
    <2>. QED BY <1>2, <2>1, <2>2 DEF CheckRunningByDigest, Loaded
  <1>3. CASE Pull(r) \/ Plan(r) \/ RejectBusy(r)
    <2>1. CASE Abandon(r)
      BY <1>0, <2>1, AbandonClaims
    <2>2. CASE ~Abandon(r)
      <3>1. UNCHANGED <<running, inFlight, proc, guardKey, holds>>
        BY <1>3, <2>2 DEF Pull, Plan, RejectBusy, mgrVars, guards, loadVars
      <3>2. PICK next : Goto(r, next)
        BY <1>3, <2>2 DEF Pull, Plan, RejectBusy
      <3>. QED BY <1>0, <3>1, <3>2, QuietClaims
    <2>. QED BY <2>1, <2>2
  <1>. QED BY <1>1, <1>2, <1>3

\* Making room: the model that leaves is handed to the load.
LEMMA RoomClaims ==
  ASSUME TypeInv, TypeInv', ClaimsInv, NEW r \in Requests,
         RetireForContext(r) \/ EvictForSlot(r) \/ Stopped(r)
  PROVE  ClaimsInv'
  <1>0. pc[r] \notin Claiming
    BY DEF RetireForContext, EvictForSlot, Stopped
  <1>1. CASE RetireForContext(r)
    <2>0. want[r].ref \in Refs
      BY RefsAssumption DEF TypeInv, TypeOK
    <2>1. CASE running[want[r].ref] # None /\ StopForSlot(r, want[r].ref, "stopRetired")
      BY <1>0, <2>0, <2>1, StopForSlotClaims DEF Loaded
    <2>2. CASE ~(running[want[r].ref] # None /\ StopForSlot(r, want[r].ref, "stopRetired"))
      <3>1. UNCHANGED <<running, inFlight, proc, guardKey, holds>>
        BY <1>1, <2>2 DEF RetireForContext, mgrVars, guards
      <3>2. Goto(r, "slot") \/ UNCHANGED pc
        BY <1>1, <2>2 DEF RetireForContext
      <3>3. Goto(r, "slot") \/ Goto(r, pc[r])
        BY <3>2 DEF Goto, TypeInv, TypeOK
      <3>. QED BY <1>0, <3>1, <3>3, QuietClaims
    <2>. QED BY <2>1, <2>2
  <1>2. CASE EvictForSlot(r)
    BY <1>0, <1>2, StopForSlotClaims DEF EvictForSlot, Idle
  <1>3. CASE Stopped(r)
    <2>1. Owned'
      BY <1>3, HeldDies DEF Stopped, mgrVars, ClaimsInv
    <2>. QED BY <1>0, <1>3, <2>1, MoveGuards, SameClaims
             DEF Stopped, mgrVars, guards, ClaimsInv
  <1>. QED BY <1>1, <1>2, <1>3

\* A new process takes a name nobody owns.
LEMMA SpawnClaims ==
  ASSUME TypeInv, TypeInv', ClaimsInv, NEW r \in Requests,
         Spawn(r) \/ WaitForReady(r) \/ EvictOthers(r) \/ ReduceAndRetry(r)
  PROVE  ClaimsInv'
  <1>0. pc[r] \notin Claiming
    BY DEF Spawn, WaitForReady, EvictOthers, ReduceAndRetry
  <1>1. CASE Abandon(r)
    BY <1>0, <1>1, AbandonClaims
  <1>2. CASE Spawn(r) /\ ~Abandon(r)
    <2>1. PICK b \in Backends : /\ proc[b] = "none"
                                /\ proc' = [proc EXCEPT ![b] = "starting"]
                                /\ holds' = [holds EXCEPT ![r] = {b}]
      BY <1>2 DEF Spawn, Unused
    <2>2. UNCHANGED <<running, inFlight, guardKey>> /\ Goto(r, "wait")
      BY <1>2 DEF Spawn, mgrVars, guards
    <2>3. OwnedOnce'
      <3>1. Leaving({})
        BY <2>2 DEF Leaving
      <3>2. ASSUME NEW s \in Requests, NEW p \in holds'[s]
            PROVE  p \in holds[s] \/ (s = r /\ p = b)
        BY <2>1, <3>2 DEF TypeInv, TypeOK
      <3>3. Taking(r, {})
        BY <2>1, <3>2 DEF Taking
      <3>. QED BY <3>1, <3>3, Handed DEF ClaimsInv
    <2>4. OwnedAlive'
      BY <2>1, <2>2 DEF OwnedAlive, Owned, ClaimsInv, Loaded, TypeInv, TypeOK
    <2>. QED BY <1>0, <2>2, <2>3, <2>4, MoveGuards, SameClaims DEF ClaimsInv, Owned
  <1>3. CASE WaitForReady(r) /\ ~Abandon(r)
    <2>1. UNCHANGED <<running, inFlight, guardKey, holds>>
      BY <1>3 DEF WaitForReady, mgrVars, guards, loadVars
    <2>2. PICK state \in {"ready", "stopping"} :
            /\ proc' = [b \in Backends |-> IF b \in holds[r] THEN state ELSE proc[b]]
            /\ Goto(r, IF state = "ready" THEN "insert" ELSE "oom")
      BY <1>3 DEF WaitForReady
    <2>3. \A b \in Backends : proc[b] # "none" => proc'[b] # "none"
      BY <2>2
    <2>. QED BY <1>0, <2>1, <2>2, <2>3, OwnersStay, MoveGuards, SameClaims DEF ClaimsInv
  <1>4. CASE EvictOthers(r)
    <2> DEFINE K == {k \in Idle : k # want[r].ref}
    <2>1. /\ Unregister(K) /\ Goto(r, "oomEvict") /\ UNCHANGED guardKey
          /\ holds' = [holds EXCEPT ![r] = Under(K)]
          /\ proc' = [b \in Backends |-> IF b \in Under(K) THEN "stopping"
                                         ELSE IF b \in holds[r] THEN "none" ELSE proc[b]]
      BY <1>4 DEF EvictOthers
    <2>2. K \subseteq Loaded /\ Loaded \subseteq Refs
      BY DEF Idle, Loaded
    <2> HIDE DEF K
    <2>3. Loaded' = Loaded \ K /\ \A k \in Loaded' : running'[k] = running[k]
      BY <2>1 DEF Loaded, Unregister
    <2>4. ASSUME NEW s \in Requests, NEW b \in holds'[s]
          PROVE  \/ s # r /\ b \in holds[s]
                 \/ s = r /\ b \in Under(K)
      BY <2>1, <2>4 DEF TypeInv, TypeOK
    <2>5. OwnedOnce'
      <3>1. Leaving(K)
        BY <2>1 DEF Leaving, Unregister
      <3>2. Taking(r, K)
        BY <2>2, <2>4 DEF Taking, Under
      <3>. QED BY <3>1, <3>2, Handed DEF ClaimsInv
    <2>6. ASSUME NEW b \in Backends, proc[b] # "none",
                 b \in Under(K) \/ b \notin holds[r]
          PROVE  proc'[b] # "none"
      BY <2>1, <2>6
    <2>7. ASSUME NEW k \in Loaded' PROVE proc'[running'[k]] # "none"
      <3>1. k \in Loaded /\ running'[k] = running[k] /\ running[k] \in Backends
        BY <2>3 DEF Loaded, TypeInv, TypeOK
      <3>. QED BY <2>6, <3>1 DEF ClaimsInv, Owned, OwnedOnce, OwnedAlive
    <2>8. ASSUME NEW s \in Requests, NEW b \in holds'[s] PROVE proc'[b] # "none"
      <3>1. b \in Backends
        BY DEF TypeInv, TypeOK
      <3>2. CASE s # r /\ b \in holds[s]
        BY <2>6, <3>1, <3>2 DEF ClaimsInv, Owned, OwnedOnce, OwnedAlive
      <3>3. CASE s = r /\ b \in Under(K)
        <4>1. PICK k \in Loaded : b = running[k]
          BY <2>2, <3>3 DEF Under
        <4>. QED BY <2>6, <3>1, <3>3, <4>1 DEF ClaimsInv, Owned, OwnedAlive
      <3>. QED BY <2>4, <3>2, <3>3
    <2>9. Owned'
      BY <2>5, <2>7, <2>8 DEF Owned, OwnedAlive
    <2>. QED BY <1>0, <2>1, <2>9, MoveGuards, EntriesClaims DEF ClaimsInv
  <1>5. CASE ReduceAndRetry(r) /\ ~Abandon(r)
    <2>1. Owned'
      BY <1>5, HeldDies DEF ReduceAndRetry, mgrVars, ClaimsInv
    <2>. QED BY <1>0, <1>5, <2>1, MoveGuards, SameClaims
             DEF ReduceAndRetry, mgrVars, guards, ClaimsInv
  <1>. QED BY <1>1, <1>2, <1>3, <1>4, <1>5

-----------------------------------------------------------------------------
(* Registering a load, giving a claim back, and the other actors. *)

\* The new entry has one claim and its guard; what it replaces dies.
LEMMA InsertClaims ==
  ASSUME TypeInv, TypeInv', ClaimsInv, NEW r \in Requests, Insert(r)
  PROVE  ClaimsInv'
  <1> DEFINE k == want[r].ref
             old == {running[k]} \ {None}
  <1>1. k \in Refs /\ guardKey[r] = None
    <2>1. pc[r] \notin Claiming
      BY DEF Insert
    <2>2. want[r] \in Asks
      BY DEF TypeInv, TypeOK
    <2>. QED BY <2>1, <2>2, RefsAssumption DEF ClaimsInv, GuardsOwned
  <1>2. PICK b \in holds[r] :
          /\ running'  = [running EXCEPT ![k] = b]
          /\ inFlight' = [p \in Backends |-> IF p = b THEN 1
                                             ELSE IF p \in old THEN 0 ELSE inFlight[p]]
    BY DEF Insert
  <1>3. /\ guardKey' = [guardKey EXCEPT ![r] = k]
        /\ holds' = [holds EXCEPT ![r] = {}]
        /\ Kill(old) /\ Goto(r, "serving")
    BY DEF Insert
  <1> HIDE DEF k
  <1>4. b \in Backends /\ b # None /\ \A j \in Loaded : running[j] # b
    BY ActorsAssumption DEF TypeInv, TypeOK, ClaimsInv, Owned, OwnedOnce
  <1>5. Loaded' = Loaded \cup {k} /\ running'[k] = b
        /\ \A j \in Loaded' \ {k} : j \in Loaded /\ running'[j] = running[j]
    BY <1>1, <1>2, <1>4 DEF Loaded, TypeInv, TypeOK
  <1>6. \A s \in Requests : /\ s # r => holds'[s] = holds[s]
                            /\ holds'[s] \subseteq holds[s]
                            /\ b \notin holds'[s]
    BY <1>3 DEF TypeInv, TypeOK, ClaimsInv, Owned, OwnedOnce
  <1>7. OwnedOnce'
    <2>1. \A i, j \in Loaded' : running'[i] = running'[j] => i = j
      BY <1>4, <1>5 DEF ClaimsInv, Owned, OwnedOnce
    <2>2. \A j \in Loaded', s \in Requests : running'[j] \notin holds'[s]
      BY <1>4, <1>5, <1>6 DEF ClaimsInv, Owned, OwnedOnce
    <2>3. \A s, t \in Requests : s # t => holds'[s] \cap holds'[t] = {}
      BY <1>6 DEF ClaimsInv, Owned, OwnedOnce
    <2>. QED BY <2>1, <2>2, <2>3 DEF OwnedOnce
  <1>8. OwnedAlive'
    <2>1. \A p \in Backends : proc[p] # "none" /\ p \notin old => proc'[p] # "none"
      BY <1>3 DEF Kill
    <2>2. old \subseteq {running[j] : j \in Loaded \cap {k}}
      BY <1>1 DEF Loaded
    <2>3. ASSUME NEW j \in Loaded' PROVE proc'[running'[j]] # "none"
      <3>1. CASE j = k
        <4>1. b \notin old
          BY <1>4, <2>2
        <4>. QED BY <1>4, <1>5, <2>1, <3>1, <4>1 DEF ClaimsInv, Owned, OwnedAlive
      <3>2. CASE j # k
        <4>1. j \in Loaded /\ running'[j] = running[j] /\ running[j] \in Backends
          BY <1>5, <3>2 DEF Loaded, TypeInv, TypeOK
        <4>2. running[j] \notin old
          BY <2>2, <3>2, <4>1 DEF ClaimsInv, Owned, OwnedOnce
        <4>. QED BY <2>1, <4>1, <4>2 DEF ClaimsInv, Owned, OwnedAlive
      <3>. QED BY <3>1, <3>2
    <2>4. ASSUME NEW s \in Requests, NEW p \in holds'[s] PROVE proc'[p] # "none"
      <3>1. p \in holds[s] /\ p \in Backends
        BY <1>6 DEF TypeInv, TypeOK
      <3>2. p \notin old
        BY <2>2, <3>1 DEF ClaimsInv, Owned, OwnedOnce
      <3>. QED BY <2>1, <3>1, <3>2 DEF ClaimsInv, Owned, OwnedAlive
    <2>. QED BY <2>3, <2>4 DEF OwnedAlive
  <1>9. GuardsOwned'
    BY <1>3 DEF ClaimsInv, GuardsOwned, Goto, TypeInv, TypeOK
  <1>10. ASSUME NEW j \in Loaded'
         PROVE  inFlight'[running'[j]] <= Cardinality(Guards(j)')
    <2>1. CASE j = k
      <3>1. r \in Guards(j)'
        BY <1>1, <1>3, <2>1 DEF Guards, TypeInv, TypeOK
      <3>2. IsFiniteSet(Guards(j)') /\ Cardinality(Guards(j)') \in Nat
        <4>1. Guards(j)' \subseteq Requests
          BY DEF Guards
        <4>. QED BY <4>1, RefsAssumption, FS_Subset, FS_CardinalityType
      <3>3. Cardinality(Guards(j)') # 0
        BY <3>1, <3>2, FS_EmptySet
      <3>4. inFlight'[running'[j]] = 1
        BY <1>2, <1>4, <1>5, <2>1
      <3>. QED BY <3>2, <3>3, <3>4
    <2>2. CASE j # k
      <3>1. /\ j \in Loaded /\ running'[j] = running[j] /\ running[j] # b
            /\ running[j] \in Backends /\ j # None
        BY <1>4, <1>5, <2>2, ActorsAssumption DEF Loaded, TypeInv, TypeOK
      <3>2. Guards(j)' = Guards(j)
        BY <1>1, <1>3, <2>2, <3>1 DEF Guards, TypeInv, TypeOK
      <3>3. /\ inFlight[running[j]] \in Nat
            /\ inFlight[running[j]] <= Cardinality(Guards(j))
        BY <3>1 DEF ClaimsInv, ClaimsNotLeaked, Guards, TypeInv, TypeOK
      <3>4. inFlight'[running'[j]] <= inFlight[running[j]]
        BY <1>2, <3>1, <3>3
      <3>5. inFlight'[running'[j]] \in Nat
        BY <3>1 DEF TypeInv, TypeOK
      <3>. QED BY <3>2, <3>3, <3>4, <3>5, GuardsFinite
    <2>. QED BY <2>1, <2>2
  <1>. QED BY <1>7, <1>8, <1>9, <1>10 DEF ClaimsInv, Owned, ClaimsNotLeaked, Guards

\* The drop of a guard takes at most the claim it counted, on whatever runs
\* under its key by now.
LEMMA ReleaseClaimClaims ==
  ASSUME TypeInv, TypeInv', ClaimsInv, NEW r \in Requests, ReleaseClaim(r)
  PROVE  ClaimsInv'
  <1> DEFINE k == guardKey[r]
  <1>1. k \in Refs /\ k # None
    BY ActorsAssumption DEF ReleaseClaim, TypeInv, ClaimsHaveKeys
  <1>2. /\ guardKey' = [guardKey EXCEPT ![r] = None]
        /\ UNCHANGED <<running, proc, holds>> /\ Goto(r, "idle")
        /\ inFlight' = IF running[k] = None THEN inFlight
                       ELSE [inFlight EXCEPT ![running[k]] = Less(@)]
    BY DEF ReleaseClaim, loadVars
  <1>3. Owned'
    BY <1>2, OwnersStay DEF ClaimsInv
  <1>4. GuardsOwned'
    BY <1>2 DEF ClaimsInv, GuardsOwned, Goto, TypeInv, TypeOK
  <1>5. ASSUME NEW j \in Loaded'
        PROVE  inFlight'[running'[j]] <= Cardinality(Guards(j)')
    <2>1. /\ j \in Loaded /\ running'[j] = running[j] /\ running[j] \in Backends
          /\ j \in Refs /\ j # None /\ running[j] # None
      BY <1>2, ActorsAssumption DEF Loaded, TypeInv, TypeOK
    <2>2. /\ inFlight[running[j]] \in Nat
          /\ inFlight[running[j]] <= Cardinality(Guards(j))
      BY <2>1 DEF ClaimsInv, ClaimsNotLeaked, Guards, TypeInv, TypeOK
    <2>3. CASE j = k
      <3>1. Guards(j)' = Guards(j) \ {r} /\ r \in Guards(j)
        BY <1>2, <2>1, <2>3 DEF Guards, TypeInv, TypeOK
      <3>2. Cardinality(Guards(j)') = Cardinality(Guards(j)) - 1
        BY <3>1, GuardsFinite, FS_RemoveElement
      <3>3. inFlight'[running'[j]] = Less(inFlight[running[j]])
        BY <1>2, <2>1, <2>3 DEF TypeInv, TypeOK
      <3>4. Cardinality(Guards(j)) # 0
        BY <3>1, GuardsFinite, FS_EmptySet
      <3>. QED BY <2>2, <3>2, <3>3, <3>4, GuardsFinite DEF Less
    <2>4. CASE j # k
      <3>1. Guards(j)' = Guards(j)
        BY <1>2, <2>1, <2>4 DEF Guards, TypeInv, TypeOK
      <3>2. CASE running[k] = None
        BY <1>2, <2>1, <2>2, <3>1, <3>2
      <3>3. CASE running[k] # None
        <4>1. running[j] # running[k]
          BY <1>1, <2>1, <2>4, <3>3 DEF Loaded, ClaimsInv, Owned, OwnedOnce
        <4>2. inFlight'[running'[j]] = inFlight[running[j]]
          BY <1>2, <2>1, <3>3, <4>1 DEF TypeInv, TypeOK
        <4>. QED BY <2>2, <3>1, <4>2
      <3>. QED BY <3>2, <3>3
    <2>. QED BY <2>3, <2>4
  <1>. QED BY <1>3, <1>4, <1>5 DEF ClaimsInv, ClaimsNotLeaked, Guards

\* Unloads, the reaper and crashes take entries away, never add a claim.
LEMMA OthersClaims ==
  ASSUME TypeInv, TypeInv', ClaimsInv,
         \/ \E u \in Unloads : UnloadLock(u) \/ Unloading(u)
         \/ ReapIdleModels
         \/ \E b \in Backends : Crash(b)
  PROVE  ClaimsInv'
  <1>1. UNCHANGED <<pc, guardKey, holds>>
    BY DEF UnloadLock, Unloading, UnloadByKey, UnloadByDigest, ReapIdleModels,
           Crash, guards, loadVars
  <1>2. GuardsOwned'
    BY <1>1 DEF ClaimsInv, GuardsOwned
  <1>3. CASE \E K \in SUBSET Refs : Drop(K)
    BY <1>1, <1>2, <1>3, EntriesLeave, EntriesClaims DEF Drop, ClaimsInv
  <1>4. CASE /\ UNCHANGED <<running, inFlight>>
             /\ \A b \in Backends : proc[b] # "none" => proc'[b] # "none"
    BY <1>1, <1>2, <1>4, OwnersStay, SameClaims DEF ClaimsInv
  <1>5. ASSUME NEW u \in Unloads, UnloadByKey(u) PROVE \E K \in SUBSET Refs : Drop(K)
    BY <1>5 DEF UnloadByKey, Loaded
  <1>6. ASSUME NEW u \in Unloads, UnloadByDigest(u) PROVE \E K \in SUBSET Refs : Drop(K)
    BY <1>6 DEF UnloadByDigest, Loaded
  <1>7. CASE ReapIdleModels
    BY <1>3, <1>7 DEF ReapIdleModels, Idle, Loaded
  <1>8. ASSUME NEW u \in Unloads, UnloadLock(u) PROVE ClaimsInv'
    BY <1>4, <1>8 DEF UnloadLock, mgrVars
  <1>9. ASSUME NEW b \in Backends, Crash(b) PROVE ClaimsInv'
    BY <1>4, <1>9 DEF Crash, mgrVars, TypeInv, TypeOK
  <1>. QED BY <1>3, <1>5, <1>6, <1>7, <1>8, <1>9 DEF Unloading

-----------------------------------------------------------------------------
(* The theorem. *)

LEMMA ClaimsInit == Init => ClaimsInv
  BY DEF Init, ClaimsInv, Owned, OwnedOnce, OwnedAlive, GuardsOwned,
         ClaimsNotLeaked, Loaded

LEMMA ClaimsAlways == Spec => []ClaimsInv
  <1>1. TypeInv /\ TypeInv' /\ ClaimsInv /\ [Next]_vars => ClaimsInv'
    <2> SUFFICES ASSUME TypeInv, TypeInv', ClaimsInv, [Next]_vars PROVE ClaimsInv'
      OBVIOUS
    <2>1. CASE UNCHANGED vars
      <3>1. UNCHANGED <<running, inFlight, proc, pc, guardKey, holds>>
        BY <2>1 DEF vars, mgrVars, guards, loadVars
      <3>2. GuardsOwned'
        BY <3>1 DEF ClaimsInv, GuardsOwned
      <3>. QED BY <3>1, <3>2, OwnersStay, SameClaims DEF ClaimsInv
    <2>2. ASSUME NEW r \in Requests,
                 \/ Arrive(r) \/ Load(r) \/ AcquireLoadLock(r) \/ Finish(r)
                 \/ ReleaseClaim(r) \/ ReleaseReservation(r) \/ Disconnect(r)
          PROVE  ClaimsInv'
      BY <2>2, ControlClaims, LookupClaims, RoomClaims, SpawnClaims, InsertClaims,
         ReleaseClaimClaims DEF Load
    <2>. QED BY <2>1, <2>2, OthersClaims DEF Next
  <1>. QED BY <1>1, ClaimsInit, TypeCorrect, PTL DEF Spec

\* in_flight of a loaded model never exceeds the guards outstanding on its
\* key, however claims are given back late, and models unloaded, reaped,
\* retired, lost and loaded again meanwhile (sched.rs, ActivityGuard).
THEOREM ClaimsNeverLeak == Spec => []ClaimsNotLeaked
  <1>1. ClaimsInv => ClaimsNotLeaked
    BY DEF ClaimsInv
  <1>. QED BY <1>1, ClaimsAlways, PTL

-----------------------------------------------------------------------------
(* Sharing: where nobody asks for a window of its own, a content is loaded *)
(* once, under whichever of its names.                                      *)

PlainAsks == \A a \in Asks : a.ctx = 0

\* Past the look for the same content under other names.
Past == Reserved \cup {"plan", "retire", "slot", "stopVictim"}

OneEntry == \A j, k \in Loaded : ContentOf[j] = ContentOf[k] => j = k

\* Whoever is about to load a content is the only one who can have it loaded.
NothingLoaded ==
  \A r \in Requests : pc[r] \in Past =>
    \A k \in Loaded : ContentOf[k] # ContentOf[want[r].ref]

OneHeld ==
  \A r \in Requests : pc[r] \in {"wait", "insert"} => \A a, b \in holds[r] : a = b

SharingInv == OneEntry /\ NothingLoaded /\ OneHeld

\* No entry of the map is replaced, or made.
Shrinking == \A k \in Refs : running'[k] \in {None, running[k]}

\* What a step does to the task r that takes it.
Settled(r) ==
  /\ pc'[r] \in Past => pc[r] \in Past /\ want'[r] = want[r]
  /\ pc'[r] \in {"wait", "insert"} => /\ pc[r] \in {"wait", "insert"}
                                     /\ holds'[r] = holds[r]
Apart(r) ==
  \A s \in Requests : s # r =>
    pc'[s] = pc[s] /\ want'[s] = want[s] /\ holds'[s] = holds[s]

LEMMA SharingStays ==
  ASSUME SharingInv, NEW r, Shrinking, Settled(r), Apart(r)
  PROVE  SharingInv'
  <1>1. Loaded' \subseteq Loaded
    BY DEF Shrinking, Loaded
  <1>. QED BY <1>1 DEF SharingInv, OneEntry, NothingLoaded, OneHeld, Settled, Apart

LEMMA StepApart ==
  ASSUME TypeInv, NEW r \in Requests,
         \/ Arrive(r) \/ Load(r) \/ AcquireLoadLock(r) \/ Finish(r)
         \/ ReleaseClaim(r) \/ ReleaseReservation(r) \/ Disconnect(r)
  PROVE  Apart(r)
  <1> USE DEF Apart, Goto, Leave, TypeInv, TypeOK, lockVars, loadVars
  <1>1. CASE Abandon(r)
    BY <1>1 DEF Abandon
  <1>2. CASE \E k : Claim(r, k)
    BY <1>2 DEF Claim
  <1>3. CASE \E dead, next : Miss(r, dead, next)
    BY <1>3 DEF Miss
  <1>4. CASE \E k, next : StopForSlot(r, k, next)
    BY <1>4 DEF StopForSlot
  <1>5. CASE FastPath(r) \/ Recheck(r) \/ Rejoin(r) \/ CheckRunningByDigest(r)
    BY <1>2, <1>3, <1>5 DEF FastPath, Recheck, Rejoin, CheckRunningFor,
                            CheckRunningByDigest
  <1>6. CASE Pull(r) \/ Plan(r) \/ RejectBusy(r) \/ Disconnect(r)
    BY <1>1, <1>6 DEF Pull, Plan, RejectBusy, Disconnect
  <1>7. CASE RetireForContext(r) \/ EvictForSlot(r)
    BY <1>4, <1>7 DEF RetireForContext, EvictForSlot
  <1>8. CASE Spawn(r)
    BY <1>1, <1>8 DEF Spawn
  <1>9. CASE WaitForReady(r)
    BY <1>1, <1>9 DEF WaitForReady
  <1>10. CASE EvictOthers(r)
    BY <1>10 DEF EvictOthers
  <1>11. CASE ReduceAndRetry(r)
    BY <1>1, <1>11 DEF ReduceAndRetry
  <1>12. CASE Insert(r)
    BY <1>12 DEF Insert
  <1>13. CASE Arrive(r) \/ TryAdmit(r) \/ AcquireLoadLock(r) \/ ReserveSlot(r)
    BY <1>13 DEF Arrive, TryAdmit, AcquireLoadLock, ReserveSlot
  <1>14. CASE Finish(r) \/ ReleaseClaim(r) \/ ReleaseReservation(r) \/ Stopped(r)
    BY <1>14 DEF Finish, ReleaseClaim, ReleaseReservation, Stopped
  <1>. QED BY <1>5, <1>6, <1>7, <1>8, <1>9, <1>10, <1>11, <1>12, <1>13, <1>14 DEF Load

\* Only Insert makes an entry.
LEMMA StepShrinking ==
  ASSUME TypeInv, NEW r \in Requests, ~Insert(r),
         \/ Arrive(r) \/ Load(r) \/ AcquireLoadLock(r) \/ Finish(r)
         \/ ReleaseClaim(r) \/ ReleaseReservation(r) \/ Disconnect(r)
  PROVE  Shrinking
  <1>1. CASE UNCHANGED running \/ \E K : Unregister(K)
    BY <1>1 DEF Shrinking, Unregister
  <1>2. CASE Abandon(r) \/ (\E k : Claim(r, k)) \/ (\E dead, next : Miss(r, dead, next))
             \/ (\E k, next : StopForSlot(r, k, next))
    BY <1>1, <1>2 DEF Abandon, Claim, Miss, StopForSlot, mgrVars
  <1>3. CASE FastPath(r) \/ Recheck(r) \/ Rejoin(r) \/ CheckRunningByDigest(r)
    BY <1>2, <1>3 DEF FastPath, Recheck, Rejoin, CheckRunningFor, CheckRunningByDigest
  <1>4. CASE Pull(r) \/ Plan(r) \/ RejectBusy(r) \/ Disconnect(r)
    BY <1>1, <1>2, <1>4 DEF Pull, Plan, RejectBusy, Disconnect, mgrVars
  <1>5. CASE RetireForContext(r) \/ EvictForSlot(r) \/ Stopped(r)
    BY <1>1, <1>2, <1>5 DEF RetireForContext, EvictForSlot, Stopped, mgrVars
  <1>6. CASE Spawn(r) \/ WaitForReady(r) \/ EvictOthers(r) \/ ReduceAndRetry(r)
    BY <1>1, <1>2, <1>6 DEF Spawn, WaitForReady, EvictOthers, ReduceAndRetry, mgrVars
  <1>7. CASE \/ Arrive(r) \/ TryAdmit(r) \/ AcquireLoadLock(r) \/ ReserveSlot(r)
             \/ Finish(r) \/ ReleaseClaim(r) \/ ReleaseReservation(r)
    BY <1>1, <1>7 DEF Arrive, TryAdmit, AcquireLoadLock, ReserveSlot, Finish,
                      ReleaseClaim, ReleaseReservation, mgrVars
  <1>. QED BY <1>3, <1>4, <1>5, <1>6, <1>7 DEF Load

\* Only the look for the same content, Spawn and Insert change where a task is
\* with its content.
LEMMA StepSettled ==
  ASSUME TypeInv, NEW r \in Requests,
         ~Insert(r), ~CheckRunningByDigest(r), ~Spawn(r),
         \/ Arrive(r) \/ Load(r) \/ AcquireLoadLock(r) \/ Finish(r)
         \/ ReleaseClaim(r) \/ ReleaseReservation(r) \/ Disconnect(r)
  PROVE  Settled(r)
  <1> USE DEF Settled, Past, Goto, TypeInv, TypeOK
  <1>1. CASE pc'[r] \notin Past
    BY <1>1
  <1>2. CASE Abandon(r) \/ \E k : Claim(r, k)
    BY <1>1, <1>2 DEF Abandon, Claim
  <1>3. CASE FastPath(r) \/ Recheck(r) \/ Rejoin(r)
    BY <1>1, <1>2, <1>3 DEF FastPath, Recheck, Rejoin, CheckRunningFor, Miss
  <1>4. CASE Pull(r) \/ Plan(r) \/ RejectBusy(r) \/ Disconnect(r)
    BY <1>2, <1>4 DEF Pull, Plan, RejectBusy, Disconnect
  <1>5. CASE RetireForContext(r) \/ EvictForSlot(r) \/ Stopped(r) \/ ReserveSlot(r)
    BY <1>5 DEF RetireForContext, EvictForSlot, Stopped, ReserveSlot, StopForSlot
  <1>6. CASE WaitForReady(r) \/ EvictOthers(r) \/ ReduceAndRetry(r)
    BY <1>2, <1>6 DEF WaitForReady, EvictOthers, ReduceAndRetry, loadVars
  <1>7. CASE \/ Arrive(r) \/ TryAdmit(r) \/ AcquireLoadLock(r)
             \/ Finish(r) \/ ReleaseClaim(r) \/ ReleaseReservation(r)
    BY <1>1, <1>7 DEF Arrive, TryAdmit, AcquireLoadLock, Finish, ReleaseClaim,
                      ReleaseReservation
  <1>. QED BY <1>3, <1>4, <1>5, <1>6, <1>7 DEF Load

\* A dead copy is dropped, and is the only one; a live one is joined.
LEMMA DigestSharing ==
  ASSUME TypeInv, PlainAsks, SharingInv, NEW r \in Requests, CheckRunningByDigest(r)
  PROVE  SharingInv'
  <1>0. Apart(r) /\ Shrinking
    BY StepApart, StepShrinking DEF Load, CheckRunningByDigest, Insert
  <1>1. want[r].ctx = 0
    BY DEF PlainAsks, TypeInv, TypeOK
  <1>2. CASE \E k : Claim(r, k)
    BY <1>0, <1>2, SharingStays DEF Claim, Goto, Settled, Past, TypeInv, TypeOK
  <1>3. CASE ~\E k : Claim(r, k)
    <2> DEFINE content == ContentOf[want[r].ref]
    <2>1. PICK dead : /\ Miss(r, dead, "plan")
                      /\ \/ dead = {} /\ \A k \in Loaded : ContentOf[k] # content
                         \/ \E k \in Loaded : dead = {k} /\ ContentOf[k] = content
      BY <1>1, <1>3 DEF CheckRunningByDigest, NeedsContext
    <2>2. /\ Loaded' = Loaded \ dead /\ UNCHANGED <<want, holds>>
          /\ pc' = [pc EXCEPT ![r] = "plan"]
      BY <2>1 DEF Miss, Unregister, Loaded, Goto, loadVars
    <2>3. \A k \in Loaded' : ContentOf[k] # content
      BY <2>1, <2>2 DEF SharingInv, OneEntry
    <2>4. NothingLoaded'
      BY <2>2, <2>3 DEF SharingInv, NothingLoaded, TypeInv, TypeOK
    <2>. QED BY <2>2, <2>4 DEF SharingInv, OneEntry, OneHeld, TypeInv, TypeOK
  <1>. QED BY <1>2, <1>3

LEMMA SpawnSharing ==
  ASSUME TypeInv, SharingInv, NEW r \in Requests, Spawn(r)
  PROVE  SharingInv'
  <1>0. Apart(r) /\ Shrinking
    BY StepApart, StepShrinking DEF Load, Spawn, Insert
  <1>1. CASE Abandon(r)
    BY <1>0, <1>1, SharingStays DEF Abandon, Goto, Settled, Past, TypeInv, TypeOK
  <1>2. CASE ~Abandon(r)
    <2>1. PICK b \in Backends : holds' = [holds EXCEPT ![r] = {b}]
      BY <1>2 DEF Spawn
    <2>2. /\ pc' = [pc EXCEPT ![r] = "wait"] /\ UNCHANGED <<running, want>>
          /\ pc[r] = "spawn"
      BY <1>2 DEF Spawn, Goto, mgrVars
    <2>3. OneEntry' /\ NothingLoaded'
      BY <2>2 DEF SharingInv, OneEntry, NothingLoaded, Loaded, Past, TypeInv, TypeOK
    <2>4. OneHeld'
      BY <2>1, <2>2 DEF SharingInv, OneHeld, TypeInv, TypeOK
    <2>. QED BY <2>3, <2>4 DEF SharingInv
  <1>. QED BY <1>1, <1>2

\* The load lock of the content keeps every other load of it out.
LEMMA InsertSharing ==
  ASSUME TypeInv, LocksOwned, SharingInv, NEW r \in Requests, Insert(r)
  PROVE  SharingInv' /\ want[r].ref \notin Loaded
  <1> DEFINE k == want[r].ref
  <1>0. Apart(r)
    BY StepApart DEF Load
  <1>1. pc[r] = "insert" /\ pc'[r] = "serving"
    BY DEF Insert, Goto, TypeInv, TypeOK
  <1>2. k \in Refs /\ k \notin Loaded /\ \A j \in Loaded : ContentOf[j] # ContentOf[k]
    BY <1>1, RefsAssumption DEF SharingInv, NothingLoaded, Past, TypeInv, TypeOK
  <1>3. Loaded' \subseteq Loaded \cup {k}
    <2>1. PICK b \in holds[r] : running' = [running EXCEPT ![k] = b]
      BY DEF Insert
    <2>. QED BY <2>1 DEF Loaded, TypeInv, TypeOK
  <1>4. OneEntry'
    BY <1>2, <1>3 DEF SharingInv, OneEntry
  <1>5. ASSUME NEW s \in Requests, pc'[s] \in Past
        PROVE  \A j \in Loaded' : ContentOf[j] # ContentOf[want'[s].ref]
    <2>1. s # r
      BY <1>1, <1>5 DEF Past
    <2>2. want'[s] = want[s] /\ pc[s] \in Past
      BY <1>0, <1>5, <2>1 DEF Apart
    <2>3. want[s].ref \in Refs
      BY RefsAssumption DEF TypeInv, TypeOK
    <2>4. LockOf[k] # LockOf[want[s].ref]
      BY <1>1, <2>1, <2>2 DEF LocksOwned, Past
    <2>5. ContentOf[k] # ContentOf[want[s].ref]
      BY <1>2, <2>3, <2>4, IdentityAssumption
    <2>. QED BY <1>3, <2>2, <2>5 DEF SharingInv, NothingLoaded
  <1>6. OneHeld'
    BY <1>0, <1>1 DEF SharingInv, OneHeld, Apart
  <1>. QED BY <1>2, <1>4, <1>5, <1>6 DEF SharingInv, NothingLoaded

LEMMA OthersShrink ==
  ASSUME TypeInv,
         \/ \E u \in Unloads : UnloadLock(u) \/ Unloading(u)
         \/ ReapIdleModels
         \/ \E b \in Backends : Crash(b)
  PROVE  Shrinking /\ UNCHANGED <<pc, want, holds>>
  <1>1. UNCHANGED <<pc, want, holds>>
    BY DEF UnloadLock, Unloading, UnloadByKey, UnloadByDigest, ReapIdleModels,
           Crash, loadVars
  <1>2. UNCHANGED running \/ \E K : Unregister(K)
    BY DEF UnloadLock, Unloading, UnloadByKey, UnloadByDigest, ReapIdleModels,
           Crash, Drop, mgrVars
  <1>. QED BY <1>1, <1>2 DEF Shrinking, Unregister

\* A step keeps the invariant and replaces no entry.
LEMMA SharingStep ==
  ASSUME TypeInv, LocksOwned, PlainAsks, SharingInv, Next
  PROVE  SharingInv' /\ \A k \in Refs : running[k] # None => running'[k] \in {None, running[k]}
  <1>1. ASSUME NEW r \in Requests,
               \/ Arrive(r) \/ Load(r) \/ AcquireLoadLock(r) \/ Finish(r)
               \/ ReleaseClaim(r) \/ ReleaseReservation(r) \/ Disconnect(r)
        PROVE  SharingInv' /\ \A k \in Refs : running[k] # None => running'[k] \in {None, running[k]}
    <2>1. CASE Insert(r)
      <3>1. SharingInv' /\ running[want[r].ref] = None
        BY <2>1, InsertSharing, RefsAssumption DEF Loaded, TypeInv, TypeOK
      <3>2. PICK b : running' = [running EXCEPT ![want[r].ref] = b]
        BY <2>1 DEF Insert
      <3>. QED BY <3>1, <3>2 DEF TypeInv, TypeOK
    <2>2. CASE ~Insert(r)
      <3>1. Shrinking
        BY <1>1, <2>2, StepShrinking
      <3>2. SharingInv'
        BY <1>1, <2>2, <3>1, StepSettled, StepApart, SharingStays, DigestSharing,
           SpawnSharing
      <3>. QED BY <3>1, <3>2 DEF Shrinking
    <2>. QED BY <2>1, <2>2
  <1>2. CASE \/ \E u \in Unloads : UnloadLock(u) \/ Unloading(u)
             \/ ReapIdleModels
             \/ \E b \in Backends : Crash(b)
    <2>1. Shrinking /\ UNCHANGED <<pc, want, holds>>
      BY <1>2, OthersShrink
    <2>2. Settled(None) /\ Apart(None) 
      BY <2>1 DEF Settled, Apart
    <2>. QED BY <2>1, <2>2, SharingStays DEF Shrinking
  <1>. QED BY <1>1, <1>2 DEF Next

LEMMA SharingAlways == ASSUME PlainAsks PROVE Spec => []SharingInv
  <1>1. Init => SharingInv
    BY DEF Init, SharingInv, OneEntry, NothingLoaded, OneHeld, Loaded, Past
  <1>2. TypeInv /\ LocksOwned /\ SharingInv /\ [Next]_vars => SharingInv'
    <2> SUFFICES ASSUME TypeInv, LocksOwned, SharingInv, [Next]_vars PROVE SharingInv'
      OBVIOUS
    <2>1. CASE UNCHANGED vars
      BY <2>1 DEF vars, mgrVars, loadVars, SharingInv, OneEntry, NothingLoaded,
                  OneHeld, Loaded
    <2>. QED BY <2>1, SharingStep
  <1>. QED BY <1>1, <1>2, TypeCorrect, LocksAlwaysOwned, PTL DEF Spec

\* Where nobody asks for a context window, registering a load never replaces,
\* and so never kills, a model under its key (HashMap::insert at the end of
\* resolve_target), given one load lock per content.
THEOREM NothingReplaced == ASSUME PlainAsks PROVE Spec => NeverReplaced
  <1>1. TypeInv /\ LocksOwned /\ SharingInv /\ [Next]_vars
          => [\A k \in Refs : running[k] # None => running'[k] \in {None, running[k]}]_vars
    BY SharingStep
  <1>. QED BY <1>1, SharingAlways, TypeCorrect, LocksAlwaysOwned, PTL DEF Spec, NeverReplaced

\* Where nobody asks for a context window, one process at most starts or
\* serves for a content, whichever of its names is asked for
\* (check_running_by_digest), given one load lock per content.
THEOREM OneBackend == ASSUME PlainAsks PROVE Spec => []OneBackendPerContent
  <1>1. TypeInv /\ LocksOwned /\ SharingInv => OneBackendPerContent
    <2> SUFFICES ASSUME TypeInv, LocksOwned, SharingInv,
                        NEW a \in Backends, NEW b \in Backends, NEW k \in Refs,
                        Provides(a, ContentOf[k]), Provides(b, ContentOf[k])
                 PROVE  a = b
      BY DEF OneBackendPerContent
    <2> DEFINE By(p, r) == /\ p \in holds[r] /\ pc[r] \in {"wait", "insert"}
                           /\ ContentOf[want[r].ref] = ContentOf[k]
               In(p, j) == running[j] = p /\ ContentOf[j] = ContentOf[k]
    <2>1. /\ (\E j \in Loaded : In(a, j)) \/ (\E r \in Requests : By(a, r))
          /\ (\E j \in Loaded : In(b, j)) \/ (\E r \in Requests : By(b, r))
      BY DEF Provides
    <2>2. ASSUME NEW i \in Loaded, NEW j \in Loaded, In(a, i), In(b, j) PROVE a = b
      BY <2>2 DEF SharingInv, OneEntry
    <2>3. ASSUME NEW p, NEW j \in Loaded, NEW q, NEW r \in Requests, In(p, j), By(q, r)
          PROVE  FALSE
      BY <2>3 DEF SharingInv, NothingLoaded, Past
    <2>4. ASSUME NEW r \in Requests, NEW s \in Requests, By(a, r), By(b, s) PROVE a = b
      <3>1. want[r].ref \in Refs /\ want[s].ref \in Refs
        BY RefsAssumption DEF TypeInv, TypeOK
      <3>2. LockOf[want[r].ref] = LockOf[want[s].ref]
        BY <2>4, <3>1, IdentityAssumption
      <3>3. r = s
        BY <2>4, <3>2 DEF LocksOwned
      <3>. QED BY <2>4, <3>3 DEF SharingInv, OneHeld
    <2> HIDE DEF By, In
    <2>. QED BY <2>1, <2>2, <2>3, <2>4
  <1>. QED BY <1>1, SharingAlways, TypeCorrect, LocksAlwaysOwned, PTL

-----------------------------------------------------------------------------
(* Service: where no backend exits on its own and nobody calls unload, the *)
(* counters are exact, so what is idle serves nobody, and every entry a    *)
(* task takes away is idle.  Clients may still disconnect and ask for      *)
(* windows of their own.                                                   *)

AllReady ==
  /\ \A k \in Loaded : proc[running[k]] = "ready"
  /\ \A r \in Requests : pc[r] = "insert" => \A b \in holds[r] : proc[b] = "ready"

ClaimsExact ==
  /\ \A k \in Loaded : inFlight[running[k]] = Cardinality(Guards(k))
  /\ \A k \in Refs \ Loaded : Guards(k) = {}

ServedBy ==
  \A r \in Requests : pc[r] = "serving" => using[r] = running[guardKey[r]]

\* A RetireMark is its task's own, while that task retires its own key.
MarksOwn ==
  \A r \in Requests : mark[r] # None =>
    /\ pc[r] = "retire"
    /\ \A k \in Loaded : running[k] = mark[r] => k = want[r].ref
    /\ \A s \in Requests : pc[s] \in {"wait", "insert"} => mark[r] \notin holds[s]

\* Past Rejoin the entry under the task's own key does not fit; once a slot
\* is looked for, there is none.
Unfit == {"digest", "plan", "retire"}
Room  == Reserved \cup {"slot", "stopVictim"}
Fresh ==
  \A r \in Requests :
    LET b == running[want[r].ref]
    IN  /\ pc[r] \in Unfit => b = None \/ NeedsContext(b, want[r].ctx)
        /\ pc[r] \in Room => b = None

CalmInv == AllReady /\ ClaimsExact /\ ServedBy /\ MarksOwn /\ Fresh
CalmInstance == Fragile = {} /\ Unloads = {}

Step(r) ==
  \/ Arrive(r) \/ Load(r) \/ AcquireLoadLock(r) \/ Finish(r)
  \/ ReleaseClaim(r) \/ ReleaseReservation(r) \/ Disconnect(r)

\* The steps that give a claim, or take one back.
ClaimStep(r) == Insert(r) \/ Finish(r) \/ ReleaseClaim(r) \/ \E k \in Loaded : Claim(r, k)

\* The processes a step may touch.
Touching(r, K) ==
  \A b \in Backends : proc'[b] # proc[b] =>
    b \in Under(K) \/ proc[b] = "none" \/ (r \in Requests /\ b \in holds[r])

\* Idle entries leave, and no claim is given or taken back.
Evicting(r, K) ==
  K \in SUBSET Idle /\ Unregister(K) /\ Touching(r, K) /\ UNCHANGED guardKey

LEMMA NoneEvicted ==
  ASSUME TypeInv, NEW r, UNCHANGED <<running, inFlight, window, using, guardKey>>,
         Touching(r, {})
  PROVE  Evicting(r, {})
  BY DEF Evicting, Unregister, Under, TypeInv, TypeOK

LEMMA AbandonEvicts ==
  ASSUME TypeInv, NEW r \in Requests, Abandon(r)
  PROVE  Evicting(r, {})
  <1>1. Touching(r, {})
    BY DEF Abandon, Kill, Touching
  <1>. QED BY <1>1, NoneEvicted DEF Abandon, mgrVars, guards

LEMMA MissEvicts ==
  ASSUME TypeInv, NEW r \in Requests, NEW next, Miss(r, {}, next)
  PROVE  Evicting(r, {})
  <1>1. Touching(r, {})
    BY DEF Miss, Kill, Touching
  <1>. QED BY <1>1 DEF Miss, Evicting

LEMMA StopEvicts ==
  ASSUME TypeInv, NEW r \in Requests, NEW k \in Idle, NEW next, StopForSlot(r, k, next)
  PROVE  Evicting(r, {k})
  <1>1. Touching(r, {k})
    BY DEF StopForSlot, Touching, Under, TypeInv, TypeOK
  <1>. QED BY <1>1 DEF StopForSlot, Evicting

\* What a lookup finds is alive.
LEMMA LookupCalm ==
  ASSUME TypeInv, AllReady, NEW r \in Requests, NEW next, CheckRunningFor(r, next)
  PROVE  \/ \E k \in Loaded : Claim(r, k)
         \/ /\ Miss(r, {}, next)
            /\ LET b == running[want[r].ref]
               IN  b # None => NeedsContext(b, want[r].ctx) \/ Retiring(b)
  <1>1. want[r].ref \in Refs
    BY RefsAssumption DEF TypeInv, TypeOK
  <1>. QED BY <1>1 DEF CheckRunningFor, AllReady, Alive, Loaded

LEMMA DigestCalm ==
  ASSUME TypeInv, AllReady, NEW r \in Requests, CheckRunningByDigest(r)
  PROVE  (\E k \in Loaded : Claim(r, k)) \/ Miss(r, {}, "plan")
  BY DEF CheckRunningByDigest, AllReady, Alive

\* Every step but those of claims only lets idle entries go.
LEMMA StepEvicts ==
  ASSUME TypeInv, AllReady, NEW r \in Requests, Step(r), ~ClaimStep(r)
  PROVE  \E K : Evicting(r, K)
  <1>0. want[r].ref \in Refs
    BY RefsAssumption DEF TypeInv, TypeOK
  <1>1. CASE Abandon(r) \/ \E next : Miss(r, {}, next)
    BY <1>1, AbandonEvicts, MissEvicts
  <1>2. CASE UNCHANGED <<running, inFlight, window, using, guardKey>> /\ Touching(r, {})
    BY <1>2, NoneEvicted
  <1>3. CASE FastPath(r) \/ Recheck(r) \/ Rejoin(r)
    BY <1>1, <1>3, LookupCalm DEF FastPath, Recheck, Rejoin, ClaimStep
  <1>4. CASE CheckRunningByDigest(r)
    BY <1>1, <1>4, DigestCalm DEF ClaimStep
  <1>5. CASE Pull(r) \/ Plan(r) \/ RejectBusy(r) \/ Disconnect(r)
    BY <1>1, <1>2, <1>5 DEF Pull, Plan, RejectBusy, Disconnect, mgrVars, guards, Touching
  <1>6. CASE \/ Arrive(r) \/ TryAdmit(r) \/ AcquireLoadLock(r) \/ ReserveSlot(r)
             \/ ReleaseReservation(r)
    BY <1>2, <1>6 DEF Arrive, TryAdmit, AcquireLoadLock, ReserveSlot,
                      ReleaseReservation, mgrVars, guards, Touching
  <1>7. CASE RetireForContext(r)
    <2>1. CASE want[r].ref \in Idle /\ StopForSlot(r, want[r].ref, "stopRetired")
      BY <2>1, StopEvicts
    <2>. QED BY <1>0, <1>2, <1>7, <2>1
             DEF RetireForContext, Idle, Loaded, mgrVars, guards, Touching
  <1>8. CASE EvictForSlot(r)
    BY <1>8, StopEvicts DEF EvictForSlot
  <1>9. CASE Stopped(r)
    BY <1>2, <1>9 DEF Stopped, Kill, mgrVars, guards, Touching
  <1>10. CASE Spawn(r)
    <2>1. CASE ~Abandon(r)
      <3>1. Touching(r, {})
        BY <1>10, <2>1 DEF Spawn, Touching, Unused, TypeInv, TypeOK
      <3>. QED BY <1>2, <1>10, <2>1, <3>1 DEF Spawn, mgrVars, guards
    <2>. QED BY <1>1, <2>1
  <1>11. CASE WaitForReady(r)
    <2>1. CASE ~Abandon(r)
      <3>1. Touching(r, {})
        BY <1>11, <2>1 DEF WaitForReady, Touching
      <3>. QED BY <1>2, <1>11, <2>1, <3>1 DEF WaitForReady, mgrVars, guards
    <2>. QED BY <1>1, <2>1
  <1>12. CASE EvictOthers(r)
    <2> DEFINE K == {k \in Idle : k # want[r].ref}
    <2>1. Touching(r, K)
      BY <1>12 DEF EvictOthers, Touching
    <2>. QED BY <1>12, <2>1 DEF EvictOthers, Evicting
  <1>13. CASE ReduceAndRetry(r)
    BY <1>1, <1>2, <1>13 DEF ReduceAndRetry, Kill, mgrVars, guards, Touching
  <1>. QED BY <1>3, <1>4, <1>5, <1>6, <1>7, <1>8, <1>9, <1>10, <1>11, <1>12, <1>13
           DEF Step, Load, ClaimStep

-----------------------------------------------------------------------------
(* Exact claims keep what is serving where it is. *)

\* An idle entry serves nobody.
LEMMA ServingStays ==
  ASSUME TypeInv, Owned, ClaimsExact, ServedBy, NEW r, NEW K, Evicting(r, K),
         NEW s \in Requests, pc[s] = "serving"
  PROVE  /\ using'[s] = using[s] /\ using[s] = running[guardKey[s]]
         /\ running'[guardKey[s]] = running[guardKey[s]]
  <1> DEFINE g == guardKey[s]
  <1>1. g \in Refs /\ s \in Guards(g)
    BY DEF TypeInv, ClaimsHaveKeys, Guards
  <1>2. g \in Loaded
    BY <1>1 DEF ClaimsExact
  <1>3. inFlight[running[g]] # 0
    BY <1>1, <1>2, GuardsFinite, FS_EmptySet DEF ClaimsExact
  <1>4. g \notin K
    BY <1>3 DEF Evicting, Idle
  <1>5. \A k \in K : k \in Loaded
    BY DEF Evicting, Idle
  <1>6. running[g] \notin Under(K)
    BY <1>2, <1>4, <1>5 DEF Under, Owned, OwnedOnce
  <1>. QED BY <1>1, <1>4, <1>6 DEF Evicting, Unregister, ServedBy

LEMMA EvictingClaims ==
  ASSUME TypeInv, Owned, ClaimsExact, ServedBy, NEW r, NEW K, Evicting(r, K),
         \A s \in Requests : pc'[s] = "serving" => pc[s] = "serving"
  PROVE  ClaimsExact' /\ ServedBy'
  <1>1. \A k : Guards(k)' = Guards(k)
    BY DEF Guards, Evicting
  <1>2. ASSUME NEW k \in Loaded' PROVE inFlight'[running'[k]] = Cardinality(Guards(k)')
    <2>1. k \in Loaded /\ k \notin K /\ running'[k] = running[k] /\ running[k] \in Backends
      BY DEF Evicting, Unregister, Loaded, TypeInv, TypeOK
    <2>2. running[k] \notin Under(K)
      BY <2>1 DEF Under, Owned, OwnedOnce, Evicting, Idle
    <2>. QED BY <1>1, <2>1, <2>2 DEF Evicting, Unregister, ClaimsExact
  <1>3. ASSUME NEW k \in Refs \ Loaded' PROVE Guards(k)' = {}
    <2>1. CASE k \in Loaded
      <3>1. k \in K
        BY <1>3, <2>1 DEF Evicting, Unregister, Loaded
      <3>2. Cardinality(Guards(k)) = 0
        BY <2>1, <3>1 DEF Evicting, Idle, ClaimsExact
      <3>. QED BY <1>1, <3>2, GuardsFinite, FS_EmptySet
    <2>2. CASE k \notin Loaded
      BY <1>1, <2>2 DEF ClaimsExact
    <2>. QED BY <2>1, <2>2
  <1>4. ClaimsExact'
    BY <1>2, <1>3 DEF ClaimsExact, Guards
  <1>5. ServedBy'
    BY ServingStays DEF ServedBy, Evicting
  <1>. QED BY <1>4, <1>5

LEMMA ClaimExact ==
  ASSUME TypeInv, ClaimsInv, ClaimsExact, ServedBy,
         NEW r \in Requests, pc[r] \notin Claiming, NEW k \in Loaded, Claim(r, k)
  PROVE  ClaimsExact' /\ ServedBy'
  <1>0. k \in Refs /\ running[k] \in Backends /\ guardKey[r] = None /\ Loaded' = Loaded
    BY DEF Claim, Loaded, TypeInv, TypeOK, ClaimsInv, GuardsOwned
  <1>1. ASSUME NEW j \in Refs
        PROVE  /\ j = k => Guards(j)' = Guards(j) \cup {r} /\ r \notin Guards(j)
               /\ j # k => Guards(j)' = Guards(j)
    BY <1>0, ActorsAssumption DEF Guards, Claim, TypeInv, TypeOK
  <1>2. ASSUME NEW j \in Loaded'
        PROVE  inFlight'[running'[j]] = Cardinality(Guards(j)')
    <2>1. j \in Loaded /\ running'[j] = running[j] /\ running[j] \in Backends /\ j \in Refs
      BY <1>0 DEF Claim, Loaded, TypeInv, TypeOK
    <2>2. inFlight[running[j]] = Cardinality(Guards(j))
      BY <2>1 DEF ClaimsExact
    <2>3. CASE j = k
      <3>1. Cardinality(Guards(j)') = Cardinality(Guards(j)) + 1
        BY <1>1, <2>1, <2>3, GuardsFinite, FS_AddElement
      <3>. QED BY <2>1, <2>2, <2>3, <3>1 DEF Claim, TypeInv, TypeOK
    <2>4. CASE j # k
      <3>1. running[j] # running[k]
        BY <2>1, <2>4 DEF ClaimsInv, Owned, OwnedOnce
      <3>. QED BY <1>1, <2>1, <2>2, <2>4, <3>1 DEF Claim, TypeInv, TypeOK
    <2>. QED BY <2>3, <2>4
  <1>3. \A j \in Refs \ Loaded' : Guards(j)' = {}
    BY <1>0, <1>1 DEF ClaimsExact
  <1>4. ClaimsExact'
    BY <1>2, <1>3 DEF ClaimsExact, Guards
  <1>5. ServedBy'
    BY DEF ServedBy, Claim, Goto, TypeInv, TypeOK
  <1>. QED BY <1>4, <1>5

LEMMA InsertExact ==
  ASSUME TypeInv, ClaimsInv, ClaimsExact, ServedBy, NEW r \in Requests, Insert(r),
         running[want[r].ref] = None
  PROVE  ClaimsExact' /\ ServedBy'
  <1> DEFINE k == want[r].ref
  <1>1. k \in Refs /\ guardKey[r] = None /\ k \notin Loaded /\ Guards(k) = {}
    <2>1. pc[r] \notin Claiming
      BY DEF Insert
    <2>2. want[r] \in Asks
      BY DEF TypeInv, TypeOK
    <2>. QED BY <2>1, <2>2, RefsAssumption
             DEF ClaimsInv, GuardsOwned, Loaded, ClaimsExact
  <1>2. PICK b \in holds[r] :
          /\ running'  = [running EXCEPT ![k] = b]
          /\ \A p \in Backends : inFlight'[p] = IF p = b THEN 1 ELSE inFlight[p]
          /\ \A s \in Requests : using'[s] = IF s = r THEN b ELSE using[s]
    <2> DEFINE old == {running[k]} \ {None}
    <2>1. old = {}
      OBVIOUS
    <2>2. PICK b \in holds[r] :
            /\ running'  = [running EXCEPT ![k] = b]
            /\ inFlight' = [p \in Backends |-> IF p = b THEN 1
                                               ELSE IF p \in old THEN 0 ELSE inFlight[p]]
            /\ using' = [s \in Requests |-> IF s = r THEN b
                                            ELSE IF using[s] \in old THEN None ELSE using[s]]
      BY DEF Insert
    <2> HIDE DEF old
    <2>. QED BY <2>1, <2>2
  <1>3. guardKey' = [guardKey EXCEPT ![r] = k] /\ pc' = [pc EXCEPT ![r] = "serving"]
    BY DEF Insert, Goto
  <1>4. b \in Backends /\ b # None /\ \A j \in Loaded : running[j] # b
    BY ActorsAssumption DEF TypeInv, TypeOK, ClaimsInv, Owned, OwnedOnce
  <1> HIDE DEF k
  <1>5. /\ Loaded' = Loaded \cup {k} /\ running'[k] = b
        /\ \A j \in Loaded : running'[j] = running[j] /\ j # k
    BY <1>1, <1>2, <1>4 DEF Loaded, TypeInv, TypeOK
  <1>6. ASSUME NEW j \in Refs
        PROVE  Guards(j)' = IF j = k THEN {r} ELSE Guards(j)
    BY <1>1, <1>3, ActorsAssumption DEF Guards, TypeInv, TypeOK
  <1>7. ASSUME NEW j \in Loaded'
        PROVE  inFlight'[running'[j]] = Cardinality(Guards(j)')
    <2>1. CASE j = k
      <3>1. Cardinality({r}) = 1
        BY FS_Singleton
      <3>. QED BY <1>1, <1>2, <1>4, <1>5, <1>6, <2>1, <3>1
    <2>2. CASE j # k
      <3>1. j \in Loaded /\ j \in Refs /\ running[j] \in Backends
        BY <1>5, <2>2 DEF Loaded, TypeInv, TypeOK
      <3>. QED BY <1>2, <1>4, <1>5, <1>6, <2>2, <3>1 DEF ClaimsExact
    <2>. QED BY <2>1, <2>2
  <1>8. \A j \in Refs \ Loaded' : Guards(j)' = {}
    BY <1>5, <1>6 DEF ClaimsExact
  <1>9. ClaimsExact'
    BY <1>7, <1>8 DEF ClaimsExact, Guards
  <1>10. ASSUME NEW s \in Requests, pc'[s] = "serving"
         PROVE  using'[s] = running'[guardKey'[s]]
    <2>1. CASE s = r
      BY <1>2, <1>3, <1>5, <2>1 DEF TypeInv, TypeOK
    <2>2. CASE s # r
      <3>1. pc[s] = "serving" /\ guardKey'[s] = guardKey[s] /\ using'[s] = using[s]
        BY <1>2, <1>3, <1>10, <2>2 DEF TypeInv, TypeOK
      <3>2. guardKey[s] \in Refs /\ s \in Guards(guardKey[s])
        BY <3>1 DEF TypeInv, ClaimsHaveKeys, Guards
      <3>3. guardKey[s] \in Loaded
        BY <3>2 DEF ClaimsExact
      <3>. QED BY <1>5, <3>1, <3>3 DEF ServedBy
    <2>. QED BY <2>1, <2>2
  <1>. QED BY <1>9, <1>10 DEF ServedBy

LEMMA FinishExact ==
  ASSUME TypeInv, ClaimsExact, ServedBy, NEW r \in Requests, Finish(r)
  PROVE  ClaimsExact' /\ ServedBy'
  BY DEF Finish, ClaimsExact, ServedBy, Guards, Loaded, Goto, mgrVars, TypeInv, TypeOK

LEMMA ReleaseExact ==
  ASSUME TypeInv, ClaimsInv, ClaimsExact, ServedBy, NEW r \in Requests, ReleaseClaim(r)
  PROVE  ClaimsExact' /\ ServedBy'
  <1> DEFINE k == guardKey[r]
  <1>1. k \in Refs /\ k # None /\ r \in Guards(k)
    BY ActorsAssumption DEF ReleaseClaim, TypeInv, ClaimsHaveKeys, Guards
  <1>2. k \in Loaded /\ running[k] \in Backends /\ running[k] # None
    BY <1>1 DEF ClaimsExact, Loaded, TypeInv, TypeOK
  <1>3. /\ guardKey' = [guardKey EXCEPT ![r] = None]
        /\ UNCHANGED <<running, using>> /\ pc' = [pc EXCEPT ![r] = "idle"]
        /\ inFlight' = [inFlight EXCEPT ![running[k]] = Less(@)]
    BY <1>2 DEF ReleaseClaim, Goto
  <1>4. ASSUME NEW j \in Refs
        PROVE  Guards(j)' = IF j = k THEN Guards(j) \ {r} ELSE Guards(j)
    BY <1>1, <1>3, ActorsAssumption DEF Guards, TypeInv, TypeOK
  <1>5. Loaded' = Loaded
    BY <1>3 DEF Loaded
  <1>6. ASSUME NEW j \in Loaded
        PROVE  inFlight'[running[j]] = Cardinality(Guards(j)')
    <2>1. /\ j \in Refs /\ running[j] \in Backends
          /\ inFlight[running[j]] = Cardinality(Guards(j))
      BY DEF Loaded, TypeInv, TypeOK, ClaimsExact
    <2>2. CASE j = k
      <3>1. Cardinality(Guards(j)') = Cardinality(Guards(j)) - 1
        BY <1>1, <1>4, <2>1, <2>2, GuardsFinite, FS_RemoveElement
      <3>2. Cardinality(Guards(j)) # 0
        BY <1>1, <2>2, GuardsFinite, FS_EmptySet
      <3>. QED BY <1>3, <2>1, <2>2, <3>1, <3>2 DEF Less, TypeInv, TypeOK
    <2>3. CASE j # k
      <3>1. running[j] # running[k]
        BY <1>2, <2>3 DEF ClaimsInv, Owned, OwnedOnce
      <3>. QED BY <1>3, <1>4, <2>1, <2>3, <3>1 DEF TypeInv, TypeOK
    <2>. QED BY <2>2, <2>3
  <1>7. \A j \in Refs \ Loaded : Guards(j)' = {}
    BY <1>4 DEF ClaimsExact
  <1>8. ClaimsExact'
    BY <1>3, <1>5, <1>6, <1>7 DEF ClaimsExact, Guards
  <1>9. ServedBy'
    BY <1>3 DEF ServedBy, TypeInv, TypeOK
  <1>. QED BY <1>8, <1>9

\* A request begins to be served by a claim of its own.
LEMMA ServingBegins ==
  ASSUME TypeInv, AllReady, NEW r \in Requests, Step(r), ~ClaimStep(r), NEW s \in Requests,
         pc'[s] = "serving"
  PROVE  pc[s] = "serving"
  <1> USE DEF Goto, TypeInv, TypeOK
  <1>1. CASE s # r
    BY <1>1, StepApart DEF Apart, Step
  <1>2. CASE s = r
    <2>1. CASE Abandon(r) \/ \E next : next # "serving" /\ Miss(r, {}, next)
      BY <1>2, <2>1 DEF Abandon, Miss
    <2>2. CASE FastPath(r) \/ Recheck(r) \/ Rejoin(r)
      BY <2>1, <2>2, LookupCalm DEF FastPath, Recheck, Rejoin, ClaimStep
    <2>3. CASE CheckRunningByDigest(r)
      BY <2>1, <2>3, DigestCalm DEF ClaimStep
    <2>4. CASE Pull(r) \/ Plan(r) \/ RejectBusy(r) \/ Disconnect(r)
      BY <1>2, <2>1, <2>4 DEF Pull, Plan, RejectBusy, Disconnect
    <2>5. CASE \/ Arrive(r) \/ TryAdmit(r) \/ AcquireLoadLock(r) \/ ReserveSlot(r)
               \/ ReleaseReservation(r) \/ Stopped(r)
      BY <1>2, <2>5 DEF Arrive, TryAdmit, AcquireLoadLock, ReserveSlot,
                        ReleaseReservation, Stopped
    <2>6. CASE RetireForContext(r) \/ EvictForSlot(r)
      BY <1>2, <2>6 DEF RetireForContext, EvictForSlot, StopForSlot
    <2>7. CASE Spawn(r)
      BY <1>2, <2>1, <2>7 DEF Spawn
    <2>8. CASE WaitForReady(r)
      BY <1>2, <2>1, <2>8 DEF WaitForReady
    <2>9. CASE EvictOthers(r) \/ ReduceAndRetry(r)
      BY <1>2, <2>1, <2>9 DEF EvictOthers, ReduceAndRetry
    <2>. QED BY <2>2, <2>3, <2>4, <2>5, <2>6, <2>7, <2>8, <2>9 DEF Step, Load, ClaimStep
  <1>. QED BY <1>1, <1>2

-----------------------------------------------------------------------------
(* Processes: what is loaded, or about to be registered, is ready. *)

LEMMA ReadyStays ==
  ASSUME TypeInv, Owned, AllReady, NEW r, NEW K \in SUBSET Refs, Leaving(K),
         Touching(r, K), Apart(r),
         r \in Requests /\ pc'[r] = "insert" => \A b \in holds'[r] : proc'[b] = "ready"
  PROVE  AllReady'
  <1>1. ASSUME NEW k \in Loaded' PROVE proc'[running'[k]] = "ready"
    <2>1. k \in Loaded /\ k \notin K /\ running'[k] = running[k] /\ running[k] \in Backends
      BY DEF Leaving, Loaded, TypeInv, TypeOK
    <2>2. running[k] \notin Under(K)
      BY <2>1 DEF Under, Owned, OwnedOnce, Loaded
    <2>3. r \in Requests => running[k] \notin holds[r]
      BY <2>1 DEF Owned, OwnedOnce
    <2>. QED BY <2>1, <2>2, <2>3 DEF Touching, AllReady
  <1>2. ASSUME NEW s \in Requests, pc'[s] = "insert", NEW b \in holds'[s]
        PROVE  proc'[b] = "ready"
    <2>1. CASE s # r
      <3>1. pc[s] = "insert" /\ b \in holds[s] /\ b \in Backends /\ b # None
        BY <1>2, <2>1, ActorsAssumption DEF Apart, TypeInv, TypeOK
      <3>2. b \notin Under(K)
        BY <3>1 DEF Under, Owned, OwnedOnce, Loaded
      <3>3. r \in Requests => b \notin holds[r]
        BY <2>1, <3>1 DEF Owned, OwnedOnce
      <3>. QED BY <3>1, <3>2, <3>3 DEF Touching, AllReady
    <2>. QED BY <1>2, <2>1
  <1>. QED BY <1>1, <1>2 DEF AllReady

\* A load reaches Insert with a process that has answered.
LEMMA InsertReached ==
  ASSUME TypeInv, NEW r \in Requests, Step(r), pc'[r] = "insert"
  PROVE  WaitForReady(r) /\ \A b \in holds'[r] : proc'[b] = "ready"
  <1> USE DEF Goto, TypeInv, TypeOK
  <1>1. WaitForReady(r)
    <2>1. ~Abandon(r) /\ ~(\E k : Claim(r, k))
          /\ ~(\E dead, next : next # "insert" /\ Miss(r, dead, next))
      BY DEF Abandon, Claim, Miss
    <2>2. CASE FastPath(r) \/ Recheck(r) \/ Rejoin(r) \/ CheckRunningByDigest(r)
      BY <2>1, <2>2 DEF FastPath, Recheck, Rejoin, CheckRunningFor, CheckRunningByDigest
    <2>3. CASE Pull(r) \/ Plan(r) \/ RejectBusy(r) \/ Disconnect(r)
      BY <2>1, <2>3 DEF Pull, Plan, RejectBusy, Disconnect
    <2>4. CASE \/ Arrive(r) \/ TryAdmit(r) \/ AcquireLoadLock(r) \/ ReserveSlot(r)
               \/ ReleaseReservation(r) \/ Stopped(r) \/ Finish(r) \/ ReleaseClaim(r)
      BY <2>4 DEF Arrive, TryAdmit, AcquireLoadLock, ReserveSlot, ReleaseReservation,
                  Stopped, Finish, ReleaseClaim
    <2>5. CASE RetireForContext(r) \/ EvictForSlot(r)
      BY <2>5 DEF RetireForContext, EvictForSlot, StopForSlot
    <2>6. CASE Spawn(r) \/ EvictOthers(r) \/ ReduceAndRetry(r) \/ Insert(r)
      BY <2>1, <2>6 DEF Spawn, EvictOthers, ReduceAndRetry, Insert
    <2>. QED BY <2>2, <2>3, <2>4, <2>5, <2>6 DEF Step, Load
  <1>2. ~Abandon(r)
    BY DEF Abandon
  <1>3. PICK state \in {"ready", "stopping"} :
          /\ proc' = [b \in Backends |-> IF b \in holds[r] THEN state ELSE proc[b]]
          /\ pc' = [pc EXCEPT ![r] = IF state = "ready" THEN "insert" ELSE "oom"]
          /\ UNCHANGED holds
    BY <1>1, <1>2 DEF WaitForReady, loadVars
  <1>. QED BY <1>1, <1>3

-----------------------------------------------------------------------------
(* Marks. *)

\* What a step of r does to the marks, and to the processes a load holds.
MarkStep(r) ==
  /\ \A s \in Requests : s # r => mark'[s] = mark[s]
  /\ r \in Requests =>
       \/ mark'[r] = None
       \/ mark'[r] = mark[r] /\ pc[r] # "retire"
       \/ /\ pc[r] = "retire" /\ pc'[r] = "retire" /\ UNCHANGED <<running, want, holds>>
          /\ mark'[r] \in {mark[r], running[want[r].ref]}
HoldStep(r) ==
  r \in Requests /\ pc'[r] \in {"wait", "insert"} =>
    \/ pc[r] \in {"wait", "insert"} /\ holds'[r] = holds[r]
    \/ \A b \in holds'[r] : ~Retiring(b)

LEMMA StepMarks ==
  ASSUME TypeInv, NEW r \in Requests, Step(r)
  PROVE  MarkStep(r) /\ HoldStep(r)
  <1> USE DEF TypeInv, TypeOK
  <1>1. CASE Abandon(r)
    BY <1>1 DEF Abandon, MarkStep, HoldStep, Goto
  <1>2. CASE UNCHANGED mark /\ pc[r] # "retire"
    <2>1. MarkStep(r)
      BY <1>2 DEF MarkStep
    <2>2. CASE Spawn(r)
      <3>1. CASE ~Abandon(r)
        <4>1. PICK b \in Backends : ~Retiring(b) /\ holds' = [holds EXCEPT ![r] = {b}]
          BY <2>2, <3>1 DEF Spawn, Unused
        <4>. QED BY <2>1, <4>1 DEF HoldStep
      <3>. QED BY <1>1, <3>1
    <2>3. CASE ~Spawn(r)
      <3>1. CASE Insert(r) \/ CheckRunningByDigest(r)
        BY <2>1, <3>1 DEF HoldStep, Insert, CheckRunningByDigest, Claim, Miss, Goto
      <3>. QED BY <2>1, <2>3, <3>1, StepSettled DEF HoldStep, Settled, Step
    <2>. QED BY <2>2, <2>3, <2>1
  <1>3. (\E k : Claim(r, k)) \/ (\E dead, next : Miss(r, dead, next)) => UNCHANGED mark
    BY DEF Claim, Miss, loadVars
  <1>4. CASE FastPath(r) \/ Recheck(r) \/ Rejoin(r) \/ CheckRunningByDigest(r)
    <2>1. UNCHANGED mark
      BY <1>3, <1>4 DEF FastPath, Recheck, Rejoin, CheckRunningFor, CheckRunningByDigest
    <2>. QED BY <1>2, <1>4, <2>1 DEF FastPath, Recheck, Rejoin, CheckRunningByDigest
  <1>5. CASE Pull(r) \/ Plan(r) \/ RejectBusy(r) \/ Disconnect(r)
    BY <1>1, <1>2, <1>5 DEF Pull, Plan, RejectBusy, Disconnect, loadVars
  <1>6. CASE \/ Arrive(r) \/ TryAdmit(r) \/ AcquireLoadLock(r) \/ ReserveSlot(r)
             \/ ReleaseReservation(r) \/ Stopped(r) \/ Finish(r) \/ ReleaseClaim(r)
    BY <1>2, <1>6 DEF Arrive, TryAdmit, AcquireLoadLock, ReserveSlot, ReleaseReservation,
                      Stopped, Finish, ReleaseClaim, loadVars
  <1>7. CASE RetireForContext(r)
    <2>1. CASE pc'[r] = "retire"
      BY <1>7, <2>1 DEF RetireForContext, StopForSlot, Goto, MarkStep, HoldStep, mgrVars
    <2>2. CASE pc'[r] # "retire"
      BY <1>7, <2>2 DEF RetireForContext, StopForSlot, Goto, MarkStep, HoldStep
    <2>. QED BY <2>1, <2>2
  <1>8. CASE EvictForSlot(r)
    BY <1>8 DEF EvictForSlot, StopForSlot, Goto, MarkStep, HoldStep
  <1>9. CASE Spawn(r) \/ WaitForReady(r) \/ EvictOthers(r) \/ ReduceAndRetry(r) \/ Insert(r)
    BY <1>1, <1>2, <1>9 DEF Spawn, WaitForReady, EvictOthers, ReduceAndRetry, Insert, loadVars
  <1>. QED BY <1>4, <1>5, <1>6, <1>7, <1>8, <1>9 DEF Step, Load

LEMMA MarksStay ==
  ASSUME TypeInv, Owned, MarksOwn, NEW r, Apart(r), MarkStep(r), HoldStep(r),
         \A k \in Refs : \/ running'[k] \in {None, running[k]}
                         \/ /\ r \in Requests /\ pc[r] = "insert" /\ pc'[r] # "retire"
                            /\ running'[k] \in holds[r]
  PROVE  MarksOwn'
  <1> SUFFICES ASSUME NEW s \in Requests, mark'[s] # None
               PROVE  /\ pc'[s] = "retire"
                      /\ \A k \in Loaded' : running'[k] = mark'[s] => k = want'[s].ref
                      /\ \A t \in Requests : pc'[t] \in {"wait", "insert"}
                                               => mark'[s] \notin holds'[t]
    BY DEF MarksOwn
  <1>1. /\ pc[s] = "retire" /\ pc'[s] = "retire" /\ want'[s] = want[s]
        /\ \/ mark'[s] = mark[s]
           \/ s = r /\ UNCHANGED <<running, holds>> /\ mark'[s] = running[want[s].ref]
    BY DEF MarkStep, Apart, MarksOwn
  <1>2. CASE mark'[s] = mark[s]
    <2>1. ASSUME NEW k \in Loaded', running'[k] = mark'[s] PROVE k = want'[s].ref
      <3>1. k \in Refs /\ running'[k] # None
        BY DEF Loaded
      <3>2. CASE running'[k] = running[k]
        <4>1. k \in Loaded /\ running[k] = mark[s] /\ mark[s] # None
          BY <1>2, <2>1, <3>1, <3>2 DEF Loaded
        <4>2. k = want[s].ref
          BY <4>1, Zenon DEF MarksOwn
        <4>. QED BY <1>1, <4>2
      <3>3. CASE r \in Requests /\ pc[r] = "insert" /\ running'[k] \in holds[r]
        BY <1>1, <1>2, <2>1, <3>3 DEF MarksOwn
      <3>. QED BY <3>1, <3>2, <3>3
    <2>2. ASSUME NEW t \in Requests, pc'[t] \in {"wait", "insert"}
          PROVE  mark'[s] \notin holds'[t]
      <3>1. CASE pc[t] \in {"wait", "insert"} /\ holds'[t] = holds[t]
        BY <1>2, <3>1 DEF MarksOwn
      <3>2. CASE t = r /\ \A b \in holds'[r] : ~Retiring(b)
        BY <1>2, <3>2 DEF Retiring
      <3>. QED BY <2>2, <3>1, <3>2 DEF Apart, HoldStep
    <2>. QED BY <1>1, <2>1, <2>2
  <1>3. CASE s = r /\ UNCHANGED <<running, holds>> /\ mark'[s] = running[want[s].ref]
    <2>1. want[s].ref \in Loaded
      BY <1>3, RefsAssumption DEF Loaded, TypeInv, TypeOK
    <2>2. Loaded' = Loaded
      BY <1>3 DEF Loaded
    <2>. QED BY <1>1, <1>3, <2>1, <2>2 DEF Owned, OwnedOnce
  <1>. QED BY <1>1, <1>2, <1>3

-----------------------------------------------------------------------------
(* Freshness: a load finds no fitting entry under its key, and later none. *)

\* The entry under k stays with its window, or leaves.
Lasts(k) == \/ running'[k] = None
            \/ /\ running'[k] = running[k]
               /\ window'[running[k]] = window[running[k]]

\* Where a step leaves its own task.
FreshStep(r) ==
  LET k == want[r].ref
  IN  r \in Requests /\ pc'[r] \in Unfit \cup Room =>
        /\ want'[r] = want[r] /\ Lasts(k)
        /\ pc'[r] \in Room => running'[k] = None
        /\ pc'[r] \in Unfit => running[k] = None \/ NeedsContext(running[k], want[r].ctx)

LEMMA FreshStays ==
  ASSUME TypeInv, Fresh, NEW r, Apart(r), FreshStep(r),
         \A s \in Requests : s # r /\ pc[s] \in Unfit \cup Room => Lasts(want[s].ref)
  PROVE  Fresh'
  <1> DEFINE Good(s) ==
        LET b == running'[want'[s].ref]
        IN  /\ pc'[s] \in Unfit =>
                 b = None \/ (want'[s].ctx # 0 /\ window'[b] # want'[s].ctx)
            /\ pc'[s] \in Room => b = None
  <1>1. r \in Requests => Good(r)
    BY DEF FreshStep, Lasts, NeedsContext
  <1>2. ASSUME NEW s \in Requests, s # r PROVE Good(s)
    <2>1. pc'[s] = pc[s] /\ want'[s] = want[s]
      BY <1>2 DEF Apart
    <2>2. pc[s] \in Unfit \cup Room => Lasts(want[s].ref)
      BY <1>2
    <2>. QED BY <2>1, <2>2 DEF Fresh, Lasts, NeedsContext
  <1>3. \A s \in Requests : Good(s)
    BY <1>1, <1>2
  <1>. QED BY <1>3 DEF Fresh, NeedsContext, Room, Unfit

LEMMA EvictingLasts ==
  ASSUME TypeInv, Owned, NEW r, NEW K, Evicting(r, K), NEW k \in Refs
  PROVE  Lasts(k)
  <1>1. CASE k \in Loaded /\ k \notin K
    <2>1. running[k] \in Backends /\ running[k] \notin Under(K)
      BY <1>1 DEF Under, Owned, OwnedOnce, Evicting, Idle, Loaded, TypeInv, TypeOK
    <2>. QED BY <1>1, <2>1 DEF Lasts, Evicting, Unregister
  <1>2. CASE ~(k \in Loaded /\ k \notin K)
    BY <1>2 DEF Lasts, Evicting, Unregister, Loaded
  <1>. QED BY <1>1, <1>2

\* The mark on an entry is that of the only load of its lock.
LEMMA NoOtherMark ==
  ASSUME TypeInv, LocksOwned, MarksOwn, NEW r \in Requests,
         pc[r] \in Locked \ {"retire"}, want[r].ref \in Loaded
  PROVE  ~Retiring(running[want[r].ref])
  <1> SUFFICES ASSUME NEW s \in Requests, mark[s] = running[want[r].ref]
               PROVE  FALSE
    BY DEF Retiring
  <1>1. pc[s] = "retire" /\ want[r].ref = want[s].ref
    BY DEF MarksOwn, Loaded
  <1>. QED BY <1>1 DEF LocksOwned

LEMMA StepFresh ==
  ASSUME TypeInv, LocksOwned, Owned, AllReady, MarksOwn, Fresh,
         NEW r \in Requests, Step(r), ~ClaimStep(r)
  PROVE  FreshStep(r)
  <1> USE DEF TypeInv, TypeOK
  <1> DEFINE k == want[r].ref
  <1>0. k \in Refs
    BY RefsAssumption
  <1>1. Lasts(k)
    BY <1>0, StepEvicts, EvictingLasts
  <1>2. CASE pc'[r] \notin Unfit \cup Room
    BY <1>2 DEF FreshStep
  <1>3. CASE pc'[r] \in Unfit /\ pc[r] \in Unfit /\ want'[r] = want[r]
    BY <1>1, <1>3 DEF FreshStep, Fresh, Unfit, Room
  <1>4. CASE pc'[r] \in Room /\ pc[r] \in Room /\ want'[r] = want[r]
    BY <1>1, <1>4 DEF FreshStep, Fresh, Unfit, Room, Lasts
  <1>5. CASE Abandon(r)
    BY <1>2, <1>5 DEF Abandon, Goto, Unfit, Room
  <1>6. CASE FastPath(r) \/ Recheck(r)
    <2>1. pc'[r] \in {"admit", "pull"}
      BY <1>6, LookupCalm DEF FastPath, Recheck, ClaimStep, Miss, Goto
    <2>. QED BY <1>2, <2>1 DEF Unfit, Room
  <1>7. CASE Rejoin(r)
    <2>1. /\ Miss(r, {}, "digest") /\ pc[r] = "rejoin"
          /\ running[k] # None => NeedsContext(running[k], want[r].ctx) \/ Retiring(running[k])
      BY <1>7, LookupCalm DEF Rejoin, ClaimStep
    <2>2. running[k] # None => ~Retiring(running[k])
      BY <1>0, <2>1, NoOtherMark DEF Loaded
    <2>3. pc'[r] = "digest" /\ want' = want
      BY <2>1 DEF Miss, Goto
    <2>. QED BY <1>1, <2>1, <2>2, <2>3 DEF FreshStep, Unfit, Room
  <1>8. CASE CheckRunningByDigest(r)
    <2>1. Miss(r, {}, "plan") /\ pc[r] = "digest"
      BY <1>8, DigestCalm DEF ClaimStep, CheckRunningByDigest
    <2>. QED BY <1>3, <2>1 DEF Miss, Goto, Unfit
  <1>9. CASE Plan(r)
    <2>1. CASE ~Abandon(r)
      <3>1. /\ pc[r] = "plan" /\ want' = want /\ running' = running
            /\ pc'[r] = IF want[r].ctx = 0 THEN "slot" ELSE "retire"
        BY <1>9, <2>1 DEF Plan, Goto, mgrVars
      <3>2. want[r].ctx = 0 => running[k] = None
        BY <3>1 DEF Fresh, Unfit, NeedsContext
      <3>. QED BY <1>1, <1>3, <3>1, <3>2 DEF FreshStep, Unfit, Room
    <2>. QED BY <1>5, <2>1
  <1>10. CASE RetireForContext(r)
    <2>1. CASE StopForSlot(r, k, "stopRetired")
      <3>1. running'[k] = None /\ pc'[r] = "stopRetired" /\ want' = want
        BY <1>0, <2>1 DEF StopForSlot, Unregister, Goto
      <3>. QED BY <1>1, <3>1 DEF FreshStep, Unfit, Room
    <2>2. CASE Goto(r, "slot") /\ ~NeedsContext(running[k], want[r].ctx)
      <3>1. running[k] = None /\ pc'[r] = "slot" /\ UNCHANGED <<want, running>>
        BY <1>10, <2>2 DEF RetireForContext, Fresh, Unfit, Goto, StopForSlot, mgrVars
      <3>. QED BY <1>1, <3>1 DEF FreshStep, Unfit, Room
    <2>3. CASE Goto(r, "slot") /\ running[k] = None
      <3>1. pc'[r] = "slot" /\ UNCHANGED <<want, running>>
        BY <1>10, <2>3 DEF RetireForContext, Goto, StopForSlot, mgrVars
      <3>. QED BY <1>1, <2>3, <3>1 DEF FreshStep, Unfit, Room
    <2>4. CASE UNCHANGED <<pc, want>>
      BY <1>3, <1>10, <2>4 DEF RetireForContext, Unfit
    <2>. QED BY <1>10, <2>1, <2>2, <2>3, <2>4 DEF RetireForContext
  <1>11. CASE RejectBusy(r) \/ Disconnect(r)
    BY <1>5, <1>11 DEF RejectBusy, Disconnect
  <1>12. CASE Pull(r)
    BY <1>2, <1>5, <1>12 DEF Pull, Goto, Unfit, Room
  <1>13. CASE Arrive(r) \/ TryAdmit(r) \/ AcquireLoadLock(r) \/ ReleaseReservation(r)
    BY <1>2, <1>13 DEF Arrive, TryAdmit, AcquireLoadLock, ReleaseReservation, Goto,
                       Unfit, Room
  <1>14. CASE ReserveSlot(r) \/ Stopped(r) \/ EvictForSlot(r) \/ EvictOthers(r)
    BY <1>4, <1>14 DEF ReserveSlot, Stopped, EvictForSlot, EvictOthers, StopForSlot,
                       Goto, Room
  <1>15. CASE Spawn(r)
    BY <1>4, <1>5, <1>15 DEF Spawn, Goto, Room
  <1>16. CASE WaitForReady(r)
    <2>1. CASE ~Abandon(r)
      <3>1. pc'[r] \in {"insert", "oom"} /\ pc[r] = "wait" /\ want' = want
        BY <1>16, <2>1 DEF WaitForReady, Goto
      <3>. QED BY <1>4, <3>1 DEF Room
    <2>. QED BY <1>5, <2>1
  <1>17. CASE ReduceAndRetry(r)
    BY <1>4, <1>5, <1>17 DEF ReduceAndRetry, Goto, Room
  <1>. QED BY <1>6, <1>7, <1>8, <1>9, <1>10, <1>11, <1>12, <1>13, <1>14, <1>15, <1>16,
              <1>17 DEF Step, Load, ClaimStep

-----------------------------------------------------------------------------
(* The invariant, step by step. *)

CalmFull == TypeInv /\ LocksOwned /\ ClaimsInv /\ CalmInv

\* A step that lets idle entries go, of a task or (r is None) of the reaper.
LEMMA EvictingCalm ==
  ASSUME CalmFull, NEW r, NEW K, Evicting(r, K),
         \A s \in Requests : pc'[s] = "serving" => pc[s] = "serving",
         Apart(r), MarkStep(r), HoldStep(r), FreshStep(r),
         r \in Requests /\ pc'[r] = "insert" => \A b \in holds'[r] : proc'[b] = "ready"
  PROVE  CalmInv'
  <1> USE DEF CalmFull, CalmInv, ClaimsInv
  <1>1. ClaimsExact' /\ ServedBy'
    BY EvictingClaims
  <1>2. K \in SUBSET Refs /\ Leaving(K)
    BY DEF Evicting, Unregister, Leaving, Idle, Loaded
  <1>3. AllReady'
    BY <1>2, ReadyStays DEF Evicting
  <1>4. \A k \in Refs : running'[k] \in {None, running[k]}
    BY <1>2 DEF Leaving
  <1>5. MarksOwn'
    BY <1>4, MarksStay
  <1>6. \A s \in Requests : want[s].ref \in Refs
    BY RefsAssumption DEF TypeInv, TypeOK
  <1>7. Fresh'
    BY <1>6, EvictingLasts, FreshStays
  <1>. QED BY <1>1, <1>3, <1>5, <1>7

\* Only a request without a claim takes one.
LEMMA ClaimSource ==
  ASSUME TypeInv, NEW r \in Requests, Step(r), NEW k, Claim(r, k)
  PROVE  pc[r] \notin Claiming
  <1> SUFFICES ASSUME pc[r] \in Claiming PROVE FALSE
    OBVIOUS
  <1>1. pc'[r] = "serving"
    BY DEF Claim, Goto, TypeInv, TypeOK
  <1>2. Finish(r) \/ ReleaseClaim(r)
    BY DEF Step, Arrive, Load, AcquireLoadLock, ReleaseReservation, Disconnect,
           FastPath, TryAdmit, Recheck, Pull, Rejoin, CheckRunningByDigest, Plan,
           RetireForContext, ReserveSlot, EvictForSlot, RejectBusy, Stopped, Spawn,
           WaitForReady, EvictOthers, ReduceAndRetry, Insert
  <1>. QED BY <1>1, <1>2 DEF Finish, ReleaseClaim, Goto, TypeInv, TypeOK

\* A step that gives a claim or takes one back, but for Insert.
LEMMA ClaimCalm ==
  ASSUME CalmFull, NEW r \in Requests, Step(r),
         Finish(r) \/ ReleaseClaim(r) \/ \E k \in Loaded : Claim(r, k)
  PROVE  CalmInv'
  <1> USE DEF CalmFull, CalmInv, ClaimsInv
  <1>1. /\ UNCHANGED <<running, window, proc, holds>>
        /\ pc'[r] \in {"serving", "dropping", "idle"}
    BY DEF Finish, ReleaseClaim, Claim, mgrVars, loadVars, Goto, TypeInv, TypeOK
  <1>2. ASSUME NEW k \in Loaded, Claim(r, k) PROVE pc[r] \notin Claiming
    BY <1>2, ClaimSource
  <1>3. ClaimsExact' /\ ServedBy'
    BY <1>2, ClaimExact, FinishExact, ReleaseExact
  <1>4. Apart(r) /\ MarkStep(r) /\ HoldStep(r)
    BY StepApart, StepMarks DEF Step
  <1>5. AllReady'
    <2>1. Leaving({}) /\ Touching(r, {})
      BY <1>1 DEF Leaving, Touching
    <2>. QED BY <1>1, <1>4, <2>1, ReadyStays
  <1>6. MarksOwn'
    BY <1>1, <1>4, MarksStay
  <1>7. FreshStep(r) /\ \A k : Lasts(k)
    BY <1>1 DEF FreshStep, Lasts, Unfit, Room
  <1>8. Fresh'
    BY <1>4, <1>7, FreshStays
  <1>. QED BY <1>3, <1>5, <1>6, <1>8

LEMMA InsertCalm ==
  ASSUME CalmFull, NEW r \in Requests, Insert(r)
  PROVE  CalmInv' /\ \A s \in Requests : s # r => using'[s] = using[s]
  <1> DEFINE k == want[r].ref
             old == {running[k]} \ {None}
             size == IF want[r].ctx # 0 THEN want[r].ctx
                                        ELSE DefaultWindow - tried[r].shrinks
  <1> USE DEF CalmFull, CalmInv, ClaimsInv
  <1>0. Step(r) /\ Apart(r) /\ MarkStep(r) /\ HoldStep(r)
    BY StepApart, StepMarks DEF Step, Load
  <1>1. k \in Refs /\ pc[r] = "insert" /\ running[k] = None
    BY RefsAssumption DEF Insert, Fresh, Room, TypeInv, TypeOK
  <1>2. old = {}
    BY <1>1
  <1>3. PICK b \in holds[r] :
          /\ running' = [running EXCEPT ![k] = b]
          /\ window' = [window EXCEPT ![b] = size]
          /\ using' = [s \in Requests |-> IF s = r THEN b
                                          ELSE IF using[s] \in old THEN None ELSE using[s]]
    <2> HIDE DEF CalmFull, CalmInv, ClaimsInv
    <2>. QED BY DEF Insert
  <1>4. /\ pc'[r] = "serving" /\ Kill(old)
        /\ holds' = [holds EXCEPT ![r] = {}]
    BY DEF Insert, Goto, TypeInv, TypeOK
  <1>5. \A p \in Backends : proc'[p] = proc[p]
    BY <1>2, <1>4 DEF Kill
  <1>6. \A s \in Requests : s # r => using'[s] = using[s]
    BY <1>2, <1>3
  <1> HIDE DEF k, old, size
  <1>7. ClaimsExact' /\ ServedBy'
    BY <1>1, InsertExact DEF k
  <1>8. /\ b \in Backends /\ b # None /\ \A j \in Loaded : running[j] # b
        /\ \A j \in Refs : running'[j] = IF j = k THEN b ELSE running[j]
    BY <1>1, <1>3, ActorsAssumption DEF TypeInv, TypeOK, Owned, OwnedOnce
  <1>9. AllReady'
    <2>1. \A j \in Loaded' : proc'[running'[j]] = "ready"
      BY <1>1, <1>3, <1>5, <1>8 DEF AllReady, Loaded, TypeInv, TypeOK
    <2>2. ASSUME NEW s \in Requests, pc'[s] = "insert", NEW p \in holds'[s]
          PROVE  proc'[p] = "ready"
      <3>1. s # r /\ pc[s] = "insert" /\ p \in holds[s]
        BY <1>0, <1>4, <2>2 DEF Apart
      <3>2. p \in Backends
        BY <3>1 DEF TypeInv, TypeOK
      <3>. QED BY <1>5, <3>1, <3>2 DEF AllReady
    <2>. QED BY <2>1, <2>2 DEF AllReady
  <1>10. MarksOwn'
    <2>1. \A j \in Refs : \/ running'[j] \in {None, running[j]}
                          \/ /\ r \in Requests /\ pc[r] = "insert" /\ pc'[r] # "retire"
                             /\ running'[j] \in holds[r]
      BY <1>1, <1>4, <1>8
    <2>. QED BY <1>0, <2>1, MarksStay
  <1>11. ASSUME NEW s \in Requests, s # r, pc[s] \in Unfit \cup Room
         PROVE  Lasts(want[s].ref)
    <2>1. want[s].ref # k /\ want[s].ref \in Refs
      BY <1>1, <1>11, RefsAssumption DEF LocksOwned, Unfit, Room, k, TypeInv, TypeOK
    <2>2. CASE running[want[s].ref] = None
      BY <1>8, <2>1, <2>2 DEF Lasts
    <2>3. CASE running[want[s].ref] # None
      BY <1>3, <1>8, <2>1, <2>3 DEF Lasts, Loaded, TypeInv, TypeOK
    <2>. QED BY <2>2, <2>3
  <1>12. FreshStep(r)
    BY <1>4 DEF FreshStep, Unfit, Room
  <1>13. Fresh'
    BY <1>0, <1>11, <1>12, FreshStays
  <1>. QED BY <1>6, <1>7, <1>9, <1>10, <1>13

\* A step of a task keeps the invariant, and no request but its own loses
\* its backend.
LEMMA StepCalm ==
  ASSUME CalmFull, NEW r \in Requests, Step(r)
  PROVE  /\ CalmInv'
         /\ \A s \in Requests : pc[s] = "serving" /\ using'[s] # using[s]
                                  => pc'[s] = "dropping"
  <1> USE DEF CalmFull, CalmInv, ClaimsInv
  <1>1. CASE Insert(r)
    <2>1. pc[r] # "serving"
      BY <1>1 DEF Insert
    <2> HIDE DEF CalmFull, CalmInv, ClaimsInv
    <2>2. CalmInv' /\ \A s \in Requests : s # r => using'[s] = using[s]
      BY <1>1, InsertCalm, Zenon
    <2>. QED BY <2>1, <2>2, Zenon
  <1>2. CASE Finish(r)
    BY <1>2, ClaimCalm DEF Finish, Goto, TypeInv, TypeOK
  <1>3. CASE ReleaseClaim(r)
    BY <1>3, ClaimCalm DEF ReleaseClaim
  <1>4. CASE \E k \in Loaded : Claim(r, k)
    <2>1. PICK k \in Loaded : Claim(r, k)
      BY <1>4
    <2>2. pc[r] # "serving"
      BY <2>1, ClaimSource DEF Claiming
    <2>3. \A s \in Requests : s # r => using'[s] = using[s]
      BY <2>1 DEF Claim, TypeInv, TypeOK
    <2> HIDE DEF CalmFull, CalmInv, ClaimsInv
    <2>4. CalmInv'
      BY <1>4, ClaimCalm, Zenon
    <2>. QED BY <2>2, <2>3, <2>4, Zenon
  <1>5. CASE ~ClaimStep(r)
    <2>1. PICK K : Evicting(r, K)
      BY <1>5, StepEvicts
    <2>2. /\ \A s \in Requests : pc'[s] = "serving" => pc[s] = "serving"
          /\ Apart(r) /\ MarkStep(r) /\ HoldStep(r) /\ FreshStep(r)
          /\ pc'[r] = "insert" => \A b \in holds'[r] : proc'[b] = "ready"
      BY <1>5, ServingBegins, StepApart, StepMarks, StepFresh, InsertReached DEF Step
    <2>3. CalmInv'
      BY <2>1, <2>2, EvictingCalm
    <2>. QED BY <2>1, <2>3, ServingStays
  <1>. QED BY <1>1, <1>2, <1>3, <1>4, <1>5 DEF ClaimStep

\* The reaper lets idle entries go.
LEMMA ReaperCalm ==
  ASSUME CalmFull, ReapIdleModels
  PROVE  CalmInv' /\ \A s \in Requests : pc[s] = "serving" => using'[s] = using[s]
  <1> USE DEF CalmFull, CalmInv, ClaimsInv
  <1>1. PICK K \in SUBSET Idle : Drop(K)
    BY DEF ReapIdleModels
  <1>2. UNCHANGED <<pc, want, guardKey, holds, mark>>
    BY DEF ReapIdleModels, loadVars
  <1>3. Evicting(None, K)
    BY <1>1, <1>2 DEF Evicting, Drop, Kill, Touching
  <1>4. None \notin Requests
    BY ActorsAssumption
  <1>5. Apart(None) /\ MarkStep(None) /\ HoldStep(None) /\ FreshStep(None)
    BY <1>2, <1>4 DEF Apart, MarkStep, HoldStep, FreshStep
  <1>6. CalmInv'
    BY <1>2, <1>3, <1>4, <1>5, EvictingCalm
  <1>. QED BY <1>3, <1>6, ServingStays

LEMMA CalmNext ==
  ASSUME CalmInstance, CalmFull, Next
  PROVE  /\ CalmInv'
         /\ \A s \in Requests : pc[s] = "serving" /\ using'[s] # using[s]
                                  => pc'[s] = "dropping"
  <1>1. ASSUME NEW b \in Backends, Crash(b) PROVE FALSE
    BY <1>1 DEF CalmInstance, Crash
  <1>2. \A u \in Unloads : FALSE
    BY DEF CalmInstance
  <1>. QED BY <1>1, <1>2, StepCalm, ReaperCalm DEF Next, Step

LEMMA CalmAlways == ASSUME CalmInstance PROVE Spec => []CalmInv
  <1>1. Init => CalmInv
    <2> SUFFICES ASSUME Init PROVE CalmInv
      OBVIOUS
    <2>1. Loaded = {} /\ \A k \in Refs : Guards(k) = {}
      BY ActorsAssumption DEF Init, Loaded, Guards
    <2>2. \A r \in Requests : pc[r] = "idle" /\ mark[r] = None
      BY DEF Init
    <2>. QED BY <2>1, <2>2 DEF CalmInv, AllReady, ClaimsExact, ServedBy, MarksOwn, Fresh,
                             Unfit, Room
  <1>2. TypeInv /\ LocksOwned /\ ClaimsInv /\ CalmInv /\ [Next]_vars => CalmInv'
    <2> SUFFICES ASSUME CalmFull, [Next]_vars PROVE CalmInv'
      BY DEF CalmFull
    <2>1. CASE UNCHANGED vars
      BY <2>1 DEF vars, mgrVars, guards, loadVars, CalmFull, CalmInv, AllReady, ClaimsExact,
                  ServedBy, MarksOwn, Fresh, Loaded, Guards, NeedsContext
    <2>. QED BY <2>1, CalmNext
  <1>. QED BY <1>1, <1>2, TypeCorrect, LocksAlwaysOwned, ClaimsAlways, PTL DEF Spec

\* Where no backend exits on its own and nobody calls the unload endpoint, a
\* request that is being served keeps its backend until it is done, whatever
\* is evicted, retired and reaped around it and whichever clients disconnect
\* (ActivityGuard, enforce_max_loaded_models, retire_for_context).
THEOREM ServedWhereCalm == ASSUME CalmInstance PROVE Spec => ServedUntilDone
  <1> DEFINE Kept == \A r \in Requests :
        (/\ pc[r] = "serving" /\ using[r] # None /\ proc[using[r]] = "ready"
         /\ using'[r] # using[r])
        => pc'[r] = "dropping" \/ \E u \in Unloads : Unloading(u)
  <1>1. TypeInv /\ LocksOwned /\ ClaimsInv /\ CalmInv /\ [Next]_vars => [Kept]_vars
    BY CalmNext DEF CalmFull
  <1>. QED BY <1>1, CalmAlways, TypeCorrect, LocksAlwaysOwned, ClaimsAlways, PTL
           DEF Spec, ServedUntilDone
=============================================================================
